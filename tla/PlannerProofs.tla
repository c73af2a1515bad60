---------------------------- MODULE PlannerProofs ----------------------------
(* Theorems of Planner for every dependency relation and every order in which  *)
(* the search meets nodes and edges.                                           *)
EXTENDS Planner, SequenceTheorems, TLAPS

Black == {n \in Id : colour[n] = 2}

(* The invariant of the search.  Grey nodes are the stack, the stack is a      *)
(* path, and as long as nothing was found the black nodes are closed under     *)
(* Succ and hold no cycle.                                                     *)
StackIsGrey ==
  /\ \A i, j \in 1 .. Len(stack) : stack[i] = stack[j] => i = j
  /\ \A n \in Id : colour[n] = 1 <=> \E i \in 1 .. Len(stack) : stack[i] = n

StackIsPath == \A i \in 1 .. Len(stack) - 1 : stack[i + 1] \in Succ(stack[i])

TodoIsSucc == \A n \in Id : todo[n] \subseteq Succ(n)

BlackIsClosed == \A n \in Black : Succ(n) \subseteq Black

FramesExplored ==
  \A i \in 1 .. Len(stack) : \A m \in Succ(stack[i]) \ todo[stack[i]] :
    m \in Black \/ (i < Len(stack) /\ m = stack[i + 1])

NoTrapInBlack == \A S \in SUBSET Black : ~Trap(S)

SearchInv ==
  /\ StackIsGrey /\ StackIsPath /\ TodoIsSucc /\ FoundAreCycles
  /\ cycles = {} => BlackIsClosed /\ FramesExplored /\ NoTrapInBlack

(* The invariant of the batches.                                               *)
BatchInv ==
  /\ phase \in {"repair", "check"} => done = {}
  /\ phase \in {"batch", "batched"} => Acyclic
  /\ phase = "batched" => remaining = {}
  /\ phase # "raised"
  /\ done = Node \ remaining
  /\ \A n \in done : depth[n] <= batch
  /\ BatchesRespectDeps

IInv == TypeOK /\ SearchInv /\ BatchInv

-----------------------------------------------------------------------------
LEMMA SuccType == TypeOK => \A n \in Id : Succ(n) \subseteq Id
  BY DEF TypeOK, Succ, Id

(* The top of a stack that is not empty.                                       *)
LEMMA TopFacts ==
  ASSUME TypeOK, stack # << >>
  PROVE  Len(stack) \in Nat \ {0} /\ Len(stack) \in 1 .. Len(stack) /\ Top \in Id
<1>1. Len(stack) \in Nat \ {0}
  BY EmptySeq DEF TypeOK
<1> QED
  BY <1>1, ElementOfSeq DEF TypeOK, Top

(* Taking the last element off a sequence.                                     *)
LEMMA PopFacts ==
  ASSUME NEW S, NEW s \in Seq(S), s # << >>, NEW k \in Nat, Len(s) = k + 1
  PROVE  /\ SubSeq(s, 1, k) \in Seq(S) /\ Len(SubSeq(s, 1, k)) = k
         /\ \A i \in 1 .. k : SubSeq(s, 1, k)[i] = s[i]
  BY ElementOfSeq

(* When the search is over every task is black; what was reported is a cycle.  *)
LEMMA SearchInvIsExact == TypeOK /\ SearchInv => SearchIsExact
<1> SUFFICES ASSUME TypeOK, SearchInv, SearchOver PROVE cycles = {} <=> Acyclic
  BY DEF SearchIsExact
<1>1. ASSUME cycles = {} PROVE Acyclic
  <2>1. \A n \in Node : colour[n] = 2
    <3> TAKE n \in Node
    <3>1. colour[n] \in {0, 1, 2} /\ colour[n] # 0
      BY DEF SearchOver, TypeOK, Id
    <3>2. ~ \E i \in 1 .. Len(stack) : stack[i] = n
      BY EmptySeq DEF SearchOver
    <3> QED
      BY <3>1, <3>2 DEF SearchInv, StackIsGrey, Id
  <2>2. Node \subseteq Black
    BY <2>1 DEF Black, Id
  <2> QED
    BY <1>1, <2>2 DEF SearchInv, NoTrapInBlack, Acyclic
<1>2. ASSUME cycles # {} PROVE ~Acyclic
  <2>1. PICK cycle \in cycles : Trap(cycle)
    BY <1>2 DEF SearchInv, FoundAreCycles, Ring
  <2>2. cycle \subseteq Node
    BY <2>1 DEF Trap, Succ
  <2> QED
    BY <2>1, <2>2 DEF Acyclic
<1> QED
  BY <1>1, <1>2

LEMMA InitInvariant == Init => IInv
<1> SUFFICES ASSUME Init PROVE IInv
  OBVIOUS
<1>1. << >> \in Seq(Id) /\ Len(<< >>) = 0
  BY EmptySeq
<1>2. TypeOK
  BY <1>1 DEF Init, TypeOK, Phase
<1>3. SearchInv
  <2>1. Black = {}
    BY DEF Init, Black
  <2>2. stack = << >> /\ cycles = {} /\ (\A n \in Id : colour[n] = 0 /\ todo[n] = {})
    BY DEF Init
  <2> QED
    BY <1>1, <2>1, <2>2 DEF SearchInv, StackIsGrey, StackIsPath, TodoIsSucc, FoundAreCycles, Ring,
       BlackIsClosed, FramesExplored, NoTrapInBlack, Trap
<1>4. BatchInv
  BY DEF Init, BatchInv, BatchesRespectDeps
<1> QED
  BY <1>2, <1>3, <1>4 DEF IInv

(* A step of the search leaves the batches alone.                              *)
LEMMA BatchInvFrame ==
  ASSUME BatchInv, UNCHANGED <<planVars, phase, batchVars>>
  PROVE  BatchInv'
  BY DEF BatchInv, planVars, batchVars, Acyclic, Trap, Succ, BatchesRespectDeps

-----------------------------------------------------------------------------
(* Pushing a white node.                                                       *)
LEMMA PushStep ==
  ASSUME TypeOK, SearchInv, NEW m \in Id, colour[m] = 0,
         UNCHANGED <<deps, cycles>>,
         colour' = [colour EXCEPT ![m] = 1],
         stack' \in Seq(Id), Len(stack') = Len(stack) + 1,
         \A i \in 1 .. Len(stack) : stack'[i] = stack[i],
         stack'[Len(stack) + 1] = m,
         stack # << >> => m \in Succ(Top),
         todo'[m] = Succ(m),
         \A n \in Id \ {m} : IF stack # << >> /\ n = Top THEN todo'[n] = todo[n] \ {m}
                             ELSE todo'[n] = todo[n]
  PROVE  SearchInv'
<1>1. Len(stack) \in Nat /\ (stack = << >> \/ Len(stack) # 0)
  BY EmptySeq, LenProperties DEF TypeOK
<1>2. \A i \in 1 .. Len(stack) : stack[i] \in Id /\ stack[i] # m /\ colour[stack[i]] = 1
  <2> TAKE i \in 1 .. Len(stack)
  <2>1. stack[i] \in Id
    BY ElementOfSeq DEF TypeOK
  <2>2. colour[stack[i]] = 1
    BY <2>1 DEF SearchInv, StackIsGrey
  <2> QED
    BY <2>1, <2>2
<1>3. \A n : Succ(n)' = Succ(n)
  BY DEF Succ
<1>4. Black' = Black
  BY DEF Black, TypeOK
<1>5. StackIsGrey'
  <2>1. \A i, j \in 1 .. Len(stack) + 1 : stack'[i] = stack'[j] => i = j
    BY <1>1, <1>2 DEF SearchInv, StackIsGrey
  <2>2. ASSUME NEW n \in Id
        PROVE  colour'[n] = 1 <=> \E i \in 1 .. Len(stack) + 1 : stack'[i] = n
    <3>1. CASE n = m
      BY <1>1, <3>1 DEF TypeOK
    <3>2. CASE n # m
      <4>1. colour'[n] = colour[n]
        BY <3>2 DEF TypeOK
      <4>2. (\E i \in 1 .. Len(stack) + 1 : stack'[i] = n)
              <=> \E i \in 1 .. Len(stack) : stack[i] = n
        BY <1>1, <3>2
      <4> QED
        BY <4>1, <4>2 DEF SearchInv, StackIsGrey
    <3> QED
      BY <3>1, <3>2
  <2> QED
    BY <2>1, <2>2 DEF StackIsGrey
<1>6. StackIsPath'
  BY <1>1, <1>3 DEF SearchInv, StackIsPath, Top
<1>7. TodoIsSucc'
  BY <1>3 DEF SearchInv, TodoIsSucc
<1>8. FoundAreCycles'
  BY <1>3 DEF SearchInv, FoundAreCycles, Ring, Trap
<1>9. ASSUME cycles = {} PROVE (BlackIsClosed /\ FramesExplored /\ NoTrapInBlack)'
  <2>1. BlackIsClosed' /\ NoTrapInBlack'
    BY <1>3, <1>4, <1>9 DEF SearchInv, BlackIsClosed, NoTrapInBlack, Trap
  <2>2. ASSUME NEW i \in 1 .. Len(stack) + 1, NEW k \in Succ(stack'[i]) \ todo'[stack'[i]]
        PROVE  k \in Black \/ (i < Len(stack) + 1 /\ k = stack'[i + 1])
    <3>1. CASE i = Len(stack) + 1
      BY <2>2, <3>1
    <3>2. CASE i \in 1 .. Len(stack) /\ k \notin todo[stack[i]]
      <4>1. k \in Black \/ (i < Len(stack) /\ k = stack[i + 1])
        BY <1>9, <2>2, <3>2 DEF SearchInv, FramesExplored
      <4> QED
        BY <1>1, <3>2, <4>1
    <3>3. CASE i \in 1 .. Len(stack) /\ k \in todo[stack[i]]
      <4>1. stack[i] = Top /\ k = m
        BY <1>1, <1>2, <2>2, <3>3
      <4>2. i = Len(stack)
        BY <1>1, <3>3, <4>1 DEF SearchInv, StackIsGrey, Top
      <4> QED
        BY <1>1, <4>1, <4>2
    <3> QED
      BY <1>1, <3>1, <3>2, <3>3
  <2> QED
    BY <1>3, <1>4, <2>1, <2>2 DEF FramesExplored
<1> QED
  BY <1>5, <1>6, <1>7, <1>8, <1>9 DEF SearchInv

LEMMA EnterRootStep ==
  ASSUME IInv, NEW n \in Node, EnterRoot(n)
  PROVE  IInv'
<1>1. n \in Id /\ << >> \in Seq(Id) /\ Len(<< >>) = 0 /\ Succ(n) \in SUBSET Id
  BY EmptySeq, SuccType DEF IInv, Id
<1>2. << n >> \in Seq(Id) /\ Len(<< n >>) = 1 /\ << n >>[1] = n
  BY <1>1
<1>3. TypeOK'
  BY <1>1, <1>2 DEF IInv, TypeOK, EnterRoot, planVars, batchVars
<1>4. /\ todo'[n] = Succ(n) /\ stack' = << n >> /\ stack = << >>
      /\ \A k \in Id \ {n} : todo'[k] = todo[k]
  BY <1>1 DEF EnterRoot, IInv, TypeOK
<1>5. /\ Len(stack) = 0 /\ stack' \in Seq(Id) /\ Len(stack') = Len(stack) + 1
      /\ stack'[Len(stack) + 1] = n /\ \A i \in 1 .. Len(stack) : stack'[i] = stack[i]
  BY <1>1, <1>2, <1>4
<1>6. colour[n] = 0 /\ colour' = [colour EXCEPT ![n] = 1] /\ UNCHANGED <<deps, cycles>>
  BY DEF EnterRoot, planVars
<1>7. SearchInv'
  BY <1>1, <1>4, <1>5, <1>6, PushStep DEF IInv
<1> QED
  BY <1>3, <1>7, BatchInvFrame DEF IInv, EnterRoot

LEMMA TreeEdgeStep ==
  ASSUME IInv, NEW m \in Id, TreeEdge(m)
  PROVE  IInv'
<1>1. /\ Succ(m) \in SUBSET Id /\ Top \in Id /\ m \in todo[Top] /\ stack # << >>
      /\ todo[Top] \subseteq Succ(Top) /\ Len(stack) \in Nat \ {0}
      /\ stack \in Seq(Id) /\ colour[m] = 0
  BY SuccType, TopFacts DEF IInv, SearchInv, TodoIsSucc, TreeEdge, LookAt, TypeOK
<1>2. colour[Top] = 1
  BY <1>1 DEF IInv, SearchInv, StackIsGrey, Top
<1>3. /\ stack' \in Seq(Id) /\ Len(stack') = Len(stack) + 1
      /\ \A i \in 1 .. Len(stack) : stack'[i] = stack[i]
      /\ stack'[Len(stack) + 1] = m
  BY <1>1, AppendProperties DEF TreeEdge
<1>4. /\ todo'[m] = Succ(m) /\ todo'[Top] = todo[Top] \ {m} /\ todo' \in [Id -> SUBSET Id]
      /\ \A k \in Id \ {m, Top} : todo'[k] = todo[k]
  BY <1>1, <1>2 DEF TreeEdge, IInv, TypeOK
<1>5. TypeOK'
  BY <1>3, <1>4 DEF IInv, TypeOK, TreeEdge, planVars, batchVars
<1>6. SearchInv'
  BY <1>1, <1>2, <1>3, <1>4, PushStep DEF IInv, TreeEdge, planVars
<1> QED
  BY <1>5, <1>6, BatchInvFrame DEF IInv, TreeEdge

LEMMA BackEdgeStep ==
  ASSUME IInv, NEW m \in Id, BackEdge(m)
  PROVE  IInv'
<1>1. /\ Top \in Id /\ m \in todo[Top] /\ todo[Top] \subseteq Succ(Top)
      /\ Len(stack) \in Nat \ {0} /\ colour[m] = 1
  BY TopFacts DEF IInv, SearchInv, TodoIsSucc, BackEdge, LookAt, Visiting, TypeOK
<1>2. PICK k \in 1 .. Len(stack) : stack[k] = m
  BY <1>1 DEF IInv, SearchInv, StackIsGrey
<1>3. \A i \in 1 .. Len(stack) : stack[i] \in Id
  BY ElementOfSeq DEF IInv, TypeOK
<1>4. \A i \in k .. Len(stack) : stack[i] \in StackFrom(m)
  BY <1>1, <1>2 DEF StackFrom
<1>5. \A n \in StackFrom(m) : \E i \in k .. Len(stack) : stack[i] = n
  BY <1>1, <1>2 DEF StackFrom, IInv, SearchInv, StackIsGrey
<1>6. Ring(StackFrom(m))
  <2>1. StackFrom(m) # {}
    BY <1>1, <1>2, <1>4
  <2>2. ASSUME NEW i \in k .. Len(stack)
        PROVE  Succ(stack[i]) \cap StackFrom(m) # {}
    <3>1. CASE i < Len(stack)
      <4>1. i \in 1 .. Len(stack) - 1 /\ i + 1 \in k .. Len(stack)
        BY <1>1, <1>2, <3>1
      <4>2. stack[i + 1] \in Succ(stack[i])
        BY <4>1 DEF IInv, SearchInv, StackIsPath
      <4> QED
        BY <1>4, <4>1, <4>2
    <3>2. CASE i = Len(stack)
      <4>1. m \in Succ(stack[i])
        BY <1>1, <3>2 DEF Top
      <4>2. m \in StackFrom(m)
        BY <1>1, <1>2, <1>4
      <4> QED
        BY <4>1, <4>2
    <3> QED
      BY <1>1, <1>2, <3>1, <3>2
  <2>3. ASSUME NEW i \in k .. Len(stack)
        PROVE  \E j \in k .. Len(stack) : stack[i] \in Succ(stack[j])
    <3>1. CASE i = k
      <4>1. stack[i] \in Succ(stack[Len(stack)]) /\ Len(stack) \in k .. Len(stack)
        BY <1>1, <1>2, <3>1 DEF Top
      <4> QED
        BY <4>1
    <3>2. CASE i > k
      <4>1. i - 1 \in 1 .. Len(stack) - 1 /\ i - 1 \in k .. Len(stack) /\ (i - 1) + 1 = i
        BY <1>1, <1>2, <3>2
      <4>2. stack[(i - 1) + 1] \in Succ(stack[i - 1])
        BY <4>1 DEF IInv, SearchInv, StackIsPath
      <4> QED
        BY <4>1, <4>2
    <3> QED
      BY <1>2, <3>1, <3>2
  <2>4. Trap(StackFrom(m))
    BY <1>5, <2>1, <2>2 DEF Trap
  <2>5. ASSUME NEW n \in StackFrom(m) PROVE \E p \in StackFrom(m) : n \in Succ(p)
    <3>1. PICK i \in k .. Len(stack) : stack[i] = n
      BY <1>5
    <3>2. PICK j \in k .. Len(stack) : n \in Succ(stack[j])
      BY <2>3, <3>1
    <3> QED
      BY <1>4, <3>2
  <2> QED
    BY <2>4, <2>5 DEF Ring
<1>7. StackFrom(m) \subseteq Id
  BY <1>3 DEF StackFrom
<1>8. todo' \in [Id -> SUBSET Id] /\ \A n \in Id : todo'[n] \subseteq todo[n]
  BY <1>1 DEF BackEdge, IInv, TypeOK
<1>9. TypeOK'
  BY <1>7, <1>8 DEF IInv, TypeOK, BackEdge, planVars, batchVars
<1>10. UNCHANGED <<deps, colour, stack>> /\ cycles' = cycles \cup {StackFrom(m)}
  BY DEF BackEdge, planVars
<1>11. \A n : Succ(n)' = Succ(n)
  BY <1>10 DEF Succ
<1>12. FoundAreCycles'
  BY <1>6, <1>10, <1>11 DEF IInv, SearchInv, FoundAreCycles, Ring, Trap
<1>13. SearchInv'
  BY <1>8, <1>10, <1>11, <1>12 DEF IInv, SearchInv, StackIsGrey, StackIsPath, TodoIsSucc
<1> QED
  BY <1>9, <1>13, BatchInvFrame DEF IInv, BackEdge

LEMMA OtherEdgeStep ==
  ASSUME IInv, NEW m \in Id, OtherEdge(m)
  PROVE  IInv'
<1>1. /\ Top \in Id /\ Len(stack) \in Nat \ {0} /\ m \in Black
      /\ UNCHANGED <<deps, colour, stack, cycles>>
      /\ todo' = [todo EXCEPT ![Top] = @ \ {m}] /\ todo \in [Id -> SUBSET Id]
  BY TopFacts DEF IInv, OtherEdge, LookAt, Visiting, TypeOK, Black, planVars
<1>2. /\ todo' \in [Id -> SUBSET Id]
      /\ \A n \in Id : todo'[n] = todo[n] \/ todo'[n] = todo[n] \ {m}
  BY <1>1
<1>3. TypeOK'
  BY <1>2 DEF IInv, TypeOK, OtherEdge, planVars, batchVars
<1>4. (\A n : Succ(n)' = Succ(n)) /\ Black' = Black
  BY <1>1 DEF Succ, Black
<1>5. \A i \in 1 .. Len(stack) : stack[i] \in Id
  BY ElementOfSeq DEF IInv, TypeOK
<1>6. cycles = {} => FramesExplored'
  BY <1>1, <1>2, <1>4, <1>5 DEF IInv, SearchInv, FramesExplored
<1>7. cycles = {} => BlackIsClosed' /\ NoTrapInBlack'
  BY <1>1, <1>4 DEF IInv, SearchInv, BlackIsClosed, NoTrapInBlack, Trap
<1>8. StackIsGrey' /\ StackIsPath' /\ TodoIsSucc' /\ FoundAreCycles'
  BY <1>1, <1>2, <1>4 DEF IInv, SearchInv, StackIsGrey, StackIsPath, TodoIsSucc,
                          FoundAreCycles, Ring, Trap
<1>9. SearchInv'
  BY <1>1, <1>6, <1>7, <1>8 DEF SearchInv
<1> QED
  BY <1>3, <1>9, BatchInvFrame DEF IInv, OtherEdge

(* The top node turns black.  No black node leads to it and it does not lead   *)
(* to itself, so a cycle among the black nodes would have been there before.   *)
LEMMA LeaveStep ==
  ASSUME IInv, Leave
  PROVE  IInv'
<1> DEFINE n == Len(stack)
<1>1. /\ Top \in Id /\ n \in Nat \ {0} /\ Top = stack[n] /\ todo[Top] = {}
      /\ stack \in Seq(Id) /\ UNCHANGED <<deps, todo, cycles>>
  BY TopFacts DEF IInv, Leave, TypeOK, Top, planVars
<1>2. \A i \in 1 .. n : stack[i] \in Id
  BY <1>1, ElementOfSeq
<1>3. /\ stack' \in Seq(Id) /\ Len(stack') = n - 1
      /\ \A i \in 1 .. n - 1 : stack'[i] = stack[i]
  <2>1. stack' = SubSeq(stack, 1, n - 1)
    BY DEF Leave
  <2>2. n - 1 \in Nat /\ Len(stack) = (n - 1) + 1
    BY <1>1
  <2> HIDE DEF n
  <2> QED
    BY <1>1, <2>1, <2>2, PopFacts
<1> HIDE DEF n
<1>4. colour[Top] = 1 /\ (\A i \in 1 .. n : stack[i] = Top => i = n)
  BY <1>1 DEF IInv, SearchInv, StackIsGrey, n
<1>5. colour' = [colour EXCEPT ![Top] = 2] /\ colour \in [Id -> {0, 1, 2}]
  BY DEF Leave, Left, IInv, TypeOK
<1>6. Black' = Black \cup {Top} /\ Top \notin Black /\ (\A k : Succ(k)' = Succ(k))
  BY <1>1, <1>4, <1>5 DEF Black, Succ
<1>7. TypeOK'
  BY <1>1, <1>3, <1>5 DEF IInv, TypeOK, Leave, planVars, batchVars
<1>8. StackIsGrey'
  <2>1. \A i, j \in 1 .. n - 1 : stack'[i] = stack'[j] => i = j
    BY <1>1, <1>3 DEF IInv, SearchInv, StackIsGrey, n
  <2>2. ASSUME NEW k \in Id
        PROVE  colour'[k] = 1 <=> \E i \in 1 .. n - 1 : stack'[i] = k
    <3>1. CASE k = Top
      BY <1>1, <1>3, <1>4, <1>5, <3>1
    <3>2. CASE k # Top
      <4>1. colour'[k] = colour[k]
        BY <1>5, <3>2
      <4>2. (\E i \in 1 .. n - 1 : stack'[i] = k) <=> \E i \in 1 .. n : stack[i] = k
        BY <1>1, <1>3, <3>2
      <4> QED
        BY <4>1, <4>2 DEF IInv, SearchInv, StackIsGrey, n
    <3> QED
      BY <3>1, <3>2
  <2> QED
    BY <1>3, <2>1, <2>2 DEF StackIsGrey
<1>9. StackIsPath'
  BY <1>1, <1>3, <1>6 DEF IInv, SearchInv, StackIsPath, n
<1>10. TodoIsSucc' /\ FoundAreCycles'
  BY <1>1, <1>6 DEF IInv, SearchInv, TodoIsSucc, FoundAreCycles, Ring, Trap
<1>11. ASSUME cycles = {} PROVE (BlackIsClosed /\ FramesExplored /\ NoTrapInBlack)'
  <2>1. Succ(Top) \subseteq Black
    BY <1>1, <1>11 DEF IInv, SearchInv, FramesExplored, n
  <2>2. BlackIsClosed'
    BY <1>6, <1>11, <2>1 DEF IInv, SearchInv, BlackIsClosed
  <2>3. FramesExplored'
    <3> SUFFICES ASSUME NEW i \in 1 .. n - 1, NEW m \in Succ(stack[i]) \ todo[stack[i]]
                 PROVE  m \in Black' \/ (i < n - 1 /\ m = stack'[i + 1])
      BY <1>1, <1>3, <1>6 DEF FramesExplored
    <3>1. m \in Black \/ m = stack[i + 1]
      BY <1>1, <1>11 DEF IInv, SearchInv, FramesExplored, n
    <3>2. CASE i = n - 1
      BY <1>1, <1>6, <3>1, <3>2
    <3>3. CASE i < n - 1
      <4>1. i + 1 \in 1 .. n - 1
        BY <1>1, <3>3
      <4> QED
        BY <1>3, <1>6, <3>1, <3>3, <4>1
    <3> QED
      BY <1>1, <3>2, <3>3
  <2>4. NoTrapInBlack'
    <3> SUFFICES ASSUME NEW S \in SUBSET (Black \cup {Top}), Trap(S) PROVE FALSE
      BY <1>6 DEF NoTrapInBlack, Trap
    <3> DEFINE R == S \ {Top}
    <3>1. \A k \in R : Succ(k) \subseteq Black /\ Succ(k) \cap S # {}
      BY <1>11 DEF IInv, SearchInv, BlackIsClosed, Trap
    <3>2. \A k \in R : Succ(k) \cap R # {}
      BY <1>6, <3>1
    <3>3. R \in SUBSET Black
      OBVIOUS
    <3>4. R = {}
      BY <1>11, <3>2, <3>3 DEF IInv, SearchInv, NoTrapInBlack, Trap
    <3>5. S = {Top}
      BY <3>4 DEF Trap
    <3> QED
      BY <1>6, <2>1, <3>5 DEF Trap
  <2> QED
    BY <2>2, <2>3, <2>4
<1>12. SearchInv'
  BY <1>1, <1>8, <1>9, <1>10, <1>11 DEF SearchInv
<1> QED
  BY <1>7, <1>12, BatchInvFrame DEF IInv, Leave

-----------------------------------------------------------------------------
LEMMA RepairStep ==
  ASSUME IInv, Repair
  PROVE  IInv'
<1>1. << >> \in Seq(Id) /\ Len(<< >>) = 0
  BY EmptySeq
<1>2. /\ colour' = [n \in Id |-> 0] /\ stack' = << >> /\ todo' = [n \in Id |-> {}]
      /\ cycles' = {} /\ phase' = "check" /\ phase = "repair" /\ UNCHANGED batchVars
      /\ deps' = [n \in Node |-> Known(Broken(n))] /\ early' = Unscoped
  BY DEF Repair, StartSearch
<1>3. deps' \in [Node -> SUBSET Node]
  BY <1>2 DEF Known
<1>4. TypeOK'
  BY <1>1, <1>2, <1>3, PlanAssumption DEF IInv, TypeOK, Phase, Id, batchVars
<1>5. Black' = {}
  BY <1>2 DEF Black
<1>6. SearchInv'
  BY <1>1, <1>2, <1>5 DEF SearchInv, StackIsGrey, StackIsPath, TodoIsSucc, FoundAreCycles, Ring,
     BlackIsClosed, FramesExplored, NoTrapInBlack, Trap
<1>7. BatchInv'
  BY <1>2 DEF IInv, BatchInv, BatchesRespectDeps, batchVars
<1> QED
  BY <1>4, <1>6, <1>7 DEF IInv

(* Steps that leave the graph and the search alone.                            *)
LEMMA SearchInvFrame ==
  ASSUME SearchInv, UNCHANGED <<planVars, searchVars>>
  PROVE  SearchInv'
<1>1. UNCHANGED <<deps, colour, stack, todo, cycles>>
  BY DEF planVars, searchVars
<1>2. (\A n : Succ(n)' = Succ(n)) /\ Black' = Black
  BY <1>1 DEF Succ, Black
<1> QED
  BY <1>1, <1>2 DEF SearchInv, StackIsGrey, StackIsPath, TodoIsSucc, FoundAreCycles, Ring,
     BlackIsClosed, FramesExplored, NoTrapInBlack, Trap

LEMMA CheckStep ==
  ASSUME IInv, Check
  PROVE  IInv'
<1>1. /\ phase = "check" /\ SearchOver /\ phase' \in {"batch", "refused"}
      /\ (phase' = "batch" => cycles = {}) /\ UNCHANGED <<planVars, searchVars, batchVars>>
  BY DEF Check, Approved
<1>2. TypeOK'
  BY <1>1 DEF IInv, TypeOK, Phase, planVars, searchVars, batchVars
<1>3. phase' = "batch" => Acyclic
  BY <1>1, SearchInvIsExact DEF IInv, SearchIsExact, Searching
<1>4. Acyclic => Acyclic'
  BY <1>1 DEF Acyclic, Trap, Succ, planVars
<1>5. BatchInv'
  BY <1>1, <1>3, <1>4 DEF IInv, BatchInv, BatchesRespectDeps, planVars, batchVars
<1> QED
  BY <1>1, <1>2, <1>5, SearchInvFrame DEF IInv

LEMMA BatchStep ==
  ASSUME IInv, Batch
  PROVE  IInv'
<1>1. /\ phase = "batch" /\ batch \in Nat /\ batch' = batch + 1
      /\ depth' = [n \in Node |-> IF n \in Wave THEN batch' ELSE depth[n]]
      /\ done' = done \cup Wave /\ remaining' = remaining \ Wave
      /\ UNCHANGED <<planVars, phase, searchVars>>
  BY DEF Batch, IInv, TypeOK
<1>2. /\ Wave \subseteq remaining /\ \A n \in Wave : deps[n] \subseteq done
      /\ remaining \subseteq Node /\ done = Node \ remaining
      /\ \A n \in done : depth[n] \in Nat /\ depth[n] <= batch
  BY DEF Wave, IInv, TypeOK, BatchInv
<1>3. TypeOK'
  BY <1>1, <1>2 DEF IInv, TypeOK, planVars, searchVars
<1>4. BatchesRespectDeps'
  <2> SUFFICES ASSUME NEW n \in done \cup Wave, NEW d \in deps[n]
               PROVE  d \in done \cup Wave /\ depth'[d] < depth'[n]
    BY <1>1 DEF BatchesRespectDeps, planVars
  <2>1. d \in done
    BY <1>2 DEF IInv, BatchInv, BatchesRespectDeps
  <2>2. depth'[d] = depth[d] /\ depth[d] \in Nat /\ depth[d] <= batch
    BY <1>1, <1>2, <2>1
  <2>3. CASE n \in Wave
    BY <1>1, <1>2, <2>1, <2>2, <2>3
  <2>4. CASE n \in done
    <3>1. depth[d] < depth[n] /\ depth'[n] = depth[n]
      BY <1>1, <1>2, <2>4 DEF IInv, BatchInv, BatchesRespectDeps
    <3> QED
      BY <2>1, <2>2, <3>1
  <2> QED
    BY <2>3, <2>4
<1>5. \A n \in done' : depth'[n] <= batch'
  BY <1>1, <1>2
<1>6. Acyclic => Acyclic'
  BY <1>1 DEF Acyclic, Trap, Succ, planVars
<1>7. BatchInv'
  BY <1>1, <1>2, <1>4, <1>5, <1>6 DEF IInv, BatchInv
<1> QED
  BY <1>1, <1>3, <1>7, SearchInvFrame DEF IInv

(* With no wave left, the tasks that remain would each wait for another one of *)
(* them.                                                                       *)
LEMMA EndOfBatchesStep ==
  ASSUME IInv, EndOfBatches
  PROVE  IInv'
<1>1. /\ phase = "batch" /\ Wave = {} /\ UNCHANGED <<planVars, searchVars, batchVars>>
      /\ phase' = IF remaining = {} THEN "batched" ELSE "raised"
  BY DEF EndOfBatches
<1>2. remaining = {}
  <2> SUFFICES ASSUME remaining # {} PROVE FALSE
    OBVIOUS
  <2>1. \A n \in remaining : n \in Node /\ deps[n] \subseteq Node /\ ~(deps[n] \subseteq done)
    BY <1>1 DEF Wave, IInv, TypeOK
  <2>2. \A n \in remaining : Succ(n) \cap remaining # {}
    BY <2>1 DEF Succ, IInv, BatchInv
  <2>3. remaining \in SUBSET Node /\ Acyclic
    BY <1>1 DEF IInv, TypeOK, BatchInv
  <2> QED
    BY <2>2, <2>3 DEF Acyclic, Trap
<1>3. TypeOK'
  BY <1>1 DEF IInv, TypeOK, Phase, planVars, searchVars, batchVars
<1>4. Acyclic => Acyclic'
  BY <1>1 DEF Acyclic, Trap, Succ, planVars
<1>5. BatchInv'
  BY <1>1, <1>2, <1>4 DEF IInv, BatchInv, BatchesRespectDeps, planVars, batchVars
<1> QED
  BY <1>1, <1>3, <1>5, SearchInvFrame DEF IInv

LEMMA NextInvariant == IInv /\ [Next]_vars => IInv'
<1> SUFFICES ASSUME IInv, [Next]_vars PROVE IInv'
  OBVIOUS
<1>1. CASE \E n \in Node : EnterRoot(n)
  BY <1>1, EnterRootStep
<1>2. CASE \E m \in Id : BackEdge(m) \/ TreeEdge(m) \/ OtherEdge(m)
  BY <1>2, BackEdgeStep, TreeEdgeStep, OtherEdgeStep
<1>3. CASE Leave
  BY <1>3, LeaveStep
<1>4. CASE Repair \/ Check \/ Batch \/ EndOfBatches
  BY <1>4, RepairStep, CheckStep, BatchStep, EndOfBatchesStep
<1>5. CASE UNCHANGED vars
  <2>1. UNCHANGED <<planVars, phase, searchVars, batchVars>>
    BY <1>5 DEF vars
  <2>2. TypeOK'
    BY <2>1 DEF IInv, TypeOK, planVars, searchVars, batchVars
  <2> QED
    BY <2>1, <2>2, SearchInvFrame, BatchInvFrame DEF IInv
<1> QED
  BY <1>1, <1>2, <1>3, <1>4, <1>5 DEF Next

LEMMA Invariant == Safety => []IInv
  BY InitInvariant, NextInvariant, PTL DEF Safety

-----------------------------------------------------------------------------
(* find_cycles is exact for every graph and every order of its lists: it       *)
(* returns nothing if and only if no set of tasks waits for itself.            *)
THEOREM FindCyclesIsExact == Safety => []SearchIsExact
<1>1. IInv => SearchIsExact
  BY SearchInvIsExact DEF IInv
<1> QED
  BY <1>1, Invariant, PTL

(* Whatever find_cycles returns is a cycle.                                    *)
THEOREM FindCyclesIsSound == Safety => []FoundAreCycles
<1>1. IInv => FoundAreCycles
  BY DEF IInv, SearchInv
<1> QED
  BY <1>1, Invariant, PTL

(* A design that passes the review is batched to the end, so integrate cannot  *)
(* fail for its graph.                                                         *)
THEOREM AcceptedPlanIsMergeable == Safety => []NeverRaises
<1>1. IInv => NeverRaises
  BY DEF IInv, BatchInv, NeverRaises
<1> QED
  BY <1>1, Invariant, PTL

(* Merges follow dependency order: the batches order all tasks, which is what  *)
(* OrderAssumption of Scheduler asks of Depth.                                 *)
THEOREM BatchOrder ==
  Safety => [](/\ BatchesRespectDeps
               /\ phase = "batched" => \A n \in Node : \A d \in deps[n] : depth[d] < depth[n])
<1>1. IInv => /\ BatchesRespectDeps
              /\ phase = "batched" => \A n \in Node : \A d \in deps[n] : depth[d] < depth[n]
  BY DEF IInv, BatchInv, BatchesRespectDeps
<1> QED
  BY <1>1, Invariant, PTL

-----------------------------------------------------------------------------
(* What Decides rests on besides fairness: design() goes forward only.  A step *)
(* of the search darkens a node and brightens none, or uses up an edge; a step  *)
(* of the batches leaves fewer tasks; everything else is a later phase.        *)
PhaseNumber == [repair |-> 0, check |-> 1, batch |-> 2, batched |-> 3, refused |-> 3, raised |-> 3]

Darker ==
  /\ \A n \in Id : colour[n] <= colour'[n]
  /\ \E n \in Id : colour[n] < colour'[n]

EdgeUsed ==
  /\ colour' = colour /\ \A n \in Id : todo'[n] \subseteq todo[n]
  /\ \E n \in Id : todo'[n] # todo[n]

Forward ==
  \/ PhaseNumber[phase] < PhaseNumber[phase']
  \/ phase' = phase /\ Searching /\ (Darker \/ EdgeUsed)
  \/ phase' = phase /\ ~Searching /\ remaining' \subseteq remaining /\ remaining' # remaining

LEMMA NodeStep ==
  ASSUME TypeOK, NEW n \in Id,
         \/ colour[n] = 0 /\ colour' = [colour EXCEPT ![n] = 1]
         \/ colour[n] = 1 /\ colour' = [colour EXCEPT ![n] = 2]
  PROVE  Darker
<1>1. \A k \in Id : colour[k] \in {0, 1, 2} /\ (k # n => colour'[k] = colour[k])
  BY DEF TypeOK
<1>2. colour[n] < colour'[n] /\ colour'[n] \in {1, 2}
  BY DEF TypeOK
<1> QED
  BY <1>1, <1>2 DEF Darker

LEMMA EdgeStep ==
  ASSUME TypeOK, NEW n \in Id, NEW m \in todo[n], colour' = colour,
         todo' = [todo EXCEPT ![n] = @ \ {m}]
  PROVE  EdgeUsed
<1>1. todo'[n] # todo[n] /\ \A k \in Id : todo'[k] \subseteq todo[k]
  BY DEF TypeOK
<1> QED
  BY <1>1 DEF EdgeUsed

(* find_cycles, the repair, the review and the batches never go back, for      *)
(* every graph and every order of its lists.                                   *)
THEOREM DesignGoesForward == Safety => [][Forward]_vars
<1>1. IInv /\ [Next]_vars => [Forward]_vars
  <2> SUFFICES ASSUME IInv, Next PROVE Forward
    OBVIOUS
  <2>0. TypeOK /\ StackIsGrey
    BY DEF IInv, SearchInv
  <2>1. ASSUME NEW n \in Node, EnterRoot(n) PROVE Forward
    <3>1. n \in Id /\ colour[n] = 0 /\ colour' = [colour EXCEPT ![n] = 1] /\ phase' = phase /\ Searching
      BY <2>1 DEF EnterRoot, Id
    <3> QED
      BY <2>0, <3>1, NodeStep DEF Forward
  <2>2. ASSUME NEW m \in Id, TreeEdge(m) PROVE Forward
    <3>1. colour[m] = 0 /\ colour' = [colour EXCEPT ![m] = 1] /\ phase' = phase /\ Searching
      BY <2>2 DEF TreeEdge, LookAt
    <3> QED
      BY <2>0, <3>1, NodeStep DEF Forward
  <2>3. ASSUME NEW m \in Id, BackEdge(m) \/ OtherEdge(m) PROVE Forward
    <3>1. /\ stack # << >> /\ m \in todo[Top] /\ colour' = colour /\ phase' = phase /\ Searching
          /\ todo' = [todo EXCEPT ![Top] = @ \ {m}]
      BY <2>3 DEF BackEdge, OtherEdge, LookAt
    <3>2. EdgeUsed
      BY <2>0, <3>1, TopFacts, EdgeStep
    <3> QED
      BY <3>1, <3>2 DEF Forward
  <2>4. ASSUME Leave PROVE Forward
    <3>1. stack # << >> /\ colour' = [colour EXCEPT ![Top] = 2] /\ phase' = phase /\ Searching
      BY <2>4 DEF Leave, Left
    <3>2. Top \in Id /\ colour[Top] = 1
      BY <2>0, <3>1, TopFacts DEF StackIsGrey, Top
    <3> QED
      BY <2>0, <3>1, <3>2, NodeStep DEF Forward
  <2>5. ASSUME Repair \/ Check PROVE Forward
    BY <2>5 DEF Repair, Check, Forward, PhaseNumber
  <2>6. ASSUME Batch PROVE Forward
    BY <2>6 DEF Batch, Wave, Forward, Searching
  <2>7. ASSUME EndOfBatches PROVE Forward
    BY <2>7 DEF EndOfBatches, Forward, PhaseNumber
  <2> QED
    BY <2>1, <2>2, <2>3, <2>4, <2>5, <2>6, <2>7 DEF Next
<1> QED
  BY <1>1, Invariant, PTL DEF Safety
=============================================================================
