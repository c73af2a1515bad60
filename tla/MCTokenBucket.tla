---------------------------- MODULE MCTokenBucket ----------------------------
(* TokenBucket with interchangeable keys and threads; its properties name none. *)
EXTENDS TokenBucket, TLC

Symmetry == Permutations(Key) \cup Permutations(Thread)
=============================================================================
