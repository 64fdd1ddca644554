---------------------------- MODULE MCGroupCommit ----------------------------
(* Instances of GroupCommit; threads are interchangeable.                     *)
EXTENDS GroupCommit, TLC

ThreadSymmetry == Permutations(Threads)

=============================================================================
