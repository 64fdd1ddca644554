---------------------------- MODULE MCTaskMemory ----------------------------
(* Priorities at the edges of the bitmap's words, and a cache of two.         *)
EXTENDS TaskMemory

=============================================================================
