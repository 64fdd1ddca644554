------------------------------ MODULE MCEngine ------------------------------
(* Instances of Engine.  Consumers are interchangeable: no definition of the  *)
(* engine orders them or names one.                                           *)
EXTENDS Engine, TLC

ConsumerSymmetry == Permutations(Consumers)

=============================================================================
