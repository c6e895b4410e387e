-------------------------- MODULE MCProjectRegistry --------------------------
(***************************************************************************)
(* An instance of ProjectRegistry for TLC.  Requests differ in nothing but *)
(* their names, and the run checks no liveness: their symmetry is sound.   *)
(***************************************************************************)
EXTENDS ProjectRegistry, TLC

RequestSymmetry == Permutations(Requests)

=============================================================================
