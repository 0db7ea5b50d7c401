------------------------------- MODULE MtrrMC -------------------------------
(* Model-checking instances of Mtrr: processors and types can be exchanged. *)
EXTENDS Mtrr, TLC

Symmetry == Permutations(CPUs) \cup Permutations(Types)
=============================================================================
