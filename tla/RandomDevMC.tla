----------------------------- MODULE RandomDevMC -----------------------------
(* Model-checking instance of RandomDev. *)
EXTENDS RandomDev
CONSTANTS r1, r2
=============================================================================
