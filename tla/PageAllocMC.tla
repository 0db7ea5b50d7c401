---------------------------- MODULE PageAllocMC ----------------------------
(* Instances of PageAlloc for TLC.                                         *)
EXTENDS PageAlloc, TLC

(* Pages, slots and the processes without the reserve are interchangeable. *)
Symmetry ==
  Permutations(Pages) \cup Permutations(Slots) \cup Permutations(Procs \ KProcs)
=============================================================================
