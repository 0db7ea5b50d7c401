----------------------------- MODULE UserSwitch -----------------------------
(***************************************************************************)
(* What uthread.c promises of a user thread: it is inside the kernel's own *)
(* code until, in one step, it is in user code with the registers it was   *)
(* given and exactly its process's pages mapped.  How many stops, host     *)
(* calls and register changes that takes cannot be seen from user code.    *)
(***************************************************************************)
CONSTANTS Threads, Start, Kernel

VARIABLES
  space,        (* the address space the process should have               *)
  view          (* Kernel, or the registers and mappings user code sees    *)

vars == <<space, view>>

Init == view = [u \in Threads |-> Kernel]

Enter(u) ==
  /\ view[u] = Kernel
  /\ view' = [view EXCEPT ![u] = [regs |-> Start, space |-> space]]
  /\ UNCHANGED space

Next == \E u \in Threads : Enter(u)

Spec == Init /\ [][Next]_vars
=============================================================================
