----------------------------- MODULE NoteStack -----------------------------
(* What trap.c promises a user process that handles notes: the contexts     *)
(* that notes have interrupted form a stack.  A note is delivered only when *)
(* none is being handled; who resumes goes back to the newest interrupted   *)
(* context as the handler has left it, with the system flags the process    *)
(* had; a handler that saves (NSAVE) leaves it on the stack, runs on below  *)
(* it with the registers it chose, and may be interrupted in turn.          *)
EXTENDS Integers, Sequences

CONSTANTS Codes,         \* what the user registers hold, the stack apart
          Handler,       \* what they hold when a handler starts
          SysFlags,      \* what the system's bits of the flags may be set to
          UserFlags,     \* what they are in user mode
          Gone           \* the context of a process that has exited

VARIABLES ctx,           \* the registers
          stack,         \* the interrupted contexts, newest first
          handling       \* a note is being handled

vars == <<ctx, stack, handling>>

Init ==
  /\ \E c \in Codes : ctx = [code |-> c, sys |-> UserFlags, sp |-> 0]
  /\ stack = <<>> /\ handling = FALSE

Compute ==
  /\ ctx # Gone
  /\ \E c \in Codes : ctx' = [ctx EXCEPT !.code = c]
  /\ UNCHANGED <<stack, handling>>

\* The process may write to the registers that were saved for it.
Edit ==
  /\ ctx # Gone /\ stack # <<>>
  /\ \E c \in Codes, f \in SysFlags :
       stack' = <<[stack[1] EXCEPT !.code = c, !.sys = f]>> \o Tail(stack)
  /\ UNCHANGED <<ctx, handling>>

Deliver ==
  /\ ctx # Gone /\ ~handling
  /\ stack' = <<ctx>> \o stack
  /\ ctx' = [ctx EXCEPT !.code = Handler, !.sp = @ + 1]
  /\ handling' = TRUE

Restored == [stack[1] EXCEPT !.sys = UserFlags]

Resume ==
  /\ ctx # Gone /\ stack # <<>>
  /\ ctx' = Restored /\ stack' = Tail(stack) /\ handling' = FALSE

Save ==
  /\ ctx # Gone /\ handling
  /\ ctx' = [Restored EXCEPT !.sp = ctx.sp] /\ stack' = <<Restored>> \o Tail(stack)
  /\ handling' = FALSE

Exit == ctx' = Gone /\ UNCHANGED <<stack, handling>>

Next == Compute \/ Edit \/ Deliver \/ Resume \/ Save \/ Exit

Spec == Init /\ [][Next]_vars
=============================================================================
