-------------------------------- MODULE Notes --------------------------------
(* Notes to a user process (trap.c): the tails of syscall and trap, notify   *)
(* and noted.  A note that is delivered pushes the registers on the user's   *)
(* stack, where the process may change them, with the address of the         *)
(* previous such frame under them; noted takes them back.                    *)
(*                                                                           *)
(* One process.  Others may post notes to it at any moment (postnote, in     *)
(* proc.c, external), and the kernel posts notes for its faults.  The        *)
(* register set is what the process computes with (code), the system bits of *)
(* the flags, and the stack pointer counted in frames.  The process is       *)
(* assumed to keep its stack: it does not move its stack pointer over a      *)
(* frame of its own accord.  Left out: procctl (the debugger), the FPU, exec.*)
(*                                                                           *)
(* Names that Intr, the other half of trap.c, has too start with Notes here. *)
EXTENDS Integers, Sequences

CONSTANTS
  Codes, Handler,   \* what the user registers hold
  SysFlags, UserFlags,
  NNOTE,            \* the length of the queue of notes
  MaxNotes,         \* bound: notes posted in a behaviour
  NoFrame, Gone

Flags == {"NUser", "NDebug"}

Regs   == [code : Codes, sys : SysFlags, sp : 0..MaxNotes]
Frames == [regs : Regs, link : 0..MaxNotes]

ASSUME NotesAssumption ==
  /\ Handler \in Codes /\ UserFlags \in SysFlags
  /\ NNOTE \in Nat \ {0} /\ MaxNotes \in Nat
  /\ NoFrame \notin Frames /\ Gone \notin Regs

VARIABLES
  upc,         \* where the process is, in user mode or in the kernel
  call,        \* the system call it is in
  regs,        \* the user registers, in *ureg while in the kernel
  mem,         \* the frames on the user's stack
  ureg,        \* up->ureg: the address of a frame, 0 for nil
  note,        \* the flags of up->note[0..nnote-1]
  notified,    \* up->notified
  notify,      \* up->notify: a handler is set
  posted       \* history: the number of notes posted

notesVars == <<upc, call, regs, mem, ureg, note, notified, notify, posted>>

NotesInit ==
  /\ upc = "user" /\ call = "none"
  /\ \E c \in Codes : regs = [code |-> c, sys |-> UserFlags, sp |-> 0]
  /\ mem = [a \in 1..MaxNotes |-> NoFrame] /\ ureg = 0
  /\ note = <<>> /\ notified = FALSE /\ notify = FALSE /\ posted = 0

(* ------------------------------- the process ---------------------------- *)

Compute ==
  /\ upc = "user"
  /\ \E c \in Codes : regs' = [regs EXCEPT !.code = c]
  /\ UNCHANGED <<upc, call, mem, ureg, note, notified, notify, posted>>

\* A handler changes the registers it was given.
Edit ==
  /\ upc = "user" /\ ureg # 0
  /\ \E c \in Codes, f \in SysFlags :
       mem' = [mem EXCEPT ![ureg].regs.code = c, ![ureg].regs.sys = f]
  /\ UNCHANGED <<upc, call, regs, ureg, note, notified, notify, posted>>

SysCalls == {"rfork", "notify", "NCONT", "NRSTR", "NSAVE", "NDFLT", "other"}

Syscall ==
  /\ upc = "user"
  /\ call' \in SysCalls /\ upc' = "syscall"
  /\ UNCHANGED <<regs, mem, ureg, note, notified, notify, posted>>

(* ---------------------------- postnote (proc.c) ------------------------- *)

\* A note of the system to a process that cannot handle it displaces others.
Posted(flag) ==
  LET q == IF flag # "NUser" /\ (~notify \/ notified) THEN <<>> ELSE note
  IN  IF Len(q) < NNOTE THEN Append(q, flag) ELSE q

PostNote(flag) ==
  /\ upc # "dead" /\ posted < MaxNotes
  /\ note' = Posted(flag) /\ posted' = posted + 1
  /\ UNCHANGED <<upc, call, regs, mem, ureg, notified, notify>>

(* -------------------------------- trap.c -------------------------------- *)

\* The process faults, and posts itself a note.
Fault ==
  /\ upc = "user" /\ posted < MaxNotes
  /\ note' = Posted("NDebug") /\ posted' = posted + 1 /\ upc' = "trap"
  /\ UNCHANGED <<call, regs, mem, ureg, notified, notify>>

\* The clock interrupts user code.
ClockTick ==
  /\ upc = "user" /\ upc' = "trap"
  /\ UNCHANGED <<call, regs, mem, ureg, note, notified, notify, posted>>

\* Mutant: the end of trap does not look for notes.
TrapEndBlind ==
  /\ upc = "trap" /\ upc' = "user"
  /\ UNCHANGED <<call, regs, mem, ureg, note, notified, notify, posted>>

\* The end of trap: notify if there are notes.
TrapEnd ==
  /\ upc = "trap"
  /\ upc' = IF note # <<>> THEN "notify" ELSE "user"
  /\ UNCHANGED <<call, regs, mem, ureg, note, notified, notify, posted>>

\* The call is carried out and its result put in the registers, before noted.
Return ==
  /\ upc = "syscall"
  /\ \E c \in Codes : regs' = [regs EXCEPT !.code = c]
  /\ notify' \in IF call = "notify" THEN BOOLEAN ELSE {notify}
  /\ upc' = IF call \in {"NCONT", "NRSTR", "NSAVE", "NDFLT"} THEN "noted" ELSE "check"
  /\ UNCHANGED <<call, mem, ureg, note, notified, posted>>

Pexit ==
  /\ upc' = "dead"
  /\ UNCHANGED <<call, regs, mem, ureg, note, notified, notify, posted>>

\* Mutant: the flags of the frame are taken as they are.
UserRegsRaw == mem[ureg].regs

\* nureg, with the system flags of ureg: noted writes them to the frame too
UserRegs == [mem[ureg].regs EXCEPT !.sys = regs.sys]

\* noted kills the process that is not handling a note, has nothing to
\* return to, has spoilt its registers, or asks for it.
NotedSuicide == upc = "noted" /\ Pexit

Resume ==
  /\ upc = "noted" /\ call \in {"NCONT", "NRSTR"}
  /\ (notified \/ call = "NRSTR") /\ ureg # 0
  /\ regs' = UserRegs /\ mem' = [mem EXCEPT ![ureg].regs = UserRegs]
  /\ ureg' = mem[ureg].link /\ notified' = FALSE /\ upc' = "check"
  /\ UNCHANGED <<call, note, notify, posted>>

\* The frame stays, and the stack below it.
Save ==
  /\ upc = "noted" /\ call = "NSAVE" /\ notified /\ ureg # 0
  /\ regs' = [UserRegs EXCEPT !.sp = ureg]
  /\ mem' = [mem EXCEPT ![ureg].regs = UserRegs]
  /\ notified' = FALSE /\ upc' = "check"
  /\ UNCHANGED <<call, ureg, note, notify, posted>>

\* The end of syscall: rfork does not look for notes.
SyscallEnd ==
  /\ upc = "check"
  /\ upc' = IF call # "rfork" /\ note # <<>> THEN "notify" ELSE "user"
  /\ call' = "none"
  /\ UNCHANGED <<regs, mem, ureg, note, notified, notify, posted>>

(* -------------------------------- notify -------------------------------- *)

\* The system's notes kill whoever cannot handle them, others' notes whoever
\* has no handler; so does a stack that notify cannot write to.
NotifySuicide ==
  /\ upc = "notify"
  /\ \/ note[1] # "NUser" /\ (notified \/ ~notify)
     \/ ~notified
  /\ Pexit

\* A note is being handled: others wait.
NotifyLater ==
  /\ upc = "notify" /\ note[1] = "NUser" /\ notified
  /\ upc' = "user"
  /\ UNCHANGED <<call, regs, mem, ureg, note, notified, notify, posted>>

\* Mutant: the new frame is linked after up->ureg has been moved to it.
NotifyLinkLate ==
  /\ upc = "notify" /\ ~notified /\ notify
  /\ LET a == regs.sp + 1 IN
       /\ mem' = [mem EXCEPT ![a] = [regs |-> regs, link |-> a]]
       /\ ureg' = a
       /\ regs' = [regs EXCEPT !.code = Handler, !.sp = a]
  /\ note' = Tail(note) /\ notified' = TRUE /\ upc' = "user"
  /\ UNCHANGED <<call, notify, posted>>

NotifyPush ==
  /\ upc = "notify" /\ ~notified /\ notify
  /\ LET a == regs.sp + 1 IN
       /\ mem' = [mem EXCEPT ![a] = [regs |-> regs, link |-> ureg]]
       /\ ureg' = a
       /\ regs' = [regs EXCEPT !.code = Handler, !.sp = a]
  /\ note' = Tail(note) /\ notified' = TRUE /\ upc' = "user"
  /\ UNCHANGED <<call, notify, posted>>

(* ------------------------------------------------------------------------ *)

Kernel == \/ TrapEnd \/ Return \/ NotedSuicide \/ Resume \/ Save \/ SyscallEnd
          \/ NotifySuicide \/ NotifyLater \/ NotifyPush

NotesNext == \/ Compute \/ Edit \/ Syscall \/ Fault \/ ClockTick \/ Kernel
             \/ \E flag \in Flags : PostNote(flag)

NotesSpec == NotesInit /\ [][NotesNext]_notesVars

\* The kernel gets on with its work, and the clock interrupts user code.
NotesFairSpec == NotesSpec /\ WF_notesVars(Kernel) /\ SF_notesVars(ClockTick)

(* ------------------------------ properties ------------------------------ *)

\* Frames are linked up the stack, the newest at or above the stack pointer.
NotesTypeOK ==
  /\ upc \in {"user", "syscall", "noted", "check", "trap", "notify", "dead"}
  /\ call \in SysCalls \cup {"none"}
  /\ regs \in Regs
  /\ mem \in [1..MaxNotes -> Frames \cup {NoFrame}]
  /\ \A a \in 1..MaxNotes : mem[a] # NoFrame => mem[a].link < a
  /\ ureg \in 0..MaxNotes /\ (ureg # 0 => mem[ureg] # NoFrame)
  /\ note \in Seq(Flags) /\ Len(note) <= NNOTE
  /\ notified \in BOOLEAN /\ notify \in BOOLEAN /\ posted \in 0..MaxNotes
  /\ upc = "notify" => note # <<>>

\* The frames from up->ureg on, newest first.
ChainFrom(m, u) ==
  LET from[a \in 0..MaxNotes] ==
        IF a = 0 \/ m[a] = NoFrame THEN <<>> ELSE <<m[a].regs>> \o from[m[a].link]
  IN  from[u]
Chain == ChainFrom(mem, ureg)

Abstract ==
  INSTANCE NoteStack WITH
    ctx <- IF upc = "dead" THEN Gone ELSE regs, stack <- Chain, handling <- notified

\* Whatever notes arrive, and in whatever order handlers save, resume and are
\* interrupted, the chain of frames in the user's memory is the stack of what
\* was interrupted: nobody is resumed twice, at another's place or with
\* system flags of its own making.
IsNoteStack == Abstract!Spec

\* A note is not forgotten: unless it kills the process or the process is
\* handling one, a note is delivered, also one posted between the last look
\* at the queue and the return to user mode.
NotesAreDelivered == (note # <<>> /\ ~notified) ~> (note = <<>> \/ notified \/ upc = "dead")
=============================================================================
