------------------------------- MODULE UThread -------------------------------
(***************************************************************************)
(* User threads (uthread.c) and the host calls they are driven with        *)
(* (src/umhost/umhost.c): the kernel is one host process, each user thread *)
(* another that it forks and traces.  The kernel changes the address space *)
(* of a user thread by making the thread run do_maps, a kernel function,   *)
(* with host system calls switched on; its final exit call is the signal   *)
(* to switch them off again and to put the thread's own registers back.    *)
(*                                                                         *)
(* A traced thread runs until something stops it, and then waits until the *)
(* kernel, which learns of each stop once through waitpid, resumes it.     *)
(***************************************************************************)
EXTENDS Integers, Sequences, FiniteSets

CONSTANTS
  Threads,      (* uthreads[0 .. actthreads-1]                             *)
  First,        (* uthreads[0], bound to the first process                 *)
  Vas, Pas,     (* page-aligned virtual and physical addresses             *)
  NoMap, NoRegs

(* eax, eip and esp.  eip is "fork" and "traceme" in the code a new thread *)
(* starts with, "maps" in do_maps and "entry" at UTZERO+32, where a process*)
(* starts.                                                                 *)
Regs == [eax : {"zero"}, eip : {"fork", "traceme", "maps", "entry"},
         esp : {"kstack", "upstk", "ustack"}]

ASSUME UThreadAssumption ==
  /\ First \in Threads
  /\ IsFiniteSet(Vas)
  /\ NoRegs \notin Regs

SegTypes == {"TEXT", "DATA", "SHARED"}

VARIABLES
  kpc,          (* where the kernel process is                             *)
  newtlb,       (* up->newtlb of the first process                         *)
  seg,          (* its resident pages: type of the segment and page frame  *)
  state, hsyscalls, proc, saved,      (* fields of struct Uthread          *)
  curmap, upstk,                      (* each thread's own kernel data     *)
  run,          (* "none", "running", "stopped" or "dead"                  *)
  stop,         (* why a stopped thread stopped                            *)
  report,       (* threads whose stop waitpid has not returned yet         *)
  mode,         (* the ptrace request that resumed it: "SYSCALL", "SYSEMU" *)
  regs,         (* a member of Regs, or NoRegs before the fork             *)
  prog,         (* the host calls the code at eip has still to make        *)
  aspace        (* what the host has mapped at each user address           *)

uthread == <<state, hsyscalls, proc, saved>>
host    == <<run, stop, report, mode, regs, prog, aspace, curmap, upstk>>
vars    == <<kpc, newtlb, seg, uthread, host>>

UserRegs == [eax |-> "zero", eip |-> "entry", esp |-> "ustack"]

Call(op) == [op |-> op]
Exit == <<Call("exit")>>

Init ==
  /\ kpc = "uthreadinit"
  /\ newtlb \in BOOLEAN
  /\ seg \in [Vas -> [type : SegTypes, pa : Pas] \cup {NoMap}]
  /\ \A v, w \in Vas : seg[v] # NoMap /\ seg[w] # NoMap /\ v # w
                         => seg[v].pa # seg[w].pa
  /\ state = [u \in Threads |-> "UIdle"]
  /\ hsyscalls = [u \in Threads |-> FALSE]
  /\ proc = [u \in Threads |-> FALSE]
  /\ saved = [u \in Threads |-> NoRegs]
  /\ curmap = [u \in Threads |-> <<>>]
  /\ upstk = [u \in Threads |-> <<>>]
  /\ run = [u \in Threads |-> "none"]
  /\ stop = [u \in Threads |-> "none"]
  /\ report = {}
  /\ mode = [u \in Threads |-> "untraced"]
  /\ regs = [u \in Threads |-> NoRegs]
  /\ prog = [u \in Threads |-> <<>>]
  /\ aspace = [u \in Threads |-> [v \in Vas |-> NoMap]]

-----------------------------------------------------------------------------
(* The host's side: what a thread does while it runs.                      *)

Stopped(u, why) ==
  /\ run' = [run EXCEPT ![u] = "stopped"]
  /\ stop' = [stop EXCEPT ![u] = why]
  /\ report' = report \cup {u}

(* uthread_main -> traceme: ptrace(PTRACE_TRACEME), then SIGSTOP itself.   *)
Traceme(u) ==
  /\ run[u] = "running" /\ regs[u].eip = "fork"
  /\ mode' = [mode EXCEPT ![u] = "TRACED"]
  /\ regs' = [regs EXCEPT ![u].eip = "traceme"]
  /\ Stopped(u, "sigstop")
  /\ UNCHANGED <<kpc, newtlb, seg, uthread, prog, aspace, curmap, upstk>>

(* do_maps starts: it will print a line, unmap what curmap lists, map what *)
(* its arguments on upstk list, remember those as curmap and exit.         *)
Unmaps(ms) == [i \in DOMAIN ms |-> [op |-> "mmap", va |-> ms[i].va,
                                    pa |-> ms[i].pa, prot |-> {}]]
Maps(ms) == [i \in DOMAIN ms |-> [op |-> "mmap", va |-> ms[i].va,
                                  pa |-> ms[i].pa, prot |-> ms[i].prot]]

DoMaps(u) ==
  /\ run[u] = "running" /\ regs[u].eip = "maps" /\ prog[u] = <<>>
  /\ prog' = [prog EXCEPT ![u] = <<Call("write")>>
                \o Unmaps(curmap[u]) \o Maps(upstk[u]) \o Exit]
  /\ curmap' = [curmap EXCEPT ![u] = upstk[u]]
  /\ UNCHANGED <<kpc, newtlb, seg, uthread, run, stop, report, mode, regs,
                 aspace, upstk>>

(* host_mmap: no protection bits mean munmap.                              *)
host_mmap(space, c) ==
  [space EXCEPT ![c.va] = IF c.prot = {} THEN NoMap
                          ELSE [pa |-> c.pa, prot |-> c.prot]]

(* The next host call is reached and stops the thread: always at its entry,*)
(* for the tracer to look at.                                              *)
CallEntry(u) ==
  /\ run[u] = "running" /\ prog[u] # <<>>
  /\ stop[u] # "entry"
  /\ Stopped(u, "entry")
  /\ UNCHANGED <<kpc, newtlb, seg, uthread, mode, regs, prog, aspace,
                 curmap, upstk>>

(* Resumed from the entry stop: the host performs the call if the thread   *)
(* was resumed with PTRACE_SYSCALL, and stops it again at the exit; after  *)
(* PTRACE_SYSEMU the call is not performed.                                *)
CallPerformed(u) ==
  LET c == Head(prog[u])
  IN  /\ run[u] = "running" /\ prog[u] # <<>>
      /\ stop[u] = "entry" /\ mode[u] = "SYSCALL"
      /\ prog' = [prog EXCEPT ![u] = Tail(@)]
      /\ IF c.op = "exit"
           THEN /\ run' = [run EXCEPT ![u] = "dead"]
                /\ stop' = [stop EXCEPT ![u] = "exited"]
                /\ report' = report \cup {u}
                /\ UNCHANGED aspace
           ELSE /\ Stopped(u, "exit")
                /\ aspace' = IF c.op = "mmap"
                               THEN [aspace EXCEPT ![u] = host_mmap(@, c)]
                               ELSE aspace
      /\ UNCHANGED <<kpc, newtlb, seg, uthread, mode, regs, curmap, upstk>>

(* User code: it traps (int 0x40, a fault) or makes a host system call of  *)
(* its own.                                                                *)
UserTrap(u) ==
  /\ run[u] = "running" /\ regs[u].eip = "entry" /\ prog[u] = <<>>
  /\ Stopped(u, "segv")
  /\ UNCHANGED <<kpc, newtlb, seg, uthread, mode, regs, prog, aspace,
                 curmap, upstk>>

UserCall(u) ==
  /\ run[u] = "running" /\ regs[u].eip = "entry" /\ prog[u] = <<>>
  /\ prog' = [prog EXCEPT ![u] = <<Call("write")>>]
  /\ UNCHANGED <<kpc, newtlb, seg, uthread, run, stop, report, mode, regs,
                 aspace, curmap, upstk>>

(* A signal of the host stops the thread like anything else.               *)
HostSignal(u) ==
  /\ run[u] = "running" /\ mode[u] # "untraced" /\ stop[u] # "entry"
  /\ Stopped(u, "signal")
  /\ UNCHANGED <<kpc, newtlb, seg, uthread, mode, regs, prog, aspace,
                 curmap, upstk>>

-----------------------------------------------------------------------------
(* The kernel process.                                                     *)

(* uthreadinit: fork a thread, wait until it has stopped itself.           *)
Fork(u) ==
  /\ kpc = "uthreadinit"
  /\ run[u] = "none"
  /\ \A v \in Threads : run[v] # "none" => v \notin report /\ run[v] = "stopped"
  /\ run' = [run EXCEPT ![u] = "running"]
  /\ regs' = [regs EXCEPT ![u] = [eax |-> "zero", eip |-> "fork",
                                  esp |-> "kstack"]]
  /\ UNCHANGED <<kpc, newtlb, seg, uthread, stop, report, mode, prog, aspace,
                 curmap, upstk>>

WaitStarted(u) ==
  /\ kpc = "uthreadinit"
  /\ u \in report
  /\ report' = report \ {u}
  /\ hsyscalls' = [hsyscalls EXCEPT ![u] = FALSE]
  /\ state' = [state EXCEPT ![u] = "UIdle"]
  /\ kpc' = IF \A v \in Threads \ {u} : run[v] # "none"
              THEN "touser" ELSE kpc
  /\ UNCHANGED <<newtlb, seg, proc, saved, run, stop, mode, regs, prog,
                 aspace, curmap, upstk>>

(* ptrace_cont; a signal that stopped the thread is dropped.               *)
ptrace_cont(u, hs) ==
  /\ run' = [run EXCEPT ![u] = "running"]
  /\ mode' = [mode EXCEPT ![u] = IF hs THEN "SYSCALL" ELSE "SYSEMU"]

segperm(type) ==
  CASE type = "TEXT" -> {"R", "X"}
    [] type = "DATA" -> {"R", "W"}
    [] OTHER         -> {}

Mappings ==
  {[va |-> v, pa |-> seg[v].pa, prot |-> segperm(seg[v].type)] :
     v \in {w \in Vas : seg[w] # NoMap}}

(* The mappings pushed on upstk, in whatever order the segments are in.    *)
Orders(S) == {s \in [1 .. Cardinality(S) -> S] :
                \A i, j \in DOMAIN s : s[i] = s[j] => i = j}

(* Mutant: the registers are saved after they have been set for do_maps.    *)
umem_remap_late(u, r) ==
  LET maps == [eax |-> "zero", eip |-> "maps", esp |-> "upstk"]
  IN  /\ state' = [state EXCEPT ![u] = IF newtlb THEN "URemapping" ELSE "URunning"]
      /\ saved' = [saved EXCEPT ![u] = IF newtlb THEN maps ELSE @]
      /\ \E s \in Orders(Mappings) :
           upstk' = [upstk EXCEPT ![u] = IF newtlb THEN s ELSE @]
      /\ regs' = [regs EXCEPT ![u] = IF newtlb THEN maps ELSE r]
      /\ hsyscalls' = [hsyscalls EXCEPT ![u] = newtlb]

(* umem_remap(u), called with the registers r in the stopped thread.       *)
umem_remap(u, r) ==
  IF ~newtlb
    THEN /\ state' = [state EXCEPT ![u] = "URunning"]
         /\ regs' = [regs EXCEPT ![u] = r]
         /\ UNCHANGED <<saved, upstk, hsyscalls>>
    ELSE /\ state' = [state EXCEPT ![u] = "URemapping"]
         /\ saved' = [saved EXCEPT ![u] = r]
         /\ \E s \in Orders(Mappings) : upstk' = [upstk EXCEPT ![u] = s]
         /\ regs' = [regs EXCEPT ![u] = [eax |-> "zero", eip |-> "maps",
                                         esp |-> "upstk"]]
         /\ hsyscalls' = [hsyscalls EXCEPT ![u] = TRUE]

(* touser: bind the first thread, set its registers, remap if needed.      *)
touser ==
  /\ kpc = "touser"
  /\ proc' = [proc EXCEPT ![First] = TRUE]
  /\ umem_remap(First, UserRegs)
  /\ ptrace_cont(First, hsyscalls'[First])
  /\ stop' = [stop EXCEPT ![First] = "none"]
  /\ kpc' = "kthread_loop"
  /\ UNCHANGED <<newtlb, seg, report, prog, aspace, curmap>>

(* Mutant: host system calls are left switched on.                          *)
handle_remap_on(u) ==
  IF stop[u] = "entry" /\ prog[u] = Exit
    THEN /\ prog' = [prog EXCEPT ![u] = <<>>]
         /\ regs' = [regs EXCEPT ![u] = saved[u]]
         /\ state' = [state EXCEPT ![u] = "URunning"]
         /\ stop' = [stop EXCEPT ![u] = "none"]
         /\ ptrace_cont(u, TRUE)
         /\ UNCHANGED hsyscalls
    ELSE /\ ptrace_cont(u, hsyscalls[u])
         /\ UNCHANGED <<prog, regs, state, hsyscalls, stop>>

(* Mutant: the exit call is allowed to proceed like any other.              *)
handle_remap_exits(u) ==
  /\ ptrace_cont(u, hsyscalls[u])
  /\ UNCHANGED <<prog, regs, state, hsyscalls, stop>>

(* Mutant: a stop at the exit of a call is not answered.                    *)
handle_remap_once(u) ==
  IF stop[u] = "entry" /\ prog[u] = Exit
    THEN /\ prog' = [prog EXCEPT ![u] = <<>>]
         /\ regs' = [regs EXCEPT ![u] = saved[u]]
         /\ state' = [state EXCEPT ![u] = "URunning"]
         /\ hsyscalls' = [hsyscalls EXCEPT ![u] = FALSE]
         /\ stop' = [stop EXCEPT ![u] = "none"]
         /\ ptrace_cont(u, FALSE)
    ELSE /\ IF stop[u] = "entry" THEN ptrace_cont(u, hsyscalls[u])
                                 ELSE UNCHANGED <<run, mode>>
         /\ UNCHANGED <<prog, regs, state, hsyscalls, stop>>

(* Mutant: every system call of do_maps is taken for the last one.          *)
handle_remap_first(u) ==
  IF stop[u] = "entry"
    THEN /\ prog' = [prog EXCEPT ![u] = <<>>]
         /\ regs' = [regs EXCEPT ![u] = saved[u]]
         /\ state' = [state EXCEPT ![u] = "URunning"]
         /\ hsyscalls' = [hsyscalls EXCEPT ![u] = FALSE]
         /\ stop' = [stop EXCEPT ![u] = "none"]
         /\ ptrace_cont(u, FALSE)
    ELSE /\ ptrace_cont(u, hsyscalls[u])
         /\ UNCHANGED <<prog, regs, state, hsyscalls, stop>>

(* handle_remap: the exit call of do_maps is replaced by an invalid one and*)
(* the saved registers take the thread back to user code.                  *)
handle_remap(u) ==
  IF stop[u] = "entry" /\ prog[u] = Exit
    THEN /\ prog' = [prog EXCEPT ![u] = <<>>]
         /\ regs' = [regs EXCEPT ![u] = saved[u]]
         /\ state' = [state EXCEPT ![u] = "URunning"]
         /\ hsyscalls' = [hsyscalls EXCEPT ![u] = FALSE]
         /\ stop' = [stop EXCEPT ![u] = "none"]
         /\ ptrace_cont(u, FALSE)
    ELSE /\ ptrace_cont(u, hsyscalls[u])
         /\ UNCHANGED <<prog, regs, state, hsyscalls, stop>>

(* kthread_loop: one stop is taken with waitpid and looked at.  Only a     *)
(* system call stop of a thread that is remapping gets an answer; after    *)
(* any other stop the loop only prints a line.                             *)
kthread_loop(u) ==
  /\ kpc = "kthread_loop"
  /\ u \in report
  /\ report' = report \ {u}
  /\ IF stop[u] \in {"entry", "exit"} /\ hsyscalls[u] /\ state[u] = "URemapping"
       THEN handle_remap(u)
       ELSE UNCHANGED <<run, mode, prog, regs, state, hsyscalls, stop>>
  /\ UNCHANGED <<kpc, newtlb, seg, proc, saved, aspace, curmap, upstk>>

-----------------------------------------------------------------------------
ThreadStep(u) ==
  \/ Traceme(u) \/ DoMaps(u) \/ CallEntry(u) \/ CallPerformed(u)
  \/ UserTrap(u) \/ UserCall(u)

KernelStep ==
  \/ touser
  \/ \E u \in Threads : Fork(u) \/ WaitStarted(u) \/ kthread_loop(u)

Next == KernelStep \/ \E u \in Threads : ThreadStep(u) \/ HostSignal(u)

(* The host schedules every runnable process.                              *)
Fairness == WF_vars(KernelStep) /\ \A u \in Threads : WF_vars(ThreadStep(u))

Spec == Init /\ [][Next]_vars
FairSpec == Spec /\ Fairness
-----------------------------------------------------------------------------
(* Correctness.                                                            *)

MapCalls == [op : {"mmap"}, va : Vas, pa : Pas, prot : SUBSET {"R", "W", "X"}]

(* Every variable has its type.                                            *)
TypeOK ==
  /\ kpc \in {"uthreadinit", "touser", "kthread_loop"}
  /\ newtlb \in BOOLEAN
  /\ seg \in [Vas -> [type : SegTypes, pa : Pas] \cup {NoMap}]
  /\ state \in [Threads -> {"UIdle", "URunning", "URemapping"}]
  /\ hsyscalls \in [Threads -> BOOLEAN] /\ proc \in [Threads -> BOOLEAN]
  /\ saved \in [Threads -> {NoRegs, UserRegs}]
  /\ \A u \in Threads :
       /\ \A ms \in {curmap[u], upstk[u]} : \A i \in DOMAIN ms : ms[i] \in Mappings
       /\ \A i \in DOMAIN prog[u] :
            prog[u][i] \in MapCalls \cup {Call("write"), Call("exit")}
  /\ run \in [Threads -> {"none", "running", "stopped", "dead"}]
  /\ stop \in [Threads -> {"none", "sigstop", "entry", "exit", "segv",
                           "signal", "exited"}]
  /\ report \subseteq Threads
  /\ mode \in [Threads -> {"untraced", "TRACED", "SYSCALL", "SYSEMU"}]
  /\ regs \in [Threads -> {NoRegs} \cup Regs]
  /\ aspace \in [Threads -> [Vas -> {NoMap} \cup
                   [pa : Pas, prot : SUBSET {"R", "W", "X"}]]]

InUserCode(u) == regs[u] # NoRegs /\ regs[u].eip = "entry"

(* The user code of a thread runs with host system calls switched off,     *)
(* whatever signals and stops came between: a call it makes is intercepted *)
(* and never performed by the host.                                        *)
UserIsConfined ==
  \A u \in Threads : run[u] = "running" /\ InUserCode(u) =>
    /\ mode[u] = "SYSEMU" /\ ~hsyscalls[u]
    /\ state[u] = "URunning"

(* The exit call that ends do_maps ends the remapping and not the thread.  *)
NoThreadExits == \A u \in Threads : run[u] # "dead"

(* What the process's segments ask for.  A page of a segment whose type    *)
(* umem_remap does not know is not mapped.                                 *)
WantedSpace ==
  [v \in Vas |->
     IF ~newtlb \/ seg[v] = NoMap \/ seg[v].type \notin {"TEXT", "DATA"}
       THEN NoMap
       ELSE [pa |-> seg[v].pa, prot |-> segperm(seg[v].type)]]

View == [u \in Threads |->
           IF InUserCode(u) THEN [regs |-> regs[u], space |-> aspace[u]]
                            ELSE NoRegs]

Switch == INSTANCE UserSwitch
            WITH Start <- UserRegs, Kernel <- NoRegs,
                 space <- WantedSpace, view <- View

(* The thread enters user code once, in one step, with the registers       *)
(* touser gave it although do_maps ran on other ones, and with exactly the *)
(* mappings of its segments; nothing the kernel does afterwards changes    *)
(* them behind its back.                                                   *)
EntersUserCodeAtomically == Switch!Spec

(* Every remapping ends and the thread goes on to user code, unless the    *)
(* host sends it a signal meanwhile: each other stop on the way is answered.*)
RemapCompletes ==
  \A u \in Threads :
    state[u] = "URemapping" ~> (state[u] = "URunning" \/ stop[u] = "signal")
=============================================================================
