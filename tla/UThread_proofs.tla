---------------------------- MODULE UThread_proofs ----------------------------
(***************************************************************************)
(* For any set of threads and any address space: user code never runs with *)
(* host system calls switched on, no thread exits, and a thread enters user*)
(* code in one step with its process's pages mapped (UserSwitch).          *)
(*                                                                         *)
(* Host system calls are on while a thread is remapping and at no other    *)
(* time, and a remapping thread is in do_maps (ThreadInv).  The only call  *)
(* of do_maps that could end the thread is its last (ProgInv), which is    *)
(* never resumed from its entry stop.  What is mapped while do_maps runs is*)
(* told by the calls it has still to make (SpaceInv).                      *)
(***************************************************************************)
EXTENDS UThread, FiniteSetTheorems, TLAPS

HostCalls == MapCalls \cup {Call("write"), Call("exit")}

(* What do_maps has to work on, and what it still has to do: the exit call *)
(* is the last one, if there is any.                                       *)
ProgInv ==
  /\ curmap \in [Threads -> Seq(Mappings)] /\ upstk \in [Threads -> Seq(Mappings)]
  /\ prog \in [Threads -> Seq(HostCalls)]
  /\ \A u \in Threads : \A i \in 1 .. Len(prog[u]) : prog[u][i] = Call("exit") => i = Len(prog[u])

Remapping(u) == state[u] = "URemapping"

ThreadInv ==
  \A u \in Threads :
    /\ hsyscalls[u] <=> Remapping(u)
    /\ Remapping(u) => /\ saved[u] = UserRegs
                       /\ regs[u] # NoRegs /\ regs[u].eip = "maps"
    /\ InUserCode(u) => mode[u] = "SYSEMU" /\ state[u] = "URunning"
    /\ kpc # "kthread_loop" =>
         /\ state[u] = "UIdle" /\ prog[u] = <<>>
         /\ regs[u] # NoRegs => regs[u].eip \in {"fork", "traceme"}
    /\ run[u] # "none" => regs[u] # NoRegs
    /\ stop[u] = "entry" => prog[u] # <<>>
    /\ run[u] = "running" /\ stop[u] = "entry" => prog[u][1] # Call("exit")

IndInv == TypeOK /\ ProgInv /\ ThreadInv /\ NoThreadExits

-----------------------------------------------------------------------------
(* The resident pages are finitely many, so the arguments umem_remap pushes*)
(* are a sequence, in whatever order.                                      *)
LEMMA OrdersAreSequences == TypeOK => Orders(Mappings) \subseteq Seq(Mappings)
<1> SUFFICES ASSUME TypeOK PROVE Orders(Mappings) \subseteq Seq(Mappings)
  OBVIOUS
<1> DEFINE Resident == {w \in Vas : seg[w] # NoMap}
           f == [v \in Resident |-> [va |-> v, pa |-> seg[v].pa, prot |-> segperm(seg[v].type)]]
<1>1. IsFiniteSet(Resident)
  BY UThreadAssumption, FS_Subset
<1>2. f \in Surjection(Resident, Mappings)
  BY DEF Surjection, Mappings
<1>3. IsFiniteSet(Mappings)
  BY <1>1, <1>2, FS_Surjection
<1>4. Cardinality(Mappings) \in Nat
  BY <1>3, FS_CardinalityType
<1> QED
  BY <1>4 DEF Orders

(* A resident page is mapped by a call do_maps can make.                   *)
LEMMA MappingTypes ==
  ASSUME TypeOK, NEW m \in Mappings
  PROVE  m.va \in Vas /\ m.pa \in Pas /\ m.prot \in SUBSET {"R", "W", "X"}
<1>1. PICK v \in Vas : seg[v] # NoMap /\ m = [va |-> v, pa |-> seg[v].pa, prot |-> segperm(seg[v].type)]
  BY DEF Mappings
<1>2. seg[v] \in [type : SegTypes, pa : Pas]
  BY <1>1 DEF TypeOK
<1> QED
  BY <1>1, <1>2 DEF segperm, SegTypes

(* The calls of do_maps: a line to print, the mappings, and at last exit.  *)
LEMMA DoMapsCalls ==
  ASSUME TypeOK, NEW a \in Seq(Mappings), NEW b \in Seq(Mappings)
  PROVE  LET p == <<Call("write")>> \o Unmaps(a) \o Maps(b) \o Exit
         IN  /\ p \in Seq(HostCalls)
             /\ \A i \in 1 .. Len(p) : p[i] = Call("exit") => i = Len(p)
<1>1. Unmaps(a) \in Seq(MapCalls) /\ Maps(b) \in Seq(MapCalls)
  <2>1. \A i \in 1 .. Len(a) : [op |-> "mmap", va |-> a[i].va, pa |-> a[i].pa, prot |-> {}] \in MapCalls
    <3> SUFFICES ASSUME NEW i \in 1 .. Len(a)
                 PROVE  [op |-> "mmap", va |-> a[i].va, pa |-> a[i].pa, prot |-> {}] \in MapCalls
      OBVIOUS
    <3>1. a[i] \in Mappings
      OBVIOUS
    <3> QED
      BY <3>1, MappingTypes DEF MapCalls
  <2>2. \A i \in 1 .. Len(b) :
          [op |-> "mmap", va |-> b[i].va, pa |-> b[i].pa, prot |-> b[i].prot] \in MapCalls
    <3> SUFFICES ASSUME NEW i \in 1 .. Len(b)
                 PROVE  [op |-> "mmap", va |-> b[i].va, pa |-> b[i].pa, prot |-> b[i].prot] \in MapCalls
      OBVIOUS
    <3>1. b[i] \in Mappings
      OBVIOUS
    <3> QED
      BY <3>1, MappingTypes DEF MapCalls
  <2>3. DOMAIN a = 1 .. Len(a) /\ DOMAIN b = 1 .. Len(b) /\ Len(a) \in Nat /\ Len(b) \in Nat
    OBVIOUS
  <2>4. Unmaps(a) \in [1 .. Len(a) -> MapCalls]
    BY <2>1, <2>3 DEF Unmaps
  <2>5. Maps(b) \in [1 .. Len(b) -> MapCalls]
    BY <2>2, <2>3 DEF Maps
  <2> QED
    BY <2>3, <2>4, <2>5
<1>2. \A c \in MapCalls : c # Call("exit")
  BY DEF MapCalls, Call
<1>3. Call("write") # Call("exit")
  BY DEF Call
<1> DEFINE w == <<Call("write")>>
           q == w \o Unmaps(a)
           s == q \o Maps(b)
           Plain == MapCalls \cup {Call("write")}
<1>4. s \in Seq(Plain)
  <2>1. w \in Seq(Plain) /\ Unmaps(a) \in Seq(Plain) /\ Maps(b) \in Seq(Plain)
    BY <1>1
  <2> QED
    BY <2>1
<1>5. \A c \in Plain : c # Call("exit")
  BY <1>2, <1>3
<1> HIDE DEF s, Plain
<1>6. /\ s \o Exit \in Seq(Plain \cup {Call("exit")})
      /\ Len(s \o Exit) = Len(s) + 1
      /\ \A i \in 1 .. Len(s) : (s \o Exit)[i] = s[i] /\ s[i] \in Plain
  BY <1>4 DEF Exit
<1>7. \A i \in 1 .. Len(s \o Exit) : (s \o Exit)[i] = Call("exit") => i = Len(s \o Exit)
  BY <1>4, <1>5, <1>6
<1>8. Plain \cup {Call("exit")} = HostCalls
  BY DEF Plain, HostCalls
<1> QED
  BY <1>6, <1>7, <1>8 DEF s

-----------------------------------------------------------------------------
(* The segments do not change.                                             *)
LEMMA SegmentsStay ==
  ASSUME [Next]_vars
  PROVE  seg' = seg /\ newtlb' = newtlb /\ Mappings' = Mappings /\ WantedSpace' = WantedSpace
<1>1. seg' = seg /\ newtlb' = newtlb
  BY DEF vars, Next, KernelStep, ThreadStep, touser, Fork, WaitStarted, kthread_loop,
         Traceme, DoMaps, CallEntry, CallPerformed, UserTrap, UserCall, HostSignal
<1> QED
  BY <1>1 DEF Mappings, WantedSpace

(* kthread_loop does one of three things.                                  *)
Ignored(u) == UNCHANGED <<run, mode, prog, regs, state, hsyscalls, stop>>

Continued(u) ==
  /\ Remapping(u) /\ hsyscalls[u]
  /\ stop[u] = "entry" => prog[u] # Exit
  /\ ptrace_cont(u, TRUE)
  /\ UNCHANGED <<prog, regs, state, hsyscalls, stop>>

Finished(u) ==
  /\ Remapping(u) /\ prog[u] = Exit
  /\ prog' = [prog EXCEPT ![u] = <<>>]
  /\ regs' = [regs EXCEPT ![u] = UserRegs]
  /\ state' = [state EXCEPT ![u] = "URunning"]
  /\ hsyscalls' = [hsyscalls EXCEPT ![u] = FALSE]
  /\ stop' = [stop EXCEPT ![u] = "none"]
  /\ ptrace_cont(u, FALSE)

LEMMA LoopCases ==
  ASSUME TypeOK, ThreadInv, NEW u \in Threads, kthread_loop(u)
  PROVE  Ignored(u) \/ Continued(u) \/ Finished(u)
<1>1. CASE stop[u] \in {"entry", "exit"} /\ hsyscalls[u] /\ state[u] = "URemapping"
  <2>1. handle_remap(u)
    BY <1>1 DEF kthread_loop
  <2>2. saved[u] = UserRegs
    BY <1>1 DEF ThreadInv, Remapping
  <2>3. CASE stop[u] = "entry" /\ prog[u] = Exit
    BY <1>1, <2>1, <2>2, <2>3 DEF handle_remap, Finished, Remapping
  <2>4. CASE ~(stop[u] = "entry" /\ prog[u] = Exit)
    <3>1. hsyscalls[u] = TRUE
      BY <1>1 DEF TypeOK
    <3> QED
      BY <1>1, <2>1, <2>4, <3>1 DEF handle_remap, Continued, Remapping
  <2> QED
    BY <2>3, <2>4
<1>2. CASE ~(stop[u] \in {"entry", "exit"} /\ hsyscalls[u] /\ state[u] = "URemapping")
  BY <1>2 DEF kthread_loop, Ignored
<1> QED
  BY <1>1, <1>2

(* touser starts the first thread in user code or in do_maps.              *)
Entered ==
  /\ UNCHANGED <<saved, upstk, hsyscalls>>
  /\ state' = [state EXCEPT ![First] = "URunning"]
  /\ regs' = [regs EXCEPT ![First] = UserRegs]
  /\ ptrace_cont(First, FALSE)

Started ==
  /\ hsyscalls' = [hsyscalls EXCEPT ![First] = TRUE]
  /\ state' = [state EXCEPT ![First] = "URemapping"]
  /\ saved' = [saved EXCEPT ![First] = UserRegs]
  /\ regs' = [regs EXCEPT ![First] = [eax |-> "zero", eip |-> "maps", esp |-> "upstk"]]
  /\ \E s \in Orders(Mappings) : upstk' = [upstk EXCEPT ![First] = s]
  /\ newtlb
  /\ ptrace_cont(First, TRUE)

LEMMA TouserCases ==
  ASSUME TypeOK, ThreadInv, touser
  PROVE  Entered \/ Started
<1>1. First \in Threads
  BY UThreadAssumption
<1>2. CASE ~newtlb
  <2>1. /\ UNCHANGED <<saved, upstk, hsyscalls>>
        /\ state' = [state EXCEPT ![First] = "URunning"]
        /\ regs' = [regs EXCEPT ![First] = UserRegs]
    BY <1>2 DEF touser, umem_remap
  <2>2. hsyscalls[First] = FALSE
    BY <1>1 DEF touser, ThreadInv, TypeOK, Remapping
  <2> QED
    BY <2>1, <2>2 DEF touser, Entered
<1>3. CASE newtlb
  <2>1. /\ state' = [state EXCEPT ![First] = "URemapping"]
        /\ saved' = [saved EXCEPT ![First] = UserRegs]
        /\ \E s \in Orders(Mappings) : upstk' = [upstk EXCEPT ![First] = s]
        /\ regs' = [regs EXCEPT ![First] = [eax |-> "zero", eip |-> "maps", esp |-> "upstk"]]
        /\ hsyscalls' = [hsyscalls EXCEPT ![First] = TRUE]
    BY <1>3 DEF touser, umem_remap
  <2>2. hsyscalls'[First] = TRUE
    BY <1>1, <2>1 DEF TypeOK
  <2> QED
    BY <1>3, <2>1, <2>2 DEF touser, Started
<1> QED
  BY <1>2, <1>3

-----------------------------------------------------------------------------
(* The call a thread performs is not the exit of do_maps.                  *)
LEMMA NotTheExit ==
  ASSUME TypeOK, ProgInv, ThreadInv, NEW u \in Threads, CallPerformed(u)
  PROVE  prog[u][1] \in HostCalls /\ prog[u][1].op # "exit"
<1>1. prog[u] \in Seq(HostCalls) /\ prog[u] # <<>> /\ prog[u][1] # Call("exit")
  BY DEF CallPerformed, ProgInv, ThreadInv
<1>2. prog[u][1] \in HostCalls
  BY <1>1
<1> QED
  BY <1>1, <1>2 DEF HostCalls, MapCalls, Call

LEMMA SurvivalStep ==
  ASSUME TypeOK, ProgInv, ThreadInv, NoThreadExits, [Next]_vars
  PROVE  NoThreadExits'
<1> SUFFICES ASSUME Next PROVE NoThreadExits'
  <2>1. CASE vars' = vars
    BY <2>1 DEF vars, host, NoThreadExits
  <2> QED
    BY <2>1
<1>1. CASE touser
  BY <1>1 DEF touser, ptrace_cont, NoThreadExits, TypeOK
<1>2. ASSUME NEW u \in Threads, Fork(u) \/ WaitStarted(u) PROVE NoThreadExits'
  BY <1>2 DEF Fork, WaitStarted, NoThreadExits, TypeOK
<1>3. ASSUME NEW u \in Threads, kthread_loop(u) PROVE NoThreadExits'
  <2>1. run' = run \/ run' = [run EXCEPT ![u] = "running"]
    BY <1>3, LoopCases DEF Ignored, Continued, Finished, ptrace_cont
  <2> QED
    BY <2>1 DEF NoThreadExits, TypeOK
<1>4. ASSUME NEW u \in Threads, CallPerformed(u) PROVE NoThreadExits'
  <2>1. prog[u] \in Seq(HostCalls) /\ prog[u] # <<>>
    BY <1>4 DEF ProgInv, CallPerformed
  <2>2. Head(prog[u]).op # "exit"
    BY <1>4, <2>1, NotTheExit
  <2>3. run' = [run EXCEPT ![u] = "stopped"]
    BY <1>4, <2>2 DEF CallPerformed, Stopped
  <2> QED
    BY <2>3 DEF NoThreadExits, TypeOK
<1>5. ASSUME NEW u \in Threads, Traceme(u) \/ DoMaps(u) \/ CallEntry(u) PROVE NoThreadExits'
  BY <1>5 DEF Traceme, DoMaps, CallEntry, Stopped, NoThreadExits, TypeOK
<1>6. ASSUME NEW u \in Threads, UserTrap(u) \/ UserCall(u) \/ HostSignal(u) PROVE NoThreadExits'
  BY <1>6 DEF UserTrap, UserCall, HostSignal, Stopped, NoThreadExits, TypeOK
<1> QED
  BY <1>1, <1>2, <1>3, <1>4, <1>5, <1>6 DEF Next, KernelStep, ThreadStep

(* Calls are done from the front, and new ones come with their exit last.  *)
LEMMA ProgStep ==
  ASSUME TypeOK, ProgInv, ThreadInv, [Next]_vars
  PROVE  ProgInv'
<1>1. Mappings' = Mappings
  BY SegmentsStay
<1>2. ASSUME UNCHANGED <<prog, curmap, upstk>> PROVE ProgInv'
  BY <1>1, <1>2 DEF ProgInv, HostCalls, MapCalls
<1>3. ASSUME NEW u \in Threads, NEW p \in Seq(HostCalls), prog' = [prog EXCEPT ![u] = p],
             \A i \in 1 .. Len(p) : p[i] = Call("exit") => i = Len(p),
             UNCHANGED <<curmap, upstk>>
      PROVE  ProgInv'
  <2>1. \A v \in Threads : prog'[v] = prog[v] \/ prog'[v] = p
    BY <1>3 DEF TypeOK
  <2> QED
    BY <1>1, <1>3, <2>1 DEF ProgInv, HostCalls, MapCalls
<1> SUFFICES ASSUME Next PROVE ProgInv'
  BY <1>2 DEF vars, host
<1>4. CASE touser
  <2>1. curmap' = curmap /\ prog' = prog
    BY <1>4 DEF touser
  <2>2. CASE Entered
    BY <1>2, <2>1, <2>2 DEF Entered
  <2>3. CASE Started
    <3>1. PICK s \in Seq(Mappings) : upstk' = [upstk EXCEPT ![First] = s]
      BY <2>3, OrdersAreSequences DEF Started
    <3>2. \A v \in Threads : upstk'[v] \in Seq(Mappings)
      BY <3>1 DEF ProgInv, TypeOK
    <3> QED
      <4>1. upstk' \in [Threads -> Seq(Mappings)]
        BY <3>1 DEF ProgInv
      <4> QED
        BY <1>1, <2>1, <4>1 DEF ProgInv, HostCalls, MapCalls
  <2> QED
    BY <1>4, <2>2, <2>3, TouserCases
<1>5. ASSUME NEW u \in Threads, Fork(u) \/ WaitStarted(u) PROVE ProgInv'
  BY <1>2, <1>5 DEF Fork, WaitStarted
<1>6. ASSUME NEW u \in Threads, kthread_loop(u) PROVE ProgInv'
  <2>1. UNCHANGED <<curmap, upstk>>
    BY <1>6 DEF kthread_loop
  <2>2. CASE Ignored(u) \/ Continued(u)
    BY <1>2, <2>1, <2>2 DEF Ignored, Continued
  <2>3. CASE Finished(u)
    <3>1. <<>> \in Seq(HostCalls) /\ Len(<<>>) = 0
      OBVIOUS
    <3>2. \A i \in 1 .. 0 : <<>>[i] = Call("exit") => i = 0
      OBVIOUS
    <3>3. prog' = [prog EXCEPT ![u] = <<>>]
      BY <2>3 DEF Finished
    <3> QED
      BY <1>3, <2>1, <3>1, <3>2, <3>3
  <2> QED
    BY <1>6, <2>2, <2>3, LoopCases
<1>7. ASSUME NEW u \in Threads, DoMaps(u) PROVE ProgInv'
  <2> DEFINE p == <<Call("write")>> \o Unmaps(curmap[u]) \o Maps(upstk[u]) \o Exit
  <2>1. curmap[u] \in Seq(Mappings) /\ upstk[u] \in Seq(Mappings)
    BY DEF ProgInv
  <2>2. p \in Seq(HostCalls) /\ \A i \in 1 .. Len(p) : p[i] = Call("exit") => i = Len(p)
    BY <2>1, DoMapsCalls
  <2>3. prog' = [prog EXCEPT ![u] = p] /\ curmap' = [curmap EXCEPT ![u] = upstk[u]] /\ upstk' = upstk
    BY <1>7 DEF DoMaps
  <2> HIDE DEF p
  <2>4. \A v \in Threads : prog'[v] = prog[v] \/ prog'[v] = p
    BY <2>3 DEF TypeOK
  <2>5. \A v \in Threads : curmap'[v] \in Seq(Mappings)
    BY <2>1, <2>3 DEF ProgInv
  <2> QED
    BY <1>1, <2>2, <2>3, <2>4, <2>5 DEF ProgInv, HostCalls, MapCalls
<1>8. ASSUME NEW u \in Threads, CallPerformed(u) PROVE ProgInv'
  <2>1. prog[u] \in Seq(HostCalls) /\ prog[u] # <<>>
    BY <1>8 DEF ProgInv, CallPerformed
  <2>2. /\ Tail(prog[u]) \in Seq(HostCalls)
        /\ Len(Tail(prog[u])) = Len(prog[u]) - 1
        /\ \A i \in 1 .. Len(Tail(prog[u])) : Tail(prog[u])[i] = prog[u][i + 1]
    BY <2>1
  <2>3. \A i \in 1 .. Len(Tail(prog[u])) :
          Tail(prog[u])[i] = Call("exit") => i = Len(Tail(prog[u]))
    <3> SUFFICES ASSUME NEW i \in 1 .. Len(Tail(prog[u])), prog[u][i + 1] = Call("exit")
                 PROVE  i = Len(Tail(prog[u]))
      BY <2>2
    <3>1. Len(prog[u]) \in Nat /\ i + 1 \in 1 .. Len(prog[u])
      BY <2>1, <2>2
    <3>2. i + 1 = Len(prog[u])
      BY <3>1 DEF ProgInv
    <3> QED
      BY <2>2, <3>1, <3>2
  <2>4. prog' = [prog EXCEPT ![u] = Tail(prog[u])] /\ UNCHANGED <<curmap, upstk>>
    BY <1>8 DEF CallPerformed
  <2> QED
    BY <1>3, <2>2, <2>3, <2>4
<1>9. ASSUME NEW u \in Threads, UserCall(u) PROVE ProgInv'
  <2>1. <<Call("write")>> \in Seq(HostCalls) /\ Len(<<Call("write")>>) = 1
    BY DEF HostCalls
  <2>3. \A i \in 1 .. Len(<<Call("write")>>) :
          <<Call("write")>>[i] = Call("exit") => i = Len(<<Call("write")>>)
    BY <2>1
  <2>2. prog' = [prog EXCEPT ![u] = <<Call("write")>>] /\ UNCHANGED <<curmap, upstk>>
    BY <1>9 DEF UserCall
  <2> QED
    BY <1>3, <2>1, <2>2, <2>3
<1>10. ASSUME NEW u \in Threads, Traceme(u) \/ CallEntry(u) \/ UserTrap(u) \/ HostSignal(u)
       PROVE  ProgInv'
  BY <1>2, <1>10 DEF Traceme, CallEntry, UserTrap, HostSignal
<1> QED
  BY <1>4, <1>5, <1>6, <1>7, <1>8, <1>9, <1>10 DEF Next, KernelStep, ThreadStep

-----------------------------------------------------------------------------
(* What a thread is doing and what the kernel believes it is doing agree.  *)
LEMMA ThreadStepInv ==
  ASSUME TypeOK, ProgInv, ThreadInv, [Next]_vars
  PROVE  ThreadInv'
<1> SUFFICES ASSUME Next PROVE ThreadInv'
  <2>1. CASE vars' = vars
    BY <2>1 DEF vars, uthread, host, ThreadInv, Remapping, InUserCode
  <2> QED
    BY <2>1
<1>1. UserRegs \in Regs /\ UserRegs.eip = "entry"
  BY DEF UserRegs, Regs
<1>2. CASE touser
  <2>1. First \in Threads
    BY UThreadAssumption
  <2>2. /\ kpc = "touser" /\ kpc' = "kthread_loop" /\ prog' = prog
        /\ stop' = [stop EXCEPT ![First] = "none"]
    BY <1>2 DEF touser
  <2>3. CASE Entered
    BY <1>1, <2>1, <2>2, <2>3, UThreadAssumption
    DEF Entered, ptrace_cont, ThreadInv, Remapping, InUserCode, TypeOK
  <2>4. CASE Started
    BY <1>1, <2>1, <2>2, <2>4, UThreadAssumption
    DEF Started, ptrace_cont, ThreadInv, Remapping, InUserCode, TypeOK, Regs
  <2> QED
    BY <1>2, <2>3, <2>4, TouserCases
<1>3. ASSUME NEW u \in Threads, Fork(u) PROVE ThreadInv'
  <2>1. [eax |-> "zero", eip |-> "fork", esp |-> "kstack"] \in Regs
    BY DEF Regs
  <2> QED
    BY <1>3, <2>1, UThreadAssumption DEF Fork, uthread, ThreadInv, Remapping, InUserCode, TypeOK
<1>4. ASSUME NEW u \in Threads, WaitStarted(u) PROVE ThreadInv'
  BY <1>4 DEF WaitStarted, ThreadInv, Remapping, InUserCode, TypeOK
<1>5. ASSUME NEW u \in Threads, kthread_loop(u) PROVE ThreadInv'
  <2>1. kpc = "kthread_loop" /\ UNCHANGED <<kpc, saved>>
    BY <1>5 DEF kthread_loop
  <2>2. CASE Ignored(u)
    BY <2>1, <2>2 DEF Ignored, ThreadInv, Remapping, InUserCode
  <2>3. CASE Continued(u)
    <3>1. ASSUME stop[u] = "entry" PROVE prog[u][1] # Call("exit")
      <4>1. prog[u] \in Seq(HostCalls) /\ prog[u] # <<>> /\ prog[u] # Exit
        BY <2>3, <3>1 DEF Continued, ProgInv, ThreadInv
      <4>2. ASSUME prog[u][1] = Call("exit") PROVE Len(prog[u]) = 1
        <5>1. 1 \in 1 .. Len(prog[u])
          BY <4>1
        <5> QED
          BY <4>2, <5>1 DEF ProgInv
      <4>3. ASSUME Len(prog[u]) = 1 PROVE prog[u] = <<prog[u][1]>>
        BY <4>1, <4>3
      <4> QED
        BY <4>1, <4>2, <4>3 DEF Exit
    <3>2. /\ run' = [run EXCEPT ![u] = "running"]
          /\ mode' = [mode EXCEPT ![u] = "SYSCALL"]
          /\ UNCHANGED <<prog, regs, state, hsyscalls, stop>>
          /\ Remapping(u)
      BY <2>3 DEF Continued, ptrace_cont
    <3> QED
      BY <2>1, <3>1, <3>2 DEF ThreadInv, Remapping, InUserCode, TypeOK
  <2>4. CASE Finished(u)
    BY <1>1, <2>1, <2>4, UThreadAssumption
    DEF Finished, ptrace_cont, ThreadInv, Remapping, InUserCode, TypeOK
  <2> QED
    BY <1>5, <2>2, <2>3, <2>4, LoopCases
<1>6. ASSUME NEW u \in Threads, Traceme(u) PROVE ThreadInv'
  <2>1. regs[u] # NoRegs /\ regs[u] \in Regs
    BY <1>6 DEF Traceme, ThreadInv, TypeOK
  <2>2. [regs[u] EXCEPT !.eip = "traceme"] \in Regs
    BY <2>1 DEF Regs
  <2>3. \A v \in Threads : regs'[v] = IF v = u THEN [regs[u] EXCEPT !.eip = "traceme"] ELSE regs[v]
    BY <1>6 DEF Traceme, TypeOK
  <2>4. regs'[u] # NoRegs /\ regs'[u].eip = "traceme"
    BY <2>1, <2>2, <2>3, UThreadAssumption DEF Regs
  <2>5. ~Remapping(u)
    BY <1>6 DEF Traceme, ThreadInv
  <2>6. /\ run' = [run EXCEPT ![u] = "stopped"] /\ stop' = [stop EXCEPT ![u] = "sigstop"]
        /\ mode' = [mode EXCEPT ![u] = "TRACED"]
        /\ UNCHANGED <<kpc, uthread, prog>>
    BY <1>6 DEF Traceme, Stopped
  <2>7. \A v \in Threads : v # u => regs'[v] = regs[v]
    BY <2>3
  <2> QED
    BY <2>1, <2>4, <2>5, <2>6, <2>7 DEF uthread, ThreadInv, Remapping, InUserCode, TypeOK
<1>7. ASSUME NEW u \in Threads, DoMaps(u) PROVE ThreadInv'
  <2>1. kpc = "kthread_loop" /\ stop[u] # "entry"
    BY <1>7 DEF DoMaps, ThreadInv
  <2>2. PICK p : prog' = [prog EXCEPT ![u] = p]
    BY <1>7 DEF DoMaps
  <2>3. UNCHANGED <<kpc, uthread, run, stop, mode, regs>>
    BY <1>7 DEF DoMaps
  <2> QED
    BY <2>1, <2>2, <2>3 DEF uthread, ThreadInv, Remapping, InUserCode, TypeOK
<1>8. ASSUME NEW u \in Threads, CallEntry(u) PROVE ThreadInv'
  BY <1>8 DEF CallEntry, Stopped, uthread, ThreadInv, Remapping, InUserCode, TypeOK
<1>9. ASSUME NEW u \in Threads, CallPerformed(u) PROVE ThreadInv'
  <2>1. Head(prog[u]).op # "exit"
    <3>1. prog[u] \in Seq(HostCalls) /\ prog[u] # <<>>
      BY <1>9 DEF ProgInv, CallPerformed
    <3> QED
      BY <1>9, <3>1, NotTheExit
  <2>2. /\ run' = [run EXCEPT ![u] = "stopped"] /\ stop' = [stop EXCEPT ![u] = "exit"]
        /\ UNCHANGED <<kpc, uthread, mode, regs>>
    BY <1>9, <2>1 DEF CallPerformed, Stopped
  <2>3. kpc = "kthread_loop" /\ run[u] = "running"
    BY <1>9 DEF CallPerformed, ThreadInv
  <2>4. PICK p : prog' = [prog EXCEPT ![u] = p]
    BY <1>9 DEF CallPerformed
  <2> QED
    BY <2>2, <2>3, <2>4 DEF uthread, ThreadInv, Remapping, InUserCode, TypeOK
<1>10. ASSUME NEW u \in Threads, UserTrap(u) \/ HostSignal(u) PROVE ThreadInv'
  BY <1>10 DEF UserTrap, HostSignal, Stopped, uthread, ThreadInv, Remapping, InUserCode, TypeOK
<1>11. ASSUME NEW u \in Threads, UserCall(u) PROVE ThreadInv'
  <2>1. kpc = "kthread_loop" /\ stop[u] # "entry"
    BY <1>11 DEF UserCall, ThreadInv
  <2>2. PICK p : prog' = [prog EXCEPT ![u] = p]
    BY <1>11 DEF UserCall
  <2>3. UNCHANGED <<kpc, uthread, run, stop, mode, regs>>
    BY <1>11 DEF UserCall
  <2> QED
    BY <2>1, <2>2, <2>3 DEF uthread, ThreadInv, Remapping, InUserCode, TypeOK
<1> QED
  BY <1>2, <1>3, <1>4, <1>5, <1>6, <1>7, <1>8, <1>9, <1>10, <1>11
  DEF Next, KernelStep, ThreadStep

-----------------------------------------------------------------------------
(* Every action keeps the types.                                           *)
LEMMA TypeStep ==
  ASSUME TypeOK, ProgInv, ThreadInv, ProgInv', NoThreadExits, [Next]_vars
  PROVE  TypeOK'
<1>1. seg' = seg /\ Mappings' = Mappings
  BY SegmentsStay
<1>2. \A u \in Threads :
        /\ \A ms \in {curmap'[u], upstk'[u]} : \A i \in DOMAIN ms : ms[i] \in Mappings
        /\ \A i \in DOMAIN prog'[u] :
             prog'[u][i] \in MapCalls \cup {Call("write"), Call("exit")}
  <2> SUFFICES ASSUME NEW u \in Threads
               PROVE  /\ \A i \in DOMAIN curmap'[u] : curmap'[u][i] \in Mappings
                      /\ \A i \in DOMAIN upstk'[u] : upstk'[u][i] \in Mappings
                      /\ \A i \in DOMAIN prog'[u] : prog'[u][i] \in HostCalls
    BY DEF HostCalls
  <2>1. /\ curmap'[u] \in Seq(Mappings) /\ upstk'[u] \in Seq(Mappings)
        /\ prog'[u] \in Seq(HostCalls)
    BY <1>1 DEF ProgInv, HostCalls, MapCalls
  <2> QED
    BY <2>1
(* The rest of TypeOK, part by part.                                       *)
<1> DEFINE Fixed == /\ kpc' \in {"uthreadinit", "touser", "kthread_loop"}
                    /\ newtlb' \in BOOLEAN
                    /\ state' \in [Threads -> {"UIdle", "URunning", "URemapping"}]
                    /\ hsyscalls' \in [Threads -> BOOLEAN] /\ proc' \in [Threads -> BOOLEAN]
                    /\ saved' \in [Threads -> {NoRegs, UserRegs}]
           Hosted == /\ run' \in [Threads -> {"none", "running", "stopped", "dead"}]
                     /\ stop' \in [Threads -> {"none", "sigstop", "entry", "exit", "segv",
                                               "signal", "exited"}]
                     /\ report' \subseteq Threads
                     /\ mode' \in [Threads -> {"untraced", "TRACED", "SYSCALL", "SYSEMU"}]
                     /\ regs' \in [Threads -> {NoRegs} \cup Regs]
                     /\ aspace' \in [Threads -> [Vas -> {NoMap} \cup
                                      [pa : Pas, prot : SUBSET {"R", "W", "X"}]]]
<1> SUFFICES Fixed /\ Hosted
  BY <1>1, <1>2 DEF TypeOK, MapCalls, Call
<1>3. CASE vars' = vars
  BY <1>3 DEF vars, uthread, host, TypeOK
<1> SUFFICES ASSUME Next PROVE Fixed /\ Hosted
  BY <1>3
<1>4. UserRegs \in Regs /\ [eax |-> "zero", eip |-> "maps", esp |-> "upstk"] \in Regs
      /\ [eax |-> "zero", eip |-> "fork", esp |-> "kstack"] \in Regs
  BY DEF UserRegs, Regs
<1>5. CASE touser
  <2>1. /\ kpc' = "kthread_loop" /\ stop' = [stop EXCEPT ![First] = "none"]
        /\ proc' = [proc EXCEPT ![First] = TRUE]
        /\ UNCHANGED <<newtlb, report, aspace>>
    BY <1>5 DEF touser
  <2>2. CASE Entered
    BY <1>4, <2>1, <2>2 DEF Entered, ptrace_cont, TypeOK
  <2>3. CASE Started
    BY <1>4, <2>1, <2>3 DEF Started, ptrace_cont, TypeOK
  <2> QED
    BY <1>5, <2>2, <2>3, TouserCases
<1>6. ASSUME NEW u \in Threads, Fork(u) \/ WaitStarted(u) PROVE Fixed /\ Hosted
  <2>1. CASE Fork(u)
    BY <1>4, <2>1 DEF Fork, uthread, TypeOK
  <2>2. CASE WaitStarted(u)
    <3>1. kpc' \in {"uthreadinit", "touser", "kthread_loop"}
      BY <2>2 DEF WaitStarted, TypeOK
    <3> QED
      BY <2>2, <3>1 DEF WaitStarted, TypeOK
  <2> QED
    BY <1>6, <2>1, <2>2
<1>7. ASSUME NEW u \in Threads, kthread_loop(u) PROVE Fixed /\ Hosted
  <2>1. report' = report \ {u} /\ UNCHANGED <<kpc, newtlb, proc, saved, aspace>>
    BY <1>7 DEF kthread_loop
  <2>2. CASE Ignored(u)
    BY <2>1, <2>2 DEF Ignored, TypeOK
  <2>3. CASE Continued(u)
    BY <2>1, <2>3 DEF Continued, ptrace_cont, TypeOK
  <2>4. CASE Finished(u)
    BY <1>4, <2>1, <2>4 DEF Finished, ptrace_cont, TypeOK
  <2> QED
    BY <1>7, <2>2, <2>3, <2>4, LoopCases
<1>8. ASSUME NEW u \in Threads, Traceme(u) PROVE Fixed /\ Hosted
  <2>1. regs[u] \in Regs
    BY <1>8 DEF Traceme, ThreadInv, TypeOK
  <2>2. [regs[u] EXCEPT !.eip = "traceme"] \in Regs
    BY <2>1 DEF Regs
  <2>3. regs' = [regs EXCEPT ![u] = [regs[u] EXCEPT !.eip = "traceme"]]
    BY <1>8 DEF Traceme
  <2>4. regs' \in [Threads -> {NoRegs} \cup Regs]
    BY <2>2, <2>3 DEF TypeOK
  <2> QED
    BY <1>8, <2>4 DEF Traceme, Stopped, uthread, TypeOK
<1>9. ASSUME NEW u \in Threads, CallPerformed(u) PROVE Fixed /\ Hosted
  <2>1. prog[u] \in Seq(HostCalls) /\ prog[u] # <<>>
    BY <1>9 DEF ProgInv, CallPerformed
  <2>2. Head(prog[u]) \in HostCalls /\ Head(prog[u]).op # "exit"
    BY <1>9, <2>1, NotTheExit
  <2>3. Stopped(u, "exit") /\ UNCHANGED <<kpc, newtlb, uthread, mode, regs>>
    BY <1>9, <2>2 DEF CallPerformed
  <2>4. aspace' \in [Threads -> [Vas -> {NoMap} \cup [pa : Pas, prot : SUBSET {"R", "W", "X"}]]]
    <3>1. CASE Head(prog[u]).op = "mmap"
      <4>1. Head(prog[u]) \in MapCalls
        BY <2>2, <3>1 DEF HostCalls, Call
      <4>2. host_mmap(aspace[u], Head(prog[u]))
              \in [Vas -> {NoMap} \cup [pa : Pas, prot : SUBSET {"R", "W", "X"}]]
        BY <4>1 DEF host_mmap, MapCalls, TypeOK
      <4>3. aspace' = [aspace EXCEPT ![u] = host_mmap(aspace[u], Head(prog[u]))]
        BY <1>9, <2>2, <3>1 DEF CallPerformed
      <4> QED
        BY <4>2, <4>3 DEF TypeOK
    <3>2. CASE Head(prog[u]).op # "mmap"
      BY <1>9, <2>2, <3>2 DEF CallPerformed, TypeOK
    <3> QED
      BY <3>1, <3>2
  <2> QED
    BY <2>3, <2>4 DEF Stopped, uthread, TypeOK
<1>10. ASSUME NEW u \in Threads, DoMaps(u) \/ CallEntry(u) \/ UserTrap(u) PROVE Fixed /\ Hosted
  BY <1>10 DEF DoMaps, CallEntry, UserTrap, Stopped, uthread, TypeOK
<1>11. ASSUME NEW u \in Threads, UserCall(u) \/ HostSignal(u) PROVE Fixed /\ Hosted
  BY <1>11 DEF UserCall, HostSignal, Stopped, uthread, TypeOK
<1> QED
  BY <1>5, <1>6, <1>7, <1>8, <1>9, <1>10, <1>11 DEF Next, KernelStep, ThreadStep

-----------------------------------------------------------------------------
(* At first no thread has been forked.                                     *)
LEMMA InitInv == Init => IndInv
<1> SUFFICES ASSUME Init PROVE IndInv
  OBVIOUS
<1>1. TypeOK /\ NoThreadExits
  BY DEF Init, TypeOK, NoThreadExits
<1>2. ProgInv
  BY DEF Init, ProgInv
<1>3. ThreadInv
  BY DEF Init, ThreadInv, Remapping, InUserCode
<1> QED
  BY <1>1, <1>2, <1>3 DEF IndInv

(* The kernel's view of its threads is right in every state.               *)
THEOREM Invariance == Spec => []IndInv
<1>1. IndInv /\ [Next]_vars => IndInv'
  BY ProgStep, ThreadStepInv, SurvivalStep, TypeStep DEF IndInv
<1> QED
  BY InitInv, <1>1, PTL DEF Spec

(* Every variable keeps its type.                                          *)
THEOREM TypeCorrect == Spec => []TypeOK
BY Invariance, PTL DEF IndInv

(* User code that runs is intercepted at its host system calls, whatever   *)
(* stops and signals there were.                                           *)
THEOREM UserCodeIsConfined == Spec => []UserIsConfined
<1>1. IndInv => UserIsConfined
  BY DEF IndInv, ThreadInv, UserIsConfined, Remapping
<1> QED
  BY Invariance, <1>1, PTL

(* No thread dies of the exit call that ends do_maps.                      *)
THEOREM ThreadsSurvive == Spec => []NoThreadExits
BY Invariance, PTL DEF IndInv

-----------------------------------------------------------------------------
(* What a remapping has done when do_maps still has the calls prog[u] to   *)
(* make: the pages of upstk whose calls are made are mapped as the process *)
(* wants them, and the others not at all.                                  *)
NoSpace == [v \in Vas |-> NoMap]

MapCall(m) == [op |-> "mmap", va |-> m.va, pa |-> m.pa, prot |-> m.prot]

(* Where the call for upstk[u][i] is in prog[u], if it is still to come.   *)
Pos(u, i) == i + Len(prog[u]) - (Len(upstk[u]) + 1)

Reached(u) == {upstk[u][i].va : i \in {j \in 1 .. Len(upstk[u]) : Pos(u, j) < 1}}

Midway(u) ==
  /\ Len(prog[u]) <= Len(upstk[u]) + 2
  /\ prog[u][Len(prog[u])] = Call("exit")
  /\ Len(prog[u]) = Len(upstk[u]) + 2 => prog[u][1] = Call("write")
  /\ \A i \in 1 .. Len(upstk[u]) : Pos(u, i) >= 1 => prog[u][Pos(u, i)] = MapCall(upstk[u][i])
  /\ \A v \in Vas : aspace[u][v] = IF v \in Reached(u) THEN WantedSpace[v] ELSE NoMap

ThreadSpace(u) ==
  /\ kpc # "kthread_loop" => aspace[u] = NoSpace /\ curmap[u] = <<>>
  /\ Remapping(u) => newtlb /\ upstk[u] \in Orders(Mappings)
  /\ Remapping(u) /\ prog[u] = <<>> => aspace[u] = NoSpace /\ curmap[u] = <<>>
  /\ Remapping(u) /\ prog[u] # <<>> => Midway(u)

SpaceInv == \A u \in Threads : ThreadSpace(u)

(* The pages a process wants are those of its mappings.                    *)
LEMMA WantedMapping ==
  ASSUME TypeOK, newtlb, NEW m \in Mappings
  PROVE  /\ m.va \in Vas
         /\ WantedSpace[m.va] = IF m.prot = {} THEN NoMap ELSE [pa |-> m.pa, prot |-> m.prot]
<1>1. PICK v \in Vas : seg[v] # NoMap /\ m = [va |-> v, pa |-> seg[v].pa, prot |-> segperm(seg[v].type)]
  BY DEF Mappings
<1>2. seg[v].type \in SegTypes
  BY <1>1 DEF TypeOK
<1>3. m.va = v /\ m.pa = seg[v].pa /\ m.prot = segperm(seg[v].type)
  BY <1>1
<1>4. m.prot = {} <=> seg[v].type \notin {"TEXT", "DATA"}
  BY <1>2, <1>3 DEF segperm, SegTypes
<1> QED
  BY <1>1, <1>3, <1>4 DEF WantedSpace

LEMMA UnwantedPage ==
  ASSUME TypeOK, NEW v \in Vas, \A m \in Mappings : m.va # v
  PROVE  WantedSpace[v] = NoMap
<1>1. seg[v] = NoMap
  <2> SUFFICES ASSUME seg[v] # NoMap PROVE FALSE
    OBVIOUS
  <2> DEFINE m == [va |-> v, pa |-> seg[v].pa, prot |-> segperm(seg[v].type)]
  <2>1. m \in Mappings
    BY DEF Mappings
  <2> QED
    BY <2>1
<1> QED
  BY <1>1 DEF WantedSpace

(* The arguments of do_maps list every mapping.                            *)
LEMMA OrdersAreComplete ==
  ASSUME TypeOK, NEW s \in Orders(Mappings)
  PROVE  s \in Seq(Mappings) /\ \A m \in Mappings : \E i \in 1 .. Len(s) : s[i] = m
<1> DEFINE Resident == {w \in Vas : seg[w] # NoMap}
           f == [v \in Resident |-> [va |-> v, pa |-> seg[v].pa, prot |-> segperm(seg[v].type)]]
<1>1. IsFiniteSet(Resident)
  BY UThreadAssumption, FS_Subset
<1>2. f \in Surjection(Resident, Mappings)
  BY DEF Surjection, Mappings
<1>3. IsFiniteSet(Mappings)
  BY <1>1, <1>2, FS_Surjection
<1> DEFINE n == Cardinality(Mappings)
<1>4. n \in Nat
  BY <1>3, FS_CardinalityType
<1>5. s \in [1 .. n -> Mappings] /\ \A i, j \in 1 .. n : s[i] = s[j] => i = j
  BY DEF Orders
<1>6. s \in Injection(1 .. n, Mappings)
  BY <1>5 DEF Injection, IsInjective
<1>7. Cardinality(1 .. n) = n
  BY <1>4, FS_Interval
<1>8. s \in Surjection(1 .. n, Mappings)
  BY <1>3, <1>6, <1>7, FS_Injection
<1>9. s \in Seq(Mappings) /\ Len(s) = n
  BY <1>4, <1>5
<1> QED
  BY <1>8, <1>9 DEF Surjection

(* When only the exit call is left the address space is the one wanted.    *)
LEMMA ExitMeansMapped ==
  ASSUME TypeOK, SpaceInv, NEW u \in Threads, Remapping(u), prog[u] = Exit
  PROVE  aspace[u] = WantedSpace
<1>1. newtlb /\ upstk[u] \in Orders(Mappings)
  BY DEF SpaceInv, ThreadSpace
<1>2. upstk[u] \in Seq(Mappings) /\ \A m \in Mappings : \E i \in 1 .. Len(upstk[u]) : upstk[u][i] = m
  BY <1>1, OrdersAreComplete
<1>3. prog[u] # <<>> /\ Len(prog[u]) = 1
  BY DEF Exit
<1>4. \A i \in 1 .. Len(upstk[u]) : Pos(u, i) < 1
  BY <1>2, <1>3 DEF Pos
<1>5. \A m \in Mappings : m.va \in Reached(u)
  BY <1>2, <1>4 DEF Reached
<1>6. \A v \in Vas : aspace[u][v] = IF v \in Reached(u) THEN WantedSpace[v] ELSE NoMap
  BY <1>3 DEF SpaceInv, ThreadSpace, Midway
<1>7. \A v \in Vas : v \notin Reached(u) => WantedSpace[v] = NoMap
  BY <1>5, UnwantedPage
<1>8. \A v \in Vas : aspace[u][v] = WantedSpace[v]
  BY <1>6, <1>7
<1>9. aspace[u] = [v \in Vas |-> aspace[u][v]]
  BY DEF TypeOK
<1>10. WantedSpace = [v \in Vas |-> WantedSpace[v]]
  BY DEF WantedSpace
<1> QED
  BY <1>8, <1>9, <1>10

LEMMA SpaceFrame ==
  ASSUME [Next]_vars, NEW u \in Threads, ThreadSpace(u),
         kpc' # "kthread_loop" => kpc # "kthread_loop",
         state'[u] = state[u], prog'[u] = prog[u], curmap'[u] = curmap[u],
         upstk'[u] = upstk[u], aspace'[u] = aspace[u]
  PROVE  ThreadSpace(u)'
<1>1. newtlb' = newtlb /\ Mappings' = Mappings /\ WantedSpace' = WantedSpace
  BY SegmentsStay
<1>2. Reached(u)' = Reached(u) /\ \A i \in 1 .. Len(upstk[u]) : Pos(u, i)' = Pos(u, i)
  BY DEF Reached, Pos
<1>3. Midway(u) => Midway(u)'
  BY <1>1, <1>2 DEF Midway
<1> QED
  BY <1>1, <1>3 DEF ThreadSpace, Remapping, NoSpace

(* do_maps starts with everything still to be mapped.                      *)
LEMMA DoMapsSpace ==
  ASSUME IndInv, SpaceInv, NEW u \in Threads, DoMaps(u), Remapping(u), newtlb' = newtlb
  PROVE  Midway(u)' /\ prog'[u] # <<>>
<1> DEFINE n == Len(upstk[u])
           m == Maps(upstk[u])
           w == <<Call("write")>>
<1>1. prog[u] = <<>> /\ aspace[u] = NoSpace /\ curmap[u] = <<>>
  BY DEF DoMaps, SpaceInv, ThreadSpace
<1>2. upstk[u] \in Seq(Mappings)
  BY DEF IndInv, ProgInv
<1>3. n \in Nat /\ DOMAIN upstk[u] = 1 .. n
  BY <1>2
<1>4. m \in Seq(MapCalls) /\ Len(m) = n /\ \A i \in 1 .. n : m[i] = MapCall(upstk[u][i])
  <2>1. \A i \in 1 .. n : MapCall(upstk[u][i]) \in MapCalls
    <3> SUFFICES ASSUME NEW i \in 1 .. n PROVE MapCall(upstk[u][i]) \in MapCalls
      OBVIOUS
    <3>1. upstk[u][i] \in Mappings
      BY <1>2
    <3> QED
      BY <3>1, MappingTypes DEF MapCall, MapCalls, IndInv
  <2>2. m = [i \in 1 .. n |-> MapCall(upstk[u][i])]
    BY <1>3 DEF Maps, MapCall
  <2> HIDE DEF m
  <2> QED
    BY <1>3, <2>1, <2>2
<1>5. Unmaps(curmap[u]) = <<>>
  BY <1>1 DEF Unmaps
<1> DEFINE p == w \o <<>> \o m \o Exit
<1>6. prog' = [prog EXCEPT ![u] = p] /\ UNCHANGED <<aspace, upstk>>
  BY <1>5 DEF DoMaps
<1>7. prog'[u] = p
  BY <1>6 DEF IndInv, ProgInv
<1> HIDE DEF m
<1>8. w \o <<>> = w /\ w \in Seq(HostCalls)
  BY DEF HostCalls
<1>9. Exit \in Seq(HostCalls) /\ Len(Exit) = 1 /\ Exit[1] = Call("exit")
  BY DEF Exit, HostCalls
<1>10. m \in Seq(HostCalls)
  BY <1>4 DEF HostCalls
<1> DEFINE q == w \o m
<1>11. q \in Seq(HostCalls) /\ Len(q) = n + 1 /\ q[1] = Call("write")
       /\ \A i \in 1 .. n : q[i + 1] = m[i]
  BY <1>3, <1>4, <1>8, <1>10
<1> HIDE DEF q
<1>12. /\ Len(q \o Exit) = n + 2 /\ (q \o Exit)[n + 2] = Call("exit")
       /\ \A i \in 1 .. n + 1 : (q \o Exit)[i] = q[i]
  <2> HIDE DEF n
  <2>1. Len(q) = n + 1 /\ q \in Seq(HostCalls) /\ Exit \in Seq(HostCalls)
    BY <1>9, <1>11
  <2>2. /\ Len(q \o Exit) = Len(q) + 1
        /\ \A i \in 1 .. Len(q) : (q \o Exit)[i] = q[i]
        /\ (q \o Exit)[Len(q) + 1] = Call("exit")
    BY <2>1 DEF Exit
  <2>3. (n + 1) + 1 = n + 2
    BY <1>3
  <2> QED
    BY <2>1, <2>2, <2>3
<1>13. p = q \o Exit
  BY <1>8 DEF q
<1> HIDE DEF p, w
<1>14. /\ Len(p) = n + 2 /\ p[n + 2] = Call("exit") /\ p[1] = Call("write")
       /\ \A i \in 1 .. n : p[i + 1] = MapCall(upstk[u][i])
  BY <1>3, <1>4, <1>11, <1>12, <1>13
<1>15. \A i \in 1 .. n : Pos(u, i)' = i + 1
  <2> SUFFICES ASSUME NEW i \in 1 .. n PROVE Pos(u, i)' = i + 1
    OBVIOUS
  <2>1. Pos(u, i)' = i + (n + 2) - (n + 1)
    BY <1>6, <1>7, <1>14 DEF Pos
  <2> HIDE DEF n
  <2> QED
    BY <1>3, <2>1
<1>16. Reached(u)' = {}
  BY <1>6, <1>15 DEF Reached
<1>17. \A v \in Vas : aspace'[u][v] = NoMap
  BY <1>1, <1>6 DEF NoSpace
<1> QED
  BY <1>3, <1>6, <1>7, <1>14, <1>15, <1>16, <1>17 DEF Midway

(* One call of do_maps maps one more of the pages.                         *)
LEMMA PerformedSpace ==
  ASSUME IndInv, SpaceInv, NEW u \in Threads, CallPerformed(u), Remapping(u), [Next]_vars
  PROVE  Midway(u)' /\ prog'[u] # <<>>
<1> DEFINE n == Len(upstk[u])
           l == Len(prog[u])
           k == n + 2 - l
           c == prog[u][1]
<1>1. prog[u] \in Seq(HostCalls) /\ prog[u] # <<>> /\ upstk[u] \in Seq(Mappings)
  BY DEF CallPerformed, IndInv, ProgInv
<1>2. newtlb /\ Midway(u)
  BY <1>1 DEF SpaceInv, ThreadSpace
<1>3. c \in HostCalls /\ c.op # "exit" /\ Head(prog[u]) = c
  BY <1>1, NotTheExit DEF IndInv
<1>4. l \in Nat /\ l >= 2 /\ n \in Nat /\ l <= n + 2
  <2>1. l \in Nat /\ l >= 1 /\ n \in Nat
    BY <1>1
  <2>2. l # 1 /\ l <= n + 2
    BY <1>2, <1>3 DEF Midway, Call
  <2> HIDE DEF l, n
  <2> QED
    BY <2>1, <2>2
<1>5. /\ prog' = [prog EXCEPT ![u] = Tail(prog[u])]
      /\ UNCHANGED <<upstk, newtlb>>
      /\ aspace' = IF c.op = "mmap" THEN [aspace EXCEPT ![u] = host_mmap(aspace[u], c)] ELSE aspace
  BY <1>3 DEF CallPerformed
<1>6. /\ prog'[u] = Tail(prog[u]) /\ Len(prog'[u]) = l - 1
      /\ \A i \in 1 .. l - 1 : prog'[u][i] = prog[u][i + 1]
  <2>1. prog'[u] = Tail(prog[u])
    BY <1>5 DEF IndInv, ProgInv
  <2> QED
    BY <1>1, <1>4, <2>1
<1>7. \A i \in 1 .. n : /\ Pos(u, i) = i + l - (n + 1) /\ Pos(u, i)' = i + l - (n + 2)
                        /\ Pos(u, i)' = Pos(u, i) - 1 /\ Pos(u, i) \in Int /\ Pos(u, i) < l
                        /\ (Pos(u, i) = 1 <=> i = k)
  <2> SUFFICES ASSUME NEW i \in 1 .. n
               PROVE  Pos(u, i) = i + l - (n + 1) /\ Pos(u, i)' = i + l - (n + 2)
    <3> HIDE DEF l, n
    <3> QED
      BY <1>4
  <2>1. Pos(u, i) = i + l - (n + 1)
    BY DEF Pos
  <2>2. Pos(u, i)' = i + (l - 1) - (n + 1)
    BY <1>5, <1>6 DEF Pos
  <2> HIDE DEF l, n
  <2> QED
    BY <1>4, <2>1, <2>2
<1>8. \A i \in 1 .. n : Pos(u, i)' >= 1 => prog'[u][Pos(u, i)'] = MapCall(upstk[u][i])
  <2> SUFFICES ASSUME NEW i \in 1 .. n, Pos(u, i)' >= 1
               PROVE  prog'[u][Pos(u, i)'] = MapCall(upstk[u][i])
    OBVIOUS
  <2> DEFINE j == Pos(u, i)
  <2>1. j \in Int /\ j - 1 >= 1 /\ j < l /\ Pos(u, i)' = j - 1
    BY <1>7
  <2>2. prog[u][j] = MapCall(upstk[u][i])
    BY <1>2, <2>1 DEF Midway
  <2> HIDE DEF j
  <2>3. j - 1 \in 1 .. l - 1 /\ (j - 1) + 1 = j
    BY <1>4, <2>1
  <2>4. prog'[u][j - 1] = prog[u][(j - 1) + 1]
    BY <1>6, <2>3
  <2> QED
    BY <2>1, <2>2, <2>3, <2>4
<1>9. prog'[u][Len(prog'[u])] = Call("exit")
  BY <1>2, <1>4, <1>6 DEF Midway
<1>10. \A v \in Vas : aspace'[u][v] = IF v \in Reached(u)' THEN WantedSpace[v] ELSE NoMap
  <2>1. CASE l = n + 2
    <3>1. c = Call("write")
      BY <1>2, <2>1 DEF Midway
    <3>2. aspace' = aspace
      BY <1>5, <3>1 DEF Call
    <3>3. \A i \in 1 .. n : Pos(u, i) >= 1 /\ Pos(u, i)' >= 1
      <4> HIDE DEF n, l
      <4> QED
        BY <1>4, <1>7, <2>1
    <3>4. Reached(u) = {} /\ Reached(u)' = {}
      <4>1. \A i \in 1 .. n : ~(Pos(u, i) < 1) /\ ~(Pos(u, i)' < 1)
        <5> HIDE DEF n, l
        <5> QED
          BY <1>4, <1>7, <3>3
      <4> QED
        BY <1>5, <4>1 DEF Reached
    <3> QED
      BY <1>2, <3>2, <3>4 DEF Midway
  <2>2. CASE l # n + 2
    <3>1. k \in 1 .. n
      <4> HIDE DEF n, l
      <4> QED
        BY <1>4, <2>2 DEF k
    <3> DEFINE m == upstk[u][k]
    <3>2. m \in Mappings
      <4> HIDE DEF k
      <4> QED
        BY <1>1, <3>1
    <3>3. Pos(u, k) = 1
      BY <1>7, <3>1
    <3>4. c = MapCall(m)
      <4> HIDE DEF k
      <4>1. \A i \in 1 .. n : Pos(u, i) >= 1 => prog[u][Pos(u, i)] = MapCall(upstk[u][i])
        BY <1>2 DEF Midway
      <4> QED
        BY <3>1, <3>3, <4>1
    <3>5. /\ m.va \in Vas
          /\ WantedSpace[m.va] = IF m.prot = {} THEN NoMap ELSE [pa |-> m.pa, prot |-> m.prot]
      BY <1>2, <3>2, WantedMapping DEF IndInv
    <3>6. Reached(u)' = Reached(u) \cup {m.va}
      <4>1. \A i \in 1 .. n : Pos(u, i)' < 1 <=> Pos(u, i) < 1 \/ i = k
        <5> HIDE DEF n, k, l
        <5> QED
          BY <1>7
      <4>2. Reached(u)' = {upstk[u][i].va : i \in {j \in 1 .. n : Pos(u, j)' < 1}}
        BY <1>5 DEF Reached
      <4> HIDE DEF n, k, m
      <4>3. {j \in 1 .. n : Pos(u, j)' < 1} = {j \in 1 .. n : Pos(u, j) < 1} \cup {k}
        BY <3>1, <4>1
      <4> QED
        BY <4>2, <4>3 DEF Reached, n, m
    <3>7. aspace' = [aspace EXCEPT ![u] = host_mmap(aspace[u], c)]
      BY <1>5, <3>4 DEF MapCall
    <3>8. aspace'[u] = host_mmap(aspace[u], c)
      BY <3>7 DEF IndInv, TypeOK
    <3>9. aspace[u] \in [Vas -> {NoMap} \cup [pa : Pas, prot : SUBSET {"R", "W", "X"}]]
      BY DEF IndInv, TypeOK
    <3>10. \A v \in Vas : aspace'[u][v] = IF v = m.va THEN WantedSpace[m.va] ELSE aspace[u][v]
      <4> HIDE DEF m
      <4>1. c.va = m.va /\ c.pa = m.pa /\ c.prot = m.prot
        BY <3>4 DEF MapCall
      <4> HIDE DEF c
      <4> QED
        BY <3>5, <3>8, <3>9, <4>1 DEF host_mmap
    <3> HIDE DEF m
    <3> QED
      BY <1>2, <3>6, <3>10 DEF Midway
  <2> QED
    BY <2>1, <2>2
<1>11. WantedSpace' = WantedSpace
  BY SegmentsStay
<1>12. Len(prog'[u]) # Len(upstk'[u]) + 2 /\ Len(prog'[u]) <= Len(upstk'[u]) + 2
  <2>1. Len(prog'[u]) = l - 1 /\ Len(upstk'[u]) = n
    BY <1>5, <1>6
  <2> HIDE DEF l, n
  <2> QED
    BY <1>4, <2>1
<1>13. prog'[u] # <<>>
  BY <1>4, <1>6
<1>14. Midway(u)'
  <2>1. upstk' = upstk
    BY <1>5
  <2>2. \A i \in 1 .. Len(upstk'[u]) : Pos(u, i)' >= 1 => prog'[u][Pos(u, i)'] = MapCall(upstk'[u][i])
    BY <1>8, <2>1
  <2>3. \A v \in Vas : aspace'[u][v] = IF v \in Reached(u)' THEN WantedSpace'[v] ELSE NoMap
    BY <1>10, <1>11
  <2> HIDE DEF n, l, k, c
  <2> QED
    BY <1>9, <1>12, <2>2, <2>3 DEF Midway, MapCall
<1> QED
  BY <1>13, <1>14

LEMMA SpaceStep ==
  ASSUME IndInv, IndInv', SpaceInv, [Next]_vars
  PROVE  SpaceInv'
<1>1. newtlb' = newtlb /\ Mappings' = Mappings /\ WantedSpace' = WantedSpace
  BY SegmentsStay
(* A thread whose own remapping a step does not touch.                     *)
<1> DEFINE Untouched(v) == /\ state'[v] = state[v] /\ prog'[v] = prog[v] /\ curmap'[v] = curmap[v]
                           /\ upstk'[v] = upstk[v] /\ aspace'[v] = aspace[v]
           Kept == kpc' # "kthread_loop" => kpc # "kthread_loop"
<1>2. ASSUME NEW v \in Threads, Untouched(v), Kept PROVE ThreadSpace(v)'
  BY <1>2, SpaceFrame DEF SpaceInv
<1> HIDE DEF Untouched, Kept
<1> SUFFICES ASSUME NEW v \in Threads PROVE ThreadSpace(v)'
  BY DEF SpaceInv
<1>3. CASE vars' = vars
  <2>1. Untouched(v) /\ Kept
    BY <1>3 DEF vars, uthread, host, Untouched, Kept
  <2> QED
    BY <1>2, <2>1
<1>4. CASE touser
  <2>1. First \in Threads
    BY UThreadAssumption
  <2>2. kpc = "touser" /\ kpc' = "kthread_loop" /\ UNCHANGED <<prog, aspace, curmap>>
    BY <1>4 DEF touser
  <2>3. Kept
    BY <2>2 DEF Kept
  <2>4. ASSUME v # First PROVE ThreadSpace(v)'
    <3>1. Untouched(v)
      <4>1. CASE Entered
        BY <2>2, <2>4, <4>1 DEF Entered, IndInv, TypeOK, Untouched
      <4>2. CASE Started
        BY <2>2, <2>4, <4>2 DEF Started, IndInv, TypeOK, Untouched
      <4> QED
        BY <1>4, <4>1, <4>2, TouserCases DEF IndInv
    <3> QED
      BY <1>2, <2>3, <3>1
  <2>5. ASSUME v = First PROVE ThreadSpace(v)'
    <3>1. prog[v] = <<>> /\ aspace[v] = NoSpace /\ curmap[v] = <<>>
      BY <2>2 DEF IndInv, ThreadInv, SpaceInv, ThreadSpace
    <3>2. CASE Entered
      <4>1. ~Remapping(v)'
        BY <2>5, <3>2 DEF Entered, IndInv, TypeOK, Remapping
      <4> QED
        BY <2>2, <4>1 DEF ThreadSpace
    <3>3. CASE Started
      <4>1. newtlb' /\ upstk'[v] \in Orders(Mappings)
        BY <1>1, <2>5, <3>3 DEF Started, IndInv, ProgInv
      <4>2. prog'[v] = <<>> /\ aspace'[v] = NoSpace /\ curmap'[v] = <<>>
        BY <2>2, <3>1
      <4> QED
        BY <1>1, <2>2, <4>1, <4>2 DEF ThreadSpace, NoSpace
    <3> QED
      BY <1>4, <3>2, <3>3, TouserCases DEF IndInv
  <2> QED
    BY <2>4, <2>5
<1>5. ASSUME NEW u \in Threads, Fork(u) \/ WaitStarted(u) PROVE ThreadSpace(v)'
  <2>1. kpc # "kthread_loop" /\ state'[v] = state[v]
    <3>1. CASE Fork(u)
      BY <3>1 DEF Fork, uthread
    <3>2. CASE WaitStarted(u)
      BY <3>2 DEF WaitStarted, IndInv, ThreadInv, TypeOK
    <3> QED
      BY <1>5, <3>1, <3>2
  <2>2. UNCHANGED <<prog, curmap, upstk, aspace>>
    BY <1>5 DEF Fork, WaitStarted
  <2> QED
    BY <1>2, <2>1, <2>2 DEF Untouched, Kept
<1>6. ASSUME NEW u \in Threads, kthread_loop(u) PROVE ThreadSpace(v)'
  <2>1. kpc = "kthread_loop" /\ UNCHANGED <<kpc, aspace, curmap, upstk>>
    BY <1>6 DEF kthread_loop
  <2>2. CASE Ignored(u) \/ Continued(u)
    BY <1>2, <2>1, <2>2 DEF Ignored, Continued, Untouched, Kept
  <2>3. CASE Finished(u)
    <3>1. CASE v = u
      <4>1. ~Remapping(v)'
        BY <2>3, <3>1 DEF Finished, IndInv, TypeOK, Remapping
      <4> QED
        BY <2>1, <4>1 DEF ThreadSpace
    <3>2. CASE v # u
      <4>1. Untouched(v)
        BY <2>1, <2>3, <3>2 DEF Finished, IndInv, TypeOK, ProgInv, Untouched
      <4> QED
        BY <1>2, <2>1, <4>1 DEF Kept
    <3> QED
      BY <3>1, <3>2
  <2> QED
    BY <1>6, <2>2, <2>3, LoopCases DEF IndInv
<1>7. ASSUME NEW u \in Threads, Traceme(u) \/ CallEntry(u) \/ UserTrap(u) \/ HostSignal(u)
      PROVE  ThreadSpace(v)'
  <2>1. UNCHANGED <<kpc, state, prog, curmap, upstk, aspace>>
    BY <1>7 DEF Traceme, CallEntry, UserTrap, HostSignal, uthread
  <2> QED
    BY <1>2, <2>1 DEF Untouched, Kept
<1>8. ASSUME NEW u \in Threads, UserCall(u) PROVE ThreadSpace(v)'
  <2>1. /\ UNCHANGED <<kpc, state, curmap, upstk, aspace>>
        /\ prog' = [prog EXCEPT ![u] = <<Call("write")>>]
        /\ run[u] = "running" /\ regs[u].eip = "entry"
    BY <1>8 DEF UserCall, uthread
  <2>2. kpc = "kthread_loop" /\ ~Remapping(u)
    BY <2>1 DEF IndInv, ThreadInv
  <2>3. CASE v = u
    <3>1. ~Remapping(v)'
      BY <2>1, <2>2, <2>3 DEF Remapping
    <3> QED
      BY <2>1, <2>2, <3>1 DEF ThreadSpace
  <2>4. CASE v # u
    BY <1>2, <2>1, <2>4 DEF IndInv, ProgInv, Untouched, Kept
  <2> QED
    BY <2>3, <2>4
<1>9. ASSUME NEW u \in Threads, DoMaps(u) PROVE ThreadSpace(v)'
  <2>1. /\ UNCHANGED <<kpc, state, upstk, aspace>>
        /\ \E p : prog' = [prog EXCEPT ![u] = p]
        /\ curmap' = [curmap EXCEPT ![u] = upstk[u]]
        /\ run[u] = "running" /\ regs[u].eip = "maps"
    BY <1>9 DEF DoMaps, uthread
  <2>2. kpc = "kthread_loop"
    BY <2>1 DEF IndInv, ThreadInv
  <2>3. CASE v = u
    <3>1. CASE Remapping(u)
      <4>1. Midway(u)' /\ prog'[u] # <<>>
        BY <1>1, <1>9, <3>1, DoMapsSpace
      <4>2. newtlb' /\ upstk'[u] \in Orders(Mappings)
        BY <1>1, <2>1, <3>1 DEF SpaceInv, ThreadSpace
      <4> QED
        BY <1>1, <2>1, <2>2, <2>3, <4>1, <4>2 DEF ThreadSpace
    <3>2. CASE ~Remapping(u)
      BY <2>1, <2>2, <2>3, <3>2 DEF ThreadSpace, Remapping
    <3> QED
      BY <3>1, <3>2
  <2>4. CASE v # u
    BY <1>2, <2>1, <2>4 DEF IndInv, ProgInv, Untouched, Kept
  <2> QED
    BY <2>3, <2>4
<1>10. ASSUME NEW u \in Threads, CallPerformed(u) PROVE ThreadSpace(v)'
  <2>1. /\ UNCHANGED <<kpc, state, upstk, curmap>>
        /\ prog' = [prog EXCEPT ![u] = Tail(prog[u])]
        /\ \E a : aspace' = aspace \/ aspace' = [aspace EXCEPT ![u] = a]
        /\ run[u] = "running" /\ prog[u] # <<>>
    BY <1>10 DEF CallPerformed, uthread
  <2>2. kpc = "kthread_loop"
    BY <2>1 DEF IndInv, ThreadInv
  <2>3. CASE v = u
    <3>1. CASE Remapping(u)
      <4>1. Midway(u)' /\ prog'[u] # <<>>
        BY <1>10, <3>1, PerformedSpace
      <4>2. newtlb' /\ upstk'[u] \in Orders(Mappings)
        BY <1>1, <2>1, <3>1 DEF SpaceInv, ThreadSpace
      <4> QED
        BY <1>1, <2>1, <2>2, <2>3, <4>1, <4>2 DEF ThreadSpace
    <3>2. CASE ~Remapping(u)
      BY <2>1, <2>2, <2>3, <3>2 DEF ThreadSpace, Remapping
    <3> QED
      BY <3>1, <3>2
  <2>4. CASE v # u
    BY <1>2, <2>1, <2>4 DEF IndInv, ProgInv, TypeOK, Untouched, Kept
  <2> QED
    BY <2>3, <2>4
<1> QED
  BY <1>3, <1>4, <1>5, <1>6, <1>7, <1>8, <1>9, <1>10 DEF Next, KernelStep, ThreadStep

(* do_maps never maps a page the process does not want.                    *)
LEMMA SpaceInvariance == Spec => []SpaceInv
<1>1. Init => SpaceInv
  BY DEF Init, SpaceInv, ThreadSpace, NoSpace, Remapping
<1> QED
  BY <1>1, Invariance, SpaceStep, PTL DEF Spec

-----------------------------------------------------------------------------
(* User code sees nothing of a step that leaves its registers and its      *)
(* address space alone.                                                    *)
LEMMA ViewKept ==
  ASSUME NEW v \in Threads, regs'[v] = regs[v], InUserCode(v) => aspace'[v] = aspace[v]
  PROVE  View'[v] = View[v]
BY DEF View, InUserCode

(* The step that first shows a thread user code shows all of it.           *)
LEMMA EnterStep ==
  ASSUME IndInv, NEW u \in Threads, ~InUserCode(u), regs'[u] = UserRegs,
         aspace'[u] = WantedSpace, WantedSpace' = WantedSpace,
         \A v \in Threads \ {u} : View'[v] = View[v]
  PROVE  Switch!Enter(u)
<1>1. View[u] = NoRegs
  BY DEF View
<1>2. InUserCode(u)'
  BY UThreadAssumption DEF InUserCode, UserRegs, Regs
<1>3. View'[u] = [regs |-> UserRegs, space |-> WantedSpace]
  BY <1>2 DEF View
<1> DEFINE w == [View EXCEPT ![u] = [regs |-> UserRegs, space |-> WantedSpace]]
<1>4. View = [v \in Threads |-> View[v]] /\ View' = [v \in Threads |-> View'[v]]
  BY DEF View
<1>5. w = [v \in Threads |-> IF v = u THEN [regs |-> UserRegs, space |-> WantedSpace] ELSE View[v]]
  BY <1>4
<1>6. View' = w
  BY <1>3, <1>4, <1>5
<1> QED
  BY <1>1, <1>6 DEF Switch!Enter

LEMMA SwitchStep ==
  ASSUME IndInv, SpaceInv, [Next]_vars
  PROVE  [Switch!Next]_(Switch!vars)
<1>1. WantedSpace' = WantedSpace
  BY SegmentsStay
<1>2. ASSUME \A v \in Threads : View'[v] = View[v] PROVE UNCHANGED Switch!vars
  <2>1. View = [v \in Threads |-> View[v]] /\ View' = [v \in Threads |-> View'[v]]
    BY DEF View
  <2>2. View' = View
    BY <1>2, <2>1
  <2> QED
    BY <1>1, <2>2 DEF Switch!vars
<1>3. CASE vars' = vars
  <2>1. \A v \in Threads : View'[v] = View[v]
    BY <1>3, ViewKept DEF vars, host
  <2> QED
    BY <1>2, <2>1
<1>4. CASE touser
  <2>1. First \in Threads
    BY UThreadAssumption
  <2>2. kpc = "touser" /\ UNCHANGED <<aspace>>
    BY <1>4 DEF touser
  <2>3. ~InUserCode(First)
    BY <2>1, <2>2 DEF IndInv, ThreadInv, InUserCode
  <2>4. CASE Entered
    <3>1. regs' = [regs EXCEPT ![First] = UserRegs]
      BY <2>4 DEF Entered
    <3>2. \A v \in Threads \ {First} : View'[v] = View[v]
      BY <2>2, <3>1, ViewKept DEF IndInv, TypeOK
    <3>3. regs'[First] = UserRegs
      BY <2>1, <3>1 DEF IndInv, TypeOK
    <3>4. ~newtlb
      BY <1>4, <2>1, <2>4 DEF touser, umem_remap, Entered, IndInv, TypeOK
    <3>5. aspace'[First] = WantedSpace
      BY <2>1, <2>2, <3>4 DEF SpaceInv, ThreadSpace, NoSpace, WantedSpace
    <3> QED
      BY <1>1, <2>1, <2>3, <3>2, <3>3, <3>5, EnterStep DEF Switch!Next
  <2>5. CASE Started
    <3>1. regs' = [regs EXCEPT ![First] = [eax |-> "zero", eip |-> "maps", esp |-> "upstk"]]
      BY <2>5 DEF Started
    <3>2. \A v \in Threads \ {First} : View'[v] = View[v]
      BY <2>2, <3>1, ViewKept DEF IndInv, TypeOK
    <3>3. regs'[First] = [eax |-> "zero", eip |-> "maps", esp |-> "upstk"]
      BY <2>1, <3>1 DEF IndInv, TypeOK
    <3>4. ~InUserCode(First)'
      BY <3>3 DEF InUserCode
    <3>5. View'[First] = View[First]
      BY <2>1, <2>3, <3>4 DEF View
    <3> QED
      BY <1>2, <3>2, <3>5
  <2> QED
    BY <1>4, <2>4, <2>5, TouserCases DEF IndInv
<1>5. ASSUME NEW u \in Threads, kthread_loop(u) PROVE [Switch!Next]_(Switch!vars)
  <2>1. UNCHANGED aspace
    BY <1>5 DEF kthread_loop
  <2>2. CASE Ignored(u) \/ Continued(u)
    BY <1>2, <2>1, <2>2, ViewKept DEF Ignored, Continued
  <2>3. CASE Finished(u)
    <3>1. Remapping(u) /\ prog[u] = Exit /\ regs' = [regs EXCEPT ![u] = UserRegs]
      BY <2>3 DEF Finished
    <3>2. aspace'[u] = WantedSpace
      BY <2>1, <3>1, ExitMeansMapped DEF IndInv
    <3>3. ~InUserCode(u)
      BY <3>1 DEF IndInv, ThreadInv, InUserCode
    <3>4. regs'[u] = UserRegs /\ \A v \in Threads \ {u} : regs'[v] = regs[v]
      BY <3>1 DEF IndInv, TypeOK
    <3>5. \A v \in Threads \ {u} : View'[v] = View[v]
      BY <2>1, <3>4, ViewKept
    <3> QED
      BY <1>1, <3>2, <3>3, <3>4, <3>5, EnterStep DEF Switch!Next
  <2> QED
    BY <1>5, <2>2, <2>3, LoopCases DEF IndInv
<1>6. ASSUME NEW u \in Threads, CallPerformed(u) PROVE [Switch!Next]_(Switch!vars)
  <2>1. /\ UNCHANGED regs /\ mode[u] = "SYSCALL"
        /\ \E a : aspace' = aspace \/ aspace' = [aspace EXCEPT ![u] = a]
    BY <1>6 DEF CallPerformed
  <2>2. ~InUserCode(u)
    BY <2>1 DEF IndInv, ThreadInv
  <2>3. \A v \in Threads : InUserCode(v) => aspace'[v] = aspace[v]
    BY <2>1, <2>2 DEF IndInv, TypeOK
  <2> QED
    BY <1>2, <2>1, <2>3, ViewKept
<1>7. ASSUME NEW u \in Threads, Fork(u) \/ Traceme(u) PROVE [Switch!Next]_(Switch!vars)
  <2>1. UNCHANGED aspace /\ \A v \in Threads \ {u} : regs'[v] = regs[v]
    BY <1>7 DEF Fork, Traceme, IndInv, TypeOK
  <2>2. ~InUserCode(u) /\ ~InUserCode(u)'
    <3>1. CASE Fork(u)
      <4>1. kpc = "uthreadinit" /\ regs'[u] = [eax |-> "zero", eip |-> "fork", esp |-> "kstack"]
        BY <3>1 DEF Fork, IndInv, TypeOK
      <4> QED
        BY <4>1 DEF IndInv, ThreadInv, InUserCode
    <3>2. CASE Traceme(u)
      <4>1. regs[u].eip = "fork" /\ regs' = [regs EXCEPT ![u] = [regs[u] EXCEPT !.eip = "traceme"]]
            /\ run[u] = "running"
        BY <3>2 DEF Traceme
      <4>2. regs[u] \in Regs
        BY <4>1 DEF IndInv, ThreadInv, TypeOK
      <4>3. regs'[u].eip = "traceme"
        BY <4>1, <4>2 DEF IndInv, TypeOK, Regs
      <4> QED
        BY <4>1, <4>3 DEF InUserCode
    <3> QED
      BY <1>7, <3>1, <3>2
  <2>3. View'[u] = View[u]
    BY <2>2 DEF View
  <2>4. \A v \in Threads \ {u} : View'[v] = View[v]
    BY <2>1, ViewKept
  <2> QED
    BY <1>2, <2>3, <2>4
<1>8. ASSUME NEW u \in Threads,
             WaitStarted(u) \/ DoMaps(u) \/ CallEntry(u) \/ UserTrap(u) \/ UserCall(u) \/ HostSignal(u)
      PROVE  [Switch!Next]_(Switch!vars)
  <2>1. UNCHANGED <<regs, aspace>>
    BY <1>8 DEF WaitStarted, DoMaps, CallEntry, UserTrap, UserCall, HostSignal
  <2> QED
    BY <1>2, <2>1, ViewKept
<1> QED
  BY <1>3, <1>4, <1>5, <1>6, <1>7, <1>8 DEF Next, KernelStep, ThreadStep

(* uthread.c implements UserSwitch: a thread enters user code once, in one *)
(* step, with the registers touser gave it and exactly the pages of its    *)
(* segments mapped, whatever order they are mapped in and whatever stops   *)
(* come between; afterwards the kernel changes neither.                    *)
THEOREM SwitchRefinement == Spec => EntersUserCodeAtomically
<1>1. Init => Switch!Init
  BY DEF Init, Switch!Init, View, InUserCode
<1> QED
  BY <1>1, Invariance, SpaceInvariance, SwitchStep, PTL
  DEF Spec, EntersUserCodeAtomically, Switch!Spec
=============================================================================
