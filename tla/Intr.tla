-------------------------------- MODULE Intr ---------------------------------
(* Interrupts: the table of handlers and the dispatch of trap.c over the two *)
(* interrupt controllers that i8259.c programs.  The architecture's intr     *)
(* functions are those of i8259.c (archgeneric of this build has stubs that  *)
(* enable nothing).  One processor: trap runs with interrupts off, and       *)
(* intrenable and intrdisable hold vctllock by ilock, so neither is          *)
(* interrupted; devices raise and drop their lines at any moment.            *)
(*                                                                           *)
(* The chips, from how i8259.c sets them up, the devices and what drivers do *)
(* to them are external.  A vector is its irq, a handler its device; the     *)
(* fields isr and eoi of a handler follow from the irq's trigger mode.       *)
EXTENDS Integers, FiniteSetsExt, SequencesExt

CONSTANTS
  Device,
  Loads        \* what a machine has: each device's irq, the level-triggered irqs
               \* (i8259elcr) and, a bound, how often a device asks for service

Irq    == 0..15
Cascade == 2              \* the slave's place on the master
Chip(i) == IF i < 8 THEN 0..7 ELSE 8..15

ASSUME IntrAssumption ==
  \A l \in Loads : /\ l.irq \in [Device -> Irq \ {Cascade}] /\ l.asks \in Nat
                   /\ l.level \subseteq Irq \ {0, 1, 2, 8, 13}

VARIABLES
  load,
  i8259mask, imr,     \* the disabled irqs: the variable's, the chips'
  vctl,               \* the handlers of each irq, as linked
  want,               \* the devices that ask for service
  asked,              \* how often each has asked
  latched,            \* edges the chips have seen and not delivered
  inService,          \* the chips' in-service bits
  pc, vno,            \* the processor: "run", "ack", "cascade", "trap" or "calls"; the vector
  todo                \* what trap has still to call

table   == <<i8259mask, imr, vctl>>
devices == <<want, asked>>
chips   == <<latched, inService>>
cpu     == <<pc, vno, todo>>
vars    == <<load, table, devices, chips, cpu>>

\* After i8259init, which passes the slave's interrupts to the master.
Init ==
  /\ load \in Loads
  /\ i8259mask = Irq \ {Cascade} /\ imr = i8259mask
  /\ vctl = [i \in Irq |-> <<>>]
  /\ want = {} /\ asked = [d \in Device |-> 0]
  /\ latched = {} /\ inService = {}
  /\ pc = "run" /\ vno = 0 /\ todo = <<>>

(* -------------------------------- the chips ----------------------------- *)

Line(i, w) == \E d \in w : load.irq[d] = i

Requests(chip) ==
  {i \in chip \ imr : Line(i, want) /\ (i \in load.level \/ i \in latched)}

\* Fully nested: an interrupt in service keeps out those of lower priority.
Above(reqs, chip) == {i \in reqs : \A j \in inService \cap chip : i < j}

Slave  == Above(Requests(8..15), 8..15)
Master == Above(Requests(0..7) \cup (IF Slave # {} THEN {Cascade} ELSE {}), 0..7)

\* The set of devices that ask becomes w: edges are seen, lines that fall are
\* forgotten.
Lines(w) ==
  /\ want' = w
  /\ latched' = {i \in Irq \ load.level : Line(i, w) /\ (i \in latched \/ ~Line(i, want))}

TakeInterrupt ==
  /\ pc = "run" /\ Master # {}
  /\ pc' = "ack"
  /\ UNCHANGED <<load, table, devices, chips, vno, todo>>

Deliver(i) == inService' = inService \cup {i} /\ latched' = latched \ {i}

\* The line may be low again by now: a default IRQ 7, with no bit in service.
Acknowledge ==
  /\ pc = "ack"
  /\ \/ Master = {} /\ vno' = 7 /\ pc' = "trap" /\ UNCHANGED chips
     \/ Master # {} /\ Deliver(Min(Master))
        /\ vno' = Min(Master) /\ pc' = IF Min(Master) = Cascade THEN "cascade" ELSE "trap"
  /\ UNCHANGED <<load, table, devices, todo>>

\* The same on the slave: a default IRQ 15.
AcknowledgeSlave ==
  /\ pc = "cascade" /\ pc' = "trap"
  /\ \/ Slave = {} /\ vno' = 15 /\ UNCHANGED chips
     \/ Slave # {} /\ Deliver(Min(Slave)) /\ vno' = Min(Slave)
  /\ UNCHANGED <<load, table, devices, todo>>

(* ------------------------------- i8259.c -------------------------------- *)

\* A non-specific end of interrupt ends the highest interrupt in service.
Ended(chip) == IF inService \cap chip = {} THEN {} ELSE {Min(inService \cap chip)}

\* Mutant: only the master is told.
i8259isrMaster(i) == inService' = inService \ Ended(0..7)

\* Mutant: only the chip the interrupt came through is told.
i8259isrOwnChip(i) == inService' = inService \ Ended(Chip(i))

i8259isr(i) == inService' = inService \ (Ended(0..7) \cup (IF i >= 8 THEN Ended(8..15) ELSE {}))

\* The mask, and the register of the chip that irq i is on.
SetMask(m, i) == i8259mask' = m /\ imr' = (imr \ Chip(i)) \cup (m \cap Chip(i))

\* Mutant: an edge-triggered irq is shared.
i8259enableShared(i) == SetMask(i8259mask \ {i}, i)

\* An edge-triggered irq is not shared.
i8259enable(i) == (i \in i8259mask \/ i \in load.level) /\ SetMask(i8259mask \ {i}, i)

i8259disable(i) == IF i \notin i8259mask THEN SetMask(i8259mask \cup {i}, i) ELSE UNCHANGED <<i8259mask, imr>>

(* -------------------------------- trap.c -------------------------------- *)

Enabled(d) == Contains(vctl[load.irq[d]], d)

\* Before intrenable, and after intrdisable, a driver keeps a device that
\* shares its irq quiet.
Silent(d) == \A e \in Device \ {d} : load.irq[e] # load.irq[d]

intrenable(d) ==
  LET i == load.irq[d] IN
  /\ pc = "run" /\ ~Enabled(d)
  /\ i8259enable(i)
  /\ vctl' = [vctl EXCEPT ![i] = <<d>> \o @]
  /\ UNCHANGED <<load, devices, chips, cpu>>

\* Mutant: the irq is masked with the first of its handlers.
intrdisableFirst(d) ==
  LET i == load.irq[d] IN
  /\ pc = "run" /\ (d \in want => Silent(d))
  /\ \E k \in DOMAIN vctl[i] : vctl[i][k] = d /\ vctl' = [vctl EXCEPT ![i] = RemoveAt(@, k)]
  /\ i8259disable(i)
  /\ UNCHANGED <<load, devices, chips, cpu>>

intrdisable(d) ==
  LET i == load.irq[d] IN
  /\ pc = "run" /\ (d \in want => Silent(d))
  /\ \E k \in DOMAIN vctl[i] : vctl[i][k] = d /\ vctl' = [vctl EXCEPT ![i] = RemoveAt(@, k)]
  /\ IF vctl'[i] = <<>> THEN i8259disable(i) ELSE UNCHANGED <<i8259mask, imr>>
  /\ UNCHANGED <<load, devices, chips, cpu>>

HandlerOf(d) == <<"f", d>>
Eoi        == <<"eoi", vno>>
Preempted  == <<"preempted", vno>>

\* What trap calls: an edge is ended before the handlers (isr), a level after
\* (eoi), and another process may run then.  A vector without handlers is only
\* cleared: the loop that would call all routines goes from VectorPIC, 32, to
\* MaxIrqLAPIC, 31.
Calls(hs) ==
  IF hs = <<>> THEN <<Eoi>>
  ELSE LET fs == [k \in DOMAIN hs |-> HandlerOf(hs[k])]
       IN  (IF vno \in load.level THEN fs \o <<Eoi>> ELSE <<Eoi>> \o fs) \o <<Preempted>>

trap ==
  /\ pc = "trap" /\ todo = <<>>
  /\ todo' = Calls(vctl[vno]) /\ pc' = "calls"
  /\ UNCHANGED <<load, table, devices, chips, vno>>

\* A handler serves its device; the end of an interrupt; a process switch.
Call ==
  /\ todo # <<>>
  /\ \/ \E d \in Device : Head(todo) = HandlerOf(d) /\ Lines(want \ {d}) /\ UNCHANGED inService
     \/ Head(todo) = Eoi /\ i8259isr(vno) /\ UNCHANGED <<want, latched>>
     \/ Head(todo) = Preempted /\ UNCHANGED <<want, chips>>
  /\ todo' = Tail(todo) /\ pc' = IF Len(todo) = 1 THEN "run" ELSE pc
  /\ UNCHANGED <<load, table, asked, vno>>

(* ------------------------------- devices -------------------------------- *)

Asks(d) ==
  /\ d \notin want /\ asked[d] < load.asks /\ (Enabled(d) \/ Silent(d))
  /\ Lines(want \cup {d}) /\ asked' = [asked EXCEPT ![d] = @ + 1]
  /\ UNCHANGED <<load, table, inService, cpu>>

\* The device is served otherwise, and its line falls.
Withdraws(d) ==
  /\ d \in want /\ Lines(want \ {d})
  /\ UNCHANGED <<load, table, asked, inService, cpu>>

Cpu == TakeInterrupt \/ Acknowledge \/ AcknowledgeSlave \/ trap \/ Call

Next == Cpu \/ \E d \in Device : intrenable(d) \/ intrdisable(d) \/ Asks(d) \/ Withdraws(d)

Spec == Init /\ [][Next]_vars

\* The processor goes on, and takes an interrupt that is raised while its
\* interrupts are on.  Nobody has to enable anything or to ask.
FairSpec == Spec /\ WF_vars(Cpu)

(* ------------------------------ properties ------------------------------ *)

\* No handler is linked twice, each chip has one interrupt in service at most
\* and a slave's is the master's too.
TypeOK ==
  /\ load \in Loads /\ i8259mask \subseteq Irq /\ imr \subseteq Irq
  /\ vctl \in [Irq -> Seq(Device)] /\ \A i \in Irq : IsInjective(vctl[i])
  /\ want \subseteq Device /\ asked \in [Device -> 0..load.asks] /\ latched \subseteq Irq
  /\ \A i, j \in inService : Chip(i) = Chip(j) => i = j
  /\ inService \cap 8..15 # {} => Cascade \in inService
  /\ pc \in {"run", "ack", "cascade", "trap", "calls"} /\ vno \in Irq

\* An irq is let through, by the variable and by the chip, exactly while it
\* has a handler, however handlers of shared irqs come and go.
MaskMatchesTable ==
  i8259mask = {i \in Irq \ {Cascade} : vctl[i] = <<>>} /\ imr = i8259mask

\* When a process runs, also one that trap switches to, no interrupt is left in
\* service: whichever chip it came through, real or not, with or without a
\* handler.  Otherwise interrupts of lower priority would be kept out.
NothingInService ==
  pc \in {"run", "ack"} \/ (todo # <<>> /\ Head(todo) = Preempted) => inService = {}

\* A device that asks is served in the end: no edge is missed, on lines that
\* are shared, masked for a while, lost in the acknowledge or kept waiting by
\* others, as long as its handler stays enabled and it goes on asking.
EventIsServed ==
  \A d \in Device : (d \in want /\ Enabled(d)) ~> (d \notin want \/ ~Enabled(d))
=============================================================================
