----------------------------- MODULE Ether8139 -----------------------------
(* The driver ether8139.c under devether.c: a ring of transmit descriptors   *)
(* shared with the chip, the interrupt handler, and the receive buffer.      *)
(* The chip is external and does what the handler expects of it: it sends    *)
(* the descriptors in order, sets a bit of Isr for every event, and takes a  *)
(* written bit of Isr as acknowledged.                                       *)
(*                                                                           *)
(* One processor: while the handler runs the chip goes on and no process     *)
(* does.  The receive buffer is a queue of whole frames: one that the chip   *)
(* is still copying (its length is 0xFFF0) is not in it yet, and ends the    *)
(* loop as an empty buffer does.  Link changes, statistics and the error     *)
(* counters are left out.                                                    *)
EXTENDS EtherMux

CONSTANTS
  Ntd,         \* transmit descriptors
  RxSlots      \* frames the receive buffer holds

VARIABLES
  td,          \* descriptors: the block kept for it, its status, its packet
  ntd, tdh, tdi,
  chip,        \* the descriptor the chip looks at
  isr,         \* the chip's interrupt status
  loc, intr,   \* the handler's isr, and where it is
  rx,          \* frames received, and whether each is good
  left,        \* history: packets the chip is done with, or a reset dropped
  errors,      \* errors so far
  resets       \* history: there has been a bus error

ring    == <<td, ntd, tdh, tdi>>
history == <<left, errors, resets>>
driver  == <<ring, chip, isr, loc, intr, rx, history>>
vars    == <<mux, driver>>

ASSUME DriverAssumption ==
  Ntd \in Nat \ {0} /\ RxSlots \in Nat \ {0}

Idle == [bp |-> NoBlock, st |-> "idle", n |-> 0]
NEXT(i) == (i + 1) % Ntd

Init ==
  /\ MuxInit
  /\ td = [i \in 0..Ntd-1 |-> Idle] /\ ntd = 0 /\ tdh = 0 /\ tdi = 0 /\ chip = 0
  /\ isr = {} /\ loc = {} /\ intr = "out" /\ rx = <<>> /\ left = <<>> /\ errors = 0 /\ resets = FALSE

\* The packets the chip has still to send, oldest first: those of the
\* descriptors it owns, from where it looks to the first it does not own.
Outstanding ==
  LET k == Max({j \in 0..Ntd : \A i \in 0..j-1 : td[(chip + i) % Ntd].st = "own"})
  IN  [i \in 1..k |-> td[(chip + i - 1) % Ntd].n]

(* txstart works on the descriptors and on blk; a block that is not aligned  *)
(* is copied into the descriptor's own buffer and freed.                     *)

\* Mutant: the ring is taken to have one descriptor more.
FillLate(s, j, aligned) ==
  LET b == oq[j] IN
  [td  |-> [s.td EXCEPT ![s.tdh] = [bp |-> IF aligned THEN b ELSE NoBlock, st |-> "own", n |-> s.blk[b].n]],
   blk |-> IF aligned THEN s.blk ELSE [s.blk EXCEPT ![b] = Free],
   tdh |-> s.tdh]

Fill(s, j, aligned) ==
  LET b == oq[j] IN
  [td  |-> [s.td EXCEPT ![s.tdh] = [bp |-> IF aligned THEN b ELSE NoBlock, st |-> "own", n |-> s.blk[b].n]],
   blk |-> IF aligned THEN s.blk ELSE [s.blk EXCEPT ![b] = Free],
   tdh |-> NEXT(s.tdh)]

Filled(k, aligned) ==
  FoldLeft(LAMBDA u, j : Fill(u, j, aligned[j]), [td |-> td, blk |-> blk, tdh |-> tdh], [j \in 1..k |-> j])

rtl8139txstart ==
  LET k == Min({Ntd - ntd, Len(oq)}) IN
  \E aligned \in [1..k -> BOOLEAN] :
    LET s == Filled(k, aligned)
    IN  /\ td' = s.td /\ blk' = s.blk /\ tdh' = s.tdh
        /\ ntd' = ntd + k /\ oq' = SubSeq(oq, k + 1, Len(oq))
        /\ UNCHANGED <<setup, inq, heard, soverflows, noblock, queued, counts, wblk, made>>

\* ether->transmit at the end of etheroq.
rtl8139transmit(w) ==
  /\ wpc[w] = "kick"
  /\ rtl8139txstart
  /\ Goto(w, "idle")
  /\ UNCHANGED <<tdi, chip, isr, loc, intr, rx, history>>

(* ------------------------------- the chip ------------------------------- *)

Fault(f, ok) == IF ok THEN UNCHANGED errors
                ELSE f \in load.faults /\ errors < load.errors /\ errors' = errors + 1

\* A descriptor has been sent, or given up.
ChipSends(ok) ==
  /\ td[chip].st = "own" /\ Fault("tx", ok)
  /\ td' = [td EXCEPT ![chip].st = IF ok THEN "Tcok" ELSE "Tabt"]
  /\ left' = Append(left, td[chip].n)
  /\ chip' = NEXT(chip)
  /\ isr' = isr \cup {IF ok THEN "Tok" ELSE "Ter"}
  /\ UNCHANGED <<mux, ntd, tdh, tdi, loc, intr, rx, resets>>

\* A frame the receive filter lets in; one without room is lost.
ChipReceives(f, ok) ==
  /\ made < load.packets /\ Fault("rx", ok)
  /\ f.dst = "far" => Prom
  /\ made' = made + 1
  /\ IF Len(rx) < RxSlots
     THEN rx' = Append(rx, [ok |-> ok, p |-> Numbered(f, made + 1)]) /\ isr' = isr \cup {IF ok THEN "Rok" ELSE "Rer"}
     ELSE isr' = isr \cup {"Rxovw"} /\ UNCHANGED rx
  /\ UNCHANGED <<setup, memory, output, counts, procs, ring, chip, loc, intr, left, resets>>

BusError ==
  /\ Fault("bus", FALSE)
  /\ isr' = isr \cup {"Serr"} /\ resets' = TRUE
  /\ UNCHANGED <<mux, ring, chip, loc, intr, rx, left>>

(* -------------------------- rtl8139interrupt ---------------------------- *)

\* while((isr = csr16r(ctlr, Isr)) != 0)
IntrRead ==
  /\ (intr = "read") \/ (intr = "out" /\ isr # {})
  /\ loc' = isr /\ intr' = IF isr = {} THEN "out" ELSE "ack"
  /\ UNCHANGED <<mux, ring, chip, isr, rx, history>>

\* Mutant: the status is acknowledged whatever has come since it was read.
IntrAckAll ==
  /\ intr = "ack"
  /\ isr' = {} /\ intr' = "rx"
  /\ UNCHANGED <<mux, ring, chip, loc, rx, history>>

IntrAck ==
  /\ intr = "ack"
  /\ isr' = isr \ loc /\ intr' = "rx"
  /\ UNCHANGED <<mux, ring, chip, loc, rx, history>>

\* rtl8139receive, frame by frame: a bad one resets the receiver, a good one
\* is copied into a block, if there is one.
IntrRx ==
  /\ intr = "rx" /\ loc \cap {"Rok", "Rer", "Rxovw"} # {} /\ rx # <<>>
  /\ LET b == iallocb(Counted) IN
     IF ~Head(rx).ok
     THEN rx' = <<>> /\ UNCHANGED mux
     ELSE /\ rx' = Tail(rx)
          /\ IF b = NoBlock THEN UNCHANGED mux
             ELSE /\ Become(etheriq([Counted EXCEPT !.blk[b] = Head(rx).p], b, Head(rx).p, TRUE))
                  /\ inpackets' = inpackets + 1
                  /\ UNCHANGED <<setup, output, outpackets, procs, made>>
  /\ UNCHANGED <<ring, chip, isr, loc, intr, history>>

IntrRxEnd ==
  /\ intr = "rx" /\ (loc \cap {"Rok", "Rer", "Rxovw"} = {} \/ rx = <<>>)
  /\ intr' = IF loc \cap {"Tok", "Ter"} # {} THEN "tx" ELSE "serr"
  /\ UNCHANGED <<mux, ring, chip, isr, loc, rx, history>>

\* Mutant: the descriptor's status alone is looked at.
TxDoneUncounted == td[tdi].st \in {"Tcok", "Tabt"}

TxDone == ntd > 0 /\ td[tdi].st \in {"Tcok", "Tabt"}

\* A descriptor the chip is done with.
IntrReap ==
  /\ intr = "tx" /\ TxDone
  /\ IF td[tdi].bp # NoBlock THEN Become(freeb(Counted, td[tdi].bp))
     ELSE UNCHANGED memory
  /\ td' = [td EXCEPT ![tdi].bp = NoBlock]
  /\ ntd' = ntd - 1 /\ tdi' = NEXT(tdi)
  /\ UNCHANGED <<setup, output, counts, procs, made, tdh, chip, isr, loc, intr, rx, history>>

\* What waits in oq goes to the descriptors that are free now.
IntrRefill ==
  /\ intr = "tx" /\ ~TxDone
  /\ rtl8139txstart
  /\ intr' = "serr"
  /\ UNCHANGED <<wpc, tdi, chip, isr, loc, rx, history>>

\* The blocks rtl8139halt frees.
Halted == {td[i].bp : i \in 0..Ntd-1}

\* Serr: rtl8139init, which halts the chip first.
IntrReset ==
  /\ intr = "serr" /\ "Serr" \in loc
  /\ blk' = [b \in Block |-> IF b \in Halted THEN Free ELSE blk[b]]
  /\ left' = left \o Outstanding
  /\ td' = [i \in 0..Ntd-1 |-> Idle] /\ ntd' = 0 /\ tdh' = 0 /\ tdi' = 0 /\ chip' = 0
  /\ isr' = {} /\ rx' = <<>> /\ intr' = "read"
  /\ UNCHANGED <<setup, inq, heard, soverflows, output, counts, procs, made, loc, errors, resets>>

IntrEnd ==
  /\ intr = "serr" /\ "Serr" \notin loc
  /\ intr' = "read"
  /\ UNCHANGED <<mux, ring, chip, isr, loc, rx, history>>

rtl8139interrupt ==
  \/ IntrRead \/ IntrAck \/ IntrRx \/ IntrRxEnd
  \/ IntrReap \/ IntrRefill \/ IntrReset \/ IntrEnd

Process(A) == intr = "out" /\ A

Next ==
  \/ Process(MuxNext /\ UNCHANGED driver)
  \/ \E w \in Proc : Process(rtl8139transmit(w))
  \/ rtl8139interrupt \/ BusError
  \/ \E ok \in BOOLEAN : ChipSends(ok) \/ \E f \in load.arrives : ChipReceives(f, ok)

Spec == Init /\ [][Next]_vars

\* The chip sends what it is given and its interrupts are taken; a process in
\* etheroq runs.  Nobody has to send or to read, and no packet need arrive.
Fairness ==
  /\ WF_vars(rtl8139interrupt) /\ WF_vars(\E ok \in BOOLEAN : ChipSends(ok))
  /\ \A w \in Proc : /\ WF_vars(Process(etheroq(w) /\ UNCHANGED driver))
                      /\ WF_vars(Process(rtl8139transmit(w)))

FairSpec == Spec /\ Fairness

(* ------------------------------ properties ------------------------------ *)

\* The queues hold blocks, the descriptor indexes stay in the ring, and every
\* program counter is one of its steps.
TypeOK ==
  /\ conns \in [Conn -> Config \cup {Closed}]
  /\ inq \in [Conn -> Seq(Block)] /\ \A c \in Conn : Len(inq[c]) <= InLimit
  /\ oq \in Seq(Block) /\ noblock \in BOOLEAN /\ blk \in [Block -> Packet \cup {Free}]
  /\ {soverflows, inpackets, outpackets} \subseteq Nat /\ made \in 0..MaxPackets
  /\ wpc \in [Proc -> {"idle", "feed", "free", "queue", "flow", "kick"}]
  /\ wblk \in [Proc -> Block \cup {NoBlock}]
  /\ heard \in [Conn -> Seq(Packet)] /\ queued \in Seq(1..MaxPackets)
  /\ td \in [0..Ntd-1 -> [bp : Block \cup {NoBlock}, st : {"idle", "own", "Tcok", "Tabt"}, n : 0..MaxPackets]]
  /\ ntd \in 0..Ntd /\ {tdh, tdi, chip} \subseteq 0..Ntd-1
  /\ {isr, loc} \subseteq SUBSET {"Tok", "Ter", "Rok", "Rer", "Rxovw", "Serr"}
  /\ intr \in {"out", "read", "ack", "rx", "tx", "serr"}
  /\ Len(rx) <= RxSlots /\ left \in Seq(1..MaxPackets) /\ errors \in 0..load.errors /\ resets \in BOOLEAN

\* The places that hold a block: in the queues of conversations, in oq, in the
\* descriptors and in the processes.
InPlaces(b) == UNION {{<<"in", c, i>> : i \in {j \in DOMAIN inq[c] : inq[c][j] = b}} : c \in Conn}
OutPlaces(b) == {<<"oq", i>> : i \in {j \in DOMAIN oq : oq[j] = b}}
TdPlaces(b) == {<<"td", i>> : i \in {j \in 0..Ntd-1 : td[j].bp = b}}
ProcPlaces(b) == {<<"proc", w>> : w \in {v \in Proc : wblk[v] = b}}
Holders(b) == InPlaces(b) \cup OutPlaces(b) \cup TdPlaces(b) \cup ProcPlaces(b)

\* Who gets a block and who frees it is decided in six places (etheriq with and
\* without fromwire, the loopback and the output branch of etheroq, txstart and
\* the two ways a descriptor ends): no block is lost, kept twice, or used
\* after somebody has freed it.
BlocksHaveOneOwner ==
  \A b \in Block : Cardinality(Holders(b)) = IF blk[b] = Free THEN 0 ELSE 1

\* Packets leave in the order in which they were queued, and none that was
\* queued is skipped, whatever the turns of chip, handler and transmit are.
OutputInOrder ==
  queued = left \o Outstanding \o [i \in DOMAIN oq |-> blk[oq[i]].n]

\* A connection can take a packet when its queue has room and there is memory
\* for the packet and a copy to everybody.
Hub == INSTANCE PacketHub
         WITH room <- {c \in Conn : /\ Len(inq[c]) < InLimit
                                    /\ Cardinality({b \in Block : blk[b] = Free}) > NConn},
              missed <- soverflows, in <- inpackets, out <- outpackets

\* "Multiplex the packet to all the connections which want it" (etheriq): each
\* gets it once and in order, and one that does not is out of room and counted.
\* Whether a bridge's packets for others come back at all is left open (Send).
EveryoneHears == Hub!Spec

\* A packet queued for output is handed to the chip and leaves, also when the
\* ring was full, the process that queued it was interrupted, or interrupts
\* came together: a load has an end, and then everything queued has left.  Only
\* a reset after a bus error leaves oq to the next transmit.
QueuedIsSent == <>[](Len(left) = Len(queued) \/ resets)
=============================================================================
