------------------------------ MODULE EtherMux ------------------------------
(* devether.c: packets multiplexed to connections (etheriq), packets sent    *)
(* (etherwrite, etherbwrite, etheroq), and the blocks they travel in.        *)
(*                                                                           *)
(* One processor: etheriq runs at interrupt level or between splhi and splx, *)
(* and is one step.  netif and the queues (../port) are external: qpass      *)
(* frees a block that does not fit and says so, qbwrite queues first and     *)
(* waits for room after.  Lengths count packets.                             *)
EXTENDS Integers, FiniteSetsExt, SequencesExt

CONSTANTS
  NConn,               \* the size of the table f[]
  Config, Closed,      \* what a connection can be set to; not open
  Frame,               \* packets: type, destination, source
  Loads,               \* what can come together in a behaviour (LoadAssumption)
  NBlock,              \* blocks in memory
  InLimit, OqLimit,    \* the limits of the queues
  Writer, Bridge,      \* processes in etherwrite and in etherbwrite
  MaxPackets,          \* bound: packets in a behaviour
  Free, NoBlock

Conn   == 1..NConn
Block  == 1..NBlock
Numbered(f, n) == [type |-> f.type, dst |-> f.dst, src |-> f.src, n |-> n]
Packet == {Numbered(f, n) : f \in Frame, n \in 1..MaxPackets}
Proc   == Writer \cup Bridge

ASSUME EtherAssumption ==
  /\ NConn \in Nat /\ NBlock \in Nat /\ MaxPackets \in Nat
  /\ InLimit \in Nat \ {0} /\ OqLimit \in Nat \ {0, 1}
  /\ \A cfg \in Config : DOMAIN cfg = {"type", "prom", "bridge", "headersonly"}
  /\ \A f \in Frame : DOMAIN f = {"type", "dst", "src"}
  /\ NoBlock \notin Block /\ Free \notin Packet /\ Closed \notin Config /\ Writer \cap Bridge = {}

\* A load is the table f[] to start from, what each process sends and the wire
\* brings, and bounds: packets, ctl messages, errors and their kinds.
ASSUME LoadAssumption == \A l \in Loads :
  /\ l.conns \in [Conn -> Config \cup {Closed}]
  /\ l.sends \in [Proc -> SUBSET Frame] /\ l.arrives \subseteq Frame
  /\ \A w \in Writer : \A f \in l.sends[w] : f.src = "me"
  /\ l.packets \in 0..MaxPackets /\ l.ctls \in Nat
  /\ l.errors \in Nat /\ l.faults \subseteq {"tx", "rx", "bus"}

VARIABLES
  load,
  conns,               \* f[]: type, prom, bridge, headersonly of each
  inq,                 \* f[i]->in: blocks
  oq, noblock,         \* ether->oq, and whether it is qnoblock
  blk,                 \* the packet in each block, or Free
  soverflows, inpackets, outpackets,
  wpc, wblk,           \* each process: where it is in etheroq, its bp
  made, ctls,          \* how many packets and ctl messages there have been
  heard, queued        \* history: packets queued on each in and on oq

memory == <<blk, inq, heard, soverflows>>          \* what etheriq and freeb change
output == <<oq, noblock, queued>>
counts == <<inpackets, outpackets>>
procs  == <<wpc, wblk>>
setup  == <<load, conns, ctls>>
mux    == <<setup, memory, output, counts, procs, made>>

MuxInit ==
  /\ load \in Loads /\ conns = load.conns /\ ctls = 0
  /\ inq = [c \in Conn |-> <<>>] /\ oq = <<>> /\ noblock = FALSE
  /\ blk = [b \in Block |-> Free]
  /\ soverflows = 0 /\ inpackets = 0 /\ outpackets = 0 /\ made = 0
  /\ wpc = [w \in Proc |-> "idle"] /\ wblk = [w \in Proc |-> NoBlock]
  /\ heard = [c \in Conn |-> <<>>] /\ queued = <<>>

Prom == \E c \in Conn : conns[c] # Closed /\ conns[c].prom
multi(p) == p.dst \in {"bcast", "group", "strange"}
activemulti(p) == p.dst = "group"

(* etheriq works on a record of what it changes.                             *)
iallocb(s) == IF \E b \in Block : s.blk[b] = Free
              THEN Min({b \in Block : s.blk[b] = Free}) ELSE NoBlock
freeb(s, b) == [s EXCEPT !.blk[b] = Free]
Full(s, c)  == Len(s.inq[c]) >= InLimit
Put(s, c, b, p) ==
  [s EXCEPT !.blk[b] = p, !.inq[c] = Append(@, b), !.heard[c] = Append(@, p)]

\* Mutant: a full queue is not counted.
qpassUncounted(s, c, b, p) == IF Full(s, c) THEN freeb(s, b) ELSE Put(s, c, b, p)

\* qpass, and soverflows++ when it fails.
qpass(s, c, b, p) ==
  IF Full(s, c) THEN [freeb(s, b) EXCEPT !.soverflows = @ + 1] ELSE Put(s, c, b, p)

etherrtrace(s, c, p) ==
  IF Full(s, c) \/ iallocb(s) = NoBlock THEN s ELSE Put(s, c, iallocb(s), p)

\* The guards of the loop in etheriq.
Wants(c, p, fromwire) ==
  LET f == conns[c] IN
  /\ f # Closed /\ f.type \in {p.type, "any"}
  /\ p.dst = "me" \/ multi(p) \/ f.prom
  /\ ~(f.bridge /\ ~fromwire /\ p.src # "me")

\* One turn of it: the first connection of a packet from the wire becomes fx,
\* the others get a copy.
Give(s, c, p, fromwire) ==
  IF ~Wants(c, p, fromwire) THEN s
  ELSE IF conns[c].headersonly THEN etherrtrace(s, c, p)
  ELSE IF fromwire /\ s.fx = 0 THEN [s EXCEPT !.fx = c]
  ELSE IF iallocb(s) # NoBlock THEN qpass(s, c, iallocb(s), p)
  ELSE [s EXCEPT !.soverflows = @ + 1]

Loop(t, p, fromwire) == FoldLeft(LAMBDA u, c : Give(u, c, p, fromwire), t, [c \in Conn |-> c])

Counted == [blk |-> blk, inq |-> inq, heard |-> heard, soverflows |-> soverflows, fx |-> 0]

\* Mutant: a loopback packet is freed by etheriq, as the comment in etheroq has it.
etheriqFrees(t, b, p, fromwire) ==
  LET s == Loop(t, p, fromwire)
  IN  IF multi(p) /\ p.dst # "bcast" /\ ~Prom /\ ~activemulti(p)
      THEN IF fromwire THEN freeb(t, b) ELSE t
      ELSE IF s.fx # 0 THEN qpass(s, s.fx, b, p)
      ELSE IF fromwire \/ p.dst = "me" THEN freeb(s, b) ELSE s

etheriq(t, b, p, fromwire) ==
  LET s == Loop(t, p, fromwire)
  IN  IF multi(p) /\ p.dst # "bcast" /\ ~Prom /\ ~activemulti(p)
      THEN IF fromwire THEN freeb(t, b) ELSE t
      ELSE IF s.fx # 0 THEN qpass(s, s.fx, b, p)
      ELSE IF fromwire THEN freeb(s, b) ELSE s

Become(s) ==
  /\ blk' = s.blk /\ inq' = s.inq /\ heard' = s.heard /\ soverflows' = s.soverflows

Goto(w, pc) == wpc' = [wpc EXCEPT ![w] = pc]

(* ------------------------------- sending -------------------------------- *)

\* etherwrite with a length it accepts: a block is filled, and the source
\* address is this interface's.  etherbwrite is handed its block as it is.
EtherWrite(w, f) ==
  /\ wpc[w] = "idle" /\ made < load.packets /\ iallocb(Counted) # NoBlock
  /\ f \in load.sends[w]
  /\ made' = made + 1
  /\ wblk' = [wblk EXCEPT ![w] = iallocb(Counted)]
  /\ blk' = [blk EXCEPT ![iallocb(Counted)] = Numbered(f, made + 1)]
  /\ Goto(w, "feed")
  /\ UNCHANGED <<setup, inq, heard, soverflows, output, counts>>

\* freeb and an error: etherbwrite of a packet that is too big or too small,
\* and etherwrite from a buffer that cannot be read.
EtherReject(w) ==
  /\ wpc[w] = "feed"
  /\ Become(freeb(Counted, wblk[w]))
  /\ wblk' = [wblk EXCEPT ![w] = NoBlock] /\ Goto(w, "idle")
  /\ UNCHANGED <<setup, output, counts, made>>

\* The first half of etheroq.
EtherFeed(w) ==
  LET p == blk[wblk[w]] IN
  /\ wpc[w] = "feed"
  /\ outpackets' = outpackets + 1
  /\ IF p.dst \in {"me", "bcast"} \/ Prom
     THEN Become(etheriq(Counted, wblk[w], p, FALSE)) /\ inpackets' = inpackets + 1
     ELSE UNCHANGED <<memory, inpackets>>
  /\ Goto(w, IF p.dst = "me" THEN "free" ELSE "queue")
  /\ UNCHANGED <<setup, output, wblk, made>>

\* A loopback packet stops here.
EtherFree(w) ==
  /\ wpc[w] = "free"
  /\ Become(freeb(Counted, wblk[w]))
  /\ wblk' = [wblk EXCEPT ![w] = NoBlock] /\ Goto(w, "idle")
  /\ UNCHANGED <<setup, output, counts, made>>

\* qbwrite(ether->oq, bp), which one process at a time can be in: the packet is
\* queued although there may be no room, or dropped if the queue must not block.
EtherQueue(w) ==
  /\ wpc[w] = "queue" /\ \A v \in Proc : wpc[v] # "flow"
  /\ wblk' = [wblk EXCEPT ![w] = NoBlock]
  /\ IF noblock /\ Len(oq) >= OqLimit
     THEN Become(freeb(Counted, wblk[w])) /\ UNCHANGED <<oq, queued>> /\ Goto(w, "kick")
     ELSE /\ oq' = Append(oq, wblk[w]) /\ queued' = Append(queued, blk[wblk[w]].n)
          /\ Goto(w, "flow") /\ UNCHANGED memory
  /\ UNCHANGED <<setup, noblock, counts, made>>

\* qbwrite ends when the queue is below its limit ...
EtherFlow(w) ==
  /\ wpc[w] = "flow" /\ (noblock \/ Len(oq) < OqLimit)
  /\ Goto(w, "kick")
  /\ UNCHANGED <<setup, memory, output, counts, wblk, made>>

\* ... or by an error, when a note interrupts its sleep: nothing is transmitted.
EtherInterrupted(w) ==
  /\ wpc[w] = "flow" /\ ~noblock /\ Len(oq) >= OqLimit
  /\ Goto(w, "idle")
  /\ UNCHANGED <<setup, memory, output, counts, wblk, made>>

(* -------------------- connections and their readers --------------------- *)

\* etherwrite of "nonblocking" to a ctl file.
Nonblocking(on) ==
  /\ ctls < load.ctls /\ ctls' = ctls + 1
  /\ noblock' = on
  /\ UNCHANGED <<load, conns, memory, oq, queued, counts, procs, made>>

\* etherbread: a packet is taken and its block freed.
EtherRead(c) ==
  /\ inq[c] # <<>>
  /\ inq' = [inq EXCEPT ![c] = Tail(@)]
  /\ blk' = [blk EXCEPT ![Head(inq[c])] = Free]
  /\ UNCHANGED <<setup, heard, soverflows, output, counts, procs, made>>

\* etheropen with the ctl messages that set a connection up; etherclose, which
\* frees what nobody has read.
EtherOpen(c, cfg) ==
  /\ conns[c] = Closed /\ ctls < load.ctls /\ ctls' = ctls + 1
  /\ conns' = [conns EXCEPT ![c] = cfg] /\ heard' = [heard EXCEPT ![c] = <<>>]
  /\ UNCHANGED <<load, blk, inq, soverflows, output, counts, procs, made>>

EtherClose(c) ==
  /\ conns[c] # Closed /\ ctls < load.ctls /\ ctls' = ctls + 1
  /\ conns' = [conns EXCEPT ![c] = Closed]
  /\ inq' = [inq EXCEPT ![c] = <<>>] /\ heard' = [heard EXCEPT ![c] = <<>>]
  /\ blk' = [b \in Block |-> IF Contains(inq[c], b) THEN Free ELSE blk[b]]
  /\ UNCHANGED <<load, soverflows, output, counts, procs, made>>

etheroq(w) == EtherFeed(w) \/ EtherFree(w) \/ EtherQueue(w) \/ EtherFlow(w)

MuxNext ==
  \/ \E w \in Proc : EtherReject(w) \/ etheroq(w) \/ EtherInterrupted(w)
                     \/ \E f \in Frame : EtherWrite(w, f)
  \/ \E c \in Conn : EtherRead(c) \/ EtherClose(c) \/ \E cfg \in Config : EtherOpen(c, cfg)
  \/ \E on \in BOOLEAN : Nonblocking(on)
=============================================================================
