----------------------------- MODULE PacketHub -----------------------------
(* What the ethernet device promises to its connections, whatever blocks and *)
(* queues it uses: each connection hears the packets meant for it, in order  *)
(* of arrival; one that has no room misses the packet alone, and is counted. *)
EXTENDS Integers, Sequences, FiniteSets

CONSTANTS Conn, Config, Closed, Packet

VARIABLES
  conns,       \* each connection's configuration
  room,        \* connections that cannot fail to take a packet now
  heard,       \* the packets given to each connection since it was opened
  missed,      \* packets missed by connections that read whole packets
  in, out      \* packets looked at, packets sent

vars == <<conns, room, heard, missed, in, out>>

Listening == {c \in Conn : conns[c] # Closed}
Prom      == \E c \in Listening : conns[c].prom

\* The packet is for everybody on this machine who takes its type, or for c
\* because c takes packets for any machine.
Meant(c, p) ==
  /\ conns[c].type \in {p.type, "any"}
  /\ \/ p.dst \in {"me", "bcast", "group"} \/ conns[c].prom
     \/ p.dst = "strange" /\ Prom

\* A bridge does not hear what a bridge sent.
Listeners(p, fromwire) ==
  {c \in Listening : Meant(c, p) /\ ~(conns[c].bridge /\ ~fromwire /\ p.src # "me")}

Hear(p, fromwire) ==
  /\ in' = in + 1
  /\ \E deaf \in SUBSET (Listeners(p, fromwire) \ room) :
       /\ heard' = [c \in Conn |-> IF c \in Listeners(p, fromwire) \ deaf
                                   THEN Append(heard[c], p) ELSE heard[c]]
       /\ missed' = missed + Cardinality({c \in deaf : ~conns[c].headersonly})

Init ==
  /\ conns \in [Conn -> Config \cup {Closed}] /\ room \in SUBSET Conn
  /\ heard = [c \in Conn |-> <<>>] /\ missed = 0 /\ in = 0 /\ out = 0

Receive(p) == UNCHANGED <<conns, out>> /\ Hear(p, TRUE)

Returns(p) == p.dst \in {"me", "bcast"} \/ Prom

\* Packets to this machine, broadcasts, and any packet while somebody is
\* promiscuous, come back.  So do those in the code that a bridge sends for
\* somebody else, against a comment in etheroq ("only packets that were
\* originated by this interface are fed back"); here they may or may not, and
\* if they do, then to Listeners.
Send(p) ==
  /\ out' = out + 1 /\ UNCHANGED conns
  /\ \/ Returns(p) /\ Hear(p, FALSE)
     \/ /\ ~Returns(p) \/ p.src # "me"
        /\ UNCHANGED <<heard, missed, in>>

Reconfigure(c, cfg) ==
  /\ conns' = [conns EXCEPT ![c] = cfg]
  /\ heard' = [heard EXCEPT ![c] = <<>>]
  /\ UNCHANGED <<missed, in, out>>

\* Blocks come and go.
RoomChanges == UNCHANGED <<conns, heard, missed, in, out>>

Next == \/ RoomChanges
        \/ \E p \in Packet : Receive(p) \/ Send(p)
        \/ \E c \in Conn, cfg \in Config \cup {Closed} : Reconfigure(c, cfg)

Spec == Init /\ [][Next]_vars
=============================================================================
