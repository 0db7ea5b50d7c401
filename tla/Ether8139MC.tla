---------------------------- MODULE Ether8139MC -----------------------------
(* Model-checking instances of Ether8139: connections and frames. *)
EXTENDS Ether8139

CONSTANTS w1, b1

Cfg(t, p, b, h) == [type |-> t, prom |-> p, bridge |-> b, headersonly |-> h]

\* An ip connection, a bridge, and a snooper of headers.
Table == {Cfg("ip", FALSE, FALSE, FALSE), Cfg("any", TRUE, TRUE, FALSE), Cfg("any", TRUE, FALSE, TRUE)}

Pkt(t, d, s) == [type |-> t, dst |-> d, src |-> s]
Written == {Pkt("ip", "me", "me"), Pkt("ip", "bcast", "me")}
Bridged == {Pkt("arp", "far", "far")}
Heard   == {Pkt("ip", "group", "far"), Pkt("ip", "strange", "far")}
Out     == {Pkt("ip", "far", "me")}
Frames  == Written \cup Bridged \cup Heard \cup Out

\* Two processes and the wire, for connections that come and go.
Multiplexing ==
  [conns |-> <<Cfg("ip", FALSE, FALSE, FALSE), Closed>>,
   sends |-> [w \in {w1, b1} |-> IF w = w1 THEN Written ELSE Bridged], arrives |-> Heard,
   packets |-> 2, ctls |-> 1, errors |-> 1, faults |-> {"rx"}]

\* More packets than descriptors and oq hold, and an interrupt for another reason.
Sending ==
  [conns |-> <<Closed, Closed>>,
   sends |-> [w \in {w1, b1} |-> IF w = w1 THEN Out ELSE {}], arrives |-> {Pkt("ip", "strange", "far")},
   packets |-> 4, ctls |-> 0, errors |-> 1, faults |-> {"tx", "bus"}]

Both == {Multiplexing, Sending}
=============================================================================
