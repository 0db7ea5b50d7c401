------------------------------ MODULE ConsKbdMC ------------------------------
(* Model-checking instances of ConsKbd: what is typed, read and opened. *)
EXTENDS ConsKbd

CONSTANTS c1, r1, o1, o2

Single(bytes) == {<<k>> : k \in bytes}

\* Every byte the code compares with, and a rune of two bytes.
Lines == [runes |-> Single(Byte) \cup {<<c1, c1>>}, typed |-> 3, sizes |-> {1, 2}, openers |-> {}]
\* A channel switches the mode under a reader.
Raw   == [runes |-> Single({c1, NL}), typed |-> 2, sizes |-> {2}, openers |-> {o1}]
\* Two channels, and a reader who asks for what is typed.
Ctl   == [runes |-> Single({c1}), typed |-> 1, sizes |-> {2}, openers |-> {o1, o2}]
\* Two channels alone.
Close == [runes |-> {}, typed |-> 0, sizes |-> {}, openers |-> {o1, o2}]

Input   == {Lines, Raw, Ctl}
Closing == {Close}
=============================================================================
