-------------------------------- MODULE KbdMC --------------------------------
(* Model-checking instance of Kbd: which keys are used together. *)
EXTENDS Kbd

CONSTANTS c1, c2

Only(ks)     == [kb \in Keyboard |-> IF kb = "i8042" THEN ks ELSE {}]
Modifiers    == Only({"shift", "alt", "altgr", "capslock", "a"})
Pairs        == Only({"ctrl", "rctrl", "shift", "rshift", "altgr", "print"})
Escaped      == Only({"shift", "pause", "home", "print", "altgr"})
Rebooting    == Only({"ctrl", "alt", "altgr", "del", "kpdel", "shift"})
Forwarded    == [kb \in Keyboard |-> CASE kb = "i8042" -> {"alt"} [] kb = c1 -> {"altgr"} [] OTHER -> {}]
TwoForwarded == [kb \in Keyboard |-> CASE kb = "i8042" -> {} [] kb = c1 -> {"rctrl"}
                                       [] OTHER -> {"alt", "del"}]

KeyLoads  == {Modifiers, Pairs, Escaped, Rebooting, Forwarded, TwoForwarded}
MapWrites == {<<"plain", "3a", "char">>, <<"altgr", "38", "Latin">>}

\* The map the run writes is one the theorems speak of.
ASSUME MapWritesKeepModifiers == RemapsKeepModifiers
=============================================================================
