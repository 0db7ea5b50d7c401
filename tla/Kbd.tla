--------------------------------- MODULE Kbd ---------------------------------
(* kbd.c and devkbin.c: scan codes to runes, from the keyboard controller    *)
(* (i8042intr) and from programs that forward a keyboard through #Ι/kbin.    *)
(*                                                                           *)
(* A byte of scan code is a prefix or a position of the tables, pressed or   *)
(* released; a rune is what kbdputsc tells apart: a modifier, Del, another   *)
(* character ("char", No among them) or a key of the private space ("key").  *)
(* What then goes into kbdq is ConsKbd's affair.  Left out: mouse buttons on *)
(* keys, Caps (in none of the tables), the toggle of Num (nothing reads it), *)
(* kdebug.  latin1, the channels and the keyboards are external.  A program  *)
(* behind kbin is taken to forward whole keys, in one write at a time: bytes *)
(* no keyboard sends and writes that overlap are left out.                   *)
EXTENDS Integers, SequencesExt

CONSTANTS
  Chan,        \* channels on #Ι/kbin, each with a keyboard behind it
  Loads,       \* the keys used on each keyboard, in each behaviour
  Remaps,      \* what may be written to the map: table, position, rune
  MaxRemaps    \* bound: changes of the map

Keyboard   == {"i8042"} \cup Chan
Source     == {"kernel", "external"}
source(kb) == IF kb = "i8042" THEN "kernel" ELSE "external"

Pos   == {"1d", "1e", "2a", "36", "37", "38", "3a", "45", "47", "53"}
Rune  == {"Ctrl", "Shift", "Latin", "Altgr", "Del", "char", "key"}
Table == {"plain", "shift", "esc1", "altgr", "ctrl"}

\* The bytes a key sends when it is pressed; released, its positions are
\* those with the high bit set.  capslock is where the tables have Ctrl; kpdel
\* is the point of the keypad, Del where AltGr is down.
Codes == [ctrl |-> <<"1d">>, rctrl |-> <<"e0", "1d">>, shift |-> <<"2a">>, rshift |-> <<"36">>,
          alt |-> <<"38">>, altgr |-> <<"e0", "38">>, capslock |-> <<"3a">>, a |-> <<"1e">>,
          del |-> <<"e0", "53">>, kpdel |-> <<"53">>, home |-> <<"e0", "47">>,
          pause |-> <<"e1", "1d", "45">>, print |-> <<"e0", "2a", "e0", "37">>]
Key   == DOMAIN Codes
Bytes(k, up) == [i \in DOMAIN Codes[k] |-> [c |-> Codes[k][i], up |-> up]]

ASSUME KbdAssumption ==
  /\ "i8042" \notin Chan /\ MaxRemaps \in Nat
  /\ Loads \subseteq [Keyboard -> SUBSET Key]
  /\ Remaps \subseteq Table \X Pos \X Rune

(* ------------------------------- the tables ----------------------------- *)

kbtab == [p \in Pos |-> CASE p \in {"1d", "3a"} -> "Ctrl" [] p \in {"2a", "36"} -> "Shift"
                          [] p = "38" -> "Latin" [] p = "45" -> "key" [] OTHER -> "char"]

\* Mutant: the shifted table has no Alt.
kbtabshiftNoAlt == [kbtab EXCEPT !["38"] = "char"]

kbtabshift == kbtab
kbtabctrl == [kbtab EXCEPT !["45"] = "char"]
kbtabesc1 == [p \in Pos |-> CASE p = "1d" -> "Ctrl" [] p = "2a" -> "Shift" [] p = "38" -> "Altgr"
                                [] p \in {"37", "47"} -> "key" [] p = "53" -> "Del" [] OTHER -> "char"]
kbtabaltgr == kbtabesc1

VARIABLES
  keys,        \* the load of this behaviour
  scan,        \* kbscans[]: kernel and external scan code state
  tab,         \* the five tables
  exited,      \* exit(0) has been called
  busy,        \* kbinbusy
  pc,          \* each channel: "none", "walked", "opening", "failed" or "open"
  pending,     \* what is still to come of the key each keyboard sends
  down,        \* the keys that are down on each keyboard
  remaps,      \* changes of the map so far
  stray,       \* history: a channel that did not hold kbin was closed
  excused      \* history: <<source, flag>>, flags that were left set (see Excuse)

driver    == <<scan, exited>>
kbin      == <<busy, pc, stray>>
keyboards == <<pending, down>>
vars == <<keys, driver, tab, kbin, keyboards, remaps, excused>>

Released == [esc1 |-> FALSE, esc2 |-> 0, alt |-> FALSE, altgr |-> FALSE,
             ctl |-> FALSE, shift |-> FALSE, collecting |-> FALSE, nk |-> 0]

Init ==
  /\ keys \in Loads
  /\ scan = [s \in Source |-> Released]
  /\ tab = [plain |-> kbtab, shift |-> kbtabshift, esc1 |-> kbtabesc1,
            altgr |-> kbtabaltgr, ctrl |-> kbtabctrl]
  /\ exited = FALSE /\ busy = FALSE /\ pc = [c \in Chan |-> "none"]
  /\ pending = [kb \in Keyboard |-> <<>>] /\ down = [kb \in Keyboard |-> {}]
  /\ remaps = 0 /\ stray = FALSE /\ excused = {}

(* ------------------------------- kbdputsc ------------------------------- *)

\* The table a position is looked up in.
Lookup(r) ==
  CASE r.esc1 -> "esc1"
    [] ~r.esc1 /\ r.shift -> "shift"
    [] ~r.esc1 /\ ~r.shift /\ r.altgr -> "altgr"
    [] ~r.esc1 /\ ~r.shift /\ ~r.altgr /\ r.ctl -> "ctrl"
    [] OTHER -> "plain"

Flag == [Latin |-> "alt", Shift |-> "shift", Ctrl |-> "ctl", Altgr |-> "altgr"]

\* keyup only important for shifts
KeyUp(r, c) == IF c \in DOMAIN Flag THEN [r EXCEPT ![Flag[c]] = FALSE] ELSE r

\* Ctl-alt is not the start of a compose sequence.
KeyDown(r, c) ==
  LET d == IF c \in DOMAIN Flag THEN [r EXCEPT ![Flag[c]] = TRUE] ELSE r
  IN  IF c = "Latin" /\ ~r.ctl THEN [d EXCEPT !.collecting = TRUE, !.nk = 0] ELSE d

\* Mutant: the count of kc is not reset when latin1 has decided.
ComposeKeeps(r) ==
  {[r EXCEPT !.collecting = FALSE]} \cup {[r EXCEPT !.nk = n] : n \in {r.nk + 1} \cap 1..4}

\* A character goes into kc; latin1 has decided, or wants more keystrokes,
\* which it never does after the fifth.
Compose(r) ==
  {[r EXCEPT !.nk = 0, !.collecting = FALSE]} \cup {[r EXCEPT !.nk = n] : n \in {r.nk + 1} \cap 1..4}

\* What byte b may make of r, whose position stands for rune c.
kbdputsc(r, b, c) ==
  CASE b.c = "e0" -> {[r EXCEPT !.esc1 = TRUE]}
    [] b.c = "e1" -> {[r EXCEPT !.esc2 = 2]}
    [] b.c \in Pos /\ ~r.esc1 /\ r.esc2 > 0 -> {[r EXCEPT !.esc2 = @ - 1]}
    [] b.c \in Pos /\ (r.esc1 \/ r.esc2 = 0) ->
         LET u == [r EXCEPT !.esc1 = FALSE]
         IN  CASE b.up -> {KeyUp(u, c)}
               [] ~b.up /\ c \in {"char", "Del"} /\ r.collecting -> Compose(u)
               [] OTHER -> {KeyDown(u, c)}

\* Mutant: Del reboots with Ctrl alone.
RebootsCtrl(r, c) == c = "Del" /\ r.ctl

Reboots(r, c) == c = "Del" /\ r.ctl /\ r.alt

\* A byte of kb reaches kbdputsc.
Scan(kb) ==
  LET s == source(kb)
      r == scan[s]
      b == Head(pending[kb])
      c == IF b.c \in Pos THEN tab[Lookup(r)][b.c] ELSE "char"
      pressed == b.c \in Pos /\ (r.esc1 \/ r.esc2 = 0) /\ ~b.up
  IN  /\ pending[kb] # <<>> /\ ~exited
      /\ \E q \in kbdputsc(r, b, c) : scan' = [scan EXCEPT ![s] = q]
      /\ exited' = (pressed /\ Reboots(r, c))
      /\ pending' = [pending EXCEPT ![kb] = Tail(@)]
      /\ UNCHANGED <<keys, tab, kbin, down, remaps, excused>>

i8042intr == Scan("i8042")

\* One turn of kbinwrite's loop.
kbinwrite(c) == pc[c] = "open" /\ Scan(c)

(* --------------------------------- kbin --------------------------------- *)

kbinwalk(c) ==
  /\ ~exited /\ pc[c] = "none" /\ keys[c] # {}
  /\ pc' = [pc EXCEPT ![c] = "walked"]
  /\ UNCHANGED <<keys, driver, tab, busy, stray, keyboards, remaps, excused>>

\* Mutant: the flag is set but not looked at.
kbinopenAlways(c) ==
  /\ ~exited /\ pc[c] = "walked"
  /\ busy' = TRUE /\ pc' = [pc EXCEPT ![c] = "opening"]
  /\ UNCHANGED <<keys, driver, tab, stray, keyboards, remaps, excused>>

\* The flag is taken; Einuse would leave the channel walked.
kbinopen(c) ==
  /\ ~exited /\ pc[c] = "walked" /\ ~busy
  /\ busy' = TRUE /\ pc' = [pc EXCEPT ![c] = "opening"]
  /\ UNCHANGED <<keys, driver, tab, stray, keyboards, remaps, excused>>

\* devopen succeeds or raises an error.
devopen(c) ==
  /\ ~exited /\ pc[c] = "opening"
  /\ \E to \in {"open", "failed"} : pc' = [pc EXCEPT ![c] = to]
  /\ UNCHANGED <<keys, driver, tab, busy, stray, keyboards, remaps, excused>>

AllFlags(s) == {s} \X {"alt", "altgr", "ctl", "shift", "prefix"}

\* Every channel that was walked to the file comes here in the end, opened or
\* not, and clears the flag.  The scan state stays.
kbinclose(c) ==
  /\ ~exited /\ pc[c] \in {"walked", "failed", "open"}
  /\ busy' = FALSE /\ pc' = [pc EXCEPT ![c] = "none"]
  /\ stray' = (stray \/ (pc[c] = "walked" /\ busy))
  /\ excused' = excused \cup IF down[c] # {} \/ pending[c] # <<>> THEN AllFlags("external") ELSE {}
  /\ pending' = [pending EXCEPT ![c] = <<>>] /\ down' = [down EXCEPT ![c] = {}]
  /\ UNCHANGED <<keys, driver, tab, remaps>>

kbdputmap(m, p, r) ==
  /\ ~exited /\ remaps < MaxRemaps
  /\ remaps' = remaps + 1 /\ tab' = [tab EXCEPT ![m][p] = r]
  /\ excused' = excused \cup
       UNION {AllFlags(source(kb)) : kb \in {k \in Keyboard : down[k] # {} \/ pending[k] # <<>>}}
  /\ UNCHANGED <<keys, driver, kbin, keyboards>>

(* ------------------------------- keyboards ------------------------------ *)

\* A keyboard sends one key at a time.
Ready(kb) == ~exited /\ pending[kb] = <<>> /\ (kb \in Chan => pc[kb] = "open")

\* A key that is held down may repeat.
Press(kb, k) ==
  /\ Ready(kb) /\ k \in keys[kb]
  /\ pending' = [pending EXCEPT ![kb] = Bytes(k, FALSE)]
  /\ down' = [down EXCEPT ![kb] = @ \cup {k}]
  /\ UNCHANGED <<keys, driver, tab, kbin, remaps, excused>>

\* The two keys whose release means something else while AltGr is down: that
\* of Alt is taken for one of AltGr, that of CapsLock for nothing.
Excuse(kb, k) ==
  IF "altgr" \notin down[kb] THEN {}
  ELSE {source(kb)} \X (CASE k = "alt" -> {"alt"} [] k = "capslock" -> {"ctl"} [] OTHER -> {})

Release(kb, k) ==
  /\ Ready(kb) /\ k \in down[kb]
  /\ pending' = [pending EXCEPT ![kb] = Bytes(k, TRUE)]
  /\ down' = [down EXCEPT ![kb] = @ \ {k}]
  /\ excused' = excused \cup Excuse(kb, k)
  /\ UNCHANGED <<keys, driver, tab, kbin, remaps>>

Next ==
  \/ i8042intr
  \/ \E c \in Chan : kbinwalk(c) \/ kbinopen(c) \/ devopen(c) \/ kbinwrite(c) \/ kbinclose(c)
  \/ \E m \in Remaps : kbdputmap(m[1], m[2], m[3])
  \/ \E kb \in Keyboard, k \in Key : Press(kb, k) \/ Release(kb, k)

Spec == Init /\ [][Next]_vars

(* ------------------------------ properties ------------------------------ *)

\* kc has room for the next character, and is empty unless a compose sequence
\* has begun; everything else is of its type.
TypeOK ==
  /\ keys \in Loads /\ tab \in [Table -> [Pos -> Rune]]
  /\ \A s \in Source :
       /\ scan[s] \in [esc1 : BOOLEAN, esc2 : 0..2, alt : BOOLEAN, altgr : BOOLEAN,
                       ctl : BOOLEAN, shift : BOOLEAN, collecting : BOOLEAN, nk : 0..4]
       /\ scan[s].collecting \/ scan[s].nk = 0
  /\ exited \in BOOLEAN /\ busy \in BOOLEAN /\ stray \in BOOLEAN /\ remaps \in 0..MaxRemaps
  /\ pc \in [Chan -> {"none", "walked", "opening", "failed", "open"}]
  /\ down \in [Keyboard -> SUBSET Key]

Held(s) == UNION {down[kb] : kb \in {k \in Keyboard : source(k) = s}}

\* The keys that set a flag.  (Alt under AltGr is another AltGr; it sets what
\* is set already.)
Keys == [alt |-> {"alt"}, altgr |-> {"altgr"}, ctl |-> {"ctrl", "rctrl", "capslock"},
         shift |-> {"shift", "rshift", "print"}]

Unescaped == Table \ {"esc1"}

\* The places of the map where a modifier or Del may stand, and those where a
\* modifier must, as the release of its key is looked up there while its flag
\* is set.
Makes == [Latin |-> Unescaped \X {"38"}, Altgr |-> {<<"esc1", "38">>, <<"altgr", "38">>},
          Ctrl |-> (Unescaped \X {"1d", "3a"}) \cup {<<"esc1", "1d">>},
          Shift |-> (Unescaped \X {"2a", "36"}) \cup {<<"esc1", "2a">>},
          Del |-> {<<"esc1", "53">>, <<"altgr", "53">>}]
Keeps == [Latin |-> {"plain", "shift", "ctrl"} \X {"38"}, Altgr |-> {<<"esc1", "38">>},
          Ctrl |-> ({"shift", "ctrl"} \X {"1d", "3a"}) \cup {<<"altgr", "1d">>, <<"esc1", "1d">>},
          Shift |-> ({"shift"} \X {"2a", "36"}) \cup {<<"esc1", "2a">>}]

MayBe(t, p, r) ==
  /\ r \in DOMAIN Makes => <<t, p>> \in Makes[r]
  /\ \A m \in DOMAIN Keeps : <<t, p>> \in Keeps[m] => r = m

\* What is written to the map moves no modifier out of such a place, and none
\* into another.
RemapsKeepModifiers == \A w \in Remaps : MayBe(w[1], w[2], w[3])

\* No modifier sticks.  Whatever keys overlap in whatever order, and although
\* a release is looked up in the table that the modifiers then select, not in
\* the one its press was looked up in: once the bytes of a key are through,
\* Shift, Ctrl, Alt and AltGr are set only while a key for them is down, and
\* no prefix waits.  Excepted are the flags of Excuse, changes of the map
\* under keys that are down, and what a program leaves behind in kbin; and
\* Remaps must keep to RemapsKeepModifiers.
ModifiersMatchKeys ==
  \A s \in Source :
    (\A kb \in Keyboard : source(kb) = s => pending[kb] = <<>>) /\ ~(stray /\ s = "external") =>
      /\ \A f \in DOMAIN Keys : scan[s][f] /\ <<s, f>> \notin excused => Held(s) \cap Keys[f] # {}
      /\ <<s, "prefix">> \notin excused => ~scan[s].esc1 /\ scan[s].esc2 = 0

\* kbin is held by one channel at a time, which has the busy flag, as long as
\* no other channel on the file is closed: an open that fails partway gives
\* the flag back, and no two opens take it.
KbinIsExclusive ==
  LET holders == {c \in Chan : pc[c] \in {"opening", "failed", "open"}}
  IN  ~stray => /\ busy = (holders # {})
                /\ \A c, d \in holders : c = d

\* exit(0) is called only with Ctrl, Alt and a Del of one source held down
\* together, whatever was typed before: the Del key, or with AltGr the point of
\* the keypad.  Excepted is a source whose Ctrl or Alt was left set (excused),
\* where fewer keys do, and kbin after a stray close.
OnlyCtrlAltDelExits ==
  [][\A kb \in Keyboard :
       ~exited /\ exited' /\ pending'[kb] # pending[kb] =>
         LET s == source(kb) IN
           \/ {<<s, "ctl">>, <<s, "alt">>} \cap excused # {} \/ (stray /\ s = "external")
           \/ /\ Held(s) \cap Keys.ctl # {} /\ "alt" \in Held(s)
              /\ "del" \in Held(s) \/ {"kpdel", "altgr"} \subseteq Held(s)]_vars
=============================================================================
