------------------------------ MODULE Kbd_proofs ------------------------------
(* For any channels, loads and map: the scan state keeps its types (kc never *)
(* takes a sixth character), and kbin has one holder until a channel that is *)
(* not its holder is closed.  For any map that keeps its modifiers: none     *)
(* sticks, and exit(0) takes Ctrl, Alt and Del, but for the exceptions that  *)
(* the two properties name.                                                  *)
EXTENDS Kbd, SequenceTheorems, TLAPS

Scan1 == [esc1 : BOOLEAN, esc2 : 0..2, alt : BOOLEAN, altgr : BOOLEAN,
          ctl : BOOLEAN, shift : BOOLEAN, collecting : BOOLEAN, nk : 0..4]
State == {r \in Scan1 : r.collecting \/ r.nk = 0}
Byte  == [c : Pos \cup {"e0", "e1"}, up : BOOLEAN]

\* What a keyboard sends is bytes.
PendingInv == pending \in [Keyboard -> Seq(Byte)]

-----------------------------------------------------------------------------
LEMMA CodesType ==
  ASSUME NEW k \in Key, NEW u \in BOOLEAN
  PROVE  Bytes(k, u) \in Seq(Byte)
<1> DEFINE C == Pos \cup {"e0", "e1"}
<1>1. Codes[k] \in Seq(C)
  <2>1. /\ \A p \in C : <<p>> \in Seq(C)
        /\ \A p, q \in C : <<p, q>> \in Seq(C)
        /\ \A p, q, s \in C : <<p, q, s>> \in Seq(C)
        /\ \A p, q, s, t \in C : <<p, q, s, t>> \in Seq(C)
    OBVIOUS
  <2>2. {"1d", "1e", "2a", "36", "37", "38", "3a", "45", "47", "53", "e0", "e1"} = C
    BY DEF Pos
  <2> HIDE DEF C
  <2>3. Key = {"ctrl", "rctrl", "shift", "rshift", "alt", "altgr", "capslock", "a", "del", "kpdel", "home",
          "pause", "print"}
    BY DEF Key, Codes
  <2>4. CASE k \in {"ctrl", "shift", "rshift", "alt", "capslock", "a", "kpdel"}
    <3>1. \E p \in C : Codes[k] = <<p>>
      BY <2>2, <2>4 DEF Codes
    <3> QED
      BY <2>1, <3>1
  <2>5. CASE k \in {"rctrl", "altgr", "del", "home"}
    <3>1. \E p, q \in C : Codes[k] = <<p, q>>
      BY <2>2, <2>5 DEF Codes
    <3> QED
      BY <2>1, <3>1
  <2>6. CASE k = "pause"
    <3>1. Codes[k] = <<"e1", "1d", "45">>
      BY <2>6 DEF Codes
    <3> QED
      BY <2>1, <2>2, <3>1
  <2>7. CASE k = "print"
    <3>1. Codes[k] = <<"e0", "2a", "e0", "37">>
      BY <2>7 DEF Codes
    <3> QED
      BY <2>1, <2>2, <3>1
  <2> QED
    BY <2>3, <2>4, <2>5, <2>6, <2>7
<1>2. ASSUME NEW q \in Seq(C) PROVE [i \in DOMAIN q |-> [c |-> q[i], up |-> u]] \in Seq(Byte)
  <2> DEFINE v == [i \in DOMAIN q |-> [c |-> q[i], up |-> u]]
  <2>1. DOMAIN q = 1..Len(q) /\ Len(q) \in Nat /\ \A i \in 1..Len(q) : q[i] \in C
    OBVIOUS
  <2>2. v \in [1..Len(q) -> Byte]
    BY <2>1 DEF Byte
  <2> QED
    BY <2>1, <2>2, SeqDef
<1> QED
  BY <1>1, <1>2 DEF Bytes

\* A flag set or cleared, or a compose sequence begun, leaves a state.
LEMMA FlagType ==
  ASSUME NEW r \in State, NEW v \in BOOLEAN
  PROVE  /\ [r EXCEPT !["alt"] = v] \in State /\ [r EXCEPT !["altgr"] = v] \in State
         /\ [r EXCEPT !["ctl"] = v] \in State /\ [r EXCEPT !["shift"] = v] \in State
         /\ [r EXCEPT !.collecting = TRUE, !.nk = 0] \in State
         /\ [r EXCEPT !.esc1 = v] \in State /\ [r EXCEPT !.esc2 = 2] \in State
         /\ r.collecting => \A n \in 0..4 : [r EXCEPT !.nk = n] \in State
         /\ [r EXCEPT !.nk = 0, !.collecting = FALSE] \in State
<1> USE DEF State, Scan1
<1>1. [r EXCEPT !["alt"] = v] \in State /\ [r EXCEPT !["altgr"] = v] \in State
  OBVIOUS
<1>2. [r EXCEPT !["ctl"] = v] \in State /\ [r EXCEPT !["shift"] = v] \in State
  OBVIOUS
<1>3. \A w \in BOOLEAN : [r EXCEPT !.collecting = w] \in Scan1
  OBVIOUS
<1>4. \A y \in Scan1 : [y EXCEPT !.nk = 0] \in Scan1 /\ [y EXCEPT !.nk = 0].nk = 0
  OBVIOUS
<1>5. [r EXCEPT !.esc1 = v] \in State /\ [r EXCEPT !.esc2 = 2] \in State
  OBVIOUS
<1>6. ASSUME r.collecting, NEW n \in 0..4 PROVE [r EXCEPT !.nk = n] \in State
  BY <1>6
<1>7. [r EXCEPT !.collecting = TRUE, !.nk = 0] \in State
  BY <1>3, <1>4 DEF State
<1>8. [r EXCEPT !.nk = 0, !.collecting = FALSE] \in State
  <2> DEFINE x == [r EXCEPT !.nk = 0, !.collecting = FALSE]
  <2>1. x = [r EXCEPT !.collecting = FALSE, !.nk = 0]
    OBVIOUS
  <2> QED
    BY <2>1, <1>3, <1>4 DEF State
<1> HIDE DEF State, Scan1
<1> QED
  BY <1>1, <1>2, <1>5, <1>6, <1>7, <1>8

LEMMA FlagOf ==
  /\ DOMAIN Flag = {"Latin", "Shift", "Ctrl", "Altgr"}
  /\ Flag["Latin"] = "alt" /\ Flag["Shift"] = "shift" /\ Flag["Ctrl"] = "ctl" /\ Flag["Altgr"] = "altgr"
BY DEF Flag

LEMMA SetFlagType ==
  ASSUME NEW r \in State, NEW v \in BOOLEAN, NEW c \in DOMAIN Flag
  PROVE  [r EXCEPT ![Flag[c]] = v] \in State
<1>1. Flag[c] \in {"alt", "altgr", "ctl", "shift"}
  BY FlagOf
<1> HIDE DEF State
<1>2. CASE Flag[c] = "alt"
  BY <1>2, FlagType
<1>3. CASE Flag[c] = "altgr"
  BY <1>3, FlagType
<1>4. CASE Flag[c] = "ctl"
  BY <1>4, FlagType
<1>5. CASE Flag[c] = "shift"
  BY <1>5, FlagType
<1> QED
  BY <1>1, <1>2, <1>3, <1>4, <1>5

LEMMA KeyUpType ==
  ASSUME NEW r \in State, NEW c \in Rune PROVE KeyUp(r, c) \in State
BY SetFlagType DEF KeyUp

LEMMA KeyDownType ==
  ASSUME NEW r \in State, NEW c \in Rune PROVE KeyDown(r, c) \in State
<1> DEFINE d == IF c \in DOMAIN Flag THEN [r EXCEPT ![Flag[c]] = TRUE] ELSE r
<1>1. d \in State
  BY SetFlagType
<1> HIDE DEF d
<1>2. [d EXCEPT !.collecting = TRUE, !.nk = 0] \in State
  BY <1>1, FlagType
<1>3. KeyDown(r, c) = IF c = "Latin" /\ ~r.ctl THEN [d EXCEPT !.collecting = TRUE, !.nk = 0] ELSE d
  BY DEF KeyDown, d
<1> QED
  BY <1>1, <1>2, <1>3

LEMMA ComposeType ==
  ASSUME NEW r \in State, r.collecting PROVE Compose(r) \subseteq State
<1>1. \A n \in {r.nk + 1} \cap 1..4 : n \in 0..4
  OBVIOUS
<1>2. /\ [r EXCEPT !.nk = 0, !.collecting = FALSE] \in State
      /\ \A n \in 0..4 : [r EXCEPT !.nk = n] \in State
  <2>1. FALSE \in BOOLEAN
    OBVIOUS
  <2> QED
    BY <2>1, FlagType
<1> HIDE DEF State
<1>3. {[r EXCEPT !.nk = n] : n \in {r.nk + 1} \cap 1..4} \subseteq State
  BY <1>1, <1>2
<1> QED
  BY <1>2, <1>3 DEF Compose

LEMMA ScanType ==
  ASSUME NEW r \in State, NEW b \in Byte, NEW c \in Rune
  PROVE  kbdputsc(r, b, c) \subseteq State
<1>1. CASE b.c = "e0"
  <2>1. kbdputsc(r, b, c) = {[r EXCEPT !.esc1 = TRUE]}
    BY <1>1 DEF kbdputsc, Pos
  <2> QED
    BY <2>1, FlagType
<1>2. CASE b.c = "e1"
  <2>1. kbdputsc(r, b, c) = {[r EXCEPT !.esc2 = 2]}
    BY <1>2 DEF kbdputsc, Pos
  <2> QED
    BY <2>1, FlagType
<1>3. CASE b.c \in Pos /\ ~r.esc1 /\ r.esc2 > 0
  BY <1>3 DEF kbdputsc, State, Scan1, Pos
<1>4. CASE b.c \in Pos /\ (r.esc1 \/ r.esc2 = 0)
  <2> DEFINE u == [r EXCEPT !.esc1 = FALSE]
  <2>1. u \in State /\ u.collecting = r.collecting
    BY DEF State, Scan1
  <2>2. kbdputsc(r, b, c) = CASE b.up -> {KeyUp(u, c)}
                               [] ~b.up /\ c \in {"char", "Del"} /\ r.collecting -> Compose(u)
                               [] OTHER -> {KeyDown(u, c)}
    BY <1>4 DEF kbdputsc, Pos
  <2> HIDE DEF u
  <2> QED
    BY <2>1, <2>2, KeyUpType, KeyDownType, ComposeType
<1>5. r.esc2 \in 0..2 /\ b.c \in Pos \cup {"e0", "e1"}
  BY DEF State, Scan1, Byte
<1> QED
  BY <1>1, <1>2, <1>3, <1>4, <1>5

-----------------------------------------------------------------------------
\* The types of TypeOK, in the names used here.
Types ==
  /\ keys \in Loads /\ tab \in [Table -> [Pos -> Rune]] /\ scan \in [Source -> State]
  /\ exited \in BOOLEAN /\ busy \in BOOLEAN /\ stray \in BOOLEAN /\ remaps \in 0..MaxRemaps
  /\ pc \in [Chan -> {"none", "walked", "opening", "failed", "open"}]
  /\ down \in [Keyboard -> SUBSET Key] /\ PendingInv

LEMMA TypesImply == Types => TypeOK
<1> SUFFICES ASSUME Types PROVE TypeOK
  OBVIOUS
<1>1. \A s \in Source : scan[s] \in Scan1 /\ (scan[s].collecting \/ scan[s].nk = 0)
  BY DEF Types, State
<1> QED
  BY <1>1 DEF Types, TypeOK, Scan1

LEMMA InitTypes == Init => Types /\ KbinIsExclusive
<1> SUFFICES ASSUME Init PROVE Types /\ KbinIsExclusive
  OBVIOUS
<1>1. Released \in State
  BY DEF Released, State, Scan1
<1>2. /\ kbtab \in [Pos -> Rune] /\ kbtabshift \in [Pos -> Rune] /\ kbtabctrl \in [Pos -> Rune]
      /\ kbtabesc1 \in [Pos -> Rune] /\ kbtabaltgr \in [Pos -> Rune]
  BY DEF kbtab, kbtabshift, kbtabctrl, kbtabesc1, kbtabaltgr, Rune
<1>3. tab \in [Table -> [Pos -> Rune]]
  BY <1>2 DEF Init, Table
<1>4. scan \in [Source -> State]
  BY <1>1 DEF Init
<1>5. remaps \in 0..MaxRemaps
  BY KbdAssumption DEF Init
<1>6. PendingInv
  BY DEF Init, PendingInv
<1>7. KbinIsExclusive
  BY DEF Init, KbinIsExclusive
<1> QED
  BY <1>3, <1>4, <1>5, <1>6, <1>7 DEF Init, Types

LEMMA ScanStep ==
  ASSUME Types, NEW kb \in Keyboard, Scan(kb)
  PROVE  Types'
<1> DEFINE s == source(kb)
           b == Head(pending[kb])
           c == IF b.c \in Pos THEN tab[Lookup(scan[s])][b.c] ELSE "char"
<1>1. s \in Source
  BY DEF source, Source
<1>2. b \in Byte /\ Tail(pending[kb]) \in Seq(Byte)
  BY DEF Types, PendingInv, Scan
<1>3. c \in Rune
  <2>1. Lookup(scan[s]) \in Table
    BY DEF Lookup, Table
  <2> QED
    BY <2>1 DEF Types, Rune
<1>4. scan[s] \in State
  BY <1>1 DEF Types
<1>5. PICK q \in kbdputsc(scan[s], b, c) : scan' = [scan EXCEPT ![s] = q]
  BY DEF Scan
<1>6. exited' \in BOOLEAN /\ pending' = [pending EXCEPT ![kb] = Tail(pending[kb])]
      /\ UNCHANGED <<keys, tab, busy, pc, stray, down, remaps>>
  BY DEF Scan, kbin
<1> HIDE DEF s, b, c
<1>7. q \in State
  BY <1>2, <1>3, <1>4, <1>5, ScanType
<1>8. scan' \in [Source -> State]
  BY <1>1, <1>5, <1>7 DEF Types
<1>9. PendingInv'
  BY <1>2, <1>6 DEF Types, PendingInv
<1> QED
  BY <1>6, <1>8, <1>9 DEF Types

LEMMA OtherStep ==
  ASSUME Types, Next, \A kb \in Keyboard : ~Scan(kb)
  PROVE  Types'
<1>1. ASSUME NEW c \in Chan, kbinwalk(c) \/ kbinopen(c) \/ devopen(c) PROVE Types'
  BY <1>1 DEF Types, PendingInv, kbinwalk, kbinopen, devopen, driver, keyboards
<1>2. ASSUME NEW c \in Chan, kbinclose(c) PROVE Types'
  <2>1. c \in Keyboard /\ <<>> \in Seq(Byte)
    BY DEF Keyboard
  <2>2. PendingInv'
    BY <1>2, <2>1 DEF Types, PendingInv, kbinclose
  <2>3. down' \in [Keyboard -> SUBSET Key]
    BY <1>2, <2>1 DEF Types, kbinclose
  <2>4. stray' \in BOOLEAN
    BY <1>2 DEF Types, kbinclose
  <2> QED
    BY <1>2, <2>2, <2>3, <2>4 DEF Types, kbinclose, driver
<1>3. ASSUME NEW m \in Remaps, kbdputmap(m[1], m[2], m[3]) PROVE Types'
  <2>1. m[1] \in Table /\ m[2] \in Pos /\ m[3] \in Rune
    BY KbdAssumption
  <2>2. tab' \in [Table -> [Pos -> Rune]]
    BY <1>3, <2>1 DEF Types, kbdputmap
  <2>3. remaps' \in 0..MaxRemaps
    BY <1>3, KbdAssumption DEF Types, kbdputmap
  <2> QED
    BY <1>3, <2>2, <2>3 DEF Types, PendingInv, kbdputmap, driver, kbin, keyboards
<1>4. ASSUME NEW kb \in Keyboard, NEW k \in Key, Press(kb, k) \/ Release(kb, k) PROVE Types'
  <2>1. Bytes(k, TRUE) \in Seq(Byte) /\ Bytes(k, FALSE) \in Seq(Byte)
    BY CodesType
  <2>2. PendingInv' /\ down' \in [Keyboard -> SUBSET Key]
    BY <1>4, <2>1 DEF Types, PendingInv, Press, Release
  <2> QED
    BY <1>4, <2>2 DEF Types, Press, Release, driver, kbin
<1>5. \A c \in Chan : ~kbinwrite(c)
  BY DEF kbinwrite, Keyboard
<1>6. ~i8042intr
  BY DEF i8042intr, Keyboard
<1> QED
  BY <1>1, <1>2, <1>3, <1>4, <1>5, <1>6 DEF Next

LEMMA TypesStep == Types /\ [Next]_vars => Types'
<1> SUFFICES ASSUME Types, [Next]_vars PROVE Types'
  OBVIOUS
<1>1. CASE \E kb \in Keyboard : Scan(kb)
  BY <1>1, ScanStep
<1>2. CASE Next /\ \A kb \in Keyboard : ~Scan(kb)
  BY <1>2, OtherStep
<1>3. CASE UNCHANGED vars
  BY <1>3 DEF vars, Types, PendingInv, driver, kbin, keyboards
<1> QED
  BY <1>1, <1>2, <1>3

LEMMA ExclusiveStep == Types /\ KbinIsExclusive /\ [Next]_vars => KbinIsExclusive'
<1> SUFFICES ASSUME Types, KbinIsExclusive, [Next]_vars PROVE KbinIsExclusive'
  OBVIOUS
<1>1. CASE UNCHANGED kbin
  BY <1>1 DEF KbinIsExclusive, kbin
<1>2. ASSUME NEW c \in Chan, kbinwalk(c) PROVE KbinIsExclusive'
  BY <1>2 DEF KbinIsExclusive, kbinwalk, Types
<1>3. ASSUME NEW c \in Chan, kbinopen(c) PROVE KbinIsExclusive'
  BY <1>3 DEF KbinIsExclusive, kbinopen, Types
<1>4. ASSUME NEW c \in Chan, devopen(c) PROVE KbinIsExclusive'
  BY <1>4 DEF KbinIsExclusive, devopen, Types
<1>5. ASSUME NEW c \in Chan, kbinclose(c) PROVE KbinIsExclusive'
  BY <1>5 DEF KbinIsExclusive, kbinclose, Types
<1>6. ASSUME NEW kb \in Keyboard, Scan(kb) PROVE UNCHANGED kbin
  BY <1>6 DEF Scan
<1>7. ASSUME NEW m \in Remaps, kbdputmap(m[1], m[2], m[3]) PROVE UNCHANGED kbin
  BY <1>7 DEF kbdputmap
<1>8. ASSUME NEW kb \in Keyboard, NEW k \in Key, Press(kb, k) \/ Release(kb, k) PROVE UNCHANGED kbin
  BY <1>8 DEF Press, Release
<1>9. (i8042intr \/ \E c \in Chan : kbinwrite(c)) => UNCHANGED kbin
  BY <1>6 DEF i8042intr, kbinwrite, Keyboard
<1> QED
  BY <1>1, <1>2, <1>3, <1>4, <1>5, <1>7, <1>8, <1>9 DEF Next, vars

\* Types and the holder of kbin at every step.
THEOREM Invariance == Spec => [](Types /\ KbinIsExclusive)
<1>1. Init => Types /\ KbinIsExclusive
  BY InitTypes
<1>2. Types /\ KbinIsExclusive /\ [Next]_vars => Types' /\ KbinIsExclusive'
  BY TypesStep, ExclusiveStep
<1> QED
  BY <1>1, <1>2, PTL DEF Spec

\* Whatever is typed, forwarded and remapped, kc holds four characters at most
\* when a byte has been dealt with, and none outside a compose sequence.
THEOREM TypeCorrect == Spec => []TypeOK
BY Invariance, TypesImply, PTL

\* Until a channel that does not hold it is closed, kbin has one holder, with
\* the flag, for any number of channels.
THEOREM OneHolder == Spec => []KbinIsExclusive
BY Invariance, PTL

-----------------------------------------------------------------------------
(* Modifiers. *)

FlagName  == {"alt", "altgr", "ctl", "shift"}
MapKept == \A t \in Table, p \in Pos : MayBe(t, p, tab[t][p])

\* How many of a key's bytes have come when the one that sets or clears its
\* flag has.
Sent(k) == IF k \in {"rctrl", "altgr", "print"} THEN 2 ELSE 1

\* The bytes of a key after the first i, and the prefixes pending there.
Rest(k, u, i) == SubSeq(Bytes(k, u), i + 1, Len(Codes[k]))
Esc1At(k, i)  == i > 0 /\ Codes[k][i] = "e0"
Esc2At(k, i)  == IF k = "pause" /\ i \in {1, 2} THEN 3 - i ELSE 0

\* A flag is set only while a key for it is down, or the release of one has
\* still to clear it.
FlagsOK(s, late) ==
  \A f \in FlagName : scan[s][f] /\ <<s, f>> \notin excused => Held(s) \cap Keys[f] # {} \/ f \in late

Late(k, u, i) == IF u THEN {f \in FlagName : k \in Keys[f] /\ i < Sent(k)} ELSE {}

\* i bytes of key k, pressed or released, have come from keyboard kb.
Midkey(kb, k, u, i) ==
  /\ pending[kb] = Rest(k, u, i)
  /\ ~u => k \in down[kb]
  /\ u => Excuse(kb, k) \subseteq excused
  /\ <<source(kb), "prefix">> \notin excused =>
       scan[source(kb)].esc1 = Esc1At(k, i) /\ scan[source(kb)].esc2 = Esc2At(k, i)
  /\ FlagsOK(source(kb), Late(k, u, i))

Resting(s) ==
  FlagsOK(s, {}) /\ (<<s, "prefix">> \notin excused => ~scan[s].esc1 /\ scan[s].esc2 = 0)

SourceInv(s) ==
  /\ (\A kb \in Keyboard : source(kb) = s => pending[kb] = <<>>) => Resting(s)
  /\ \A kb \in Keyboard : source(kb) = s /\ pending[kb] # <<>> =>
       \E k \in Key, u \in BOOLEAN : \E i \in 0..(Len(Codes[k]) - 1) : Midkey(kb, k, u, i)

ModInv ==
  /\ MapKept
  /\ \A c \in Chan : pc[c] # "open" => pending[c] = <<>> /\ down[c] = {}
  /\ \A s \in Source : \A f \in {"altgr", "shift", "prefix"} :
       <<s, f>> \in excused => AllFlags(s) \subseteq excused
  /\ SourceInv("kernel") /\ (~stray => SourceInv("external"))

-----------------------------------------------------------------------------
LEMMA KeysAre ==
  /\ Keys["alt"] = {"alt"} /\ Keys["altgr"] = {"altgr"}
  /\ Keys["ctl"] = {"ctrl", "rctrl", "capslock"} /\ Keys["shift"] = {"shift", "rshift", "print"}
  /\ DOMAIN Keys = FlagName
BY DEF Keys, FlagName

LEMMA CodesAre ==
  /\ Key = {"ctrl", "rctrl", "shift", "rshift", "alt", "altgr", "capslock", "a", "del", "kpdel", "home",
          "pause", "print"}
  /\ Codes["ctrl"] = <<"1d">> /\ Codes["shift"] = <<"2a">> /\ Codes["rshift"] = <<"36">>
  /\ Codes["alt"] = <<"38">> /\ Codes["capslock"] = <<"3a">> /\ Codes["a"] = <<"1e">>
  /\ Codes["rctrl"] = <<"e0", "1d">> /\ Codes["altgr"] = <<"e0", "38">>
  /\ Codes["del"] = <<"e0", "53">> /\ Codes["kpdel"] = <<"53">> /\ Codes["home"] = <<"e0", "47">>
  /\ Codes["pause"] = <<"e1", "1d", "45">> /\ Codes["print"] = <<"e0", "2a", "e0", "37">>
BY DEF Key, Codes

\* The keys of one byte, and of an escaped byte.
Plain   == [ctrl |-> "1d", shift |-> "2a", rshift |-> "36", alt |-> "38", capslock |-> "3a", a |-> "1e",
            kpdel |-> "53"]
Escaped == [rctrl |-> "1d", altgr |-> "38", del |-> "53", home |-> "47", print |-> "2a"]

\* What the next byte of a key is.
LEMMA NextByte ==
  ASSUME NEW k \in Key, NEW i \in 0..(Len(Codes[k]) - 1)
  PROVE  LET x == Codes[k][i + 1] IN
         \/ /\ x = "e0" /\ Esc1At(k, i + 1) /\ Esc2At(k, i) = 0 /\ Esc2At(k, i + 1) = 0
            /\ (k \in {"del", "home"} \/ ~(i < Sent(k)) \/ i + 1 < Sent(k))
         \/ x = "e1" /\ k = "pause" /\ ~Esc1At(k, i) /\ ~Esc1At(k, i + 1) /\ Esc2At(k, i + 1) = 2
         \/ /\ x \in Pos /\ k = "pause" /\ ~Esc1At(k, i) /\ ~Esc1At(k, i + 1)
            /\ Esc2At(k, i) > 0 /\ Esc2At(k, i + 1) = Esc2At(k, i) - 1
         \/ /\ x \in Pos /\ ~Esc1At(k, i + 1) /\ Esc2At(k, i) = 0 /\ Esc2At(k, i + 1) = 0
            /\ \/ ~Esc1At(k, i) /\ i = 0 /\ k \in DOMAIN Plain /\ x = Plain[k] /\ Sent(k) = 1
               \/ Esc1At(k, i) /\ i = 1 /\ k \in DOMAIN Escaped /\ x = Escaped[k] /\ Sent(k) = (IF k \in {"del", "home"} THEN 1 ELSE 2)
               \/ Esc1At(k, i) /\ i = 3 /\ k = "print" /\ x = "37" /\ Sent(k) = 2
<1>1. CASE k \in {"ctrl", "shift", "rshift", "alt", "capslock", "a", "kpdel"}
  <2>0. Codes[k] = <<Plain[k]>> /\ Plain[k] \in Pos /\ k \in DOMAIN Plain
    BY <1>1, CodesAre DEF Plain, Pos
  <2>1. Len(Codes[k]) = 1 /\ i = 0 /\ Codes[k][1] = Plain[k] /\ Plain[k] \in Pos /\ k \in DOMAIN Plain
    BY <2>0
  <2>2. Plain[k] # "e0"
    BY <1>1 DEF Plain
  <2> QED
    BY <1>1, <2>1, <2>2 DEF Esc1At, Esc2At, Sent
<1>2. CASE k \in {"rctrl", "altgr", "del", "home"}
  <2>1. Codes[k] = <<"e0", Escaped[k]>> /\ Escaped[k] \in Pos /\ k \in DOMAIN Escaped /\ Escaped[k] # "e0"
    BY <1>2, CodesAre DEF Escaped, Pos
  <2>2. i \in {0, 1}
    BY <2>1
  <2>3. CASE i = 0
    BY <1>2, <2>1, <2>3 DEF Esc1At, Esc2At, Sent
  <2>4. CASE i = 1
    BY <1>2, <2>1, <2>4 DEF Esc1At, Esc2At, Sent
  <2> QED
    BY <2>2, <2>3, <2>4
<1>3. CASE k = "pause"
  <2>1. Codes[k] = <<"e1", "1d", "45">> /\ {"1d", "45"} \subseteq Pos
    BY <1>3, CodesAre DEF Pos
  <2>2. i \in {0, 1, 2}
    BY <2>1
  <2>3. CASE i = 0
    BY <1>3, <2>1, <2>3 DEF Esc1At, Esc2At, Sent
  <2>4. CASE i = 1
    BY <1>3, <2>1, <2>4 DEF Esc1At, Esc2At, Sent
  <2>5. CASE i = 2
    BY <1>3, <2>1, <2>5 DEF Esc1At, Esc2At, Sent
  <2> QED
    BY <2>2, <2>3, <2>4, <2>5
<1>4. CASE k = "print"
  <2>1. Codes[k] = <<"e0", "2a", "e0", "37">> /\ {"2a", "37"} \subseteq Pos /\ Escaped[k] = "2a" /\ k \in DOMAIN Escaped
    BY <1>4, CodesAre DEF Pos, Escaped
  <2>2. i \in {0, 1, 2, 3}
    BY <2>1
  <2>3. CASE i = 0
    BY <1>4, <2>1, <2>3 DEF Esc1At, Esc2At, Sent
  <2>4. CASE i = 1
    BY <1>4, <2>1, <2>4 DEF Esc1At, Esc2At, Sent
  <2>5. CASE i = 2
    BY <1>4, <2>1, <2>5 DEF Esc1At, Esc2At, Sent
  <2>6. CASE i = 3
    BY <1>4, <2>1, <2>6 DEF Esc1At, Esc2At, Sent
  <2> QED
    BY <2>2, <2>3, <2>4, <2>5, <2>6
<1> QED
  BY <1>1, <1>2, <1>3, <1>4, CodesAre

\* What kbdputsc does to the prefixes and the flags.
LEMMA FlagEffect ==
  ASSUME NEW r \in State, NEW b \in Byte, NEW c \in Rune, NEW q \in kbdputsc(r, b, c)
  PROVE  /\ b.c = "e0" => q.esc1 /\ q.esc2 = r.esc2 /\ \A f \in FlagName : q[f] = r[f]
         /\ b.c = "e1" => q.esc1 = r.esc1 /\ q.esc2 = 2 /\ \A f \in FlagName : q[f] = r[f]
         /\ b.c \in Pos /\ ~r.esc1 /\ r.esc2 > 0 =>
              q.esc1 = r.esc1 /\ q.esc2 = r.esc2 - 1 /\ \A f \in FlagName : q[f] = r[f]
         /\ b.c \in Pos /\ (r.esc1 \/ r.esc2 = 0) =>
              /\ ~q.esc1 /\ q.esc2 = r.esc2
              /\ \A f \in FlagName : IF c \in DOMAIN Flag /\ Flag[c] = f THEN q[f] <=> ~b.up ELSE q[f] = r[f]
<1> DEFINE Same(x, y) == x.esc1 = y.esc1 /\ x.esc2 = y.esc2 /\ \A f \in FlagName : x[f] = y[f]
<1>1. CASE b.c = "e0"
  <2>1. q = [r EXCEPT !.esc1 = TRUE]
    BY <1>1 DEF kbdputsc, Pos
  <2> QED
    BY <1>1, <2>1 DEF State, Scan1, FlagName, Pos
<1>2. CASE b.c = "e1"
  <2>1. q = [r EXCEPT !.esc2 = 2]
    BY <1>2 DEF kbdputsc, Pos
  <2> QED
    BY <1>2, <2>1 DEF State, Scan1, FlagName, Pos
<1>3. CASE b.c \in Pos /\ ~r.esc1 /\ r.esc2 > 0
  <2>1. q = [r EXCEPT !.esc2 = @ - 1]
    BY <1>3 DEF kbdputsc, Pos
  <2> QED
    BY <1>3, <2>1 DEF State, Scan1, FlagName, Pos
<1>4. CASE b.c \in Pos /\ (r.esc1 \/ r.esc2 = 0)
  <2> DEFINE u == [r EXCEPT !.esc1 = FALSE]
  <2>1. u \in State /\ ~u.esc1 /\ u.esc2 = r.esc2 /\ \A f \in FlagName : u[f] = r[f]
    BY DEF State, Scan1, FlagName
  <2>2. q \in CASE b.up -> {KeyUp(u, c)}
                [] ~b.up /\ c \in {"char", "Del"} /\ r.collecting -> Compose(u)
                [] OTHER -> {KeyDown(u, c)}
    BY <1>4 DEF kbdputsc, Pos
  <2> HIDE DEF u
  <2>3. ASSUME NEW v \in BOOLEAN, NEW m \in DOMAIN Flag
        PROVE  LET d == [u EXCEPT ![Flag[m]] = v] IN
               /\ d \in State /\ ~d.esc1 /\ d.esc2 = r.esc2
               /\ \A f \in FlagName : IF Flag[m] = f THEN d[f] <=> v ELSE d[f] = r[f]
    <3>1. Flag[m] \in FlagName
      BY FlagOf DEF FlagName
    <3>2. [u EXCEPT ![Flag[m]] = v] \in State
      BY <2>1, SetFlagType
    <3> QED
      BY <2>1, <3>1, <3>2 DEF State, Scan1, FlagName
  <2>4. CASE b.up
    <3>1. q = KeyUp(u, c)
      BY <2>2, <2>4
    <3>2. CASE c \in DOMAIN Flag
      <4>1. q = [u EXCEPT ![Flag[c]] = FALSE]
        BY <3>1, <3>2 DEF KeyUp
      <4> QED
        <5>1. FALSE \in BOOLEAN
          OBVIOUS
        <5>2. ~q.esc1 /\ q.esc2 = r.esc2 /\ \A f \in FlagName : IF Flag[c] = f THEN ~q[f] ELSE q[f] = r[f]
          BY <2>3, <3>2, <4>1, <5>1
        <5> QED
          BY <1>4, <2>4, <3>2, <5>2 DEF Pos
    <3>3. CASE c \notin DOMAIN Flag
      BY <1>4, <2>1, <3>1, <3>3 DEF KeyUp, Pos
    <3> QED
      BY <3>2, <3>3
  <2>5. CASE ~b.up /\ c \in {"char", "Del"} /\ r.collecting
    <3>1. q \in Compose(u) /\ c \notin DOMAIN Flag
      BY <2>2, <2>5, FlagOf
    <3>2. ~q.esc1 /\ q.esc2 = r.esc2 /\ \A f \in FlagName : q[f] = r[f]
      BY <2>1, <3>1 DEF Compose, State, Scan1, FlagName
    <3> QED
      BY <1>4, <3>1, <3>2 DEF Pos
  <2>6. CASE ~b.up /\ ~(c \in {"char", "Del"} /\ r.collecting)
    <3> DEFINE d == IF c \in DOMAIN Flag THEN [u EXCEPT ![Flag[c]] = TRUE] ELSE u
    <3>1. /\ d \in State /\ ~d.esc1 /\ d.esc2 = r.esc2
          /\ \A f \in FlagName : IF c \in DOMAIN Flag /\ Flag[c] = f THEN d[f] ELSE d[f] = r[f]
      <4>1. CASE c \in DOMAIN Flag
        <5>1. TRUE \in BOOLEAN
          OBVIOUS
        <5>2. d = [u EXCEPT ![Flag[c]] = TRUE]
          BY <4>1
        <5> HIDE DEF d
        <5>3. d \in State /\ ~d.esc1 /\ d.esc2 = r.esc2
              /\ \A f \in FlagName : IF Flag[c] = f THEN d[f] <=> TRUE ELSE d[f] = r[f]
          <6>1. Flag[c] \in FlagName
            BY <4>1, FlagOf DEF FlagName
          <6>2. d \in State
            BY <2>1, <4>1, <5>1, <5>2, SetFlagType
          <6> QED
            BY <2>1, <5>2, <6>1, <6>2 DEF State, Scan1, FlagName
        <5> QED
          BY <4>1, <5>3
      <4>2. CASE c \notin DOMAIN Flag
        BY <2>1, <4>2
      <4> QED
        BY <4>1, <4>2
    <3>2. q = IF c = "Latin" /\ ~u.ctl THEN [d EXCEPT !.collecting = TRUE, !.nk = 0] ELSE d
      BY <2>2, <2>6 DEF KeyDown
    <3> HIDE DEF d
    <3>3. q.esc1 = d.esc1 /\ q.esc2 = d.esc2 /\ \A f \in FlagName : q[f] = d[f]
      BY <3>1, <3>2 DEF State, Scan1, FlagName
    <3>4. ~q.esc1 /\ q.esc2 = r.esc2
          /\ \A f \in FlagName : IF c \in DOMAIN Flag /\ Flag[c] = f THEN q[f] ELSE q[f] = r[f]
      BY <3>1, <3>3
    <3> QED
      BY <1>4, <2>6, <3>4 DEF Pos
  <2> QED
    BY <2>4, <2>5, <2>6
<1>5. r.esc2 \in 0..2 /\ b.c \in Pos \cup {"e0", "e1"}
  BY DEF State, Scan1, Byte
<1> QED
  BY <1>1, <1>2, <1>3, <1>4, <1>5

\* The rune of the byte that counts: what it may set, and must clear.
LEMMA RuneOf ==
  ASSUME Types, MapKept, NEW r \in State, NEW k \in Key, NEW x \in Pos,
         \/ ~r.esc1 /\ k \in DOMAIN Plain /\ x = Plain[k]
         \/ r.esc1 /\ k \in DOMAIN Escaped /\ x = Escaped[k]
         \/ r.esc1 /\ k = "print" /\ x = "37"
  PROVE  LET c == tab[Lookup(r)][x] IN
         /\ c \in Rune
         /\ c \in DOMAIN Flag => k \in Keys[Flag[c]] \/ (Flag[c] = "altgr" /\ r.altgr)
         /\ x # "37" =>
              \A f \in FlagName : k \in Keys[f] /\ r[f] /\ ~(r.altgr /\ k \in {"alt", "capslock"}) =>
                                 c \in DOMAIN Flag /\ Flag[c] = f
         /\ c = "Del" => k = "del" \/ (k = "kpdel" /\ r.altgr)
<1> DEFINE t == Lookup(r)
           c == tab[t][x]
<1>1. t \in Table /\ (t = "esc1" <=> r.esc1) /\ (t = "shift" <=> ~r.esc1 /\ r.shift)
      /\ (t = "altgr" <=> ~r.esc1 /\ ~r.shift /\ r.altgr) /\ (t = "ctrl" => r.ctl)
      /\ (t = "plain" => ~r.shift /\ ~r.ctl /\ ~r.altgr)
  BY DEF Lookup, Table, State, Scan1
<1>2. c \in Rune /\ MayBe(t, x, c)
  BY <1>1 DEF Types, MapKept
<1> HIDE DEF t, c
<1>3. c \in DOMAIN Makes => <<t, x>> \in Makes[c]
  BY <1>2 DEF MayBe
<1>4. \A m \in DOMAIN Keeps : <<t, x>> \in Keeps[m] => c = m
  BY <1>2 DEF MayBe
<1>5. \/ ~r.esc1 /\ <<k, x>> \in {<<"ctrl", "1d">>, <<"shift", "2a">>, <<"rshift", "36">>, <<"alt", "38">>, <<"capslock", "3a">>, <<"a", "1e">>,
                                   <<"kpdel", "53">>}
      \/ r.esc1 /\ <<k, x>> \in {<<"rctrl", "1d">>, <<"altgr", "38">>, <<"del", "53">>, <<"home", "47">>, <<"print", "2a">>, <<"print", "37">>}
  BY DEF Plain, Escaped
<1>6. c \in DOMAIN Flag => k \in Keys[Flag[c]] \/ (Flag[c] = "altgr" /\ r.altgr)
  <2>1. CASE c = "Latin"
    <3>1. <<t, x>> \in Unescaped \X {"38"}
      BY <1>3, <2>1 DEF Makes
    <3> QED
      BY <1>1, <1>5, <2>1, <3>1, FlagOf, KeysAre DEF Unescaped
  <2>2. CASE c = "Altgr"
    <3>1. <<t, x>> \in {<<"esc1", "38">>, <<"altgr", "38">>}
      BY <1>3, <2>2 DEF Makes
    <3> QED
      BY <1>1, <1>5, <2>2, <3>1, FlagOf, KeysAre
  <2>3. CASE c = "Ctrl"
    <3>1. <<t, x>> \in (Unescaped \X {"1d", "3a"}) \cup {<<"esc1", "1d">>}
      BY <1>3, <2>3 DEF Makes
    <3> QED
      BY <1>1, <1>5, <2>3, <3>1, FlagOf, KeysAre DEF Unescaped
  <2>4. CASE c = "Shift"
    <3>1. <<t, x>> \in (Unescaped \X {"2a", "36"}) \cup {<<"esc1", "2a">>}
      BY <1>3, <2>4 DEF Makes
    <3> QED
      BY <1>1, <1>5, <2>4, <3>1, FlagOf, KeysAre DEF Unescaped
  <2> QED
    BY <2>1, <2>2, <2>3, <2>4, FlagOf
<1>7. ASSUME x # "37", NEW f \in FlagName, k \in Keys[f], r[f], ~(r.altgr /\ k \in {"alt", "capslock"})
      PROVE  c \in DOMAIN Flag /\ Flag[c] = f
  <2>1. CASE f = "alt"
    <3>1. k = "alt" /\ ~r.esc1 /\ x = "38" /\ t \in {"plain", "shift", "ctrl"}
      BY <1>1, <1>5, <1>7, <2>1, KeysAre DEF Table
    <3>2. c = "Latin"
      BY <1>4, <3>1 DEF Keeps
    <3> QED
      BY <2>1, <3>2, FlagOf
  <2>2. CASE f = "altgr"
    <3>1. k = "altgr" /\ x = "38" /\ t = "esc1"
      BY <1>1, <1>5, <1>7, <2>2, KeysAre
    <3>2. c = "Altgr"
      BY <1>4, <3>1 DEF Keeps
    <3> QED
      BY <2>2, <3>2, FlagOf
  <2>3. CASE f = "ctl"
    <3>1. r.ctl
      BY <1>7, <2>3
    <3>2. <<t, x>> \in ({"shift", "ctrl"} \X {"1d", "3a"}) \cup {<<"altgr", "1d">>, <<"esc1", "1d">>}
      BY <1>1, <1>5, <1>7, <2>3, <3>1, KeysAre DEF Table
    <3>3. c = "Ctrl"
      BY <1>4, <3>2 DEF Keeps
    <3> QED
      BY <2>3, <3>3, FlagOf
  <2>4. CASE f = "shift"
    <3>1. r.shift
      BY <1>7, <2>4
    <3>2. <<t, x>> \in ({"shift"} \X {"2a", "36"}) \cup {<<"esc1", "2a">>}
      BY <1>1, <1>5, <1>7, <2>4, <3>1, KeysAre DEF Table
    <3>3. c = "Shift"
      BY <1>4, <3>2 DEF Keeps
    <3> QED
      BY <2>4, <3>3, FlagOf
  <2> QED
    BY <1>7, <2>1, <2>2, <2>3, <2>4 DEF FlagName
<1>8. c = "Del" => k = "del" \/ (k = "kpdel" /\ r.altgr)
  <2>1. c = "Del" => <<t, x>> \in {<<"esc1", "53">>, <<"altgr", "53">>}
    BY <1>3 DEF Makes
  <2> QED
    BY <1>1, <1>5, <2>1
<1> QED
  BY <1>2, <1>6, <1>7, <1>8 DEF t, c

LEMMA RestOf ==
  ASSUME NEW k \in Key, NEW u \in BOOLEAN
  PROVE  /\ Len(Codes[k]) \in Nat \ {0} /\ Rest(k, u, 0) = Bytes(k, u)
         /\ Bytes(k, u) # <<>> /\ Rest(k, u, Len(Codes[k])) = <<>>
         /\ \A i \in 0..(Len(Codes[k]) - 1) :
              /\ Rest(k, u, i) # <<>> /\ Head(Rest(k, u, i)) = [c |-> Codes[k][i + 1], up |-> u]
              /\ Tail(Rest(k, u, i)) = Rest(k, u, i + 1)
<1> DEFINE n == Len(Codes[k])
           s == Bytes(k, u)
<1>1. n \in Nat \ {0} /\ DOMAIN Codes[k] = 1..n
  <2>1. CASE k \in {"ctrl", "shift", "rshift", "alt", "capslock", "a", "kpdel"}
    <3>1. \E p : Codes[k] = <<p>>
      BY <2>1, CodesAre
    <3> QED
      BY <3>1
  <2>2. CASE k \in {"rctrl", "altgr", "del", "home"}
    <3>1. \E p, q : Codes[k] = <<p, q>>
      BY <2>2, CodesAre
    <3> QED
      BY <3>1
  <2>3. CASE k \in {"pause", "print"}
    BY <2>3, CodesAre
  <2> QED
    BY <2>1, <2>2, <2>3, CodesAre
<1>2. s \in Seq(Byte)
  BY CodesType
<1>3. DOMAIN s = 1..n /\ \A i \in 1..n : s[i] = [c |-> Codes[k][i], up |-> u]
  BY <1>1 DEF Bytes
<1>4. Len(s) = n
  BY <1>1, <1>2, <1>3
<1> HIDE DEF n, s
<1>5. SubSeq(s, 1, n) = s
  BY <1>2, <1>4, SubSeqFull
<1>6. SubSeq(s, n + 1, n) = <<>>
  BY <1>1, SubSeqEmpty
<1>7. ASSUME NEW i \in 0..(n - 1)
      PROVE  /\ SubSeq(s, i + 1, n) # <<>> /\ Head(SubSeq(s, i + 1, n)) = s[i + 1]
             /\ Tail(SubSeq(s, i + 1, n)) = SubSeq(s, (i + 1) + 1, n)
  <2>1. i + 1 \in 1..Len(s) /\ n \in (i + 1)..Len(s)
    BY <1>1, <1>4
  <2>2. /\ Head(SubSeq(s, i + 1, n)) = s[i + 1]
        /\ Tail(SubSeq(s, i + 1, n)) = SubSeq(s, (i + 1) + 1, n)
    BY <1>2, <2>1, HeadTailOfSubSeq
  <2>3. \A j \in (i + 1)..n : s[j] \in Byte
    BY <1>1, <1>2, <1>4
  <2>4. Len(SubSeq(s, i + 1, n)) = n - (i + 1) + 1
    BY <1>1, <2>3, SubSeqProperties
  <2>5. SubSeq(s, i + 1, n) # <<>>
    <3>1. Len(SubSeq(s, i + 1, n)) # 0 /\ Len(<<>>) = 0
      BY <1>1, <2>4
    <3> QED
      BY <3>1
  <2> QED
    BY <2>2, <2>5
<1>8. s # <<>>
  BY <1>1, <1>4
<1>9. \A j : Rest(k, u, j) = SubSeq(s, j + 1, n)
  BY DEF Rest, n, s
<1>10. Rest(k, u, 0) = s /\ Rest(k, u, n) = <<>>
  <2>1. 0 + 1 = 1
    OBVIOUS
  <2> QED
    BY <1>5, <1>6, <1>9, <2>1, Zenon
<1>11. ASSUME NEW i \in 0..(n - 1)
       PROVE  /\ Rest(k, u, i) # <<>> /\ Head(Rest(k, u, i)) = [c |-> Codes[k][i + 1], up |-> u]
              /\ Tail(Rest(k, u, i)) = Rest(k, u, i + 1)
  <2>1. s[i + 1] = [c |-> Codes[k][i + 1], up |-> u]
    BY <1>1, <1>3
  <2> QED
    BY <1>7, <1>9, <2>1
<1>12. n \in Nat \ {0}
  BY <1>1
<1> QED
  BY <1>8, <1>10, <1>11, <1>12, Zenon DEF n, s

\* Of the keyboards of one source one is in use, unless a channel that did not
\* hold kbin was closed.
LEMMA Alone ==
  ASSUME Types, KbinIsExclusive,
         \A c \in Chan : pc[c] # "open" => pending[c] = <<>> /\ down[c] = {},
         NEW kb \in Keyboard, NEW other \in Keyboard \ {kb}, source(kb) = source(other),
         ~(stray /\ source(kb) = "external"),
         kb \in Chan => pc[kb] \in {"opening", "failed", "open"}
  PROVE  pending[other] = <<>> /\ down[other] = {}
<1>1. kb \in Chan /\ other \in Chan
  BY KbdAssumption DEF source, Keyboard
<1>2. ~stray
  BY <1>1, KbdAssumption DEF source
<1>3. pc[other] \notin {"opening", "failed", "open"}
  BY <1>1, <1>2 DEF KbinIsExclusive
<1> QED
  BY <1>1, <1>3

LEMMA SourceSame ==
  ASSUME NEW s \in Source, SourceInv(s), scan'[s] = scan[s], excused \subseteq excused',
         \A kb \in Keyboard : source(kb) = s => pending'[kb] = pending[kb] /\ down'[kb] = down[kb]
  PROVE  SourceInv(s)'
<1>1. Held(s)' = Held(s)
  BY DEF Held
<1>2. ASSUME NEW late, FlagsOK(s, late) PROVE FlagsOK(s, late)'
  BY <1>1, <1>2 DEF FlagsOK
<1>3. ASSUME NEW kb \in Keyboard, source(kb) = s, NEW k, NEW u, NEW i, Midkey(kb, k, u, i)
      PROVE  Midkey(kb, k, u, i)'
  <2>1. Late(k, u, i)' = Late(k, u, i) /\ Excuse(kb, k)' = Excuse(kb, k)
    BY <1>3 DEF Late, Excuse
  <2>2. FlagsOK(s, Late(k, u, i))'
    BY <1>2, <1>3, <2>1 DEF Midkey
  <2> QED
    BY <1>3, <2>1, <2>2 DEF Midkey
<1>4. Resting(s) => Resting(s)'
  BY <1>2 DEF Resting
<1> QED
  BY <1>3, <1>4 DEF SourceInv

\* The next byte of a key goes through kbdputsc.
LEMMA ByteThrough ==
  ASSUME Types, MapKept, NEW kb \in Keyboard, Scan(kb),
         NEW k \in Key, NEW u \in BOOLEAN, NEW i \in 0..(Len(Codes[k]) - 1), Midkey(kb, k, u, i),
         \A f \in {"altgr", "shift", "prefix"} :
            <<source(kb), f>> \in excused => AllFlags(source(kb)) \subseteq excused,
         \A other \in Keyboard \ {kb} : source(other) = source(kb) => down[other] = {}
  PROVE  Midkey(kb, k, u, i + 1)'
<1> DEFINE s == source(kb)
           r == scan[s]
           x == Codes[k][i + 1]
           c == IF x \in Pos THEN tab[Lookup(r)][x] ELSE "char"
           b == [c |-> x, up |-> u]
<1>1. s \in Source /\ r \in State
  BY DEF source, Source, Types
<1>2. Head(pending[kb]) = b /\ Tail(pending[kb]) = Rest(k, u, i + 1)
  BY RestOf DEF Midkey
<1>3. PICK q \in kbdputsc(r, b, c) : scan' = [scan EXCEPT ![s] = q]
  <2> DEFINE h == Head(pending[kb])
  <2>1. \E q \in kbdputsc(r, h, IF h.c \in Pos THEN tab[Lookup(r)][h.c] ELSE "char") :
          scan' = [scan EXCEPT ![s] = q]
    BY Zenon DEF Scan
  <2>2. h = b /\ b.c = x
    BY <1>2
  <2> HIDE DEF h, b
  <2> QED
    BY <2>1, <2>2
<1>4. pending'[kb] = Rest(k, u, i + 1) /\ UNCHANGED <<down, excused>>
  BY <1>2 DEF Scan, Types, PendingInv
<1>5. scan'[s] = q
  BY <1>1, <1>3 DEF Types
<1>6. b \in Byte /\ b.c = x /\ b.up = u /\ c \in Rune
  <2>1. pending[kb] \in Seq(Byte) /\ pending[kb] # <<>>
    BY DEF Types, PendingInv, Scan
  <2>2. b \in Byte
    BY <1>2, <2>1
  <2>3. c \in Rune
    <3>1. Lookup(r) \in Table
      BY DEF Lookup, Table
    <3> QED
      BY <3>1 DEF Types, Rune
  <2> QED
    BY <2>2, <2>3
<1>10. q \in State /\ q.esc1 \in BOOLEAN
  <2>1. q \in State
    BY <1>1, <1>3, <1>6, ScanType
  <2> QED
    BY <2>1 DEF State, Scan1
<1> HIDE DEF b
<1>7. Held(s)' = Held(s) /\ Excuse(kb, k)' = Excuse(kb, k)
  BY <1>4 DEF Held, Excuse
\* With a prefix left behind every flag is excused.
<1>8. CASE <<s, "prefix">> \in excused
  <2>1. \A f \in FlagName : <<s, f>> \in excused
    BY <1>8 DEF AllFlags, FlagName
  <2> QED
    BY <1>4, <1>7, <1>8, <2>1 DEF Midkey, FlagsOK
<1>9. CASE <<s, "prefix">> \notin excused
  <2>1. r.esc1 = Esc1At(k, i) /\ r.esc2 = Esc2At(k, i) /\ FlagsOK(s, Late(k, u, i))
    BY <1>9 DEF Midkey
  <2>2. SUFFICES /\ q.esc1 = Esc1At(k, i + 1) /\ q.esc2 = Esc2At(k, i + 1)
                 /\ \A f \in FlagName : q[f] /\ <<s, f>> \notin excused =>
                      Held(s) \cap Keys[f] # {} \/ f \in Late(k, u, i + 1)
    BY <1>4, <1>5, <1>7, <2>2 DEF Midkey, FlagsOK, Late
  \* Of a byte that counts for no flag only the prefixes matter.
  <2>3. ASSUME \A f \in FlagName : q[f] = r[f],
               \A f \in FlagName : f \in Late(k, u, i) => f \in Late(k, u, i + 1)
        PROVE  \A f \in FlagName : q[f] /\ <<s, f>> \notin excused =>
                 Held(s) \cap Keys[f] # {} \/ f \in Late(k, u, i + 1)
    BY <2>1, <2>3 DEF FlagsOK
  <2>4. k \in {"del", "home", "pause"} => Late(k, u, i) = {}
    BY KeysAre DEF Late, FlagName
  <2>5. CASE x = "e0"
    <3>1. /\ Esc1At(k, i + 1) /\ Esc2At(k, i) = 0 /\ Esc2At(k, i + 1) = 0
          /\ k \in {"del", "home"} \/ ~(i < Sent(k)) \/ i + 1 < Sent(k)
      BY <2>5, NextByte DEF Pos
    <3>2. q.esc1 /\ q.esc2 = r.esc2 /\ \A f \in FlagName : q[f] = r[f]
      BY <1>1, <1>6, <2>5, FlagEffect
    <3>3. \A f \in FlagName : f \in Late(k, u, i) => f \in Late(k, u, i + 1)
      BY <2>4, <3>1 DEF Late
    <3> QED
      BY <1>1, <2>1, <2>2, <2>3, <3>1, <3>2, <3>3 DEF State, Scan1, Esc1At
  <2>6. CASE x = "e1"
    <3>1. k = "pause" /\ ~Esc1At(k, i) /\ ~Esc1At(k, i + 1) /\ Esc2At(k, i + 1) = 2
      BY <2>6, NextByte DEF Pos
    <3>2. q.esc1 = r.esc1 /\ q.esc2 = 2 /\ \A f \in FlagName : q[f] = r[f]
      BY <1>1, <1>6, <2>6, FlagEffect
    <3> QED
      BY <2>1, <2>2, <2>3, <2>4, <3>1, <3>2 DEF Esc1At
  <2>7. CASE x \in Pos /\ k = "pause"
    <3>1. /\ ~Esc1At(k, i) /\ ~Esc1At(k, i + 1)
          /\ Esc2At(k, i) > 0 /\ Esc2At(k, i + 1) = Esc2At(k, i) - 1
      BY <2>7, NextByte DEF Pos, Plain, Escaped
    <3>2. q.esc1 = r.esc1 /\ q.esc2 = r.esc2 - 1 /\ \A f \in FlagName : q[f] = r[f]
      BY <1>1, <1>6, <2>1, <2>7, <3>1, FlagEffect
    <3>3. q.esc1 = Esc1At(k, i + 1) /\ q.esc2 = Esc2At(k, i + 1)
      BY <1>10, <2>1, <3>1, <3>2 DEF Esc1At
    <3> QED
      BY <2>2, <2>3, <2>4, <2>7, <3>2, <3>3
  <2>8. CASE x \in Pos /\ k # "pause"
    <3>1. /\ ~Esc1At(k, i + 1) /\ Esc2At(k, i) = 0 /\ Esc2At(k, i + 1) = 0
          /\ \/ ~Esc1At(k, i) /\ i = 0 /\ k \in DOMAIN Plain /\ x = Plain[k] /\ Sent(k) = 1
             \/ Esc1At(k, i) /\ i = 1 /\ k \in DOMAIN Escaped /\ x = Escaped[k] /\ Sent(k) = (IF k \in {"del", "home"} THEN 1 ELSE 2)
             \/ Esc1At(k, i) /\ i = 3 /\ k = "print" /\ x = "37" /\ Sent(k) = 2
      BY <2>8, NextByte DEF Pos
    <3>2. /\ c = tab[Lookup(r)][x]
          /\ c \in DOMAIN Flag => k \in Keys[Flag[c]] \/ (Flag[c] = "altgr" /\ r.altgr)
          /\ x # "37" =>
               \A f \in FlagName : k \in Keys[f] /\ r[f] /\ ~(r.altgr /\ k \in {"alt", "capslock"}) =>
                                  c \in DOMAIN Flag /\ Flag[c] = f
      <4>1. \/ ~r.esc1 /\ k \in DOMAIN Plain /\ x = Plain[k]
            \/ r.esc1 /\ k \in DOMAIN Escaped /\ x = Escaped[k]
            \/ r.esc1 /\ k = "print" /\ x = "37"
        BY <2>1, <3>1
      <4>2. c = tab[Lookup(r)][x]
        BY <2>8
      <4> HIDE DEF r, x, c
      <4> QED
        BY <1>1, <2>8, <4>1, <4>2, RuneOf
    <3>3. /\ ~q.esc1 /\ q.esc2 = 0
          /\ \A f \in FlagName : IF c \in DOMAIN Flag /\ Flag[c] = f THEN q[f] <=> ~u ELSE q[f] = r[f]
      BY <1>1, <1>6, <2>1, <2>8, <3>1, FlagEffect
    <3>4. ASSUME NEW f \in FlagName, q[f], <<s, f>> \notin excused
          PROVE  Held(s) \cap Keys[f] # {} \/ f \in Late(k, u, i + 1)
      <4>1. r.altgr /\ <<s, "altgr">> \notin excused => Held(s) \cap Keys["altgr"] # {} \/ "altgr" \in Late(k, u, i)
        BY <2>1 DEF FlagsOK, FlagName
      <4>2. <<s, "altgr">> \notin excused
        BY <1>9 DEF AllFlags
      \* The flag is set by this byte ...
      <4>3. CASE ~u /\ c \in DOMAIN Flag /\ Flag[c] = f
        <5>1. k \in Held(s)
          BY <4>3 DEF Midkey, Held
        <5>2. "altgr" \notin Late(k, u, i)
          BY <4>3 DEF Late
        <5> QED
          BY <3>2, <4>1, <4>2, <4>3, <5>1, <5>2
      \* ... or was set before.
      <4>4. CASE r[f] /\ ~(c \in DOMAIN Flag /\ Flag[c] = f)
        <5>1. Held(s) \cap Keys[f] # {} \/ f \in Late(k, u, i)
          BY <2>1, <3>4, <4>4 DEF FlagsOK
        <5>2. ASSUME f \in Late(k, u, i) PROVE FALSE
          <6>1. u /\ k \in Keys[f] /\ i < Sent(k)
            BY <5>2 DEF Late
          <6>2. x # "37"
            BY <3>1, <6>1 DEF Plain, Escaped
          <6>3. r.altgr /\ k \in {"alt", "capslock"}
            BY <3>2, <4>4, <6>1, <6>2
          <6>4. "altgr" \notin Late(k, u, i)
            BY <6>3, KeysAre DEF Late
          <6>5. "altgr" \in Held(s)
            BY <4>1, <4>2, <6>3, <6>4, KeysAre
          <6>6. <<s, f>> \in Excuse(kb, k)
            <7>1. "altgr" \in down[kb]
              BY <6>5 DEF Held
            <7>2. (k = "alt" /\ f = "alt") \/ (k = "capslock" /\ f = "ctl")
              BY <6>1, <6>3, KeysAre DEF FlagName
            <7>3. (k = "alt" => Excuse(kb, k) = {s} \X {"alt"}) /\ (k = "capslock" => Excuse(kb, k) = {s} \X {"ctl"})
              BY <7>1 DEF Excuse
            <7> QED
              BY <7>2, <7>3
          <6> QED
            BY <3>4, <6>1, <6>6 DEF Midkey
        <5> QED
          BY <5>1, <5>2
      <4> QED
        BY <3>3, <3>4, <4>3, <4>4
    <3>5. q.esc1 = Esc1At(k, i + 1) /\ q.esc2 = Esc2At(k, i + 1)
      BY <1>10, <3>1, <3>3 DEF Esc1At
    <3> QED
      BY <2>2, <3>4, <3>5
  <2>9. x \in Pos \cup {"e0", "e1"}
    BY <1>6 DEF Byte
  <2> QED
    BY <2>5, <2>6, <2>7, <2>8, <2>9
<1> QED
  BY <1>8, <1>9

LEMMA InitMod == Init => ModInv
<1> SUFFICES ASSUME Init PROVE ModInv
  OBVIOUS
<1>1. MapKept
  <2> SUFFICES ASSUME NEW t \in Table, NEW p \in Pos PROVE MayBe(t, p, tab[t][p])
    BY DEF MapKept
  <2>1. /\ tab["plain"] = kbtab /\ tab["shift"] = kbtabshift /\ tab["esc1"] = kbtabesc1
        /\ tab["altgr"] = kbtabaltgr /\ tab["ctrl"] = kbtabctrl
    BY DEF Init
  <2>2. CASE t = "plain" \/ t = "shift"
    <3>1. tab[t][p] = CASE p \in {"1d", "3a"} -> "Ctrl" [] p \in {"2a", "36"} -> "Shift"
                        [] p = "38" -> "Latin" [] p = "45" -> "key" [] OTHER -> "char"
      BY <2>1, <2>2 DEF kbtab, kbtabshift
    <3> QED
      BY <2>2, <3>1 DEF MayBe, Makes, Keeps, Unescaped, Table, Pos
  <2>3. CASE t = "ctrl"
    <3>1. tab[t][p] = CASE p \in {"1d", "3a"} -> "Ctrl" [] p \in {"2a", "36"} -> "Shift"
                        [] p = "38" -> "Latin" [] OTHER -> "char"
      BY <2>1, <2>3 DEF kbtab, kbtabctrl, Pos
    <3> QED
      BY <2>3, <3>1 DEF MayBe, Makes, Keeps, Unescaped, Table, Pos
  <2>4. CASE t = "esc1" \/ t = "altgr"
    <3>1. tab[t][p] = CASE p = "1d" -> "Ctrl" [] p = "2a" -> "Shift" [] p = "38" -> "Altgr"
                        [] p \in {"37", "47"} -> "key" [] p = "53" -> "Del" [] OTHER -> "char"
      BY <2>1, <2>4 DEF kbtabesc1, kbtabaltgr
    <3> QED
      BY <2>4, <3>1 DEF MayBe, Makes, Keeps, Unescaped, Table, Pos
  <2> QED
    BY <2>2, <2>3, <2>4 DEF Table
<1>2. ASSUME NEW s \in Source PROVE SourceInv(s)
  BY DEF Init, SourceInv, Resting, FlagsOK, Released, FlagName
<1> QED
  BY <1>1, <1>2 DEF Init, ModInv, Source, Keyboard

LEMMA Sources ==
  /\ Source = {"kernel", "external"} /\ \A kb \in Keyboard : source(kb) \in Source
  /\ \A c \in Chan : c \in Keyboard /\ source(c) = "external"
  /\ \A kb \in Keyboard : source(kb) = "kernel" => kb = "i8042"
BY KbdAssumption DEF Source, source, Keyboard

\* What a step that concerns one source leaves of the other.
LEMMA OneSource ==
  ASSUME ModInv, NEW s \in Source, SourceInv(s)' \/ (stray' /\ s = "external"),
         \A o \in Source \ {s} : scan'[o] = scan[o],
         excused \subseteq excused', stray => stray',
         \A kb \in Keyboard : source(kb) # s => pending'[kb] = pending[kb] /\ down'[kb] = down[kb]
  PROVE  SourceInv("kernel")' /\ (~stray' => SourceInv("external")')
<1>1. ASSUME NEW o \in Source \ {s}, SourceInv(o) PROVE SourceInv(o)'
  BY <1>1, SourceSame
<1> QED
  BY <1>1, Sources DEF ModInv

\* No key is on its way: the keyboards of the source rest.
LEMMA Rests ==
  ASSUME Types, KbinIsExclusive, ModInv, NEW kb \in Keyboard, pending[kb] = <<>>,
         ~(stray /\ source(kb) = "external"),
         kb \in Chan => pc[kb] \in {"opening", "failed", "open"}
  PROVE  /\ SourceInv(source(kb)) /\ Resting(source(kb))
         /\ \A other \in Keyboard \ {kb} : source(other) = source(kb) =>
              pending[other] = <<>> /\ down[other] = {}
<1>1. \A other \in Keyboard \ {kb} : source(other) = source(kb) => pending[other] = <<>> /\ down[other] = {}
  BY Alone DEF ModInv
<1>2. SourceInv(source(kb))
  BY Sources DEF ModInv
<1> QED
  BY <1>1, <1>2 DEF SourceInv

\* The keys of a source whose keyboards are not in use have gone on by one byte.
LEMMA KeyGoesOn ==
  ASSUME Types, NEW kb \in Keyboard, NEW k \in Key, NEW u \in BOOLEAN,
         NEW i \in 0..Len(Codes[k]), Midkey(kb, k, u, i)',
         \A other \in Keyboard \ {kb} : source(other) = source(kb) => pending'[other] = <<>>
  PROVE  SourceInv(source(kb))'
<1>1. Len(Codes[k]) \in Nat \ {0}
  BY RestOf
<1>2. CASE i = Len(Codes[k])
  <2>1. pending'[kb] = <<>> /\ FlagsOK(source(kb), Late(k, u, i))'
    BY <1>2, RestOf DEF Midkey
  <2>2. Late(k, u, i)' = {} /\ ~Esc1At(k, i) /\ Esc2At(k, i) = 0
    <3>1. i \in Nat /\ i - 1 \in 0..(Len(Codes[k]) - 1) /\ (i - 1) + 1 = i
      BY <1>1, <1>2
    <3>2. ~Esc1At(k, i) /\ Esc2At(k, i) = 0 /\ (i < Sent(k) => k \in {"pause"})
      <4>1. CASE k \in {"ctrl", "shift", "rshift", "alt", "capslock", "a", "kpdel"}
        <5>1. \E p \in Pos : Codes[k] = <<p>>
          BY <4>1, CodesAre DEF Pos
        <5>2. i = 1 /\ Codes[k][1] # "e0"
          BY <1>2, <5>1 DEF Pos
        <5> QED
          BY <4>1, <5>2 DEF Esc1At, Esc2At, Sent
      <4>2. CASE k \in {"rctrl", "altgr", "del", "home"}
        <5>1. \E p \in Pos : Codes[k] = <<"e0", p>>
          BY <4>2, CodesAre DEF Pos
        <5>2. i = 2 /\ Codes[k][2] # "e0"
          BY <1>2, <5>1 DEF Pos
        <5> QED
          BY <4>2, <5>2 DEF Esc1At, Esc2At, Sent
      <4>3. CASE k = "pause"
        <5>1. Codes[k] = <<"e1", "1d", "45">>
          BY <4>3, CodesAre
        <5>2. i = 3 /\ Codes[k][3] # "e0"
          BY <1>2, <5>1
        <5> QED
          BY <4>3, <5>2 DEF Esc1At, Esc2At, Sent
      <4>4. CASE k = "print"
        <5>1. Codes[k] = <<"e0", "2a", "e0", "37">>
          BY <4>4, CodesAre
        <5>2. i = 4 /\ Codes[k][4] # "e0"
          BY <1>2, <5>1
        <5> QED
          BY <4>4, <5>2 DEF Esc1At, Esc2At, Sent
      <4> QED
        BY <4>1, <4>2, <4>3, <4>4, CodesAre
    <3> QED
      BY <3>2, KeysAre DEF Late, FlagName
  <2>3. Resting(source(kb))'
    BY <2>1, <2>2 DEF Midkey, Resting
  <2> QED
    BY <2>1, <2>3 DEF SourceInv
<1>3. CASE i # Len(Codes[k])
  <2>1. i \in 0..(Len(Codes[k]) - 1)
    BY <1>1, <1>3
  <2>2. pending'[kb] # <<>>
    BY <2>1, RestOf DEF Midkey
  <2> QED
    BY <2>1, <2>2 DEF SourceInv
<1> QED
  BY <1>2, <1>3

LEMMA ScanMod ==
  ASSUME Types, KbinIsExclusive, ModInv, NEW kb \in Keyboard, Scan(kb), kb \in Chan => pc[kb] = "open"
  PROVE  ModInv'
<1> DEFINE s == source(kb)
<1>1. /\ UNCHANGED <<keys, tab, busy, pc, stray, down, remaps, excused>>
      /\ pending' = [pending EXCEPT ![kb] = Tail(@)] /\ pending[kb] # <<>>
  BY DEF Scan, kbin
<1>2. s \in Source /\ \A o \in Source \ {s} : scan'[o] = scan[o]
  BY Sources DEF Scan, Types
<1>3. \A other \in Keyboard \ {kb} : pending'[other] = pending[other]
  BY <1>1 DEF Types, PendingInv
<1>4. ASSUME ~(stray /\ s = "external") PROVE SourceInv(s)'
  <2>1. \A other \in Keyboard \ {kb} : source(other) = s => pending[other] = <<>> /\ down[other] = {}
    BY <1>4, Alone DEF ModInv
  <2>2. PICK k \in Key, u \in BOOLEAN : \E i \in 0..(Len(Codes[k]) - 1) : Midkey(kb, k, u, i)
    BY <1>1, <1>2, <1>4, Sources DEF ModInv, SourceInv
  <2>3. PICK i \in 0..(Len(Codes[k]) - 1) : Midkey(kb, k, u, i)
    BY <2>2
  <2>4. Midkey(kb, k, u, i + 1)'
    BY <1>2, <2>1, <2>3, ByteThrough DEF ModInv
  <2>5. i + 1 \in 0..Len(Codes[k])
    BY RestOf
  <2>6. \A other \in Keyboard \ {kb} : source(other) = s => pending'[other] = <<>>
    BY <1>3, <2>1
  <2> QED
    BY <2>4, <2>5, <2>6, KeyGoesOn
<1>5. SourceInv("kernel")' /\ (~stray' => SourceInv("external")')
  BY <1>1, <1>2, <1>3, <1>4, OneSource
<1>6. MapKept'
  BY <1>1 DEF ModInv, MapKept
<1>7. \A c \in Chan : pc'[c] # "open" => pending'[c] = <<>> /\ down'[c] = {}
  BY <1>1, <1>3, Sources DEF ModInv
<1> QED
  BY <1>1, <1>5, <1>6, <1>7 DEF ModInv

LEMMA KeyMod ==
  ASSUME Types, KbinIsExclusive, ModInv, NEW kb \in Keyboard, NEW k \in Key,
         Press(kb, k) \/ Release(kb, k)
  PROVE  ModInv'
<1> DEFINE s == source(kb)
           u == Release(kb, k)
<1>1. /\ UNCHANGED <<keys, tab, busy, pc, stray, remaps, scan>>
      /\ pending[kb] = <<>> /\ (kb \in Chan => pc[kb] = "open")
  BY DEF Press, Release, Ready, kbin, driver
<1>2. /\ excused \subseteq excused' /\ s \in Source
      /\ \A f \in {"altgr", "shift", "prefix"}, o \in Source : <<o, f>> \in excused' => <<o, f>> \in excused
  BY Sources DEF Press, Release, Excuse
<1>3. \A other \in Keyboard \ {kb} : pending'[other] = pending[other] /\ down'[other] = down[other]
  BY DEF Press, Release, Types, PendingInv
<1>4. ASSUME ~(stray /\ s = "external") PROVE SourceInv(s)'
  <2>1. /\ Resting(s)
        /\ \A other \in Keyboard \ {kb} : source(other) = s => pending[other] = <<>> /\ down[other] = {}
    BY <1>1, <1>4, Rests
  <2>2. ASSUME NEW late, \A f \in FlagName : k \in Keys[f] => (k \in down'[kb] \/ f \in late),
               down[kb] \ {k} \subseteq down'[kb]
        PROVE  FlagsOK(s, late)'
    <3>1. \A j \in Held(s) : j \in Held(s)' \/ j = k
      BY <1>3, <2>2 DEF Held
    <3>2. k \in down'[kb] => k \in Held(s)'
      BY DEF Held
    <3> QED
      BY <1>1, <1>2, <2>1, <2>2, <3>1, <3>2 DEF FlagsOK, Resting
  <2>3. ~Esc1At(k, 0) /\ Esc2At(k, 0) = 0 /\ Sent(k) \in {1, 2}
    BY DEF Esc1At, Esc2At, Sent
  <2>4. <<s, "prefix">> \notin excused' => scan'[s].esc1 = Esc1At(k, 0) /\ scan'[s].esc2 = Esc2At(k, 0)
    <3>1. scan[s].esc1 \in BOOLEAN
      BY <1>2 DEF Types, State, Scan1
    <3> QED
      BY <1>1, <1>2, <2>1, <2>3, <3>1 DEF Resting, Esc1At
  <2>5. \E v \in BOOLEAN : Midkey(kb, k, v, 0)'
    <3>1. CASE Press(kb, k)
      <4>1. pending'[kb] = Rest(k, FALSE, 0) /\ down'[kb] = down[kb] \cup {k}
        BY <3>1, RestOf DEF Press, Types, PendingInv
      <4>2. FlagsOK(s, Late(k, FALSE, 0))'
        BY <2>2, <4>1
      <4> QED
        BY <2>4, <4>1, <4>2 DEF Midkey
    <3>2. CASE Release(kb, k)
      <4>1. pending'[kb] = Rest(k, TRUE, 0) /\ down'[kb] = down[kb] \ {k}
        BY <3>2, RestOf DEF Release, Types, PendingInv
      <4>2. \A f \in FlagName : k \in Keys[f] => f \in Late(k, TRUE, 0)
        BY <2>3 DEF Late
      <4>3. FlagsOK(s, Late(k, TRUE, 0))'
        BY <2>2, <4>1, <4>2
      <4>4. Excuse(kb, k)' \subseteq excused'
        BY <3>2, <4>1 DEF Release, Excuse
      <4> QED
        BY <2>4, <4>1, <4>3, <4>4 DEF Midkey
    <3> QED
      BY <3>1, <3>2
  <2>6. PICK v \in BOOLEAN : Midkey(kb, k, v, 0)'
    BY <2>5
  <2>7. 0 \in 0..Len(Codes[k]) /\ \A other \in Keyboard \ {kb} : source(other) = s => pending'[other] = <<>>
    BY <1>3, <2>1, <2>6, RestOf
  <2> QED
    BY <2>6, <2>7, KeyGoesOn
<1>5. SourceInv("kernel")' /\ (~stray' => SourceInv("external")')
  BY <1>1, <1>2, <1>3, <1>4, OneSource
<1>6. MapKept'
  BY <1>1 DEF ModInv, MapKept
<1>7. \A c \in Chan : pc'[c] # "open" => pending'[c] = <<>> /\ down'[c] = {}
  BY <1>1, <1>3, Sources DEF ModInv
<1>8. \A o \in Source : AllFlags(o)' = AllFlags(o)
  BY DEF AllFlags
<1> QED
  BY <1>2, <1>5, <1>6, <1>7, <1>8 DEF ModInv

LEMMA CloseMod ==
  ASSUME Types, KbinIsExclusive, ModInv, NEW c \in Chan, kbinclose(c)
  PROVE  ModInv'
<1>1. /\ UNCHANGED <<keys, scan, exited, tab, remaps>>
      /\ excused' = excused \cup IF down[c] # {} \/ pending[c] # <<>> THEN AllFlags("external") ELSE {}
      /\ stray' = (stray \/ (pc[c] = "walked" /\ busy)) /\ pc[c] \in {"walked", "failed", "open"}
  BY DEF kbinclose, driver
<1>2. /\ c \in Keyboard /\ source(c) = "external" /\ "external" \in Source
      /\ pending'[c] = <<>> /\ down'[c] = {} /\ pc' = [pc EXCEPT ![c] = "none"]
      /\ \A other \in Keyboard \ {c} : pending'[other] = pending[other] /\ down'[other] = down[other]
  BY Sources DEF kbinclose, Types, PendingInv
<1>3. ASSUME ~stray' PROVE SourceInv("external")'
  <2>1. ~stray /\ \A other \in Chan \ {c} : pc[other] # "open"
    BY <1>1, <1>3 DEF KbinIsExclusive
  <2>2. \A kb \in Keyboard : source(kb) = "external" => pending'[kb] = <<>> /\ (kb # c => pending[kb] = <<>>)
    BY <1>2, <2>1 DEF ModInv, Keyboard, source
  <2>3. CASE down[c] # {} \/ pending[c] # <<>>
    <3>1. \A f \in FlagName \cup {"prefix"} : <<"external", f>> \in excused'
      BY <1>1, <2>3 DEF AllFlags, FlagName
    <3>2. Resting("external")'
      BY <3>1 DEF Resting, FlagsOK
    <3> QED
      BY <2>2, <3>2 DEF SourceInv
  <2>4. CASE down[c] = {} /\ pending[c] = <<>>
    <3>1. \A kb \in Keyboard : pending'[kb] = pending[kb] /\ down'[kb] = down[kb]
      BY <1>2, <2>4
    <3> QED
      BY <1>1, <1>2, <2>1, <3>1, SourceSame DEF ModInv
  <2> QED
    BY <2>3, <2>4
<1>4. SourceInv("kernel")' /\ (~stray' => SourceInv("external")')
  BY <1>1, <1>2, <1>3, OneSource
<1>5. MapKept'
  BY <1>1 DEF ModInv, MapKept
<1>6. \A d \in Chan : pc'[d] # "open" => pending'[d] = <<>> /\ down'[d] = {}
  BY <1>2, Sources DEF ModInv, Types
<1>7. \A o \in Source, f \in {"altgr", "shift", "prefix"} : <<o, f>> \in excused' => AllFlags(o)' \subseteq excused'
  BY <1>1, Sources DEF ModInv, AllFlags
<1> QED
  BY <1>4, <1>5, <1>6, <1>7 DEF ModInv

LEMMA OtherMod ==
  ASSUME RemapsKeepModifiers, Types, ModInv,
         \/ \E c \in Chan : kbinwalk(c) \/ kbinopen(c) \/ devopen(c)
         \/ \E w \in Remaps : kbdputmap(w[1], w[2], w[3])
  PROVE  ModInv'
<1>1. /\ UNCHANGED <<scan, pending, down, stray>> /\ excused \subseteq excused'
      /\ \A c \in Chan : pc'[c] # "open" => pc[c] # "open"
      /\ \A o \in Source, f \in {"altgr", "shift", "prefix"} : <<o, f>> \in excused' => AllFlags(o)' \subseteq excused'
      /\ MapKept'
  <2>1. ASSUME NEW c \in Chan, kbinwalk(c) \/ kbinopen(c) \/ devopen(c)
        PROVE  /\ UNCHANGED <<scan, pending, down, stray, tab, excused>>
               /\ \A d \in Chan : pc'[d] # "open" => pc[d] # "open"
    BY <2>1 DEF kbinwalk, kbinopen, devopen, driver, keyboards, Types
  <2>2. ASSUME NEW w \in Remaps, kbdputmap(w[1], w[2], w[3])
        PROVE  /\ UNCHANGED <<scan, pending, down, stray, pc>> /\ excused \subseteq excused'
               /\ \A o \in Source, f \in {"altgr", "shift", "prefix"} :
                    <<o, f>> \in excused' => AllFlags(o)' \subseteq excused'
               /\ MapKept'
    <3>1. UNCHANGED <<scan, pending, down, stray, pc>> /\ tab' = [tab EXCEPT ![w[1]][w[2]] = w[3]]
      BY <2>2 DEF kbdputmap, driver, kbin, keyboards
    <3>2. PICK K \in SUBSET Keyboard : excused' = excused \cup UNION {AllFlags(source(kb)) : kb \in K}
      BY <2>2 DEF kbdputmap
    <3>3. \A o \in Source, f \in {"altgr", "shift", "prefix"} :
            <<o, f>> \in excused' => AllFlags(o)' \subseteq excused'
      <4> SUFFICES ASSUME NEW o \in Source, NEW f \in {"altgr", "shift", "prefix"}, <<o, f>> \in excused'
                   PROVE  AllFlags(o) \subseteq excused'
        BY DEF AllFlags
      <4>1. CASE <<o, f>> \in excused
        BY <3>2, <4>1 DEF ModInv
      <4>2. ASSUME NEW kb \in K, <<o, f>> \in AllFlags(source(kb)) PROVE AllFlags(o) \subseteq excused'
        <5>1. o = source(kb)
          BY <4>2 DEF AllFlags
        <5> QED
          BY <3>2, <5>1
      <4> QED
        BY <3>2, <4>1, <4>2
    <3>4. ASSUME NEW t \in Table, NEW p \in Pos PROVE MayBe(t, p, tab'[t][p])
      <4>1. tab'[t][p] = IF t = w[1] /\ p = w[2] THEN w[3] ELSE tab[t][p]
        BY <3>1 DEF Types
      <4> QED
        BY <4>1 DEF RemapsKeepModifiers, ModInv, MapKept
    <3>5. MapKept'
      BY <3>4 DEF MapKept, MayBe
    <3> QED
      BY <3>1, <3>2, <3>3, <3>5
  <2>3. CASE \E c \in Chan : kbinwalk(c) \/ kbinopen(c) \/ devopen(c)
    BY <2>1, <2>3 DEF ModInv, MapKept, AllFlags, MayBe
  <2>4. CASE \E w \in Remaps : kbdputmap(w[1], w[2], w[3])
    BY <2>2, <2>4
  <2> QED
    BY <2>3, <2>4
<1>2. \A s \in Source : SourceInv(s) => SourceInv(s)'
  BY <1>1, SourceSame
<1> QED
  BY <1>1, <1>2, Sources DEF ModInv

LEMMA ModStep ==
  ASSUME RemapsKeepModifiers
  PROVE  Types /\ KbinIsExclusive /\ ModInv /\ [Next]_vars => ModInv'
<1> SUFFICES ASSUME Types, KbinIsExclusive, ModInv, [Next]_vars PROVE ModInv'
  OBVIOUS
<1>1. CASE UNCHANGED vars
  <2>1. \A s \in Source : SourceInv(s) => SourceInv(s)'
    BY <1>1, SourceSame DEF vars, driver, keyboards
  <2>2. MapKept'
    BY <1>1 DEF vars, ModInv, MapKept
  <2> QED
    BY <1>1, <2>1, <2>2, Sources DEF vars, ModInv, kbin, keyboards, AllFlags
<1>2. CASE Next /\ \E kb \in Keyboard, k \in Key : Press(kb, k) \/ Release(kb, k)
  BY <1>2, KeyMod
<1>3. CASE Next /\ i8042intr
  <2>1. "i8042" \in Keyboard /\ "i8042" \notin Chan
    BY KbdAssumption DEF Keyboard
  <2> QED
    BY <1>3, <2>1, ScanMod DEF i8042intr
<1>4. CASE Next /\ \E c \in Chan : kbinwrite(c)
  BY <1>4, ScanMod DEF kbinwrite, Keyboard
<1>5. CASE \E c \in Chan : kbinclose(c)
  BY <1>5, CloseMod
<1>6. CASE \/ \E c \in Chan : kbinwalk(c) \/ kbinopen(c) \/ devopen(c)
           \/ \E w \in Remaps : kbdputmap(w[1], w[2], w[3])
  BY <1>6, OtherMod
<1> QED
  BY <1>1, <1>2, <1>3, <1>4, <1>5, <1>6 DEF Next

LEMMA ModImplies == ModInv => ModifiersMatchKeys
<1> SUFFICES ASSUME ModInv, NEW s \in Source, ~(stray /\ s = "external"),
                    \A kb \in Keyboard : source(kb) = s => pending[kb] = <<>>
             PROVE  /\ \A f \in DOMAIN Keys : scan[s][f] /\ <<s, f>> \notin excused => Held(s) \cap Keys[f] # {}
                    /\ <<s, "prefix">> \notin excused => ~scan[s].esc1 /\ scan[s].esc2 = 0
  BY DEF ModifiersMatchKeys
<1>1. Resting(s)
  BY Sources DEF ModInv, SourceInv
<1> QED
  BY <1>1, KeysAre DEF Resting, FlagsOK

LEMMA ExitStep ==
  ASSUME Types, KbinIsExclusive, ModInv, NEW kb \in Keyboard, Scan(kb), kb \in Chan => pc[kb] = "open", exited',
         ~(stray /\ source(kb) = "external"), {<<source(kb), "ctl">>, <<source(kb), "alt">>} \cap excused = {}
  PROVE  /\ Held(source(kb)) \cap Keys.ctl # {} /\ "alt" \in Held(source(kb))
         /\ "del" \in Held(source(kb)) \/ {"kpdel", "altgr"} \subseteq Held(source(kb))
<1> DEFINE s == source(kb)
           r == scan[s]
<1>1. pending[kb] # <<>> /\ s \in Source
  BY Sources DEF Scan
<1>2. SourceInv(s)
  BY <1>1, Sources DEF ModInv
<1>3. PICK k \in Key, u \in BOOLEAN : \E i \in 0..(Len(Codes[k]) - 1) : Midkey(kb, k, u, i)
  BY <1>1, <1>2 DEF SourceInv
<1>4. PICK i \in 0..(Len(Codes[k]) - 1) : Midkey(kb, k, u, i)
  BY <1>3
<1> DEFINE x == Codes[k][i + 1]
           c == tab[Lookup(r)][x]
<1>5. x \in Pos /\ (r.esc1 \/ r.esc2 = 0) /\ ~u /\ c = "Del" /\ r.ctl /\ r.alt
  <2>1. Head(pending[kb]) = [c |-> x, up |-> u]
    BY <1>4, RestOf DEF Midkey
  <2> DEFINE h == Head(pending[kb])
  <2>2. h.c = x /\ h.up = u
    BY <2>1
  <2>3. /\ h.c \in Pos /\ (r.esc1 \/ r.esc2 = 0) /\ ~h.up
        /\ Reboots(r, IF h.c \in Pos THEN tab[Lookup(r)][h.c] ELSE "char")
    BY DEF Scan
  <2> HIDE DEF h, r, x
  <2> QED
    BY <2>2, <2>3 DEF Reboots
<1>6. <<s, "prefix">> \notin excused
  BY <1>1 DEF ModInv, AllFlags
<1>7. r.esc1 = Esc1At(k, i) /\ r.esc2 = Esc2At(k, i)
  BY <1>4, <1>6 DEF Midkey
<1>8. k = "del" \/ (k = "kpdel" /\ r.altgr)
  <2>1. \/ ~r.esc1 /\ k \in DOMAIN Plain /\ x = Plain[k]
        \/ r.esc1 /\ k \in DOMAIN Escaped /\ x = Escaped[k]
        \/ r.esc1 /\ k = "print" /\ x = "37"
    <3> HIDE DEF r, c
    <3> QED
      BY <1>5, <1>7, NextByte DEF Pos
  <2>2. r \in State /\ MapKept
    BY <1>1 DEF Types, ModInv
  <2> HIDE DEF r, x
  <2> QED
    BY <1>5, <2>1, <2>2, RuneOf
<1>9. Late(k, u, i) = {}
  BY <1>5 DEF Late
<1>10. Held(s) \cap Keys["ctl"] # {} /\ Held(s) \cap Keys["alt"] # {}
  BY <1>4, <1>5, <1>9 DEF Midkey, FlagsOK, FlagName
<1>11. k \in Held(s)
  BY <1>4, <1>5 DEF Midkey, Held
<1>12. r.altgr => "altgr" \in Held(s)
  <2>1. <<s, "altgr">> \notin excused
    BY <1>1 DEF ModInv, AllFlags
  <2> QED
    BY <1>4, <1>6, <1>9, <2>1, KeysAre DEF Midkey, FlagsOK, FlagName
<1> QED
  BY <1>8, <1>10, <1>11, <1>12, KeysAre

LEMMA ExitsStep ==
  ASSUME Types, KbinIsExclusive, ModInv, Next, NEW kb \in Keyboard, ~exited, exited', pending'[kb] # pending[kb]
  PROVE  LET s == source(kb) IN
           \/ {<<s, "ctl">>, <<s, "alt">>} \cap excused # {} \/ (stray /\ s = "external")
           \/ /\ Held(s) \cap Keys.ctl # {} /\ "alt" \in Held(s)
              /\ "del" \in Held(s) \/ {"kpdel", "altgr"} \subseteq Held(s)
<1>1. ASSUME NEW k \in Keyboard, Scan(k), k \in Chan => pc[k] = "open" PROVE Scan(kb) /\ (kb \in Chan => pc[kb] = "open")
  <2>1. pending' = [pending EXCEPT ![k] = Tail(@)]
    BY <1>1 DEF Scan
  <2>2. k = kb
    BY <2>1 DEF Types, PendingInv
  <2> QED
    BY <1>1, <2>2
<1>2. Scan(kb) /\ (kb \in Chan => pc[kb] = "open")
  <2>1. CASE i8042intr
    <3>1. "i8042" \in Keyboard /\ "i8042" \notin Chan
      BY KbdAssumption DEF Keyboard
    <3> QED
      BY <1>1, <2>1, <3>1 DEF i8042intr
  <2>2. ASSUME NEW c \in Chan, kbinwrite(c) PROVE Scan(kb) /\ (kb \in Chan => pc[kb] = "open")
    BY <1>1, <2>2 DEF kbinwrite, Keyboard
  <2>3. ASSUME NEW c \in Chan, kbinwalk(c) \/ kbinopen(c) \/ devopen(c) \/ kbinclose(c) PROVE FALSE
    BY <2>3 DEF kbinwalk, kbinopen, devopen, kbinclose, driver
  <2>4. ASSUME NEW m \in Remaps, kbdputmap(m[1], m[2], m[3]) PROVE FALSE
    BY <2>4 DEF kbdputmap, driver
  <2>5. ASSUME NEW b \in Keyboard, NEW k \in Key, Press(b, k) \/ Release(b, k) PROVE FALSE
    BY <2>5 DEF Press, Release, driver
  <2> QED
    BY <2>1, <2>2, <2>3, <2>4, <2>5 DEF Next
<1> QED
  BY <1>2, ExitStep

THEOREM ModInvariance ==
  ASSUME RemapsKeepModifiers
  PROVE  Spec => [](Types /\ KbinIsExclusive /\ ModInv)
<1>1. Init => Types /\ KbinIsExclusive /\ ModInv
  BY InitTypes, InitMod
<1>2. Types /\ KbinIsExclusive /\ ModInv /\ [Next]_vars => (Types /\ KbinIsExclusive /\ ModInv)'
  BY TypesStep, ExclusiveStep, ModStep
<1> QED
  BY <1>1, <1>2, PTL DEF Spec

\* No modifier sticks, as long as what is written to the map makes modifiers
\* of no other keys and leaves a modifier that is looked up on release where
\* it was: between the keys of a source a flag is set only while a key for it
\* is down.  It speaks of the keys in Codes and excepts, as the property does,
\* the flags in excused and kbin after a stray close.
THEOREM NoModifierSticks ==
  ASSUME RemapsKeepModifiers
  PROVE  Spec => []ModifiersMatchKeys
BY ModInvariance, ModImplies, PTL

\* Under the same hypothesis exit(0) takes Ctrl, Alt and Del, or Ctrl, Alt,
\* AltGr and the keypad's point, held together on one source, unless its Ctrl
\* or Alt had been left set.
THEOREM ExitsTakeThreeKeys ==
  ASSUME RemapsKeepModifiers
  PROVE  Spec => OnlyCtrlAltDelExits
<1> DEFINE I == Types /\ KbinIsExclusive /\ ModInv
           A == \A kb \in Keyboard : ~exited /\ exited' /\ pending'[kb] # pending[kb] =>
                  LET s == source(kb) IN
                    \/ {<<s, "ctl">>, <<s, "alt">>} \cap excused # {} \/ (stray /\ s = "external")
                    \/ /\ Held(s) \cap Keys.ctl # {} /\ "alt" \in Held(s)
                       /\ "del" \in Held(s) \/ {"kpdel", "altgr"} \subseteq Held(s)
<1>1. I /\ [Next]_vars => [A]_vars
  BY ExitsStep
<1>2. OnlyCtrlAltDelExits <=> [][A]_vars
  BY DEF OnlyCtrlAltDelExits
<1> HIDE DEF A
<1> QED
  BY <1>1, <1>2, ModInvariance, PTL DEF Spec
=============================================================================
