---------------------------- MODULE ConsKbd_proofs ----------------------------
(* For a staging ring of any size, any bytes and any channels: the ring that *)
(* kbdputc fills and kbdputcclock drains without its lock is a lossless pipe *)
(* (ConsKbd implements BytePipe), raw mode ends with its last user, and the  *)
(* bytes consread puts in lineq reach the readers in order, none dropped.    *)
(*                                                                           *)
(* The clock works from a copy of iw.  While it does, kbdputc may move iw on,*)
(* but not past ir, so what the clock has yet to pass on is between ir and   *)
(* its copy, and the copy between ir and iw (RingInv).                       *)
EXTENDS ConsKbd, FiniteSetTheorems, SequenceTheorems, WellFoundedInduction, TLAPS

Idx == 0..RingSize-1

\* How far i is past j in the ring, and the place k bytes past j.
Past(i, j) == IF i >= j THEN i - j ELSE i - j + RingSize
Place(j, k) == IF j + k >= RingSize THEN j + k - RingSize ELSE j + k

RingInv ==
  /\ load \in Loads /\ putting \in Seq(Byte)
  /\ istage \in [Idx -> Byte \cup {NUL}]
  /\ ir \in Idx /\ iw \in Idx /\ ciw \in Idx
  /\ cpc \in {"idle", "high", "wrap", "low", "done"}
  /\ cpc \in {"high", "wrap"} => ciw < ir
  /\ cpc \in {"low", "done"} => ir < ciw
  /\ cpc # "idle" => Past(ciw, ir) <= Past(iw, ir)

Holding == {o \in Openers : opc[o] \in {"open", "wake"}}

RawInv ==
  /\ load \in Loads
  /\ opc \in [Openers -> {"closed", "open", "wake", "last"}]
  /\ ctl = Cardinality(Holding)
  /\ RawOffWhenUnused

-----------------------------------------------------------------------------
(* Arithmetic of the ring. *)

LEMMA Wrap ==
  ASSUME NEW i \in Idx, NEW j \in Idx
  PROVE  /\ next(i) = IF i = RingSize-1 THEN 0 ELSE i + 1
         /\ (i - j) % RingSize = Past(i, j)
<1>1. RingSize \in Nat /\ RingSize > 1
  BY ConsAssumption
<1>2. ASSUME NEW a \in 0..RingSize-1 PROVE a % RingSize = a
  BY <1>1
<1>3. ASSUME NEW a \in 0..RingSize-1 PROVE (a - RingSize) % RingSize = a
  BY <1>1
<1>4. RingSize % RingSize = 0
  BY <1>1
<1> QED
  BY <1>1, <1>2, <1>3, <1>4 DEF next, Past, Idx

LEMMA WrapPlace ==
  ASSUME NEW j \in Idx, NEW k \in Idx
  PROVE  Place(j, k) \in Idx /\ (j + k) % RingSize = Place(j, k)
<1>1. RingSize \in Nat /\ RingSize > 1
  BY ConsAssumption
<1>2. ASSUME NEW a \in 0..RingSize-1 PROVE a % RingSize = a
  BY <1>1
<1>3. ASSUME NEW a \in 0..RingSize-1 PROVE (a + RingSize) % RingSize = a
  BY <1>1
<1>4. CASE j + k < RingSize
  BY <1>1, <1>2, <1>4 DEF Place, Idx
<1>5. CASE j + k >= RingSize
  <2> DEFINE a == j + k - RingSize
  <2>1. a \in 0..RingSize-1 /\ j + k = a + RingSize
    BY <1>1, <1>5 DEF Idx
  <2> QED
    BY <1>1, <1>3, <1>5, <2>1 DEF Place, Idx
<1> QED
  BY <1>1, <1>4, <1>5 DEF Idx

\* The bytes from place from up to place to, as a sequence.
Bytes(st, from, to) == [i \in 1..Past(to, from) |-> st[Place(from, i - 1)]]

LEMMA ContentsAre ==
  ASSUME RingInv
  PROVE  /\ RingFrom \in Idx
         /\ RingContents = Bytes(istage, RingFrom, iw)
         /\ Past(RingFrom, ir) <= Past(iw, ir)
<1>1. RingSize \in Nat /\ RingSize > 1
  BY ConsAssumption
<1>2. RingFrom \in Idx /\ Past(RingFrom, ir) <= Past(iw, ir)
  BY <1>1 DEF RingInv, RingFrom, Idx, Past
<1>3. (iw - RingFrom) % RingSize = Past(iw, RingFrom)
  BY <1>2, Wrap DEF RingInv
<1>4. ASSUME NEW i \in 1..Past(iw, RingFrom)
      PROVE  (RingFrom + i - 1) % RingSize = Place(RingFrom, i - 1)
  <2>1. i - 1 \in Idx /\ RingFrom + i - 1 = RingFrom + (i - 1)
    BY <1>1, <1>2 DEF Idx, Past, RingInv
  <2> QED
    BY <1>2, <2>1, WrapPlace
<1> QED
  BY <1>2, <1>3, <1>4 DEF RingContents, Bytes

\* The same of the next state.
LEMMA ContentsNext ==
  (RingInv => RingFrom \in Idx /\ RingContents = Bytes(istage, RingFrom, iw))'
<1>1. RingInv => RingFrom \in Idx /\ RingContents = Bytes(istage, RingFrom, iw)
  BY ContentsAre
<1> QED
  BY <1>1, PTL

LEMMA echoAdds == ASSUME NEW buf, echo(buf) PROVE echoed' = echoed \o buf
BY DEF echo

-----------------------------------------------------------------------------
(* The ring. *)

LEMMA InitRing == Init => RingInv
BY ConsAssumption DEF Init, RingInv, Idx, Past

LEMMA RingStep == RingInv /\ [Next]_vars => RingInv'
<1> SUFFICES ASSUME RingInv, [Next]_vars PROVE RingInv'
  OBVIOUS
<1>0. RingSize \in Nat /\ RingSize > 1
  BY ConsAssumption
<1>1. CASE UNCHANGED <<load, ring, cpc, ciw>>
  BY <1>1 DEF RingInv, ring, Past
<1>2. ASSUME NEW rune \in load.runes, KbdPut(rune) PROVE RingInv'
  BY <1>2, ConsAssumption DEF KbdPut, RingInv, clock, control, Past
<1>3. CASE StoreByte
  <2>1. Tail(putting) \in Seq(Byte) /\ Head(putting) \in Byte
    BY <1>3, HeadTailProperties DEF StoreByte, RingInv
  <2>2. iw' \in Idx /\ (cpc # "idle" => Past(ciw, ir) <= Past(iw', ir))
    <3>1. iw' = (IF iw = RingSize-1 THEN 0 ELSE iw + 1) /\ iw' # ir
      BY <1>3, Wrap DEF StoreByte, RingInv
    <3> QED
      BY <1>0, <3>1 DEF RingInv, Idx, Past
  <2> QED
    BY <1>3, <2>1, <2>2 DEF StoreByte, RingInv, clock, control, Past
<1>4. CASE DropRest
  BY <1>4 DEF DropRest, RingInv, clock, control, Past
<1>5. CASE ClockStart
  BY <1>0, <1>5 DEF ClockStart, RingInv, ring, control, Past, Idx
<1>6. CASE ClockHigh
  BY <1>0, <1>6 DEF ClockHigh, RingInv, ring, control, Past, Idx
<1>7. CASE ClockWrap
  BY <1>0, <1>7 DEF ClockWrap, RingInv, control, Past, Idx
<1>8. CASE ClockLow
  BY <1>0, <1>8 DEF ClockLow, RingInv, ring, control, Past, Idx
<1>9. CASE ClockDone
  BY <1>0, <1>9 DEF ClockDone, RingInv, control, Past, Idx
<1>10. ASSUME NEW r \in Readers,
              Reader(r) \/ ReadInterrupted(r) \/ \E n \in load.sizes : ReadCall(r, n)
       PROVE  UNCHANGED <<load, ring, cpc, ciw>>
  BY <1>10 DEF Reader, ReadChar, RawChar, IgnoreNul, RawFlush, CookedChar, ReadReturn,
     ReadInterrupted, ReadCall, clock, control
<1>11. ASSUME NEW o \in load.openers,
              \/ CtlOpen(o) \/ RawOn(o) \/ RawWake(o) \/ RawOff(o) \/ CtlClose(o) \/ CtlLast(o)
              \/ \E off \in BOOLEAN : SetCtlp(o, off)
       PROVE  UNCHANGED <<load, ring, cpc, ciw>>
  BY <1>11 DEF CtlOpen, RawOn, RawWake, RawOff, CtlClose, CtlLast, SetCtlp, clock
<1>12. CASE UNCHANGED vars
  BY <1>1, <1>12 DEF vars, clock, control
<1> QED
  BY <1>1, <1>2, <1>3, <1>4, <1>5, <1>6, <1>7, <1>8, <1>9, <1>10, <1>11, <1>12
     DEF Next, Clock

\* What each step does to a run of bytes in the ring.

LEMMA BytesIn ==
  ASSUME NEW st, NEW from \in Idx, NEW to \in Idx
  PROVE  /\ Past(to, from) \in Idx
         /\ Len(Bytes(st, from, to)) = Past(to, from)
         /\ DOMAIN Bytes(st, from, to) = 1..Past(to, from)
<1>1. Past(to, from) \in Idx
  BY ConsAssumption DEF Past, Idx
<1> QED
  BY <1>1 DEF Bytes, Idx

LEMMA BytesAreBytes ==
  ASSUME RingInv, NEW from \in Idx, NEW to \in Idx
  PROVE  Bytes(istage, from, to) \in Seq(Byte \cup {NUL})
<1>1. Past(to, from) \in Idx
  BY BytesIn
<1>2. ASSUME NEW i \in 1..Past(to, from) PROVE istage[Place(from, i - 1)] \in Byte \cup {NUL}
  <2>1. i - 1 \in Idx
    BY <1>1, ConsAssumption DEF Idx
  <2>2. Place(from, i - 1) \in Idx
    BY <2>1, WrapPlace
  <2> QED
    BY <2>2 DEF RingInv
<1> QED
  BY <1>1, <1>2 DEF Bytes, Idx

LEMMA AddByte ==
  ASSUME RingInv, NEW from \in Idx, next(iw) # from, NEW b
  PROVE  /\ Past(iw, from) < RingSize - 1
         /\ Bytes([istage EXCEPT ![iw] = b], from, next(iw)) = Append(Bytes(istage, from, iw), b)
<1> DEFINE st == [istage EXCEPT ![iw] = b]
           n == Past(iw, from)
           s == Bytes(istage, from, iw)
           t == Bytes(st, from, next(iw))
<1>0. RingSize \in Nat /\ RingSize > 1 /\ iw \in Idx
  BY ConsAssumption DEF RingInv
<1>1. next(iw) = (IF iw = RingSize-1 THEN 0 ELSE iw + 1) /\ next(iw) \in Idx
  BY <1>0, Wrap DEF Idx
<1>2. n < RingSize - 1 /\ n \in Nat /\ Past(next(iw), from) = n + 1
  BY <1>0, <1>1 DEF Past, Idx
<1>3. Place(from, n) = iw
  BY <1>0, <1>1 DEF Past, Place, Idx
<1>4. ASSUME NEW i \in 1..n PROVE Place(from, i - 1) \in Idx /\ Place(from, i - 1) # iw
  BY <1>0, <1>2 DEF Past, Place, Idx
<1>5. DOMAIN istage = Idx
  BY DEF RingInv
<1>6. \A i \in 1..n : st[Place(from, i - 1)] = istage[Place(from, i - 1)]
  BY <1>4, <1>5
<1>7. st[Place(from, (n + 1) - 1)] = b
  BY <1>0, <1>2, <1>3, <1>5
<1>8. t = [i \in 1..n+1 |-> st[Place(from, i - 1)]] /\ s = [i \in 1..n |-> istage[Place(from, i - 1)]]
  BY <1>2 DEF Bytes
<1> HIDE DEF st, n, s, t
<1>9. Append(s, b) = [i \in 1..n+1 |-> IF i \in 1..n THEN s[i] ELSE b]
  BY <1>2, <1>8
<1>10. \A i \in 1..n+1 : (IF i \in 1..n THEN s[i] ELSE b) = st[Place(from, i - 1)]
  BY <1>2, <1>6, <1>7, <1>8
<1>11. Append(s, b) = t
  BY <1>8, <1>9, <1>10
<1> QED
  BY <1>2, <1>11 DEF n, st, s, t

LEMMA TakeBytes ==
  ASSUME RingInv, NEW from \in Idx, NEW n \in 1..Past(iw, from), NEW to \in Idx,
         to = Place(from, n)
  PROVE  /\ SubSeq(Bytes(istage, from, iw), 1, n)
              = [i \in 1..n |-> istage[Place(from, i - 1)]]
         /\ SubSeq(Bytes(istage, from, iw), n + 1, Past(iw, from)) = Bytes(istage, to, iw)
<1> DEFINE s == Bytes(istage, from, iw)
           m == Past(iw, from)
<1>0. RingSize \in Nat /\ RingSize > 1 /\ iw \in Idx
  BY ConsAssumption DEF RingInv
<1>1. m \in Idx /\ n \in 1..m /\ s = [i \in 1..m |-> istage[Place(from, i - 1)]]
  BY <1>0, BytesIn DEF Bytes
<1>2. Past(iw, to) = m - n
  BY <1>0 DEF Past, Place, Idx
<1>3. \A i \in 1..m-n : Place(to, i - 1) = Place(from, (n + i) - 1)
  BY <1>0, <1>1 DEF Past, Place, Idx
<1>4. Bytes(istage, to, iw) = [i \in 1..m-n |-> istage[Place(to, i - 1)]]
  BY <1>2 DEF Bytes
<1> HIDE DEF m, s
<1>5. SubSeq(s, 1, n) = [i \in 1..n |-> s[i]]
  BY <1>1 DEF Idx
<1>6. SubSeq(s, n + 1, m) = [i \in 1..m-n |-> s[n + i]]
  BY <1>1 DEF Idx
<1>7. \A i \in 1..n : s[i] = istage[Place(from, i - 1)]
  BY <1>1 DEF Idx
<1>8. \A i \in 1..m-n : s[n + i] = istage[Place(from, (n + i) - 1)]
  BY <1>1 DEF Idx
<1> QED
  BY <1>3, <1>4, <1>5, <1>6, <1>7, <1>8 DEF m, s

-----------------------------------------------------------------------------
(* The ring implements the pipe. *)

LEMMA InitPipe == Init => Pipe!Init
<1> SUFFICES ASSUME Init PROVE Pipe!Init
  OBVIOUS
<1>1. RingContents = Bytes(istage, RingFrom, iw) /\ RingFrom = 0 /\ iw = 0 /\ echoed = <<>>
  BY InitRing, ContentsAre DEF Init, RingFrom
<1>2. Bytes(istage, 0, 0) = <<>>
  BY DEF Bytes, Past
<1> QED
  BY <1>1, <1>2 DEF Pipe!Init

\* n bytes go from the ring to echo.
LEMMA PassBytes ==
  ASSUME RingInv, RingInv', UNCHANGED <<istage, iw>>,
         NEW n \in 1..Past(iw, RingFrom), RingFrom' = Place(RingFrom, n),
         echoed' = echoed \o [i \in 1..n |-> istage[Place(RingFrom, i - 1)]]
  PROVE  Pipe!Next
<1>1. /\ RingFrom \in Idx /\ RingContents = Bytes(istage, RingFrom, iw)
      /\ RingFrom' \in Idx /\ RingContents' = Bytes(istage', RingFrom', iw')
  BY ContentsAre, ContentsNext
<1>2. Len(RingContents) = Past(iw, RingFrom)
  BY <1>1, BytesIn DEF RingInv
<1>3. /\ SubSeq(RingContents, 1, n) = [i \in 1..n |-> istage[Place(RingFrom, i - 1)]]
      /\ SubSeq(RingContents, n + 1, Len(RingContents)) = Bytes(istage, RingFrom', iw)
  BY <1>1, <1>2, TakeBytes
<1>4. Pipe!Pass(n)
  BY <1>1, <1>3 DEF Pipe!Pass
<1> QED
  BY <1>2, <1>4 DEF Pipe!Next

LEMMA PipeSame ==
  ASSUME RingInv, RingInv', UNCHANGED <<istage, iw, echoed, RingFrom>>
  PROVE  UNCHANGED Pipe!vars
<1>1. RingContents' = RingContents
  BY ContentsAre, ContentsNext
<1> QED
  BY <1>1 DEF Pipe!vars

LEMMA PipeStep == RingInv /\ [Next]_vars => [Pipe!Next]_Pipe!vars
<1> SUFFICES ASSUME RingInv, [Next]_vars PROVE [Pipe!Next]_Pipe!vars
  OBVIOUS
<1>0. RingInv' /\ RingSize \in Nat /\ RingSize > 1 /\ ir \in Idx /\ iw \in Idx /\ ciw \in Idx
  BY RingStep, ConsAssumption DEF RingInv
<1>1. CASE UNCHANGED <<istage, iw, echoed, ir, ciw, cpc>>
  <2>1. UNCHANGED RingFrom
    BY <1>1 DEF RingFrom
  <2> QED
    BY <1>0, <1>1, <2>1, PipeSame
<1>2. ASSUME NEW rune \in load.runes, KbdPut(rune)
      PROVE  UNCHANGED <<istage, iw, echoed, ir, ciw, cpc>>
  BY <1>2 DEF KbdPut, clock
<1>3. CASE StoreByte
  <2> DEFINE b == Head(putting)
  <2>1. b \in Byte
    BY <1>3, HeadTailProperties DEF StoreByte, RingInv
  <2>2. next(iw) # RingFrom
    <3>1. /\ next(iw) = (IF iw = RingSize-1 THEN 0 ELSE iw + 1) /\ next(iw) # ir
          /\ RingFrom \in Idx /\ Past(RingFrom, ir) <= Past(iw, ir)
      BY <1>0, <1>3, Wrap, ContentsAre DEF StoreByte
    <3> QED
      BY <1>0, <3>1 DEF Past, Idx
  <2>3. RingFrom' = RingFrom
    BY <1>3 DEF StoreByte, clock, RingFrom
  <2>4. /\ RingFrom \in Idx /\ RingContents = Bytes(istage, RingFrom, iw)
        /\ RingContents' = Bytes(istage', RingFrom', iw')
    BY <1>0, ContentsAre, ContentsNext
  <2>5. Len(RingContents) < RingSize - 1
    BY <1>0, <2>2, <2>4, AddByte, BytesIn
  <2>6. RingContents' = Append(RingContents, b)
    BY <1>3, <2>2, <2>3, <2>4, AddByte DEF StoreByte
  <2>7. Pipe!Put(b)
    BY <1>3, <2>5, <2>6 DEF Pipe!Put, StoreByte, clock
  <2> QED
    BY <2>1, <2>7 DEF Pipe!Next
<1>4. CASE DropRest
  BY <1>1, <1>4 DEF DropRest, clock
<1>5. CASE ClockStart
  <2>1. UNCHANGED RingFrom
    BY <1>5 DEF ClockStart, RingFrom, ring
  <2> QED
    BY <1>0, <1>5, <2>1, PipeSame DEF ClockStart, ring
<1>6. CASE ClockHigh
  <2> DEFINE n == RingSize - ir
  <2>1. RingFrom = ir /\ RingFrom' = 0 /\ ciw < ir /\ Past(ciw, ir) <= Past(iw, ir)
    BY <1>6 DEF ClockHigh, RingFrom, RingInv
  <2>2. n \in 1..Past(iw, ir) /\ Place(ir, n) = 0
    BY <1>0, <2>1 DEF Past, Place, Idx
  <2>3. RingBytes(ir, RingSize) = [i \in 1..n |-> istage[Place(ir, i - 1)]]
    <3>1. \A i \in 1..n : ir + i - 1 = Place(ir, i - 1)
      BY <1>0 DEF Place, Idx
    <3> QED
      BY <3>1 DEF RingBytes
  <2>4. echoed' = echoed \o RingBytes(ir, RingSize)
    BY <1>6, echoAdds DEF ClockHigh
  <2>5. Pipe!Next
    BY <1>0, <1>6, <2>1, <2>2, <2>3, <2>4, PassBytes DEF ClockHigh, ring
  <2> QED
    BY <2>5
<1>7. CASE ClockWrap
  <2>1. UNCHANGED RingFrom
    BY <1>7 DEF ClockWrap, RingFrom
  <2> QED
    BY <1>0, <1>7, <2>1, PipeSame DEF ClockWrap
<1>8. CASE ClockLow
  <2> DEFINE n == ciw - ir
  <2>1. RingFrom = ir /\ RingFrom' = ciw /\ ir < ciw /\ Past(ciw, ir) <= Past(iw, ir)
    BY <1>8 DEF ClockLow, RingFrom, RingInv
  <2>2. n \in 1..Past(iw, ir) /\ Place(ir, n) = ciw
    BY <1>0, <2>1 DEF Past, Place, Idx
  <2>3. RingBytes(ir, ciw) = [i \in 1..n |-> istage[Place(ir, i - 1)]]
    <3>1. \A i \in 1..n : ir + i - 1 = Place(ir, i - 1)
      BY <1>0 DEF Place, Idx
    <3> QED
      BY <3>1 DEF RingBytes
  <2>4. echoed' = echoed \o RingBytes(ir, ciw)
    BY <1>8, echoAdds DEF ClockLow
  <2>5. Pipe!Next
    BY <1>0, <1>8, <2>1, <2>2, <2>3, <2>4, PassBytes DEF ClockLow, ring
  <2> QED
    BY <2>5
<1>9. CASE ClockDone
  <2>1. UNCHANGED RingFrom
    BY <1>9 DEF ClockDone, RingFrom
  <2> QED
    BY <1>0, <1>9, <2>1, PipeSame DEF ClockDone
<1>10. ASSUME NEW r \in Readers,
              Reader(r) \/ ReadInterrupted(r) \/ \E n \in load.sizes : ReadCall(r, n)
       PROVE  UNCHANGED <<istage, iw, echoed, ir, ciw, cpc>>
  BY <1>10 DEF Reader, ReadChar, RawChar, IgnoreNul, RawFlush, CookedChar, ReadReturn,
     ReadInterrupted, ReadCall, clock, ring
<1>11. ASSUME NEW o \in load.openers,
              \/ CtlOpen(o) \/ RawOn(o) \/ RawWake(o) \/ RawOff(o) \/ CtlClose(o) \/ CtlLast(o)
              \/ \E off \in BOOLEAN : SetCtlp(o, off)
       PROVE  UNCHANGED <<istage, iw, echoed, ir, ciw, cpc>>
  BY <1>11 DEF CtlOpen, RawOn, RawWake, RawOff, CtlClose, CtlLast, SetCtlp, clock, ring
<1>12. CASE UNCHANGED vars
  BY <1>1, <1>12 DEF vars, clock, ring
<1> QED
  BY <1>1, <1>2, <1>3, <1>4, <1>5, <1>6, <1>7, <1>8, <1>9, <1>10, <1>11, <1>12
     DEF Next, Clock

\* Although kbdputcclock reads iw and writes ir without lockputc, the staging
\* ring loses, doubles and reorders nothing, whatever its size.
THEOREM RingIsAPipe == Spec => StagingIsAPipe
<1>1. Spec => []RingInv
  BY InitRing, RingStep, PTL DEF Spec
<1> QED
  BY <1>1, InitPipe, PipeStep, PTL DEF Spec, StagingIsAPipe, Pipe!Spec

-----------------------------------------------------------------------------
(* Raw mode. *)

LEMMA HoldingIsFinite ==
  RawInv => /\ IsFiniteSet(Holding) /\ ctl \in Nat
            /\ \A o \in Holding : ctl # 0
<1> SUFFICES ASSUME RawInv
             PROVE  IsFiniteSet(Holding) /\ ctl \in Nat /\ \A o \in Holding : ctl # 0
  OBVIOUS
<1>1. IsFiniteSet(Holding)
  BY ConsAssumption, FS_Subset DEF Holding
<1>2. ctl \in Nat
  BY <1>1, FS_CardinalityType DEF RawInv
<1>3. ASSUME NEW o \in Holding PROVE ctl # 0
  BY <1>1, FS_EmptySet DEF RawInv
<1> QED
  BY <1>1, <1>2, <1>3

LEMMA RawInit == Init => RawInv
<1> SUFFICES ASSUME Init PROVE RawInv
  OBVIOUS
<1>1. Holding = {}
  BY DEF Init, Holding
<1> QED
  BY <1>1, FS_EmptySet DEF Init, RawInv, RawOffWhenUnused

LEMMA RawStep == RawInv /\ [Next]_vars => RawInv'
<1> SUFFICES ASSUME RawInv, [Next]_vars PROVE RawInv'
  OBVIOUS
<1>0. IsFiniteSet(Holding) /\ ctl \in Nat /\ (\A o \in Holding : ctl # 0) /\ load.openers \subseteq Openers
  BY HoldingIsFinite, ConsAssumption DEF RawInv
<1>1. CASE UNCHANGED control
  BY <1>1 DEF control, RawInv, Holding, RawOffWhenUnused
<1>2. (\E rune \in load.runes : KbdPut(rune)) \/ StoreByte \/ DropRest \/ Clock => UNCHANGED control
  BY DEF KbdPut, StoreByte, DropRest, Clock, ClockStart, ClockHigh, ClockWrap, ClockLow, ClockDone
<1>3. ASSUME NEW r \in Readers,
             Reader(r) \/ ReadInterrupted(r) \/ \E n \in load.sizes : ReadCall(r, n)
      PROVE  UNCHANGED control
  BY <1>3 DEF Reader, ReadChar, RawChar, IgnoreNul, RawFlush, CookedChar, ReadReturn,
     ReadInterrupted, ReadCall
<1>4. ASSUME NEW o \in Openers, CtlOpen(o) PROVE RawInv'
  <2>1. Holding' = Holding \cup {o} /\ o \notin Holding
    BY <1>4 DEF CtlOpen, Holding, RawInv
  <2>2. Cardinality(Holding') = Cardinality(Holding) + 1
    BY <1>0, <2>1, FS_AddElement
  <2>3. ctl' = Cardinality(Holding') /\ ctl' # 0
    BY <1>0, <1>4, <2>2 DEF CtlOpen, RawInv
  <2> QED
    BY <1>4, <2>3 DEF CtlOpen, RawInv, RawOffWhenUnused
<1>5. ASSUME NEW o \in Openers,
             RawOn(o) \/ RawWake(o) \/ RawOff(o) \/ \E off \in BOOLEAN : SetCtlp(o, off)
      PROVE  RawInv'
  <2>1. o \in Holding /\ Holding' = Holding
    BY <1>5 DEF RawOn, RawWake, RawOff, SetCtlp, Holding, RawInv
  <2>2. ctl' = ctl /\ ctl # 0
    BY <1>0, <1>5, <2>1 DEF RawOn, RawWake, RawOff, SetCtlp
  <2>3. load' = load /\ opc' \in [Openers -> {"closed", "open", "wake", "last"}]
    BY <1>5 DEF RawOn, RawWake, RawOff, SetCtlp, RawInv
  <2> QED
    BY <2>1, <2>2, <2>3 DEF RawInv, RawOffWhenUnused
<1>6. ASSUME NEW o \in Openers, CtlClose(o) PROVE RawInv'
  <2>1. Holding' = Holding \ {o} /\ o \in Holding
    BY <1>6 DEF CtlClose, Holding, RawInv
  <2>2. ctl' = Cardinality(Holding')
    BY <1>0, <1>6, <2>1, FS_RemoveElement DEF CtlClose, RawInv
  <2>3. ctl' = 0 => opc'[o] = "last"
    BY <1>6 DEF CtlClose, RawInv
  <2> QED
    BY <1>6, <2>2, <2>3 DEF CtlClose, RawInv, RawOffWhenUnused
<1>7. ASSUME NEW o \in Openers, CtlLast(o) PROVE RawInv'
  <2>1. Holding' = Holding
    BY <1>7 DEF CtlLast, Holding, RawInv
  <2> QED
    BY <1>7, <2>1 DEF CtlLast, RawInv, RawOffWhenUnused
<1>8. CASE UNCHANGED vars
  BY <1>1, <1>8 DEF vars
<1> QED
  BY <1>0, <1>1, <1>2, <1>3, <1>4, <1>5, <1>6, <1>7, <1>8 DEF Next

\* However many channels open and close consctl at once, the last decref of
\* consclose is followed by its kbd.raw = 0: nobody is left in raw mode.
THEOREM NoRawLeft == Spec => []RawOffWhenUnused
<1>1. RawInv => RawOffWhenUnused
  BY DEF RawInv
<1>2. Spec => []RawInv
  BY RawInit, RawStep, PTL DEF Spec
<1> QED
  BY <1>1, <1>2, PTL

-----------------------------------------------------------------------------
(* Lines. *)

Char == Byte \cup {NUL}

\* The bytes in lineq.
Waiting == IF lineq = <<>> THEN <<>> ELSE lineq[1]

\* Only the holder of kbd's lock is in consread.  It fills the line while lineq
\* is empty, and sends it before it is longer than the buffer.
LineInv ==
  /\ load \in Loads
  /\ kbdlock \in Readers \cup {NoProc}
  /\ rpc \in [Readers -> {"idle", "loop", "char", "more"}]
  /\ rch \in [Readers -> Char] /\ rsize \in [Readers -> load.sizes \cup {0}]
  /\ \A r \in Readers : rpc[r] # "idle" => kbdlock = r
  /\ kbdq \in Seq(Char)
  /\ line \in Seq(Byte) /\ Len(line) <= LineSize
  /\ (\A r \in Readers : rpc[r] # "more") => Len(line) < LineSize
  /\ lineq = <<>> \/ \E b \in Seq(Byte) : lineq = <<b>>
  /\ \A r \in Readers : rpc[r] \in {"char", "more"} => lineq = <<>>
  /\ sent \in Seq(Byte) /\ received \in Seq(Byte)
  /\ sent = received \o Waiting

LEMMA FlattenWaiting ==
  ASSUME lineq = <<>> \/ \E b \in Seq(Byte) : lineq = <<b>>
  PROVE  FlattenSeq(lineq) = Waiting
<1>1. CASE lineq = <<>>
  BY <1>1 DEF FlattenSeq, Waiting
<1>2. ASSUME NEW b \in Seq(Byte), lineq = <<b>> PROVE FlattenSeq(lineq) = Waiting
  <2> DEFINE Flat(f) == f = [i \in 1..1 |-> IF i = 1 THEN lineq[i] ELSE f[i - 1] \o lineq[i]]
  <2>1. Flat([i \in 1..1 |-> b])
    BY <1>2
  <2>2. Flat(CHOOSE f : Flat(f))
    BY <2>1, Zenon
  <2>3. FlattenSeq(lineq) = (CHOOSE f : Flat(f))[1]
    BY <1>2 DEF FlattenSeq
  <2> QED
    BY <1>2, <2>2, <2>3 DEF Waiting
<1> QED
  BY <1>1, <1>2

LEMMA InitLine == Init => LineInv
<1> SUFFICES ASSUME Init PROVE LineInv
  OBVIOUS
<1>1. LineSize \in Nat \ {0} /\ LineqLimit \in Nat
  BY ConsAssumption
<1>2. <<>> \o <<>> = <<>> /\ <<>> \in Seq(Byte) /\ <<>> \in Seq(Char)
  OBVIOUS
<1> QED
  BY <1>1, <1>2 DEF Init, LineInv, Waiting, Char

\* What the keyboard, the clock and consctl do to kbdq.
LEMMA KbdqHolds ==
  ASSUME RingInv, LineInv, UNCHANGED <<istage, ir, ciw>>,
         \/ UNCHANGED kbdq
         \/ cpc = "high" /\ echo(RingBytes(ir, RingSize))
         \/ cpc = "low" /\ echo(RingBytes(ir, ciw))
         \/ kbdq' = Append(kbdq, NUL)
  PROVE  kbdq' \in Seq(Char)
<1>1. RingSize \in Nat /\ ir \in Idx /\ ciw \in Idx /\ kbdq \in Seq(Char)
  BY ConsAssumption DEF RingInv, LineInv
<1>2. ASSUME NEW to \in 0..RingSize, ir < to PROVE RingBytes(ir, to) \in Seq(Char)
  <2>1. to - ir \in Nat /\ \A i \in 1..(to - ir) : istage[ir + i - 1] \in Char
    BY <1>1, <1>2 DEF RingInv, Idx, Char
  <2> QED
    BY <2>1 DEF RingBytes
<1>3. ASSUME NEW buf \in Seq(Char), echo(buf) PROVE kbdq' \in Seq(Char)
  <2>1. kbdq \o buf \in Seq(Char)
    BY <1>1, ConcatProperties
  <2>2. kbdq' = kbdq \/ kbdq' = kbdq \o buf
    BY <1>3 DEF echo
  <2> QED
    BY <1>1, <2>1, <2>2
<1>4. cpc = "high" => RingBytes(ir, RingSize) \in Seq(Char)
  BY <1>1, <1>2 DEF Idx
<1>5. cpc = "low" => RingBytes(ir, ciw) \in Seq(Char)
  BY <1>1, <1>2 DEF Idx, RingInv
<1>6. Append(kbdq, NUL) \in Seq(Char)
  BY <1>1, AppendProperties DEF Char
<1> QED
  BY <1>1, <1>3, <1>4, <1>5, <1>6

\* A line goes into an empty lineq, and whole.
LEMMA SendsLine ==
  ASSUME LineInv, NEW l \in Seq(Byte), lineq = <<>>, SendLine(l), UNCHANGED received
  PROVE  /\ line' = <<>> /\ lineq' = <<l>>
         /\ sent' \in Seq(Byte) /\ sent' = received' \o Waiting'
<1>1. FlattenSeq(lineq) = <<>>
  BY FlattenWaiting DEF Waiting
<1>2. lineq' = <<l>> /\ line' = <<>> /\ sent' = sent \o l
  <2>1. ~(Len(<<>>) >= LineqLimit)
    BY ConsAssumption
  <2> QED
    BY <1>1, <2>1 DEF SendLine
<1>3. sent = received
  BY DEF LineInv, Waiting
<1> QED
  BY <1>2, <1>3, ConcatProperties DEF LineInv, Waiting

LEMMA LineStep == RingInv /\ LineInv /\ [Next]_vars => LineInv'
<1> SUFFICES ASSUME RingInv, LineInv, [Next]_vars PROVE LineInv'
  OBVIOUS
<1>0. /\ LineSize \in Nat \ {0} /\ NoProc \notin Readers
      /\ load.sizes \subseteq Nat \ {0} /\ load.openers \subseteq Openers
  BY ConsAssumption DEF LineInv
<1>1. ASSUME UNCHANGED <<load, readers>>, kbdq' \in Seq(Char) PROVE LineInv'
  BY <1>1 DEF LineInv, readers, Waiting
<1>2. ASSUME NEW rune \in load.runes, KbdPut(rune) PROVE LineInv'
  BY <1>1, <1>2 DEF KbdPut, control, LineInv
<1>3. CASE StoreByte \/ DropRest
  BY <1>1, <1>3 DEF StoreByte, DropRest, control, LineInv
<1>4. CASE Clock
  <2>1. UNCHANGED <<load, readers>>
    BY <1>4 DEF Clock, ClockStart, ClockHigh, ClockWrap, ClockLow, ClockDone, control
  <2>2. kbdq' \in Seq(Char)
    <3>1. CASE ClockHigh
      BY <3>1, KbdqHolds DEF ClockHigh, ring
    <3>2. CASE ClockLow
      BY <3>2, KbdqHolds DEF ClockLow, ring
    <3> QED
      BY <1>4, <3>1, <3>2 DEF Clock, ClockStart, ClockWrap, ClockDone, LineInv
  <2> QED
    BY <1>1, <2>1, <2>2
<1>5. ASSUME NEW o \in load.openers,
             \/ CtlOpen(o) \/ RawOn(o) \/ RawWake(o) \/ RawOff(o) \/ CtlClose(o) \/ CtlLast(o)
             \/ \E off \in BOOLEAN : SetCtlp(o, off)
      PROVE  LineInv'
  <2>1. UNCHANGED <<load, readers>>
    BY <1>5 DEF CtlOpen, RawOn, RawWake, RawOff, CtlClose, CtlLast, SetCtlp
  <2>2. UNCHANGED kbdq \/ kbdq' = Append(kbdq, NUL)
    BY <1>5 DEF CtlOpen, RawOn, RawWake, RawOff, CtlClose, CtlLast, SetCtlp
  <2>3. UNCHANGED <<istage, ir, ciw>>
    BY <1>5 DEF CtlOpen, RawOn, RawWake, RawOff, CtlClose, CtlLast, SetCtlp, ring, clock
  <2> QED
    BY <1>1, <2>1, <2>2, <2>3, KbdqHolds
<1>6. ASSUME NEW r \in Readers, NEW n \in load.sizes, ReadCall(r, n) PROVE LineInv'
  <2>1. \A p \in Readers : rpc[p] = "idle"
    BY <1>0, <1>6 DEF ReadCall, LineInv
  <2>2. Len(line) < LineSize
    BY <2>1 DEF LineInv
  <2> QED
    BY <1>6, <2>1, <2>2 DEF ReadCall, LineInv, control, Waiting
\* The reader r holds the lock: the others are not in consread.
<1>7. ASSUME NEW r \in Readers, rpc[r] # "idle"
      PROVE  /\ kbdlock = r /\ \A p \in Readers \ {r} : rpc[p] = "idle"
             /\ rpc[r] # "more" => Len(line) < LineSize
             /\ rpc[r] \in {"char", "more"} => lineq = <<>> /\ sent = received
  BY <1>7 DEF LineInv, Waiting
<1>8. ASSUME NEW r \in Readers, ReadInterrupted(r) PROVE LineInv'
  BY <1>7, <1>8 DEF ReadInterrupted, LineInv, control, Waiting
<1>9. ASSUME NEW r \in Readers, ReadChar(r) PROVE LineInv'
  <2>1. lineq = <<>> /\ kbdq # <<>>
    BY <1>9 DEF ReadChar, qcanread
  <2>2. Head(kbdq) \in Char /\ Tail(kbdq) \in Seq(Char)
    BY <2>1, HeadTailProperties DEF LineInv
  <2> QED
    BY <1>7, <1>9, <2>1, <2>2 DEF ReadChar, LineInv, control, Waiting
\* A step of r's editing: the line it leaves, kept or sent.
<1>10. ASSUME NEW r \in Readers, rpc[r] \in {"char", "more"},
              UNCHANGED <<load, kbdlock, rch, rsize, received, kbdq>>,
              rpc' = [rpc EXCEPT ![r] = "loop"],
              NEW l \in Seq(Byte),
              SendLine(l) \/ (KeepLine(l) /\ Len(l) < LineSize)
       PROVE  LineInv'
  <2>1. /\ lineq = <<>> /\ sent = received /\ \A p \in Readers : rpc'[p] \in {"idle", "loop"}
        /\ \A p \in Readers : rpc'[p] # "idle" => kbdlock' = p
    BY <1>7, <1>10 DEF LineInv
  <2>2. CASE SendLine(l)
    <3>1. /\ line' = <<>> /\ lineq' = <<l>>
          /\ sent' \in Seq(Byte) /\ sent' = received' \o Waiting'
      BY <1>10, <2>1, <2>2, SendsLine
    <3> QED
      BY <1>0, <1>10, <2>1, <3>1 DEF LineInv
  <2>3. CASE KeepLine(l) /\ Len(l) < LineSize
    BY <1>0, <1>10, <2>1, <2>3 DEF LineInv, KeepLine, Waiting
  <2> QED
    BY <1>10, <2>2, <2>3
<1>11. ASSUME NEW r \in Readers, RawChar(r) PROVE LineInv'
  <2>1. rch[r] \in Char /\ line \in Seq(Byte) /\ Len(line) < LineSize
    BY <1>7, <1>11 DEF RawChar, LineInv
  <2>2. line' \in Seq(Byte) /\ Len(line') <= LineSize
    <3>1. CASE UNCHANGED line
      BY <1>0, <2>1, <3>1
    <3>2. CASE rch[r] # NUL /\ line' = Append(line, rch[r])
      <4>1. rch[r] \in Byte
        BY <2>1, <3>2 DEF Char
      <4>2. line' \in Seq(Byte) /\ Len(line') = Len(line) + 1
        BY <2>1, <3>2, <4>1, AppendProperties
      <4> QED
        BY <1>0, <2>1, <4>2
    <3> QED
      BY <1>11, <3>1, <3>2 DEF RawChar
  <2> QED
    BY <1>7, <1>11, <2>2 DEF RawChar, LineInv, control, Waiting
<1>12. ASSUME NEW r \in Readers, IgnoreNul(r) PROVE LineInv'
  <2>1. KeepLine(line) /\ Len(line) < LineSize /\ line \in Seq(Byte)
    BY <1>7, <1>12 DEF IgnoreNul, KeepLine, LineInv
  <2> QED
    BY <1>10, <1>12, <2>1 DEF IgnoreNul, control
<1>13. ASSUME NEW l \in Seq(Byte), Len(l) <= LineSize, SendIfFull(l)
       PROVE  SendLine(l) \/ (KeepLine(l) /\ Len(l) < LineSize)
  BY <1>0, <1>13 DEF SendIfFull
<1>14. ASSUME NEW r \in Readers, RawFlush(r) PROVE LineInv'
  <2>1. line \in Seq(Byte) /\ Len(line) <= LineSize
    BY DEF LineInv
  <2>2. SendLine(line) \/ (KeepLine(line) /\ Len(line) < LineSize)
    BY <1>13, <1>14, <2>1 DEF RawFlush
  <2> QED
    BY <1>10, <1>14, <2>1, <2>2 DEF RawFlush, control
<1>15. ASSUME NEW r \in Readers, CookedChar(r) PROVE LineInv'
  <2> DEFINE ch == rch[r]
  <2>1. line \in Seq(Byte) /\ Len(line) < LineSize /\ ch \in Byte
    BY <1>7, <1>15 DEF CookedChar, LineInv, Char
  <2>2. Append(line, ch) \in Seq(Byte) /\ Len(Append(line, ch)) <= LineSize
    BY <1>0, <2>1, AppendProperties
  <2>3. line # <<>> => Front(line) \in Seq(Byte) /\ Len(Front(line)) < LineSize
    BY <1>0, <2>1 DEF Front
  <2>4. <<>> \in Seq(Byte) /\ Len(<<>>) < LineSize
    BY <1>0
  <2>5. \E l \in Seq(Byte) : SendLine(l) \/ (KeepLine(l) /\ Len(l) < LineSize)
    <3>1. CASE KeepLine(IF line = <<>> THEN line ELSE Front(line))
      BY <2>1, <2>3, <3>1
    <3>2. CASE KeepLine(<<>>)
      BY <2>4, <3>2
    <3>3. CASE SendLine(Append(line, ch)) \/ SendLine(line)
      BY <2>1, <2>2, <3>3
    <3>4. CASE SendIfFull(Append(line, ch))
      BY <1>13, <2>2, <3>4
    <3> QED
      BY <1>15, <3>1, <3>2, <3>3, <3>4 DEF CookedChar
  <2> QED
    BY <1>10, <1>15, <2>5 DEF CookedChar, control
<1>16. ASSUME NEW r \in Readers, ReadReturn(r) PROVE LineInv'
  <2>1. PICK b \in Seq(Byte) : lineq = <<b>>
    BY <1>16 DEF ReadReturn, qcanread, LineInv
  <2> DEFINE k == IF Len(b) > rsize[r] THEN rsize[r] ELSE Len(b)
             rest == SubSeq(b, k + 1, Len(b))
  <2>2. k \in 0..Len(b) /\ Head(lineq) = b /\ Tail(lineq) = <<>> /\ Waiting = b
    <3>1. rsize[r] \in Nat /\ Len(b) \in Nat
      BY <1>0 DEF LineInv
    <3>2. k \in 0..Len(b)
      BY <3>1
    <3>3. Head(lineq) = b /\ Waiting = b
      BY <2>1 DEF Waiting
    <3>4. Tail(lineq) = <<>>
      BY <2>1
    <3> QED
      BY <3>2, <3>3, <3>4
  <2>3. SubSeq(b, 1, k) \in Seq(Byte) /\ rest \in Seq(Byte) /\ SubSeq(b, 1, k) \o rest = b
    <3>1. 1 \in 1..Len(b)+1 /\ k \in 1-1..Len(b) /\ Len(b) \in k..Len(b)
      BY <2>2
    <3>2. SubSeq(b, 1, k) \o SubSeq(b, k + 1, Len(b)) = SubSeq(b, 1, Len(b))
      <4> HIDE DEF k
      <4> QED
        BY <3>1, ConcatAdjacentSubSeq
    <3>3. \A i \in 1..Len(b) : b[i] \in Byte
      BY ElementOfSeq
    <3>4. SubSeq(b, 1, Len(b)) = b
      BY SubSeqFull
    <3> HIDE DEF k
    <3>5. SubSeq(b, 1, k) \in Seq(Byte) /\ rest \in Seq(Byte)
      BY <2>2, <3>3
    <3> QED
      BY <3>2, <3>4, <3>5
  <2>4. received' = received \o SubSeq(b, 1, k)
    BY <1>16, <2>2, Zenon DEF ReadReturn
  <2>5. lineq' = IF k < Len(b) THEN <<rest>> ELSE <<>>
    <3>1. lineq' = (IF k < Len(b) THEN <<rest>> ELSE <<>>) \o <<>>
      BY <1>16, <2>2, Zenon DEF ReadReturn
    <3>2. <<rest>> \o <<>> = <<rest>> /\ <<>> \o <<>> = <<>>
      OBVIOUS
    <3> QED
      BY <3>1, <3>2
  <2>6. Waiting' = rest
    <3>1. CASE k < Len(b)
      BY <2>5, <3>1 DEF Waiting
    <3>2. CASE ~(k < Len(b))
      <4>1. rest = <<>>
        BY <2>2, <3>2
      <4> QED
        BY <2>5, <3>2, <4>1 DEF Waiting
    <3> QED
      BY <3>1, <3>2
  <2>7. received' \in Seq(Byte) /\ received' \o rest = sent
    <3> HIDE DEF k, rest
    <3>0. received \in Seq(Byte)
      BY DEF LineInv
    <3>1. SubSeq(b, 1, k) \in Seq(Byte) /\ rest \in Seq(Byte)
      BY <2>3
    <3>2. (received \o SubSeq(b, 1, k)) \o rest = received \o (SubSeq(b, 1, k) \o rest)
      <4>1. \A u, v, w \in Seq(Byte) : (u \o v) \o w = u \o (v \o w)
        BY ConcatAssociative
      <4> QED
        BY <3>0, <3>1, <4>1
    <3>3. received \o SubSeq(b, 1, k) \in Seq(Byte)
      BY <3>0, <3>1, ConcatProperties
    <3> QED
      BY <2>2, <2>3, <2>4, <3>2, <3>3 DEF LineInv
  <2>8. /\ lineq' = <<>> \/ \E c \in Seq(Byte) : lineq' = <<c>>
        /\ sent' = sent /\ sent' = received' \o Waiting' /\ received' \in Seq(Byte)
    BY <1>16, <2>3, <2>5, <2>6, <2>7 DEF ReadReturn
  <2>9. Len(line) < LineSize /\ \A p \in Readers : rpc'[p] = "idle"
    BY <1>7, <1>16 DEF ReadReturn, LineInv
  <2> QED
    BY <1>16, <2>8, <2>9 DEF ReadReturn, LineInv, control
<1>17. CASE UNCHANGED vars
  BY <1>1, <1>17 DEF vars, control, LineInv
<1> QED
  BY <1>2, <1>3, <1>4, <1>5, <1>6, <1>8, <1>9, <1>11, <1>12, <1>14, <1>15, <1>16, <1>17
     DEF Next, Reader

LEMMA LineInvariance == Spec => [](RingInv /\ LineInv)
BY InitRing, RingStep, InitLine, LineStep, PTL DEF Spec

\* The bytes consread has sent are the bytes received followed by those in
\* lineq: it writes to lineq only while holding the lock and only when lineq is
\* empty, so that nothing is dropped, wherever a reader is interrupted.
THEOREM SentIsReceived == Spec => []LinesAreDelivered
<1>1. LineInv => LinesAreDelivered
  BY FlattenWaiting DEF LineInv, LinesAreDelivered
<1> QED
  BY <1>1, LineInvariance, PTL

-----------------------------------------------------------------------------
(* Types. *)

LEMMA Induction ==
  ASSUME NEW S, 0 \in S, \A k \in Nat : k \in S => k + 1 \in S
  PROVE  Nat \subseteq S
<1> DEFINE R == OpToRel(<, Nat)
           T == Nat \ S
<1> SUFFICES ASSUME T # {} PROVE FALSE
  OBVIOUS
<1>1. IsWellFoundedOn(R, Nat)
  BY NatLessThanWellFounded
<1>2. \E x \in T : \A y \in T : ~ (<<y, x>> \in R)
  <2>1. T \subseteq Nat
    OBVIOUS
  <2> HIDE DEF R, T
  <2> QED
    BY <1>1, <2>1, WFMin, Zenon
<1>3. \A x, y \in Nat : x < y => <<x, y>> \in R
  BY DEF OpToRel
<1> HIDE DEF R
<1>4. PICK n \in T : \A y \in T : ~ (<<y, n>> \in R)
  BY <1>2
<1>5. n \in Nat /\ n # 0
  OBVIOUS
<1>6. n - 1 \in Nat /\ n - 1 < n /\ (n - 1) + 1 = n
  BY <1>5
<1>7. n - 1 \notin T
  BY <1>3, <1>4, <1>5, <1>6
<1> QED
  BY <1>6, <1>7

LEMMA MaxOf ==
  ASSUME NEW n \in Nat, NEW s \in SUBSET (1..n), s # {}
  PROVE  Max(s) \in s /\ \A y \in s : Max(s) >= y
<1> DEFINE P(k) == \A t \in SUBSET (1..k) : t # {} => \E x \in t : \A y \in t : x >= y
           S == {k \in Nat : P(k)}
<1>1. P(0)
  <2>1. 1..0 = {}
    OBVIOUS
  <2> QED
    BY <2>1
<1>2. ASSUME NEW k \in Nat, P(k) PROVE P(k + 1)
  <2> SUFFICES ASSUME NEW t \in SUBSET (1..(k + 1)), t # {}
               PROVE  \E x \in t : \A y \in t : x >= y
    OBVIOUS
  <2>1. CASE k + 1 \in t
    BY <2>1
  <2>2. CASE k + 1 \notin t
    <3>1. t \in SUBSET (1..k)
      BY <2>2
    <3> QED
      BY <1>2, <3>1
  <2> QED
    BY <2>1, <2>2
<1>3. Nat \subseteq S
  <2>1. 0 \in S /\ \A k \in Nat : k \in S => k + 1 \in S
    BY <1>1, <1>2
  <2> HIDE DEF S
  <2> QED
    BY <2>1, Induction
<1>4. \E x \in s : \A y \in s : x >= y
  BY <1>3
<1> QED
  BY <1>4 DEF Max

EchoState == [t : 0..2, cut : BOOLEAN, halt : BOOLEAN]

LEMMA ScanType == ASSUME NEW s \in EchoState, NEW b PROVE Scan(s, b) \in EchoState
<1>1. CASE s.cut
  BY <1>1 DEF Scan
<1>2. CASE ~s.cut /\ b = CTLP /\ CpuServer /\ ~ctlpoff
  <2>1. Scan(s, b) = [s EXCEPT !.cut = TRUE, !.halt = TRUE]
    BY <1>2, ConsAssumption DEF Scan
  <2> QED
    BY <2>1 DEF EchoState
<1>3. CASE ~s.cut /\ ~(b = CTLP /\ CpuServer /\ ~ctlpoff) /\ b = CTLT
  <2>1. Scan(s, b) = [s EXCEPT !.t = IF @ = 2 THEN 2 ELSE @ + 1]
    BY <1>3 DEF Scan
  <2> QED
    BY <2>1 DEF EchoState
<1>4. CASE ~s.cut /\ ~(b = CTLP /\ CpuServer /\ ~ctlpoff) /\ b # CTLT
  <2> DEFINE escape == b \in Escapes
  <2>1. Scan(s, b) = IF s.t = 2 THEN [s EXCEPT !.t = 0, !.cut = escape] ELSE s
    BY <1>4 DEF Scan
  <2>2. escape \in BOOLEAN
    OBVIOUS
  <2> HIDE DEF escape
  <2>3. ASSUME NEW c \in BOOLEAN PROVE [s EXCEPT !.t = 0, !.cut = c] \in EchoState
    <3>1. [s EXCEPT !.t = 0] \in EchoState
      BY DEF EchoState
    <3>2. \A u \in EchoState : [u EXCEPT !.cut = c] \in EchoState
      BY DEF EchoState
    <3>3. [s EXCEPT !.t = 0, !.cut = c] = [[s EXCEPT !.t = 0] EXCEPT !.cut = c]
      BY DEF EchoState
    <3> QED
      BY <3>1, <3>2, <3>3
  <2> QED
    BY <2>1, <2>2, <2>3
<1> QED
  BY <1>1, <1>2, <1>3, <1>4

\* The fold of echo is a function of the sets of positions: it exists, and
\* every value of it is a state of the scan.
LEMMA FoldType ==
  ASSUME NEW base \in EchoState, NEW n \in Nat, NEW buf, DOMAIN buf = 1..n
  PROVE  FoldLeft(Scan, base, buf) \in EchoState
<1> DEFINE Step(f, s) == IF s = {} THEN base ELSE Scan(f[s \ {Max(s)}], buf[Max(s)])
           Fold(f, k) == f = [s \in SUBSET (1..k) |-> Step(f, s)]
<1>1. \E f : Fold(f, n)
  <2> DEFINE S == {k \in Nat : \E f : Fold(f, k)}
  <2>1. 0 \in S
    <3> DEFINE f == [s \in SUBSET (1..0) |-> base]
    <3>1. SUBSET (1..0) = {{}}
      OBVIOUS
    <3>2. Fold(f, 0)
      BY <3>1
    <3> QED
      BY <3>2
  <2>2. ASSUME NEW k \in Nat, k \in S PROVE k + 1 \in S
    <3>1. PICK f : Fold(f, k)
      BY <2>2
    <3> DEFINE g == [s \in SUBSET (1..(k + 1)) |->
                       IF k + 1 \in s THEN Scan(f[s \ {k + 1}], buf[k + 1]) ELSE f[s]]
    <3>2. ASSUME NEW s \in SUBSET (1..(k + 1)) PROVE g[s] = Step(g, s)
      <4>1. CASE k + 1 \in s
        <5>1. Max(s) = k + 1
          <6>1. k + 1 \in Nat /\ s # {}
            BY <4>1
          <6>2. Max(s) \in s /\ \A y \in s : Max(s) >= y
            BY <6>1, MaxOf
          <6>3. Max(s) \in 1..(k + 1) /\ Max(s) >= k + 1
            BY <4>1, <6>2
          <6> QED
            BY <6>3
        <5>2. s \ {k + 1} \in SUBSET (1..k) /\ k + 1 \notin s \ {k + 1}
          OBVIOUS
        <5>3. g[s \ {k + 1}] = f[s \ {k + 1}]
          BY <5>2
        <5> HIDE DEF g
        <5>4. g[s] = Scan(f[s \ {k + 1}], buf[k + 1])
          BY <4>1 DEF g
        <5> QED
          BY <4>1, <5>1, <5>3, <5>4
      <4>2. CASE k + 1 \notin s /\ s # {}
        <5>1. s \in SUBSET (1..k) /\ g[s] = f[s]
          BY <4>2
        <5>2. s \ {Max(s)} \in SUBSET (1..k) /\ k + 1 \notin s \ {Max(s)}
          <6>1. PICK m : m = Max(s)
            OBVIOUS
          <6>2. s \ {m} \in SUBSET (1..k) /\ k + 1 \notin s \ {m}
            BY <4>2, <5>1
          <6> QED
            BY <6>1, <6>2, Zenon
        <5>3. g[s \ {Max(s)}] = f[s \ {Max(s)}]
          BY <5>2
        <5>4. f[s] = Step(f, s)
          BY <3>1, <5>1
        <5> HIDE DEF g
        <5> QED
          BY <4>2, <5>1, <5>3, <5>4
      <4>3. CASE s = {}
        <5>1. {} \in SUBSET (1..k) /\ k + 1 \notin {}
          OBVIOUS
        <5>2. f[{}] = base
          BY <3>1, <5>1
        <5> QED
          BY <4>3, <5>1, <5>2
      <4> QED
        BY <4>1, <4>2, <4>3
    <3>3. g = [s \in SUBSET (1..(k + 1)) |-> g[s]]
      OBVIOUS
    <3> HIDE DEF g
    <3>4. Fold(g, k + 1)
      BY <3>2, <3>3
    <3>5. k + 1 \in Nat
      OBVIOUS
    <3>6. \E h : Fold(h, k + 1)
      BY <3>4, Zenon
    <3> HIDE DEF Fold
    <3> QED
      BY <3>5, <3>6
  <2> HIDE DEF S
  <2>3. n \in S
    BY <2>1, <2>2, Induction
  <2> QED
    BY <2>3 DEF S
<1> DEFINE it == CHOOSE f : Fold(f, n)
<1>2. Fold(it, n)
  BY <1>1, Zenon
<1>3. FoldLeft(Scan, base, buf) = it[1..n]
  BY DEF FoldLeft, MapThenFoldSet
<1> HIDE DEF it
<1>4. ASSUME NEW s \in SUBSET (1..n) PROVE it[s] = Step(it, s)
  BY <1>2
<1> DEFINE P(k) == k <= n => \A s \in SUBSET (1..k) : it[s] \in EchoState
           S == {k \in Nat : P(k)}
<1>5. 0 \in S
  <2>1. it[{}] = base
    BY <1>4
  <2>2. SUBSET (1..0) = {{}}
    OBVIOUS
  <2> QED
    BY <2>1, <2>2
<1>6. ASSUME NEW k \in Nat, k \in S PROVE k + 1 \in S
  <2> SUFFICES ASSUME k + 1 <= n, NEW s \in SUBSET (1..(k + 1)) PROVE it[s] \in EchoState
    <3>1. k + 1 \in Nat
      OBVIOUS
    <3> QED
      BY <3>1
  <2>0. s \in SUBSET (1..n) /\ \A t \in SUBSET (1..k) : it[t] \in EchoState
    BY <1>6
  <2>1. CASE s = {}
    BY <1>4, <2>0, <2>1
  <2>2. CASE s # {}
    <3>1. Max(s) \in s /\ \A y \in s : Max(s) >= y
      BY <2>0, <2>2, MaxOf
    <3>2. s \ {Max(s)} \in SUBSET (1..k)
      <4>1. PICK m : m = Max(s)
        OBVIOUS
      <4>2. m \in s /\ \A y \in s : m >= y
        BY <3>1, <4>1
      <4>3. \A y \in s \ {m} : y \in 1..k
        BY <4>2
      <4>4. s \ {m} \in SUBSET (1..k)
        BY <4>3
      <4> QED
        BY <4>1, <4>4, Zenon
    <3>3. it[s] = Scan(it[s \ {Max(s)}], buf[Max(s)])
      BY <1>4, <2>0, <2>2
    <3> QED
      BY <2>0, <3>2, <3>3, ScanType
  <2> QED
    BY <2>1, <2>2
<1> HIDE DEF S
<1>7. n \in S
  BY <1>5, <1>6, Induction
<1>8. 1..n \in SUBSET (1..n)
  OBVIOUS
<1> QED
  BY <1>3, <1>7, <1>8 DEF S

\* The flags, the count of ^T and the number of bytes typed.
FlagInv ==
  /\ load \in Loads
  /\ ctrlt \in 0..2
  /\ exiting \in BOOLEAN /\ ctlpoff \in BOOLEAN /\ raw \in BOOLEAN /\ asked \in BOOLEAN
  /\ putting \in Seq(Byte) /\ typed \in Nat
  /\ typed + Len(putting) <= load.typed

LEMMA InitFlags == Init => FlagInv
<1> SUFFICES ASSUME Init PROVE FlagInv
  OBVIOUS
<1>1. load \in Loads /\ load.typed \in Nat
  BY ConsAssumption DEF Init
<1>2. putting = <<>> /\ <<>> \in Seq(Byte) /\ Len(<<>>) = 0
  BY DEF Init
<1>3. typed + Len(putting) <= load.typed /\ putting \in Seq(Byte) /\ typed \in Nat
  BY <1>1, <1>2 DEF Init
<1>4. ctrlt \in 0..2
  BY DEF Init
<1>5. exiting \in BOOLEAN /\ ctlpoff \in BOOLEAN /\ raw \in BOOLEAN /\ asked \in BOOLEAN
  BY DEF Init
<1> QED
  BY <1>1, <1>3, <1>4, <1>5 DEF FlagInv

LEMMA echoFlags ==
  ASSUME FlagInv, NEW from \in Int, NEW to \in Int, from <= to, echo(RingBytes(from, to))
  PROVE  ctrlt' \in 0..2 /\ exiting' \in BOOLEAN
<1> DEFINE base == [t |-> ctrlt, cut |-> FALSE, halt |-> FALSE]
           buf == RingBytes(from, to)
<1>1. DOMAIN buf = 1..(to - from) /\ to - from \in Nat
  BY DEF RingBytes
<1>2. base \in EchoState
  BY DEF FlagInv, EchoState
<1>3. FoldLeft(Scan, base, buf) \in EchoState
  <2> HIDE DEF base, buf
  <2> QED
    BY <1>1, <1>2, FoldType
<1>4. ctrlt' = FoldLeft(Scan, base, buf).t /\ exiting' = (exiting \/ FoldLeft(Scan, base, buf).halt)
  BY DEF echo
<1> HIDE DEF base, buf
<1>5. ctrlt' \in 0..2
  BY <1>3, <1>4 DEF EchoState
<1>6. exiting' \in BOOLEAN
  BY <1>4
<1> QED
  BY <1>5, <1>6

LEMMA FlagStep == RingInv /\ FlagInv /\ [Next]_vars => FlagInv'
<1> SUFFICES ASSUME RingInv, FlagInv, [Next]_vars PROVE FlagInv'
  OBVIOUS
<1>0. RingSize \in Nat /\ load.typed \in Nat /\ load.runes \subseteq Seq(Byte) /\ Len(putting) \in Nat
  BY ConsAssumption DEF FlagInv
<1>1. CASE UNCHANGED <<load, ctrlt, exiting, ctlpoff, raw, asked, putting, typed>>
  BY <1>1 DEF FlagInv
<1>2. ASSUME NEW rune \in load.runes, KbdPut(rune) PROVE FlagInv'
  BY <1>0, <1>2 DEF KbdPut, clock, control, FlagInv
<1>3. CASE StoreByte
  <2>1. Tail(putting) \in Seq(Byte) /\ Len(Tail(putting)) = Len(putting) - 1
    BY <1>3, HeadTailProperties DEF StoreByte, FlagInv
  <2> QED
    BY <1>0, <1>3, <2>1 DEF StoreByte, clock, control, FlagInv
<1>4. CASE DropRest
  <2>1. <<>> \in Seq(Byte) /\ Len(<<>>) = 0
    OBVIOUS
  <2> QED
    BY <1>0, <1>4, <2>1 DEF DropRest, clock, control, FlagInv
<1>5. CASE ClockHigh
  <2>1. ctrlt' \in 0..2 /\ exiting' \in BOOLEAN
    BY <1>0, <1>5, echoFlags DEF ClockHigh, RingInv, Idx
  <2> QED
    BY <1>5, <2>1 DEF ClockHigh, ring, control, FlagInv
<1>6. CASE ClockLow
  <2>1. ctrlt' \in 0..2 /\ exiting' \in BOOLEAN
    BY <1>0, <1>6, echoFlags DEF ClockLow, RingInv, Idx
  <2> QED
    BY <1>6, <2>1 DEF ClockLow, ring, control, FlagInv
<1>7. CASE ClockStart \/ ClockWrap \/ ClockDone
  BY <1>1, <1>7 DEF ClockStart, ClockWrap, ClockDone, ring, control
<1>8. ASSUME NEW r \in Readers,
             Reader(r) \/ ReadInterrupted(r) \/ \E n \in load.sizes : ReadCall(r, n)
      PROVE  FlagInv'
  BY <1>1, <1>8 DEF Reader, ReadChar, RawChar, IgnoreNul, RawFlush, CookedChar, ReadReturn,
     ReadInterrupted, ReadCall, clock, control, ring
<1>9. ASSUME NEW o \in load.openers,
             \/ CtlOpen(o) \/ RawOn(o) \/ RawWake(o) \/ RawOff(o) \/ CtlClose(o) \/ CtlLast(o)
             \/ \E off \in BOOLEAN : SetCtlp(o, off)
      PROVE  FlagInv'
  <2>1. /\ UNCHANGED <<load, ctrlt, exiting, putting, typed>>
        /\ raw' \in BOOLEAN /\ asked' \in BOOLEAN /\ ctlpoff' \in BOOLEAN
    BY <1>9 DEF CtlOpen, RawOn, RawWake, RawOff, CtlClose, CtlLast, SetCtlp, clock, ring, FlagInv
  <2> QED
    BY <2>1 DEF FlagInv
<1>10. CASE UNCHANGED vars
  BY <1>1, <1>10 DEF vars, clock, control, ring
<1> QED
  BY <1>2, <1>3, <1>4, <1>5, <1>6, <1>7, <1>8, <1>9, <1>10 DEF Next, Clock

\* What a pipe of bytes passes is bytes.
PassedBytes == RingContents \in Seq(Byte) /\ echoed \in Seq(Byte)

LEMMA PipeBytes == Pipe!Spec => []PassedBytes
<1>1. Pipe!Init => PassedBytes
  BY DEF Pipe!Init, PassedBytes
<1>2. PassedBytes /\ [Pipe!Next]_Pipe!vars => PassedBytes'
  <2> SUFFICES ASSUME PassedBytes, [Pipe!Next]_Pipe!vars PROVE PassedBytes'
    OBVIOUS
  <2>1. ASSUME NEW b \in Byte, Pipe!Put(b) PROVE PassedBytes'
    BY <2>1 DEF Pipe!Put, PassedBytes
  <2>2. ASSUME NEW n \in 1..Len(RingContents), Pipe!Pass(n) PROVE PassedBytes'
    <3>1. \A i \in 1..Len(RingContents) : RingContents[i] \in Byte
      BY DEF PassedBytes
    <3>2. /\ SubSeq(RingContents, 1, n) \in Seq(Byte)
          /\ SubSeq(RingContents, n + 1, Len(RingContents)) \in Seq(Byte)
      BY <3>1, SubSeqProperties DEF PassedBytes
    <3> QED
      BY <2>2, <3>2, ConcatProperties DEF Pipe!Pass, PassedBytes
  <2>3. CASE UNCHANGED Pipe!vars
    BY <2>3 DEF Pipe!vars, PassedBytes
  <2> QED
    BY <2>1, <2>2, <2>3 DEF Pipe!Next
<1> QED
  BY <1>1, <1>2, PTL DEF Pipe!Spec

\* Every index stays in the ring, the line in its buffer, and only what was
\* typed reaches echo and the readers.
THEOREM TypeCorrect == Spec => []TypeOK
<1>1. Spec => []PassedBytes
  BY RingIsAPipe, PipeBytes, PTL DEF StagingIsAPipe
<1>2. Spec => []FlagInv
  BY InitRing, RingStep, InitFlags, FlagStep, PTL DEF Spec
<1>3. Spec => []RawInv
  BY RawInit, RawStep, PTL DEF Spec
<1>4. RingInv /\ LineInv /\ RawInv /\ FlagInv /\ PassedBytes => TypeOK
  <2> SUFFICES ASSUME RingInv, LineInv, RawInv, FlagInv, PassedBytes PROVE TypeOK
    OBVIOUS
  <2>1. ctl \in 0..Cardinality(Openers)
    <3>1. Holding \subseteq Openers /\ IsFiniteSet(Openers)
      BY ConsAssumption DEF Holding
    <3>2. Cardinality(Holding) <= Cardinality(Openers) /\ Cardinality(Openers) \in Nat
      BY <3>1, FS_Subset, FS_CardinalityType
    <3> QED
      BY <3>2, HoldingIsFinite DEF RawInv
  <2>2. typed \in 0..load.typed
    <3>1. load.typed \in Nat /\ Len(putting) \in Nat
      BY ConsAssumption DEF FlagInv
    <3> QED
      BY <3>1 DEF FlagInv
  <2>3. lineq \in Seq(Seq(Byte))
    <3>1. \A b \in Seq(Byte) : <<b>> \in Seq(Seq(Byte))
      OBVIOUS
    <3>2. <<>> \in Seq(Seq(Byte))
      OBVIOUS
    <3> QED
      BY <3>1, <3>2 DEF LineInv
  <2> QED
    BY <2>1, <2>2, <2>3 DEF TypeOK, RingInv, LineInv, RawInv, FlagInv, PassedBytes, Idx, Char
<1> QED
  BY <1>1, <1>2, <1>3, <1>4, LineInvariance, PTL
=============================================================================
