------------------------------- MODULE ConsKbd -------------------------------
(* The console input path of devumcons.c: characters put by the keyboard     *)
(* driver into a staging ring (kbdputc), moved to kbdq by the clock          *)
(* (kbdputcclock, echo), edited into lines by whoever reads #c/cons          *)
(* (consread), under a raw/cooked mode that holders of #c/consctl switch.    *)
(*                                                                           *)
(* kbdputc holds lockputc but the clock does not take it, so the model lets  *)
(* the clock run between any two bytes of a rune.  A byte is a member of     *)
(* Byte; only the bytes the code compares with have names.  Queues (qio.c,   *)
(* not in the repository) are modelled from their use here: both are         *)
(* qnoblock, so a write to a full queue is dropped.                          *)
EXTENDS Integers, FiniteSets, SequencesExt

CONSTANTS
  Byte,        \* the bytes a keyboard can produce
  NUL, BS, KILL, NL, EOT,      \* 0, '\b', ^U, '\n', ^D
  CTLT, CTLP,                  \* ^T and ^P
  Escapes,     \* the letters that are commands after ^T ^T
  CpuServer,   \* the configuration's cpuserver flag
  RingSize, KbdqLimit, LineqLimit, LineSize,
  Readers,     \* processes reading #c/cons
  Openers,     \* channels on #c/consctl
  Loads,       \* what happens in a behaviour: the runes kbdputc is called with,
               \* how many bytes of them, the counts read with, the open channels
  NoProc

ASSUME ConsAssumption ==
  /\ RingSize \in Nat /\ RingSize > 1
  /\ KbdqLimit \in Nat \ {0} /\ LineqLimit \in Nat \ {0}
  /\ LineSize \in 1..LineqLimit
  /\ Escapes \subseteq Byte /\ NUL \notin Byte /\ CTLT # CTLP
  /\ NoProc \notin Readers /\ CpuServer \in BOOLEAN /\ IsFiniteSet(Openers)
  /\ \A l \in Loads : /\ l.runes \subseteq Seq(Byte) /\ l.typed \in Nat
                      /\ l.sizes \subseteq Nat \ {0} /\ l.openers \subseteq Openers

VARIABLES
  load,                 \* the member of Loads this behaviour is about
  istage, ir, iw,       \* kbd.istage and the read and write indexes
  putting,              \* the bytes kbdputc still has to store
  cpc, ciw,             \* where kbdputcclock is, and its copy of iw
  ctrlt,                \* echo's count of ^T
  exiting, ctlpoff,     \* active.exiting, kbd.ctlpoff
  kbdq, lineq,          \* bytes; blocks of bytes
  raw, ctl,             \* kbd.raw and kbd.ctl
  line,                 \* kbd.line[0..kbd.x-1]
  kbdlock,              \* the holder of kbd's QLock
  rpc, rch, rsize,      \* each reader: where it is, its ch and its n
  opc,                  \* each consctl channel: where it is
  echoed,               \* history: every byte given to echo
  typed,                \* history: the number of bytes stored in the ring
  sent, received,       \* history: bytes written to lineq, bytes read from it
  asked                 \* history: raw mode was asked for and not given up

ring    == <<istage, ir, iw, putting, typed>>
clock   == <<cpc, ciw, ctrlt, exiting, echoed>>
readers == <<line, lineq, kbdlock, rpc, rch, rsize, sent, received>>
control == <<load, raw, ctl, opc, ctlpoff, asked>>
vars    == <<ring, clock, readers, control, kbdq>>

Init ==
  /\ load \in Loads
  /\ istage = [i \in 0..RingSize-1 |-> NUL]
  /\ ir = 0 /\ iw = 0 /\ putting = <<>>
  /\ cpc = "idle" /\ ciw = 0 /\ ctrlt = 0
  /\ exiting = FALSE /\ ctlpoff = FALSE
  /\ kbdq = <<>> /\ lineq = <<>> /\ line = <<>>
  /\ raw = FALSE /\ ctl = 0 /\ kbdlock = NoProc
  /\ rpc = [r \in Readers |-> "idle"] /\ rch = [r \in Readers |-> NUL]
  /\ rsize = [r \in Readers |-> 0]
  /\ opc = [o \in Openers |-> "closed"]
  /\ echoed = <<>> /\ typed = 0 /\ sent = <<>> /\ received = <<>>
  /\ asked = FALSE

(* ---------------------------- the staging ring -------------------------- *)

next(i) == (i + 1) % RingSize

\* kbdputc takes lockputc and starts on a rune.
KbdPut(rune) ==
  /\ putting = <<>> /\ typed + Len(rune) <= load.typed
  /\ putting' = rune
  /\ UNCHANGED <<istage, ir, iw, typed, clock, readers, control, kbdq>>

\* Mutant: kbdputc does not look whether the ring is full.
StoreByteUnchecked ==
  /\ putting # <<>>
  /\ istage' = [istage EXCEPT ![iw] = Head(putting)]
  /\ iw' = next(iw) /\ putting' = Tail(putting) /\ typed' = typed + 1
  /\ UNCHANGED <<ir, clock, readers, control, kbdq>>

\* Mutant: iw wraps one byte late.
StoreByteLate ==
  /\ putting # <<>> /\ next(iw) # ir
  /\ istage' = [istage EXCEPT ![iw] = Head(putting)]
  /\ iw' = (iw + 1) % (RingSize + 1) /\ putting' = Tail(putting) /\ typed' = typed + 1
  /\ UNCHANGED <<ir, clock, readers, control, kbdq>>

\* One turn of kbdputc's loop: the byte is stored before iw covers it.
StoreByte ==
  /\ putting # <<>> /\ next(iw) # ir
  /\ istage' = [istage EXCEPT ![iw] = Head(putting)]
  /\ iw' = next(iw) /\ putting' = Tail(putting) /\ typed' = typed + 1
  /\ UNCHANGED <<ir, clock, readers, control, kbdq>>

\* The ring is full: break, and the rest of the rune is dropped.
DropRest ==
  /\ putting # <<>> /\ next(iw) = ir
  /\ putting' = <<>>
  /\ UNCHANGED <<istage, ir, iw, typed, clock, readers, control, kbdq>>

(* ------------------------------- the clock ------------------------------ *)

RingBytes(from, to) == [i \in 1..(to - from) |-> istage[from + i - 1]]

\* echo's scan of one byte: s.t is ctrlt, s.cut whether echo has returned.
Scan(s, b) ==
  CASE s.cut -> s
    [] ~s.cut /\ b = CTLP /\ CpuServer /\ ~ctlpoff -> [s EXCEPT !.cut = TRUE, !.halt = TRUE]
    [] ~s.cut /\ b = CTLT -> [s EXCEPT !.t = IF @ = 2 THEN 2 ELSE @ + 1]
    [] ~s.cut /\ b # CTLT /\ ~(b = CTLP /\ CpuServer /\ ~ctlpoff) ->
         IF s.t = 2 THEN [s EXCEPT !.t = 0, !.cut = b \in Escapes] ELSE s

\* echo: a ^P or a ^T escape throws the whole buffer away, a full kbdq too.
echo(buf) ==
  LET s == FoldLeft(Scan, [t |-> ctrlt, cut |-> FALSE, halt |-> FALSE], buf)
  IN  /\ ctrlt' = s.t
      /\ exiting' = (exiting \/ s.halt)
      /\ kbdq' = IF s.cut \/ Len(kbdq) >= KbdqLimit THEN kbdq ELSE kbdq \o buf
      /\ echoed' = echoed \o buf

\* Mutant: a ring whose contents wrap around looks empty.
ClockStartUnwrapped ==
  /\ cpc = "idle" /\ iw > ir
  /\ ciw' = iw
  /\ cpc' = "low"
  /\ UNCHANGED <<ctrlt, exiting, echoed, ring, readers, control, kbdq>>

ClockStart ==
  /\ cpc = "idle" /\ iw # ir
  /\ ciw' = iw
  /\ cpc' = IF iw < ir THEN "high" ELSE "low"
  /\ UNCHANGED <<ctrlt, exiting, echoed, ring, readers, control, kbdq>>

\* The part of the ring from ir to its end.
ClockHigh ==
  /\ cpc = "high"
  /\ echo(RingBytes(ir, RingSize))
  /\ cpc' = "wrap"
  /\ UNCHANGED <<ciw, ring, readers, control>>

ClockWrap ==
  /\ cpc = "wrap"
  /\ ir' = 0
  /\ cpc' = IF ciw # 0 THEN "low" ELSE "idle"
  /\ UNCHANGED <<istage, iw, putting, typed, ciw, ctrlt, exiting, echoed, readers, control, kbdq>>

\* The part from ir to the iw seen at the start.
ClockLow ==
  /\ cpc = "low"
  /\ echo(RingBytes(ir, ciw))
  /\ cpc' = "done"
  /\ UNCHANGED <<ciw, ring, readers, control>>

ClockDone ==
  /\ cpc = "done"
  /\ ir' = ciw /\ cpc' = "idle"
  /\ UNCHANGED <<istage, iw, putting, typed, ciw, ctrlt, exiting, echoed, readers, control, kbdq>>

(* --------------------------- readers of #c/cons ------------------------- *)

qcanread(q) == q # <<>>

ReadCall(r, n) ==
  /\ rpc[r] = "idle" /\ kbdlock = NoProc
  /\ kbdlock' = r /\ rsize' = [rsize EXCEPT ![r] = n]
  /\ rpc' = [rpc EXCEPT ![r] = "loop"]
  /\ UNCHANGED <<line, lineq, rch, sent, received, ring, clock, control, kbdq>>

\* Mutant: consread edits on although a line is ready.
ReadCharAhead(r) ==
  /\ rpc[r] = "loop" /\ qcanread(kbdq)
  /\ rch' = [rch EXCEPT ![r] = Head(kbdq)] /\ kbdq' = Tail(kbdq)
  /\ rpc' = [rpc EXCEPT ![r] = "char"]
  /\ UNCHANGED <<line, lineq, kbdlock, rsize, sent, received, ring, clock, control>>

\* qread(kbdq, &ch, 1), when no line is ready.
ReadChar(r) ==
  /\ rpc[r] = "loop" /\ ~qcanread(lineq) /\ qcanread(kbdq)
  /\ rch' = [rch EXCEPT ![r] = Head(kbdq)] /\ kbdq' = Tail(kbdq)
  /\ rpc' = [rpc EXCEPT ![r] = "char"]
  /\ UNCHANGED <<line, lineq, kbdlock, rsize, sent, received, ring, clock, control>>

\* A note interrupts the sleep in qread: waserror gives the lock up, and the
\* partial line stays for the next reader.
ReadInterrupted(r) ==
  /\ rpc[r] = "loop" /\ ~qcanread(lineq) /\ ~qcanread(kbdq)
  /\ kbdlock' = NoProc /\ rpc' = [rpc EXCEPT ![r] = "idle"]
  /\ UNCHANGED <<line, lineq, rch, rsize, sent, received, ring, clock, control, kbdq>>

\* qwrite(lineq, line, x); x = 0
SendLine(l) ==
  /\ line' = <<>>
  /\ sent' = sent \o l
  /\ lineq' = IF Len(FlattenSeq(lineq)) >= LineqLimit THEN lineq ELSE Append(lineq, l)

KeepLine(l) == line' = l /\ UNCHANGED <<sent, lineq>>

SendIfFull(l) == IF Len(l) = LineSize THEN SendLine(l) ELSE KeepLine(l)

\* NUL and raw characters go on to ask whether more input is there.
RawChar(r) ==
  /\ rpc[r] = "char"
  /\ \/ rch[r] = NUL /\ line # <<>> /\ UNCHANGED line
     \/ rch[r] # NUL /\ raw /\ line' = Append(line, rch[r])
  /\ rpc' = [rpc EXCEPT ![r] = "more"]
  /\ UNCHANGED <<lineq, kbdlock, rch, rsize, sent, received, ring, clock, control, kbdq>>

IgnoreNul(r) ==
  /\ rpc[r] = "char" /\ rch[r] = NUL /\ line = <<>>
  /\ rpc' = [rpc EXCEPT ![r] = "loop"]
  /\ UNCHANGED <<line, lineq, kbdlock, rch, rsize, sent, received, ring, clock, control, kbdq>>

\* send = !qcanread(kbdq)
RawFlush(r) ==
  /\ rpc[r] = "more"
  /\ \/ ~qcanread(kbdq) /\ SendLine(line)
     \/ qcanread(kbdq) /\ SendIfFull(line)
  /\ rpc' = [rpc EXCEPT ![r] = "loop"]
  /\ UNCHANGED <<kbdlock, rch, rsize, received, ring, clock, control, kbdq>>

CookedChar(r) ==
  /\ rpc[r] = "char" /\ rch[r] # NUL /\ ~raw
  /\ LET ch == rch[r] IN
       \/ ch = BS   /\ KeepLine(IF line = <<>> THEN line ELSE Front(line))
       \/ ch = KILL /\ KeepLine(<<>>)
       \/ ch = NL   /\ SendLine(Append(line, ch))
       \/ ch = EOT  /\ SendLine(line)
       \/ ch \notin {BS, KILL, NL, EOT} /\ SendIfFull(Append(line, ch))
  /\ rpc' = [rpc EXCEPT ![r] = "loop"]
  /\ UNCHANGED <<kbdlock, rch, rsize, received, ring, clock, control, kbdq>>

\* qread(lineq, buf, n): at most one block, what does not fit is put back.
ReadReturn(r) ==
  /\ rpc[r] = "loop" /\ qcanread(lineq)
  /\ LET b == Head(lineq)
         k == IF Len(b) > rsize[r] THEN rsize[r] ELSE Len(b)
     IN  /\ received' = received \o SubSeq(b, 1, k)
         /\ lineq' = (IF k < Len(b) THEN <<SubSeq(b, k + 1, Len(b))>> ELSE <<>>) \o Tail(lineq)
  /\ kbdlock' = NoProc /\ rpc' = [rpc EXCEPT ![r] = "idle"]
  /\ UNCHANGED <<line, rch, rsize, sent, ring, clock, control, kbdq>>

(* ------------------------- holders of #c/consctl ------------------------ *)

CtlOpen(o) ==
  /\ opc[o] = "closed"
  /\ ctl' = ctl + 1 /\ opc' = [opc EXCEPT ![o] = "open"]
  /\ UNCHANGED <<load, raw, ctlpoff, asked, ring, clock, readers, kbdq>>

\* Mutant: rawon without the write that wakes the reader.
RawOnQuiet(o) ==
  /\ opc[o] = "open"
  /\ raw' = TRUE /\ asked' = TRUE
  /\ UNCHANGED <<load, ctl, ctlpoff, opc, ring, clock, readers, kbdq>>

RawOn(o) ==
  /\ opc[o] = "open"
  /\ raw' = TRUE /\ asked' = TRUE /\ opc' = [opc EXCEPT ![o] = "wake"]
  /\ UNCHANGED <<load, ctl, ctlpoff, ring, clock, readers, kbdq>>

\* "clumsy hack - wake up reader"
RawWake(o) ==
  /\ opc[o] = "wake"
  /\ kbdq' = IF Len(kbdq) >= KbdqLimit THEN kbdq ELSE Append(kbdq, NUL)
  /\ opc' = [opc EXCEPT ![o] = "open"]
  /\ UNCHANGED <<load, raw, ctl, ctlpoff, asked, ring, clock, readers>>

RawOff(o) ==
  /\ opc[o] = "open"
  /\ raw' = FALSE /\ asked' = FALSE
  /\ UNCHANGED <<load, ctl, ctlpoff, opc, ring, clock, readers, kbdq>>

SetCtlp(o, off) ==
  /\ opc[o] = "open"
  /\ ctlpoff' = off
  /\ UNCHANGED <<load, raw, ctl, opc, asked, ring, clock, readers, kbdq>>

\* Mutant: the close that leaves one channel is taken for the last.
CtlCloseEarly(o) ==
  /\ opc[o] = "open"
  /\ ctl' = ctl - 1
  /\ \/ ctl' = 1 /\ opc' = [opc EXCEPT ![o] = "last"] /\ asked' = FALSE
     \/ ctl' # 1 /\ opc' = [opc EXCEPT ![o] = "closed"] /\ UNCHANGED asked
  /\ UNCHANGED <<load, raw, ctlpoff, ring, clock, readers, kbdq>>

\* decref(&kbd.ctl) in consclose
CtlClose(o) ==
  /\ opc[o] = "open"
  /\ ctl' = ctl - 1
  /\ \/ ctl' = 0 /\ opc' = [opc EXCEPT ![o] = "last"] /\ asked' = FALSE
     \/ ctl' # 0 /\ opc' = [opc EXCEPT ![o] = "closed"] /\ UNCHANGED asked
  /\ UNCHANGED <<load, raw, ctlpoff, ring, clock, readers, kbdq>>

\* kbd.raw = 0, after the decref
CtlLast(o) ==
  /\ opc[o] = "last"
  /\ raw' = FALSE /\ opc' = [opc EXCEPT ![o] = "closed"]
  /\ UNCHANGED <<load, ctl, ctlpoff, asked, ring, clock, readers, kbdq>>

(* ------------------------------------------------------------------------ *)

Clock == ClockStart \/ ClockHigh \/ ClockWrap \/ ClockLow \/ ClockDone

Reader(r) == \/ ReadChar(r) \/ RawChar(r) \/ IgnoreNul(r) \/ RawFlush(r)
             \/ CookedChar(r) \/ ReadReturn(r)

Next ==
  \/ \E rune \in load.runes : KbdPut(rune)
  \/ StoreByte \/ DropRest \/ Clock
  \/ \E r \in Readers : Reader(r) \/ ReadInterrupted(r) \/ \E n \in load.sizes : ReadCall(r, n)
  \/ \E o \in load.openers : \/ CtlOpen(o) \/ RawOn(o) \/ RawWake(o) \/ RawOff(o)
                        \/ CtlClose(o) \/ CtlLast(o)
                        \/ \E off \in BOOLEAN : SetCtlp(o, off)

Spec == Init /\ [][Next]_vars

\* kbdputcclock is on the clock's list; a kbdputc that has begun and a process
\* that can run are run.  Nobody has to type, to read or to use consctl.
Fairness ==
  /\ WF_vars(Clock) /\ WF_vars(StoreByte \/ DropRest)
  /\ \A r \in Readers : WF_vars(Reader(r))
  /\ \A o \in Openers : WF_vars(RawWake(o)) /\ WF_vars(CtlLast(o))

FairSpec == Spec /\ Fairness

(* ------------------------------ properties ------------------------------ *)

\* The ring indexes stay in the ring, the line in its buffer, and every
\* program counter is one of its steps.
TypeOK ==
  /\ load \in Loads
  /\ istage \in [0..RingSize-1 -> Byte \cup {NUL}]
  /\ ir \in 0..RingSize-1 /\ iw \in 0..RingSize-1 /\ ciw \in 0..RingSize-1
  /\ putting \in Seq(Byte) /\ typed \in 0..load.typed
  /\ cpc \in {"idle", "high", "wrap", "low", "done"} /\ ctrlt \in 0..2
  /\ exiting \in BOOLEAN /\ ctlpoff \in BOOLEAN /\ raw \in BOOLEAN /\ asked \in BOOLEAN
  /\ kbdq \in Seq(Byte \cup {NUL}) /\ lineq \in Seq(Seq(Byte))
  /\ line \in Seq(Byte) /\ Len(line) <= LineSize
  /\ ctl \in 0..Cardinality(Openers) /\ kbdlock \in Readers \cup {NoProc}
  /\ rpc \in [Readers -> {"idle", "loop", "char", "more"}]
  /\ rch \in [Readers -> Byte \cup {NUL}] /\ rsize \in [Readers -> load.sizes \cup {0}]
  /\ opc \in [Openers -> {"closed", "open", "wake", "last"}]
  /\ echoed \in Seq(Byte) /\ sent \in Seq(Byte) /\ received \in Seq(Byte)

\* The bytes of the ring that the clock has not yet given to echo.
RingFrom == CASE cpc = "wrap" -> 0 [] cpc = "done" -> ciw [] OTHER -> ir
RingContents == [i \in 1..((iw - RingFrom) % RingSize) |-> istage[(RingFrom + i - 1) % RingSize]]

Pipe == INSTANCE BytePipe
          WITH Capacity <- RingSize - 1, pending <- RingContents, passed <- echoed

\* Although the clock reads the indexes without lockputc, and may run in the
\* middle of a rune and across the end of the ring, the ring is a lossless
\* pipe: every byte kbdputc stored reaches echo once and in order.
StagingIsAPipe == Pipe!Spec

\* The bytes consread puts in lineq are those its readers have got, in order,
\* and those still in lineq, however readers are interrupted and however little
\* they read: lineq, which drops what does not fit, is never written while there
\* is a line in it.  How a line is edited before, and where a read may cut it,
\* is not the subject.
LinesAreDelivered == sent = received \o FlattenSeq(lineq)

\* With #c/consctl closed by everybody the console is cooked: no close is
\* missed when several channels are closed and opened at once.
RawOffWhenUnused ==
  (ctl = 0 /\ \A o \in Openers : opc[o] # "last") => ~raw

\* "last close of control file turns off raw" (consclose): until the last
\* close, or a rawoff, a rawon that was written stays in force.
RawUntilLastClose == asked => raw

MaxTyped == Max({l.typed : l \in Loads})

\* Whatever kbdputc stored is given to echo in the end, wrapped or not.
EverythingIsEchoed == \A n \in 1..MaxTyped : (typed >= n) ~> (Len(echoed) >= n)

\* A reader in consread never sleeps for ever on a partial line in raw mode:
\* rawon's NUL makes it send what was typed before the switch, and a
\* character that found more input behind it is sent with that input.  (Only
\* rawons written without end, whose NULs are always more input, keep it.)
RawLineIsSent ==
  \A r \in Readers :
    (raw /\ line # <<>> /\ rpc[r] # "idle")
      ~> (~raw \/ line = <<>> \/ rpc[r] = "idle" \/ \E o \in Openers : opc[o] = "wake")
=============================================================================
