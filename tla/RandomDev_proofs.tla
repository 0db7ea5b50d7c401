--------------------------- MODULE RandomDev_proofs ---------------------------
(* For any readers, any ring of more than one byte and any reads: each byte  *)
(* is handed out once, and nobody sleeps through its wakeup.                 *)
(*                                                                           *)
(* One reader at a time is past qlock (LockInv).  The clock has room for the *)
(* byte it is writing, since only it fills the ring, and a reader that has   *)
(* read a byte has it still, since only it empties it (RingInv).             *)
EXTENDS RandomDev, SequenceTheorems, TLAPS

InRead == {"loop", "sleep", "asleep", "awake", "advance"}

LockInv ==
  \A r \in Readers :
    /\ rpc[r] \in InRead <=> Contains(lockq, r)
    /\ rpc[r] \in InRead \ {"loop"} => Holds(r)

RingInv ==
  /\ cpc \in {"write", "advance"} => rbnotfull
  /\ \A r \in Readers : rpc[r] = "advance" => rbnotempty

WakeInv ==
  \A r \in Readers : rpc[r] = "sleep" => wakeme /\ (~rbnotempty => ppc # "asleep")

IndInv == TypeOK /\ LockInv /\ RingInv /\ WakeInv /\ NoMissedWakeup /\ EachByteOnce

-----------------------------------------------------------------------------
Idx == 0..Size-1

\* How far i is past j in the ring.
Past(i, j) == IF i >= j THEN i - j ELSE i - j + Size

LEMMA Wrap ==
  ASSUME NEW i \in Idx, NEW j \in Idx
  PROVE  /\ Succ(i) = IF i = Size-1 THEN 0 ELSE i + 1
         /\ (i - j) % Size = Past(i, j)
<1>1. Size \in Nat /\ Size > 1
  BY RandomAssumption
<1>2. ASSUME NEW a \in 0..Size-1 PROVE a % Size = a
  BY <1>1
<1>3. ASSUME NEW a \in 0..Size-1 PROVE (a - Size) % Size = a
  BY <1>1
<1>4. Size % Size = 0
  BY <1>1
<1> QED
  BY <1>1, <1>2, <1>3, <1>4 DEF Succ, Past, Idx

LEMMA QueueUp ==
  ASSUME NEW s \in Seq(Readers), IsInjective(s), NEW r \in Readers, ~Contains(s, r)
  PROVE  /\ Append(s, r) \in Seq(Readers) /\ IsInjective(Append(s, r)) /\ Append(s, r) # <<>>
         /\ s # <<>> => Head(Append(s, r)) = Head(s)
         /\ \A q : Contains(Append(s, r), q) <=> Contains(s, q) \/ q = r
<1> DEFINE t == Append(s, r)
           n == Len(s)
<1>1. n \in Nat /\ DOMAIN s = 1..n /\ t \in Seq(Readers) /\ Len(t) = n+1 /\ DOMAIN t = 1..n+1
      /\ t[n+1] = r /\ \A k \in 1..n : t[k] = s[k]
  OBVIOUS
<1> HIDE DEF t
<1>2. \A k \in 1..n+1 : k \in 1..n \/ k = n+1
  BY <1>1
<1>3. \A k \in 1..n : s[k] # r
  BY DEF Contains
<1>4. IsInjective(t)
  <2> SUFFICES ASSUME NEW j \in 1..n+1, NEW k \in 1..n+1, t[j] = t[k] PROVE j = k
    BY <1>1 DEF IsInjective
  <2>1. CASE j \in 1..n /\ k \in 1..n
    BY <1>1, <2>1 DEF IsInjective
  <2>2. CASE j = n+1 \/ k = n+1
    BY <1>1, <1>2, <1>3, <2>2
  <2> QED
    BY <1>2, <2>1, <2>2
<1>5. s # <<>> => Head(t) = Head(s)
  <2> SUFFICES ASSUME s # <<>> PROVE Head(t) = Head(s)
    OBVIOUS
  <2>1. 1 \in 1..n /\ Head(s) = s[1]
    BY EmptySeq
  <2>2. Head(t) = t[1]
    BY <1>1
  <2> QED
    BY <1>1, <2>1, <2>2
<1>6. \A q : Contains(t, q) <=> Contains(s, q) \/ q = r
  BY <1>1, <1>2 DEF Contains
<1>7. t # <<>>
  BY <1>1
<1> QED
  BY <1>1, <1>4, <1>5, <1>6, <1>7 DEF t

LEMMA QueueOut ==
  ASSUME NEW s \in Seq(Readers), IsInjective(s), s # <<>>
  PROVE  /\ Tail(s) \in Seq(Readers) /\ IsInjective(Tail(s))
         /\ \A q : Contains(Tail(s), q) <=> Contains(s, q) /\ q # Head(s)
<1> DEFINE t == Tail(s)
           n == Len(s)
<1>1. n \in Nat /\ n >= 1 /\ DOMAIN s = 1..n /\ Head(s) = s[1] /\ t \in Seq(Readers)
      /\ Len(t) = n-1 /\ DOMAIN t = 1..n-1 /\ \A k \in 1..n-1 : t[k] = s[k+1]
  BY EmptySeq
<1> HIDE DEF t, n
<1>2. \A k \in 1..n-1 : k+1 \in 1..n /\ k+1 # 1
  BY <1>1
<1>3. \A k \in 1..n : k # 1 => k-1 \in 1..n-1 /\ (k-1)+1 = k
  BY <1>1
<1>4. IsInjective(t)
  <2> SUFFICES ASSUME NEW j \in 1..n-1, NEW k \in 1..n-1, t[j] = t[k] PROVE j = k
    BY <1>1 DEF IsInjective
  <2>1. s[j+1] = s[k+1]
    BY <1>1
  <2>2. j+1 = k+1
    BY <1>1, <1>2, <2>1 DEF IsInjective
  <2> QED
    BY <2>2, <1>1
<1>5. ASSUME NEW q, Contains(t, q) PROVE Contains(s, q) /\ q # Head(s)
  <2>1. PICK k \in 1..n-1 : t[k] = q
    BY <1>1, <1>5 DEF Contains
  <2>2. s[k+1] = q /\ k+1 \in 1..n /\ k+1 # 1
    BY <1>1, <1>2, <2>1
  <2> QED
    BY <1>1, <2>2 DEF Contains, IsInjective, n
<1>6. ASSUME NEW q, Contains(s, q), q # Head(s) PROVE Contains(t, q)
  <2>1. PICK k \in 1..n : s[k] = q
    BY <1>6 DEF Contains, n
  <2>2. k # 1
    BY <1>1, <1>6, <2>1
  <2>3. k-1 \in 1..n-1 /\ t[k-1] = s[k]
    BY <1>1, <1>3, <2>2
  <2> QED
    BY <1>1, <2>1, <2>3 DEF Contains
<1> QED
  BY <1>1, <1>4, <1>5, <1>6 DEF t

LEMMA InitInv == Init => IndInv
<1> SUFFICES ASSUME Init PROVE IndInv
  OBVIOUS
<1>1. Size \in Nat /\ Size > 1 /\ Samples \in Nat \ {0}
  BY RandomAssumption
<1>2. TypeOK
  BY <1>1 DEF Init, TypeOK, IsInjective
<1>3. LockInv /\ WakeInv /\ NoMissedWakeup
  BY DEF Init, LockInv, InRead, Contains, WakeInv, NoMissedWakeup
<1>4. RingInv
  BY DEF Init, RingInv
<1>5. EachByteOnce
  <2> SUFFICES ASSUME NEW i \in 0..Size-1 PROVE ~((i - 0) % Size < (0 - 0) % Size)
    BY DEF Init, EachByteOnce
  <2>1. 0 \in Idx
    BY <1>1 DEF Idx
  <2>2. (i - 0) % Size = Past(i, 0) /\ (0 - 0) % Size = Past(0, 0)
    BY <2>1, Wrap DEF Idx
  <2> QED
    BY <2>2, <1>1 DEF Past
<1> QED
  BY <1>2, <1>3, <1>4, <1>5 DEF IndInv

-----------------------------------------------------------------------------
(* Types and the lock. *)

LEMMA TypeStep == IndInv /\ Next => TypeOK'
<1> SUFFICES ASSUME IndInv, Next PROVE TypeOK'
  OBVIOUS
<1> USE DEF IndInv
<1>1. /\ Size \in Nat /\ Size > 1 /\ Samples \in Nat \ {0} /\ Counts \subseteq Nat
      /\ \A i \in 0..Size-1 : Succ(i) \in 0..Size-1
  BY RandomAssumption DEF Succ
<1>2. CASE genrandom
  BY <1>2 DEF genrandom, Count, Check, Sleep, TypeOK
<1>3. CASE ClockTick
  <2>1. nextbit' \in 0..Samples-1
    BY <1>1, <1>3 DEF ClockTick, TypeOK
  <2> QED
    BY <1>3, <2>1 DEF ClockTick, TypeOK
<1>4. CASE ClockWrite \/ ClockAdvance \/ ClockWake
  BY <1>1, <1>4 DEF ClockWrite, ClockAdvance, ClockWake, TypeOK
<1>5. ASSUME NEW r \in Readers, NEW n \in Counts, ReadCall(r, n) PROVE TypeOK'
  <2>1. lockq' \in Seq(Readers) /\ IsInjective(lockq')
    <3>1. lockq \in Seq(Readers) /\ IsInjective(lockq) /\ ~Contains(lockq, r)
      BY <1>5 DEF TypeOK, LockInv, ReadCall, InRead
    <3> QED
      BY <1>5, <3>1, QueueUp DEF ReadCall
  <2> QED
    BY <1>1, <1>5, <2>1 DEF ReadCall, TypeOK
<1>6. ASSUME NEW r \in Readers, Interrupted(r) \/ Unlock(r) PROVE TypeOK'
  <2>1. lockq # <<>>
    BY <1>6 DEF LockInv, InRead, Interrupted, Unlock, Holds
  <2>2. lockq' \in Seq(Readers) /\ IsInjective(lockq')
    BY <1>6, <2>1, QueueOut DEF TypeOK, Interrupted, Unlock
  <2> QED
    BY <1>6, <2>2 DEF Interrupted, Unlock, TypeOK
<1>7. ASSUME NEW r \in Readers, WaitEmpty(r) \/ SleepEmpty(r) \/ Awake(r) PROVE TypeOK'
  BY <1>7 DEF WaitEmpty, WakeProducer, SleepEmpty, Awake, TypeOK
<1>8. ASSUME NEW r \in Readers, TakeByte(r) PROVE TypeOK'
  <2>1. left[r] \in Nat /\ left[r] > 0 /\ left[r] - 1 \in Nat
    BY <1>8 DEF TypeOK, TakeByte
  <2>2. left' \in [Readers -> Nat]
    BY <1>8, <2>1 DEF TypeOK, TakeByte
  <2> QED
    BY <1>8, <2>2 DEF TakeByte, TypeOK
<1>9. ASSUME NEW r \in Readers, Advance(r) \/ Leave(r) PROVE TypeOK'
  BY <1>1, <1>9 DEF Advance, Leave, WakeProducer, TypeOK
<1> QED
  BY <1>2, <1>3, <1>4, <1>5, <1>6, <1>7, <1>8, <1>9 DEF Next, randomclock, randomread

\* Nobody but the holder is past qlock.
LEMMA OneHolder ==
  ASSUME LockInv, NEW r \in Readers, NEW q \in Readers, Holds(r),
         rpc[q] \in InRead \ {"loop"}
  PROVE  q = r
BY DEF LockInv, Holds

LEMMA LockStep == IndInv /\ Next => LockInv'
<1> SUFFICES ASSUME IndInv, Next PROVE LockInv'
  OBVIOUS
<1> USE DEF IndInv
<1>0. lockq \in Seq(Readers) /\ IsInjective(lockq) /\ rpc = [r \in Readers |-> rpc[r]]
  BY DEF TypeOK
<1>1. CASE UNCHANGED <<rpc, lockq>>
  BY <1>1 DEF LockInv, Holds
<1>2. CASE ClockWake
  BY <1>2 DEF ClockWake, LockInv, Holds, InRead
<1>3. ASSUME NEW r \in Readers, NEW n \in Counts, ReadCall(r, n) PROVE LockInv'
  <2>1. ~Contains(lockq, r)
    BY <1>3 DEF LockInv, ReadCall, InRead
  <2>2. /\ lockq' # <<>> /\ lockq # <<>> => Head(lockq') = Head(lockq)
        /\ \A q : Contains(lockq', q) <=> Contains(lockq, q) \/ q = r
    BY <1>0, <1>3, <2>1, QueueUp DEF ReadCall
  <2> QED
    BY <1>0, <1>3, <2>2 DEF ReadCall, LockInv, Holds, InRead
<1>4. ASSUME NEW r \in Readers, Interrupted(r) \/ Unlock(r) PROVE LockInv'
  <2>1. Holds(r)
    BY <1>4 DEF LockInv, InRead, Interrupted, Unlock
  <2>2. \A q : Contains(lockq', q) <=> Contains(lockq, q) /\ q # r
    BY <1>0, <1>4, <2>1, QueueOut DEF Interrupted, Unlock, Holds
  <2>3. \A q \in Readers \ {r} : rpc[q] \in InRead => rpc[q] = "loop"
    BY <2>1, OneHolder
  <2>4. rpc'[r] \notin InRead /\ \A q \in Readers \ {r} : rpc'[q] = rpc[q]
    BY <1>0, <1>4 DEF Interrupted, Unlock, InRead
  <2> QED
    BY <2>2, <2>3, <2>4 DEF LockInv
<1>5. ASSUME NEW r \in Readers,
             WaitEmpty(r) \/ SleepEmpty(r) \/ Awake(r) \/ TakeByte(r) \/ Advance(r) \/ Leave(r)
      PROVE  LockInv'
  <2>1. lockq' = lockq /\ \A q \in Readers \ {r} : rpc'[q] = rpc[q]
    BY <1>0, <1>5 DEF WaitEmpty, SleepEmpty, Awake, TakeByte, Advance, Leave
  <2>2. (rpc'[r] \in InRead <=> rpc[r] \in InRead) /\ (rpc'[r] \in InRead \ {"loop"} => Holds(r))
    BY <1>0, <1>5 DEF WaitEmpty, SleepEmpty, Awake, TakeByte, Advance, Leave, LockInv, InRead
  <2> QED
    BY <2>1, <2>2 DEF LockInv, Holds
<1> QED
  BY <1>1, <1>2, <1>3, <1>4, <1>5 DEF Next, genrandom, randomclock, randomread,
     Count, Check, Sleep, ClockTick, ClockWrite, ClockAdvance

-----------------------------------------------------------------------------
(* The ring. *)

\* Two different pointers stay different, and a step moves a pointer.
LEMMA SuccDiffers ==
  ASSUME NEW i \in Idx, NEW j \in Idx, i # j
  PROVE  Succ(i) # Succ(j) /\ Succ(i) # i
<1>1. /\ Succ(i) = IF i = Size-1 THEN 0 ELSE i + 1
      /\ Succ(j) = IF j = Size-1 THEN 0 ELSE j + 1
  BY Wrap
<1>2. Size \in Nat /\ Size > 1 /\ i \in Int /\ j \in Int /\ i >= 0 /\ j >= 0
  BY RandomAssumption DEF Idx
<1> HIDE DEF Succ
<1> QED
  BY <1>1, <1>2

LEMMA RingStep == IndInv /\ Next => RingInv'
<1> SUFFICES ASSUME IndInv, Next PROVE RingInv'
  OBVIOUS
<1> USE DEF IndInv
<1>0. rpc = [r \in Readers |-> rpc[r]] /\ rp \in Idx /\ wp \in Idx
  BY DEF TypeOK, Idx
<1>1. CASE UNCHANGED <<rp, wp, cpc, rpc>>
  BY <1>1 DEF RingInv, rbnotfull, rbnotempty
<1>2. CASE ClockTick \/ ClockWrite \/ ClockWake
  BY <1>2 DEF ClockTick, ClockWrite, ClockWake, RingInv, rbnotfull, rbnotempty
<1>3. CASE ClockAdvance
  BY <1>3 DEF ClockAdvance, RingInv, rbnotfull, rbnotempty
<1>4. ASSUME NEW r \in Readers, NEW n \in Counts, ReadCall(r, n) PROVE RingInv'
  BY <1>0, <1>4 DEF ReadCall, RingInv, rbnotfull, rbnotempty
<1>5. ASSUME NEW r \in Readers,
             \/ WaitEmpty(r) \/ SleepEmpty(r) \/ Awake(r) \/ Interrupted(r)
             \/ TakeByte(r) \/ Unlock(r) \/ Leave(r)
      PROVE  RingInv'
  BY <1>0, <1>5 DEF WaitEmpty, SleepEmpty, Awake, Interrupted, TakeByte, Unlock, Leave,
     RingInv, rbnotfull, rbnotempty
<1>6. ASSUME NEW r \in Readers, Advance(r) PROVE RingInv'
  <2>1. Holds(r) /\ rbnotempty
    BY <1>6 DEF Advance, LockInv, InRead, RingInv
  <2>2. rbnotfull'
    BY <1>0, <1>6, <2>1, SuccDiffers DEF Advance, rbnotfull, rbnotempty, Succ
  <2>3. \A q \in Readers : rpc'[q] # "advance"
    BY <1>0, <1>6, <2>1, OneHolder DEF Advance, InRead
  <2> QED
    BY <2>2, <2>3 DEF RingInv
<1> QED
  BY <1>1, <1>2, <1>3, <1>4, <1>5, <1>6 DEF Next, genrandom, randomclock, randomread,
     Count, Check, Sleep

-----------------------------------------------------------------------------
(* The wakeups. *)

LEMMA WakeStep == IndInv /\ Next => WakeInv' /\ NoMissedWakeup'
<1> SUFFICES ASSUME IndInv, Next PROVE WakeInv' /\ NoMissedWakeup'
  OBVIOUS
<1> USE DEF IndInv
<1>0. rpc = [r \in Readers |-> rpc[r]] /\ rp \in Idx /\ wp \in Idx
  BY DEF TypeOK, Idx
<1>1. CASE Count \/ Check
  BY <1>1 DEF Count, Check, WakeInv, NoMissedWakeup, rbnotempty
<1>2. CASE Sleep
  <2>1. ~rbnotempty => rbnotfull
    BY <1>0, Wrap, RandomAssumption DEF rbnotempty, rbnotfull, Idx
  <2> QED
    BY <1>2, <2>1 DEF Sleep, WakeInv, NoMissedWakeup, rbnotempty, rbnotfull
<1>3. CASE ClockTick \/ ClockWrite
  BY <1>3 DEF ClockTick, ClockWrite, WakeInv, NoMissedWakeup, rbnotempty
<1>4. CASE ClockAdvance
  <2>1. rbnotempty'
    BY <1>4 DEF ClockAdvance, RingInv, rbnotfull, rbnotempty
  <2> QED
    BY <1>4, <2>1 DEF ClockAdvance, WakeInv, NoMissedWakeup
<1>5. CASE ClockWake
  <2>1. \A r \in Readers : rpc'[r] # "asleep"
    BY <1>5 DEF ClockWake, NoMissedWakeup
  <2>2. \A r \in Readers : rpc'[r] = "sleep" => rpc[r] = "sleep"
    BY <1>5 DEF ClockWake
  <2> QED
    BY <1>5, <2>1, <2>2 DEF ClockWake, WakeInv, NoMissedWakeup, rbnotempty
<1>6. ASSUME NEW r \in Readers, NEW n \in Counts, ReadCall(r, n)
      PROVE  WakeInv' /\ NoMissedWakeup'
  BY <1>0, <1>6 DEF ReadCall, WakeInv, NoMissedWakeup, rbnotempty
<1>7. ASSUME NEW r \in Readers,
             SleepEmpty(r) \/ Interrupted(r) \/ TakeByte(r) \/ Unlock(r) \/ Leave(r)
      PROVE  WakeInv' /\ NoMissedWakeup'
  BY <1>0, <1>7 DEF SleepEmpty, Interrupted, TakeByte, Unlock, Leave, WakeProducer,
     WakeInv, NoMissedWakeup, rbnotempty
<1>8. ASSUME NEW r \in Readers, WaitEmpty(r) \/ Awake(r) \/ Advance(r)
      PROVE  WakeInv' /\ NoMissedWakeup'
  <2>1. Holds(r)
    BY <1>8 DEF WaitEmpty, Awake, Advance, LockInv, InRead
  <2>2. \A q \in Readers : q # r => rpc'[q] \notin {"sleep", "asleep"}
    BY <1>0, <1>8, <2>1, OneHolder DEF WaitEmpty, Awake, Advance, InRead
  <2>3. CASE WaitEmpty(r)
    <3>1. wakeme' /\ ppc' # "asleep" /\ rpc'[r] = "sleep"
      BY <1>0, <2>3 DEF WaitEmpty, WakeProducer
    <3> QED
      BY <2>2, <3>1 DEF WakeInv, NoMissedWakeup
  <2>4. CASE Awake(r) \/ Advance(r)
    <3>1. rpc'[r] = "loop"
      BY <1>0, <2>4 DEF Awake, Advance
    <3> QED
      BY <2>2, <3>1 DEF WakeInv, NoMissedWakeup
  <2> QED
    BY <1>8, <2>3, <2>4
<1> QED
  BY <1>1, <1>2, <1>3, <1>4, <1>5, <1>6, <1>7, <1>8
     DEF Next, genrandom, randomclock, randomread

-----------------------------------------------------------------------------
(* The bytes. *)

\* The bytes a reader may still be given.
Unread(i) ==
  \/ Past(i, rp) < Past(wp, rp) /\ ~(i = rp /\ \E r \in Readers : rpc[r] = "advance")
  \/ i = wp /\ cpc = "advance"

LEMMA ByPast ==
  ASSUME rp \in Idx, wp \in Idx
  PROVE  EachByteOnce <=> \A i \in Idx : fresh[i] <=> Unread(i)
<1>1. \A i \in Idx : (i - rp) % Size = Past(i, rp) /\ (wp - rp) % Size = Past(wp, rp)
  BY Wrap
<1> QED
  BY <1>1 DEF EachByteOnce, Unread, Idx

LEMMA ByPastNext ==
  ASSUME rp' \in Idx, wp' \in Idx, \A i \in Idx : fresh'[i] <=> Unread(i)'
  PROVE  EachByteOnce'
<1>1. \A i \in Idx : (i - rp') % Size = Past(i, rp') /\ (wp' - rp') % Size = Past(wp', rp')
  BY Wrap
<1> QED
  BY <1>1 DEF EachByteOnce, Unread, Idx, Past

\* The clock's step past the byte it wrote, and the reader's past the one it
\* took, each move one end of the run of unread bytes by one.
LEMMA EndsMove ==
  ASSUME NEW i \in Idx, NEW j \in Idx, NEW k \in Idx
  PROVE  /\ Succ(j) # k => (Past(i, k) < Past(Succ(j), k) <=> Past(i, k) < Past(j, k) \/ i = j)
         /\ j # k => (Past(i, Succ(k)) < Past(j, Succ(k)) <=> Past(i, k) < Past(j, k) /\ i # k)
<1>1. Succ(j) = (IF j = Size-1 THEN 0 ELSE j + 1) /\ Succ(k) = IF k = Size-1 THEN 0 ELSE k + 1
  BY Wrap
<1> QED
  BY <1>1, RandomAssumption DEF Past, Idx

LEMMA ByteStep == IndInv /\ Next => EachByteOnce'
<1> SUFFICES ASSUME IndInv, Next PROVE EachByteOnce'
  OBVIOUS
<1> USE DEF IndInv
<1>0. /\ rpc = [r \in Readers |-> rpc[r]] /\ rp \in Idx /\ wp \in Idx
      /\ fresh = [i \in Idx |-> fresh[i]] /\ \A i \in Idx : fresh[i] \in BOOLEAN
  BY DEF TypeOK, Idx
<1>1. \A i \in Idx : fresh[i] <=> Unread(i)
  BY <1>0, ByPast
<1>2. rp' \in Idx /\ wp' \in Idx
  BY TypeStep DEF TypeOK, Idx
<1>3. SUFFICES ASSUME NEW i \in Idx PROVE fresh'[i] <=> Unread(i)'
  BY <1>2, ByPastNext
<1> DEFINE Taking == \E r \in Readers : rpc[r] = "advance"
<1>4. ASSUME UNCHANGED <<rp, wp, fresh>>, (cpc = "advance") <=> (cpc' = "advance"), Taking <=> Taking'
      PROVE  fresh'[i] <=> Unread(i)'
  BY <1>1, <1>4 DEF Unread, Past
<1>5. CASE genrandom \/ ClockTick
  BY <1>4, <1>5 DEF genrandom, Count, Check, Sleep, ClockTick
<1>6. CASE ClockWake
  <2>1. Taking <=> Taking'
    BY <1>0, <1>6 DEF ClockWake
  <2> QED
    BY <1>4, <1>6, <2>1 DEF ClockWake
<1>7. CASE ClockWrite
  BY <1>0, <1>1, <1>7 DEF ClockWrite, Unread, Past
<1>8. CASE ClockAdvance
  <2>1. Succ(wp) # rp /\ (Taking => wp # rp)
    BY <1>8 DEF ClockAdvance, RingInv, rbnotfull, rbnotempty
  <2>2. Past(i, rp) < Past(Succ(wp), rp) <=> Past(i, rp) < Past(wp, rp) \/ i = wp
    BY <1>0, <2>1, EndsMove
  <2>3. Unread(i)' <=> Past(i, rp) < Past(Succ(wp), rp) /\ ~(i = rp /\ Taking)
    BY <1>8 DEF ClockAdvance, Unread, Past
  <2> QED
    BY <1>1, <1>8, <2>1, <2>2, <2>3 DEF ClockAdvance, Unread
<1>9. ASSUME NEW r \in Readers, NEW n \in Counts, ReadCall(r, n) PROVE fresh'[i] <=> Unread(i)'
  <2>1. Taking <=> Taking'
    BY <1>0, <1>9 DEF ReadCall
  <2> QED
    BY <1>4, <1>9, <2>1 DEF ReadCall
<1>10. ASSUME NEW r \in Readers,
              \/ WaitEmpty(r) \/ SleepEmpty(r) \/ Awake(r) \/ Interrupted(r)
              \/ Unlock(r) \/ Leave(r)
       PROVE  fresh'[i] <=> Unread(i)'
  <2>1. Taking <=> Taking'
    BY <1>0, <1>10 DEF WaitEmpty, SleepEmpty, Awake, Interrupted, Unlock, Leave
  <2> QED
    BY <1>4, <1>10, <2>1 DEF WaitEmpty, SleepEmpty, Awake, Interrupted, Unlock, Leave
<1>11. ASSUME NEW r \in Readers, TakeByte(r) PROVE fresh'[i] <=> Unread(i)'
  <2>1. Taking'
    BY <1>0, <1>11 DEF TakeByte
  <2>2. Unread(i)' <=> (Past(i, rp) < Past(wp, rp) /\ i # rp) \/ (i = wp /\ cpc = "advance")
    BY <1>11, <2>1 DEF TakeByte, Unread, Past
  <2> QED
    BY <1>0, <1>1, <1>11, <2>2 DEF TakeByte, Unread, rbnotempty
<1>12. ASSUME NEW r \in Readers, Advance(r) PROVE fresh'[i] <=> Unread(i)'
  <2>1. Holds(r) /\ wp # rp /\ Taking
    BY <1>12 DEF Advance, LockInv, InRead, RingInv, rbnotempty
  <2>2. ~Taking'
    BY <1>0, <1>12, <2>1, OneHolder DEF Advance, InRead
  <2>3. Past(i, Succ(rp)) < Past(wp, Succ(rp)) <=> Past(i, rp) < Past(wp, rp) /\ i # rp
    BY <1>0, <2>1, EndsMove
  <2>4. Unread(i)' <=> Past(i, Succ(rp)) < Past(wp, Succ(rp)) \/ (i = wp /\ cpc = "advance")
    BY <1>12, <2>2 DEF Advance, Unread, Past, Succ
  <2> QED
    BY <1>1, <1>12, <2>1, <2>3, <2>4 DEF Advance, Unread
<1> QED
  BY <1>5, <1>6, <1>7, <1>8, <1>9, <1>10, <1>11, <1>12 DEF Next, randomclock, randomread

-----------------------------------------------------------------------------
LEMMA StepInv == IndInv /\ [Next]_vars => IndInv'
<1>1. CASE Next
  BY <1>1, TypeStep, LockStep, RingStep, WakeStep, ByteStep DEF IndInv
<1>2. CASE UNCHANGED vars
  BY <1>2 DEF vars, IndInv, TypeOK, LockInv, Holds, RingInv, rbnotfull, rbnotempty, Succ,
     WakeInv, NoMissedWakeup, EachByteOnce
<1> QED
  BY <1>1, <1>2

\* The invariant the rest follows from, at every step of genrandom, the clock
\* and the readers, notes included.
THEOREM Invariance == Spec => []IndInv
<1> QED
  BY InitInv, StepInv, PTL DEF Spec

\* The pointers stay in rb.buf and a reader is queued on rb's QLock once.
THEOREM TypeCorrect == Spec => []TypeOK
<1>1. IndInv => TypeOK
  BY DEF IndInv
<1> QED
  BY <1>1, Invariance, PTL

\* randomread hands out each byte of the ring once, and randomclock overwrites
\* none that has not been handed out, whatever the size of the ring.
THEOREM BytesOnce == Spec => []EachByteOnce
<1>1. IndInv => EachByteOnce
  BY DEF IndInv
<1> QED
  BY <1>1, Invariance, PTL

\* A reader asleep in randomread has genrandom awake when the ring is empty and
\* the clock about to wake it when it is not.
THEOREM NoWakeupLost == Spec => []NoMissedWakeup
<1>1. IndInv => NoMissedWakeup
  BY DEF IndInv
<1> QED
  BY <1>1, Invariance, PTL
=============================================================================
