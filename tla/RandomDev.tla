------------------------------ MODULE RandomDev ------------------------------
(* random.c: the kproc genrandom counts, the clock (randomclock) folds the   *)
(* count into a ring of bytes, readers of #c/random (randomread) drain it.   *)
(* The ring is shared without a lock: readers are serialised by rb's QLock,  *)
(* the clock and genrandom take nothing, and the three meet in two           *)
(* Rendezes.  Of a byte only whether it has been handed out yet is kept, of  *)
(* randomcount only whether it is zero.                                      *)
(*                                                                           *)
(* sleep(r, f) and wakeup(r) (proc.c, not in the repository) are modelled    *)
(* from their contract: sleep tests f and goes to sleep in one step, and a   *)
(* note makes it raise an error.                                             *)
EXTENDS Integers, SequencesExt

CONSTANTS
  Readers,
  Size,       \* sizeof rb.buf
  Samples,    \* clock ticks folded into one byte (8/2)
  Counts      \* the byte counts randomread is called with

ASSUME RandomAssumption ==
  /\ Size \in Nat /\ Size > 1 /\ Samples \in Nat \ {0}
  /\ Counts \subseteq Nat \ {0}

VARIABLES
  rp, wp,          \* rb.rp and rb.wp, as indexes of rb.buf
  fresh,           \* for each byte of rb.buf: written and not yet read
  counted,         \* rb.randomcount # 0
  nextbit, wakeme, \* rb.next, rb.wakeme
  cpc,             \* where randomclock is
  ppc,             \* where genrandom is
  lockq,           \* rb's QLock: the holder first, then those who wait
  rpc, left        \* each reader: where it is, the bytes it still wants

vars == <<rp, wp, fresh, counted, nextbit, wakeme, cpc, ppc, lockq, rpc, left>>

Succ(i) == (i + 1) % Size
rbnotfull == Succ(wp) # rp
rbnotempty == wp # rp

Init ==
  /\ rp = 0 /\ wp = 0 /\ fresh = [i \in 0..Size-1 |-> FALSE]
  /\ counted = FALSE /\ nextbit = 0 /\ wakeme = FALSE
  /\ cpc = "idle" /\ ppc = "count" /\ lockq = <<>>
  /\ rpc = [r \in Readers |-> "idle"] /\ left = [r \in Readers |-> 0]

(* ------------------------------- genrandom ------------------------------ *)

Count ==
  /\ ppc = "count"
  /\ counted' = TRUE /\ ppc' = "check"
  /\ UNCHANGED <<rp, wp, fresh, nextbit, wakeme, cpc, lockq, rpc, left>>

\* if(!rbnotfull(0)) sleep(&rb.producer, rbnotfull, 0): sleep asks again.
Check ==
  /\ ppc = "check"
  /\ ppc' = IF rbnotfull THEN "count" ELSE "sleep"
  /\ UNCHANGED <<rp, wp, fresh, counted, nextbit, wakeme, cpc, lockq, rpc, left>>

Sleep ==
  /\ ppc = "sleep"
  /\ ppc' = IF rbnotfull THEN "count" ELSE "asleep"
  /\ UNCHANGED <<rp, wp, fresh, counted, nextbit, wakeme, cpc, lockq, rpc, left>>

WakeProducer == ppc' = IF ppc = "asleep" THEN "count" ELSE ppc

(* ------------------------------ randomclock ----------------------------- *)

\* Mutant: the clock does not ask whether the ring is full.
ClockTickBlind ==
  /\ cpc = "idle" /\ counted
  /\ counted' = FALSE
  /\ nextbit' = (nextbit + 1) % Samples
  /\ cpc' = IF nextbit' = 0 THEN "write" ELSE "idle"
  /\ UNCHANGED <<rp, wp, fresh, wakeme, ppc, lockq, rpc, left>>

ClockTick ==
  /\ cpc = "idle" /\ counted /\ rbnotfull
  /\ counted' = FALSE
  /\ nextbit' = (nextbit + 1) % Samples
  /\ cpc' = IF nextbit' = 0 THEN "write" ELSE "idle"
  /\ UNCHANGED <<rp, wp, fresh, wakeme, ppc, lockq, rpc, left>>

ClockWrite ==
  /\ cpc = "write"
  /\ fresh' = [fresh EXCEPT ![wp] = TRUE] /\ cpc' = "advance"
  /\ UNCHANGED <<rp, wp, counted, nextbit, wakeme, ppc, lockq, rpc, left>>

ClockAdvance ==
  /\ cpc = "advance"
  /\ wp' = Succ(wp) /\ cpc' = "wake"
  /\ UNCHANGED <<rp, fresh, counted, nextbit, wakeme, ppc, lockq, rpc, left>>

\* if(rb.wakeme) wakeup(&rb.consumer)
ClockWake ==
  /\ cpc = "wake" /\ cpc' = "idle"
  /\ rpc' = [r \in Readers |-> IF wakeme /\ rpc[r] = "asleep" THEN "awake" ELSE rpc[r]]
  /\ UNCHANGED <<rp, wp, fresh, counted, nextbit, wakeme, ppc, lockq, left>>

(* ------------------------------ randomread ------------------------------ *)

Holds(r) == lockq # <<>> /\ Head(lockq) = r

ReadCall(r, n) ==
  /\ rpc[r] = "idle"
  /\ lockq' = Append(lockq, r)
  /\ rpc' = [rpc EXCEPT ![r] = "loop"] /\ left' = [left EXCEPT ![r] = n]
  /\ UNCHANGED <<rp, wp, fresh, counted, nextbit, wakeme, cpc, ppc>>

\* Mutant: an empty ring does not wake genrandom.
WaitEmptyQuiet(r) ==
  /\ rpc[r] = "loop" /\ Holds(r) /\ left[r] > 0 /\ ~rbnotempty
  /\ wakeme' = TRUE
  /\ rpc' = [rpc EXCEPT ![r] = "sleep"]
  /\ UNCHANGED <<rp, wp, fresh, counted, nextbit, cpc, ppc, lockq, left>>

\* Mutant: the reader does not say that it waits.
WaitEmptyUnasked(r) ==
  /\ rpc[r] = "loop" /\ Holds(r) /\ left[r] > 0 /\ ~rbnotempty
  /\ WakeProducer
  /\ rpc' = [rpc EXCEPT ![r] = "sleep"]
  /\ UNCHANGED <<rp, wp, fresh, counted, nextbit, wakeme, cpc, lockq, left>>

\* The ring is empty: ask to be woken and wake genrandom.
WaitEmpty(r) ==
  /\ rpc[r] = "loop" /\ Holds(r) /\ left[r] > 0 /\ ~rbnotempty
  /\ wakeme' = TRUE /\ WakeProducer
  /\ rpc' = [rpc EXCEPT ![r] = "sleep"]
  /\ UNCHANGED <<rp, wp, fresh, counted, nextbit, cpc, lockq, left>>

\* sleep(&rb.consumer, rbnotempty, 0)
SleepEmpty(r) ==
  /\ rpc[r] = "sleep"
  /\ rpc' = [rpc EXCEPT ![r] = IF rbnotempty THEN "awake" ELSE "asleep"]
  /\ UNCHANGED <<rp, wp, fresh, counted, nextbit, wakeme, cpc, ppc, lockq, left>>

Awake(r) ==
  /\ rpc[r] = "awake"
  /\ wakeme' = FALSE /\ rpc' = [rpc EXCEPT ![r] = "loop"]
  /\ UNCHANGED <<rp, wp, fresh, counted, nextbit, cpc, ppc, lockq, left>>

\* A note: sleep raises an error, and waserror only gives the lock up.
Interrupted(r) ==
  /\ rpc[r] \in {"sleep", "asleep", "awake"}
  /\ lockq' = Tail(lockq) /\ rpc' = [rpc EXCEPT ![r] = "idle"]
  /\ UNCHANGED <<rp, wp, fresh, counted, nextbit, wakeme, cpc, ppc, left>>

\* x = ... ^ *rb.rp
TakeByte(r) ==
  /\ rpc[r] = "loop" /\ Holds(r) /\ left[r] > 0 /\ rbnotempty
  /\ fresh' = [fresh EXCEPT ![rp] = FALSE]
  /\ left' = [left EXCEPT ![r] = @ - 1] /\ rpc' = [rpc EXCEPT ![r] = "advance"]
  /\ UNCHANGED <<rp, wp, counted, nextbit, wakeme, cpc, ppc, lockq>>

\* Mutant: the read pointer wraps one byte late.
AdvancePast(r) ==
  /\ rpc[r] = "advance"
  /\ rp' = IF rp + 1 > Size THEN 0 ELSE rp + 1
  /\ rpc' = [rpc EXCEPT ![r] = "loop"]
  /\ UNCHANGED <<wp, fresh, counted, nextbit, wakeme, cpc, ppc, lockq, left>>

Advance(r) ==
  /\ rpc[r] = "advance"
  /\ rp' = Succ(rp) /\ rpc' = [rpc EXCEPT ![r] = "loop"]
  /\ UNCHANGED <<wp, fresh, counted, nextbit, wakeme, cpc, ppc, lockq, left>>

Unlock(r) ==
  /\ rpc[r] = "loop" /\ Holds(r) /\ left[r] = 0
  /\ lockq' = Tail(lockq) /\ rpc' = [rpc EXCEPT ![r] = "leave"]
  /\ UNCHANGED <<rp, wp, fresh, counted, nextbit, wakeme, cpc, ppc, left>>

\* wakeup(&rb.producer), after the lock is given up
Leave(r) ==
  /\ rpc[r] = "leave"
  /\ WakeProducer /\ rpc' = [rpc EXCEPT ![r] = "idle"]
  /\ UNCHANGED <<rp, wp, fresh, counted, nextbit, wakeme, cpc, lockq, left>>

(* ------------------------------------------------------------------------ *)

genrandom == Count \/ Check \/ Sleep
randomclock == ClockTick \/ ClockWrite \/ ClockAdvance \/ ClockWake
randomread(r) == \/ WaitEmpty(r) \/ SleepEmpty(r) \/ Awake(r) \/ TakeByte(r)
                 \/ Advance(r) \/ Unlock(r) \/ Leave(r)

Next ==
  \/ genrandom \/ randomclock
  \/ \E r \in Readers : randomread(r) \/ Interrupted(r) \/ \E n \in Counts : ReadCall(r, n)

Spec == Init /\ [][Next]_vars

\* The clock ticks, genrandom runs when it is ready (it yields, nothing else
\* can keep it from running for ever), and so does a reader that can run.
FairSpec ==
  /\ Spec /\ WF_vars(genrandom) /\ WF_vars(randomclock)
  /\ \A r \in Readers : WF_vars(randomread(r))

(* ------------------------------ properties ------------------------------ *)

\* Pointers stay in the ring, and whoever is past qlock is its holder.
TypeOK ==
  /\ rp \in 0..Size-1 /\ wp \in 0..Size-1 /\ fresh \in [0..Size-1 -> BOOLEAN]
  /\ counted \in BOOLEAN /\ nextbit \in 0..Samples-1 /\ wakeme \in BOOLEAN
  /\ cpc \in {"idle", "write", "advance", "wake"}
  /\ ppc \in {"count", "check", "sleep", "asleep"}
  /\ lockq \in Seq(Readers) /\ IsInjective(lockq)
  /\ rpc \in [Readers -> {"idle", "loop", "sleep", "asleep", "awake", "advance", "leave"}]
  /\ left \in [Readers -> Nat]

\* No byte is handed out twice and none is overwritten before it is handed
\* out: the bytes not yet read are those between rp and wp, but for the one
\* the clock has written and not passed and the one a reader has read and not
\* passed.
EachByteOnce ==
  \A i \in 0..Size-1 :
    fresh[i] <=> \/ /\ (i - rp) % Size < (wp - rp) % Size
                    /\ ~(i = rp /\ \E r \in Readers : rpc[r] = "advance")
                 \/ i = wp /\ cpc = "advance"

\* Nobody sleeps through its wakeup: a reader asleep on an empty ring has
\* genrandom awake or about to be, and one asleep on a ring with bytes in it
\* has the wakeup coming.
NoMissedWakeup ==
  \A r \in Readers : rpc[r] = "asleep" =>
    wakeme /\ IF rbnotempty THEN cpc = "wake" ELSE ppc # "asleep"

\* Every read of #c/random ends, whatever the others read and although notes
\* may abandon reads at the worst moment.
ReadsEnd == \A r \in Readers : (rpc[r] # "idle") ~> (rpc[r] = "idle")
=============================================================================
