-------------------------------- MODULE Mtrr --------------------------------
(* mtrr.c: a memory-type register is changed on all processors at once.  The *)
(* process that calls mtrr() posts the operation; each processor meets it in *)
(* its clock tick (mtrrclock, called from apic.c) and all of them, with the  *)
(* caller's own, go through mtrrop between two counted barriers.             *)
(*                                                                           *)
(* Each processor runs one process that calls mtrr(), over and over, and is  *)
(* interrupted by the tick unless it is at high priority.  The validation of *)
(* the arguments, and the bits of a register, are left out.                  *)
EXTENDS Integers, FiniteSets

CONSTANTS
  CPUs,
  Vcnt,            \* the number of variable registers
  Ranges, Types,
  HighRanges,      \* ranges above 4GB, whose entries are reused
  Free, NoOp, NoCPU

ASSUME MtrrAssumption ==
  /\ IsFiniteSet(CPUs) /\ CPUs # {} /\ NoCPU \notin CPUs
  /\ Vcnt \in Nat /\ HighRanges \subseteq Ranges
  /\ Free \notin [range : Ranges, type : Types]
  /\ NoOp \notin [slot : 0..Vcnt-1, reg : [range : Ranges, type : Types]]

Slots == 0..Vcnt-1
Regs  == [range : Ranges, type : Types]
nmach == Cardinality(CPUs)

VARIABLES
  msr,             \* each processor's registers
  bar1, bar2,      \* the counters of the barriers
  postedop,        \* the operation, on the caller's stack
  mtrrlk,          \* the holder of mtrrlk
  ppc, entry, op,  \* each process: where it is in mtrr(), its entry and op
  at               \* each processor: where it is in mtrrop

vars == <<msr, bar1, bar2, postedop, mtrrlk, ppc, entry, op, at>>

Init ==
  /\ \E regs \in [Slots -> Regs \cup {Free}] : msr = [c \in CPUs |-> regs]
  /\ bar1 = 0 /\ bar2 = 0 /\ postedop = NoOp /\ mtrrlk = NoCPU
  /\ ppc = [c \in CPUs |-> "idle"] /\ entry = [c \in CPUs |-> Free]
  /\ op = [c \in CPUs |-> NoOp] /\ at = [c \in CPUs |-> "out"]

(* --------------------------------- mtrr() ------------------------------- *)

Call(c, r) ==
  /\ ppc[c] = "idle" /\ at[c] = "out"
  /\ ppc' = [ppc EXCEPT ![c] = "qlock"] /\ entry' = [entry EXCEPT ![c] = r]
  /\ UNCHANGED <<msr, bar1, bar2, postedop, mtrrlk, op, at>>

QLock(c) ==
  /\ ppc[c] = "qlock" /\ at[c] = "out" /\ mtrrlk = NoCPU
  /\ mtrrlk' = c /\ ppc' = [ppc EXCEPT ![c] = "slot"]
  /\ UNCHANGED <<msr, bar1, bar2, postedop, entry, op, at>>

\* The registers that may be overwritten.
Reusable(c, range) ==
  {i \in Slots : msr[c][i] = Free \/ msr[c][i].range \in HighRanges \cup {range}}

\* error("no free mtrr slots") with the lock held
NoSlot(c) ==
  /\ ppc[c] = "slot" /\ at[c] = "out" /\ Reusable(c, entry[c].range) = {}
  /\ ppc' = [ppc EXCEPT ![c] = "idle"]
  /\ UNCHANGED <<msr, bar1, bar2, postedop, mtrrlk, entry, op, at>>

\* The first of them is, as it is now.
Choose(c) ==
  /\ ppc[c] = "slot" /\ at[c] = "out"
  /\ \E i \in Reusable(c, entry[c].range) :
       /\ \A j \in Reusable(c, entry[c].range) : i <= j
       /\ op' = [op EXCEPT ![c] = [slot |-> i, reg |-> entry[c]]]
  /\ ppc' = [ppc EXCEPT ![c] = "wait"]
  /\ UNCHANGED <<msr, bar1, bar2, postedop, mtrrlk, entry, at>>

\* Sleeping until postedop is nil is waiting to be enabled.
Post(c) ==
  /\ ppc[c] = "wait" /\ at[c] = "out" /\ postedop = NoOp
  /\ postedop' = op[c]
  /\ ppc' = [ppc EXCEPT ![c] = "posted"]
  /\ UNCHANGED <<msr, bar1, bar2, mtrrlk, entry, op, at>>

\* mtrrop(&postedop): splhi and the first increment
Enter(c) ==
  /\ ppc[c] = "posted" /\ at[c] = "out"
  /\ ppc' = [ppc EXCEPT ![c] = "mtrrop"]
  /\ bar1' = bar1 + 1 /\ at' = [at EXCEPT ![c] = "sync"]
  /\ UNCHANGED <<msr, bar2, postedop, mtrrlk, entry, op>>

QUnlock(c) ==
  /\ ppc[c] = "mtrrop" /\ at[c] = "out"
  /\ mtrrlk' = NoCPU /\ ppc' = [ppc EXCEPT ![c] = "idle"]
  /\ op' = [op EXCEPT ![c] = NoOp]
  /\ UNCHANGED <<msr, bar1, bar2, postedop, entry, at>>

(* ------------------------------- mtrrclock ------------------------------ *)

Tick(c) ==
  /\ at[c] = "out" /\ postedop # NoOp
  /\ bar1' = bar1 + 1 /\ at' = [at EXCEPT ![c] = "sync"]
  /\ UNCHANGED <<msr, bar2, postedop, mtrrlk, ppc, entry, op>>

(* -------------------------------- mtrrop -------------------------------- *)

\* Mutant: the first barrier lets the last processor but one through.
SyncShort(c) ==
  /\ at[c] = "sync" /\ bar1 >= nmach - 1
  /\ at' = [at EXCEPT ![c] = "put"]
  /\ UNCHANGED <<msr, bar1, bar2, postedop, mtrrlk, ppc, entry, op>>

\* while(bar1 < conf.nmach)
Sync(c) ==
  /\ at[c] = "sync" /\ bar1 >= nmach
  /\ at' = [at EXCEPT ![c] = "put"]
  /\ UNCHANGED <<msr, bar1, bar2, postedop, mtrrlk, ppc, entry, op>>

\* Caches off, mtrrput((*op)->reg, (*op)->slot), caches on.  Without an
\* operation the program ends here.
Put(c) ==
  /\ at[c] = "put"
  /\ IF postedop = NoOp
       THEN at' = [at EXCEPT ![c] = "fault"] /\ UNCHANGED msr
       ELSE /\ at' = [at EXCEPT ![c] = "join"]
            /\ msr' = [msr EXCEPT ![c][postedop.slot] = postedop.reg]
  /\ UNCHANGED <<bar1, bar2, postedop, mtrrlk, ppc, entry, op>>

Join(c) ==
  /\ at[c] = "join"
  /\ bar2' = bar2 + 1 /\ at' = [at EXCEPT ![c] = "sync2"]
  /\ UNCHANGED <<msr, bar1, postedop, mtrrlk, ppc, entry, op>>

\* Mutant: no wait at the second barrier.
ClearEarly(c) ==
  /\ at[c] = "sync2"
  /\ postedop' = NoOp /\ at' = [at EXCEPT ![c] = "leave"]
  /\ UNCHANGED <<msr, bar1, bar2, mtrrlk, ppc, entry, op>>

\* while(bar2 < conf.nmach); *op = nil
Clear(c) ==
  /\ at[c] = "sync2" /\ bar2 >= nmach
  /\ postedop' = NoOp /\ at' = [at EXCEPT ![c] = "leave"]
  /\ UNCHANGED <<msr, bar1, bar2, mtrrlk, ppc, entry, op>>

Leave(c) ==
  /\ at[c] = "leave"
  /\ bar1' = bar1 - 1 /\ at' = [at EXCEPT ![c] = "drain"]
  /\ UNCHANGED <<msr, bar2, postedop, mtrrlk, ppc, entry, op>>

\* while(bar1 > 0)
Drain(c) ==
  /\ at[c] = "drain" /\ bar1 <= 0
  /\ at' = [at EXCEPT ![c] = "done"]
  /\ UNCHANGED <<msr, bar1, bar2, postedop, mtrrlk, ppc, entry, op>>

\* Mutant: the second counter is never taken down.
DoneUncounted(c) ==
  /\ at[c] = "done"
  /\ at' = [at EXCEPT ![c] = "out"]
  /\ UNCHANGED <<msr, bar1, bar2, postedop, mtrrlk, ppc, entry, op>>

\* _xdec(&bar2), wakeup, splx
Done(c) ==
  /\ at[c] = "done"
  /\ bar2' = bar2 - 1 /\ at' = [at EXCEPT ![c] = "out"]
  /\ UNCHANGED <<msr, bar1, postedop, mtrrlk, ppc, entry, op>>

(* ------------------------------------------------------------------------ *)

mtrrop(c) == \/ Sync(c) \/ Put(c) \/ Join(c) \/ Clear(c) \/ Leave(c)
             \/ Drain(c) \/ Done(c)

mtrr(c) == QLock(c) \/ NoSlot(c) \/ Choose(c) \/ Post(c) \/ Enter(c) \/ QUnlock(c)

Next == \E c \in CPUs : mtrr(c) \/ mtrrop(c) \/ Tick(c) \/ \E r \in Regs : Call(c, r)

Spec == Init /\ [][Next]_vars

\* Every processor executes, and its clock ticks.
FairSpec == Spec /\ \A c \in CPUs : WF_vars(mtrr(c)) /\ WF_vars(mtrrop(c)) /\ WF_vars(Tick(c))

(* ------------------------------ properties ------------------------------ *)

\* The counters stay between zero and the number of processors.
TypeOK ==
  /\ msr \in [CPUs -> [Slots -> Regs \cup {Free}]]
  /\ bar1 \in 0..nmach /\ bar2 \in 0..nmach
  /\ postedop \in [slot : Slots, reg : Regs] \cup {NoOp}
  /\ mtrrlk \in CPUs \cup {NoCPU}
  /\ ppc \in [CPUs -> {"idle", "qlock", "slot", "wait", "posted", "mtrrop"}]
  /\ entry \in [CPUs -> Regs \cup {Free}]
  /\ \A c \in CPUs : ppc[c] # "idle" => entry[c] \in Regs
  /\ op \in [CPUs -> [slot : Slots, reg : Regs] \cup {NoOp}]
  /\ \A c \in CPUs : ppc[c] = "wait" => op[c] # NoOp
  /\ at \in [CPUs -> {"out", "sync", "put", "join", "sync2", "leave", "drain", "done", "fault"}]

\* While one processor has its caches off to change a register, none runs
\* anything else: all are between the two barriers, or at an end there.  The
\* counters are reused by the next operation without being reset.
SetupTogether ==
  (\E c \in CPUs : at[c] = "put") =>
    \A c \in CPUs : at[c] \in {"sync", "put", "join", "sync2", "fault"}

\* When no operation is posted all processors have the same registers,
\* whoever carried the last one out, and in whichever tick.
SameEverywhere == postedop = NoOp => \A c, d \in CPUs : msr[c] = msr[d]

\* "avoid race with mtrrclock" (mtrrop): the operation that a processor
\* carries out between the barriers is still there.
OperationIsThere == \A c \in CPUs : at[c] = "put" => postedop # NoOp

\* "so that the MTRR setup gets done at roughly the same time on all
\* processors" (mtrrop): an operation that is posted gets done.
OperationIsDone == postedop # NoOp ~> postedop = NoOp
=============================================================================
