----------------------------- MODULE Mtrr_proofs -----------------------------
(* For any number of processors, registers and types: the barriers of mtrrop *)
(* keep all processors together, and all end up with the same registers.     *)
(*                                                                           *)
(* The counters count (CountInv), so who passes a barrier knows where all    *)
(* processors are; what it knows stays true until they have left (OrderInv); *)
(* hence the operation does not change while it is carried out (SameInv).    *)
EXTENDS Mtrr, FiniteSetTheorems, TLAPS

Counted1 == {"sync", "put", "join", "sync2", "leave", "fault"}
Counted2 == {"sync2", "leave", "drain", "done"}

\* The processors between their increment and their decrement of a counter.
In1 == {c \in CPUs : at[c] \in Counted1}
In2 == {c \in CPUs : at[c] \in Counted2}

CountInv == bar1 = Cardinality(In1) /\ bar2 = Cardinality(In2)

\* Where the others can be while one is between the barriers, waits at the
\* second one, or is about to leave it.
OrderInv ==
  \A c, d \in CPUs :
    /\ at[c] \in {"put", "join"} =>
         at[d] \in {"sync", "put", "join", "sync2", "fault"}
    /\ at[c] = "sync2" =>
         at[d] \in {"sync", "put", "join", "sync2", "leave", "drain", "fault"}
    /\ at[c] = "leave" => at[d] \in {"sync2", "leave", "drain"}

\* While an operation is posted those that have carried it out differ from
\* the others by it, and nobody is about to leave.
SameInv ==
  /\ SameEverywhere
  /\ postedop # NoOp =>
       /\ \E base \in [Slots -> Regs \cup {Free}] : \A c \in CPUs :
            msr[c] = IF at[c] \in {"join", "sync2"}
                       THEN [base EXCEPT ![postedop.slot] = postedop.reg]
                       ELSE base
       /\ \A c \in CPUs : at[c] # "leave"
       /\ \A c, d \in CPUs : at[c] = "sync2" => at[d] # "drain"

IndInv == TypeOK /\ CountInv /\ OrderInv /\ SameInv

-----------------------------------------------------------------------------
\* A set of processors is counted by a number up to nmach; at nmach it is all
\* of them, at zero it is empty.
LEMMA Counting ==
  ASSUME NEW S, S \subseteq CPUs
  PROVE  /\ IsFiniteSet(S) /\ nmach \in Nat /\ Cardinality(S) \in 0..nmach
         /\ Cardinality(S) >= nmach => S = CPUs
         /\ Cardinality(S) <= 0 => S = {}
<1>1. IsFiniteSet(CPUs)
  BY MtrrAssumption
<1>2. IsFiniteSet(S) /\ Cardinality(S) <= Cardinality(CPUs)
      /\ (Cardinality(S) = Cardinality(CPUs) => S = CPUs)
  BY <1>1, FS_Subset
<1>3. Cardinality(S) \in Nat /\ Cardinality(CPUs) \in Nat
  BY <1>1, <1>2, FS_CardinalityType
<1>4. Cardinality(S) = 0 <=> S = {}
  BY <1>2, FS_EmptySet
<1> QED
  BY <1>2, <1>3, <1>4 DEF nmach

\* The counters stay in range.
LEMMA Barriers ==
  ASSUME CountInv
  PROVE  /\ nmach \in Nat /\ bar1 \in 0..nmach /\ bar2 \in 0..nmach
         /\ bar1 >= nmach => \A c \in CPUs : at[c] \in Counted1
         /\ bar1 <= 0 => \A c \in CPUs : at[c] \notin Counted1
         /\ bar2 >= nmach => \A c \in CPUs : at[c] \in Counted2
<1>1. In1 \subseteq CPUs /\ In2 \subseteq CPUs
  BY DEF In1, In2
<1>2. /\ nmach \in Nat /\ Cardinality(In1) \in 0..nmach /\ Cardinality(In2) \in 0..nmach
      /\ Cardinality(In1) >= nmach => In1 = CPUs
      /\ Cardinality(In1) <= 0 => In1 = {}
      /\ Cardinality(In2) >= nmach => In2 = CPUs
  BY <1>1, Counting
<1> QED
  BY <1>2 DEF CountInv, In1, In2

\* One processor enters or leaves a set.
LEMMA Enters ==
  ASSUME NEW S, S \subseteq CPUs, NEW c \in CPUs, c \notin S
  PROVE  Cardinality(S \cup {c}) = Cardinality(S) + 1
<1>1. IsFiniteSet(S)
  BY Counting
<1> QED
  BY <1>1, FS_AddElement

LEMMA Leaves ==
  ASSUME NEW S, S \subseteq CPUs, NEW c \in CPUs, c \in S
  PROVE  Cardinality(S \ {c}) = Cardinality(S) - 1
<1>1. IsFiniteSet(S)
  BY Counting
<1> QED
  BY <1>1, FS_RemoveElement, FS_CardinalityType

-----------------------------------------------------------------------------
\* Who moves from one place in mtrrop to another that the same counters count
\* changes neither set.
LEMMA Stays ==
  ASSUME TypeOK, CountInv, NEW c \in CPUs, NEW to,
         at' = [at EXCEPT ![c] = to], bar1' = bar1, bar2' = bar2,
         at[c] \in Counted1 <=> to \in Counted1,
         at[c] \in Counted2 <=> to \in Counted2
  PROVE  CountInv'
<1>1. \A d \in CPUs : at'[d] = IF d = c THEN to ELSE at[d]
  BY DEF TypeOK
<1>2. In1' = In1 /\ In2' = In2
  BY <1>1 DEF In1, In2
<1> QED
  BY <1>2 DEF CountInv

LEMMA CountStep ==
  ASSUME TypeOK, CountInv, [Next]_vars
  PROVE  CountInv'
<1> SUFFICES ASSUME Next PROVE CountInv'
  <2>1. CASE vars' = vars
    BY <2>1 DEF vars, CountInv, In1, In2
  <2> QED
    BY <2>1
<1>1. PICK c \in CPUs : mtrr(c) \/ mtrrop(c) \/ Tick(c) \/ \E r \in Regs : Call(c, r)
  BY DEF Next
<1>2. In1 \subseteq CPUs /\ In2 \subseteq CPUs
  BY DEF In1, In2
<1>3. ASSUME UNCHANGED <<at, bar1, bar2>> PROVE CountInv'
  BY <1>3 DEF CountInv, In1, In2
<1>4. ASSUME at[c] = "out", at' = [at EXCEPT ![c] = "sync"], bar1' = bar1 + 1, bar2' = bar2
      PROVE  CountInv'
  <2>1. \A d \in CPUs : at'[d] = IF d = c THEN "sync" ELSE at[d]
    BY <1>4 DEF TypeOK
  <2>2. In1' = In1 \cup {c} /\ c \notin In1 /\ In2' = In2
    BY <1>4, <2>1 DEF In1, In2, Counted1, Counted2
  <2> QED
    BY <1>2, <1>4, <2>2, Enters DEF CountInv
<1>5. CASE mtrr(c)
  <2>1. CASE Enter(c)
    BY <1>4, <2>1 DEF Enter
  <2>2. CASE QLock(c) \/ NoSlot(c) \/ Choose(c) \/ Post(c) \/ QUnlock(c)
    BY <1>3, <2>2 DEF QLock, NoSlot, Choose, Post, QUnlock
  <2> QED
    BY <1>5, <2>1, <2>2 DEF mtrr
<1>6. CASE Tick(c)
  BY <1>4, <1>6 DEF Tick
<1>7. CASE \E r \in Regs : Call(c, r)
  BY <1>3, <1>7 DEF Call
<1>8. CASE mtrrop(c)
  <2>1. CASE Sync(c)
    BY <2>1, Stays DEF Sync, Counted1, Counted2
  <2>2. CASE Put(c)
    <3>1. CASE postedop = NoOp
      BY <2>2, <3>1, Stays DEF Put, Counted1, Counted2
    <3>2. CASE postedop # NoOp
      BY <2>2, <3>2, Stays DEF Put, Counted1, Counted2
    <3> QED
      BY <3>1, <3>2
  <2>3. CASE Join(c)
    <3>1. \A d \in CPUs : at'[d] = IF d = c THEN "sync2" ELSE at[d]
      BY <2>3 DEF Join, TypeOK
    <3>2. In2' = In2 \cup {c} /\ c \notin In2 /\ In1' = In1
      BY <2>3, <3>1 DEF Join, In1, In2, Counted1, Counted2
    <3> QED
      BY <1>2, <2>3, <3>2, Enters DEF Join, CountInv
  <2>4. CASE Clear(c)
    BY <2>4, Stays DEF Clear, Counted1, Counted2
  <2>5. CASE Leave(c)
    <3>1. \A d \in CPUs : at'[d] = IF d = c THEN "drain" ELSE at[d]
      BY <2>5 DEF Leave, TypeOK
    <3>2. In1' = In1 \ {c} /\ c \in In1 /\ In2' = In2
      BY <2>5, <3>1 DEF Leave, In1, In2, Counted1, Counted2
    <3> QED
      BY <1>2, <2>5, <3>2, Leaves DEF Leave, CountInv
  <2>6. CASE Drain(c)
    BY <2>6, Stays DEF Drain, Counted1, Counted2
  <2>7. CASE Done(c)
    <3>1. \A d \in CPUs : at'[d] = IF d = c THEN "out" ELSE at[d]
      BY <2>7 DEF Done, TypeOK
    <3>2. In2' = In2 \ {c} /\ c \in In2 /\ In1' = In1
      BY <2>7, <3>1 DEF Done, In1, In2, Counted1, Counted2
    <3> QED
      BY <1>2, <2>7, <3>2, Leaves DEF Done, CountInv
  <2> QED
    BY <1>8, <2>1, <2>2, <2>3, <2>4, <2>5, <2>6, <2>7 DEF mtrrop
<1> QED
  BY <1>1, <1>5, <1>6, <1>7, <1>8

\* Every action keeps the types; the counters' bounds come from CountInv.
LEMMA TypeStep ==
  ASSUME TypeOK, CountInv, [Next]_vars
  PROVE  TypeOK'
<1>1. bar1' \in 0..nmach /\ bar2' \in 0..nmach
  <2>1. CountInv'
    BY CountStep
  <2>2. In1' \subseteq CPUs /\ In2' \subseteq CPUs
    BY DEF In1, In2
  <2> QED
    BY <2>1, <2>2, Counting DEF CountInv
<1> SUFFICES ASSUME Next PROVE TypeOK'
  <2>1. CASE vars' = vars
    BY <2>1 DEF vars, TypeOK
  <2> QED
    BY <2>1
<1>2. PICK c \in CPUs : mtrr(c) \/ mtrrop(c) \/ Tick(c) \/ \E r \in Regs : Call(c, r)
  BY DEF Next
<1>3. CASE mtrr(c)
  <2>1. CASE QLock(c)
    BY <1>1, <2>1 DEF QLock, TypeOK
  <2>2. CASE NoSlot(c)
    BY <1>1, <2>2 DEF NoSlot, TypeOK
  <2>3. CASE Choose(c)
    <3>1. PICK i \in Reusable(c, entry[c].range) :
            op' = [op EXCEPT ![c] = [slot |-> i, reg |-> entry[c]]]
      BY <2>3 DEF Choose
    <3>2. [slot |-> i, reg |-> entry[c]] \in [slot : Slots, reg : Regs]
      BY <2>3, <3>1 DEF Choose, TypeOK, Reusable
    <3>3. [slot |-> i, reg |-> entry[c]] # NoOp
      BY <3>2, MtrrAssumption DEF Slots, Regs
    <3> QED
      BY <1>1, <2>3, <3>1, <3>2, <3>3 DEF Choose, TypeOK
  <2>4. CASE Post(c)
    BY <1>1, <2>4 DEF Post, TypeOK
  <2>5. CASE Enter(c)
    BY <1>1, <2>5 DEF Enter, TypeOK
  <2>6. CASE QUnlock(c)
    BY <1>1, <2>6 DEF QUnlock, TypeOK
  <2> QED
    BY <1>3, <2>1, <2>2, <2>3, <2>4, <2>5, <2>6 DEF mtrr
<1>4. CASE Tick(c)
  BY <1>1, <1>4 DEF Tick, TypeOK
<1>5. CASE \E r \in Regs : Call(c, r)
  BY <1>1, <1>5 DEF Call, TypeOK
<1>6. CASE mtrrop(c)
  <2>1. CASE Put(c)
    <3>1. CASE postedop = NoOp
      BY <1>1, <2>1, <3>1 DEF Put, TypeOK
    <3>2. CASE postedop # NoOp
      <4>1. postedop.slot \in Slots /\ postedop.reg \in Regs
        BY <3>2 DEF TypeOK
      <4>2. msr' \in [CPUs -> [Slots -> Regs \cup {Free}]]
        <5>1. msr \in [CPUs -> [Slots -> Regs \cup {Free}]]
          BY DEF TypeOK
        <5>2. msr' = [msr EXCEPT ![c][postedop.slot] = postedop.reg]
          BY <2>1, <3>2 DEF Put
        <5> QED
          BY <4>1, <5>1, <5>2
      <4>3. /\ at' = [at EXCEPT ![c] = "join"]
            /\ UNCHANGED <<postedop, mtrrlk, ppc, entry, op>>
        BY <2>1, <3>2 DEF Put
      <4> QED
        BY <1>1, <4>2, <4>3 DEF TypeOK
    <3> QED
      BY <3>1, <3>2
  <2>2. CASE Sync(c) \/ Join(c) \/ Clear(c)
    BY <1>1, <2>2 DEF Sync, Join, Clear, TypeOK
  <2>3. CASE Leave(c) \/ Drain(c) \/ Done(c)
    BY <1>1, <2>3 DEF Leave, Drain, Done, TypeOK
  <2> QED
    BY <1>6, <2>1, <2>2, <2>3 DEF mtrrop
<1> QED
  BY <1>2, <1>3, <1>4, <1>5, <1>6

-----------------------------------------------------------------------------
\* Only the processor that acts changes its place, and the places it goes to
\* are those that OrderInv allows: the barriers say where the others are.
LEMMA OrderStep ==
  ASSUME TypeOK, CountInv, OrderInv, [Next]_vars
  PROVE  OrderInv'
<1> SUFFICES ASSUME Next PROVE OrderInv'
  <2>1. CASE vars' = vars
    BY <2>1 DEF vars, OrderInv
  <2> QED
    BY <2>1
<1>1. PICK c \in CPUs : mtrr(c) \/ mtrrop(c) \/ Tick(c) \/ \E r \in Regs : Call(c, r)
  BY DEF Next
<1>2. ASSUME UNCHANGED at PROVE OrderInv'
  BY <1>2 DEF OrderInv
<1>3. ASSUME at[c] = "out", at' = [at EXCEPT ![c] = "sync"] PROVE OrderInv'
  <2>1. \A d \in CPUs : at[d] \notin {"put", "join", "sync2", "leave"}
    BY <1>3 DEF OrderInv
  <2> QED
    BY <1>3, <2>1 DEF OrderInv, TypeOK
<1>4. CASE mtrr(c)
  <2>1. CASE Enter(c)
    BY <1>3, <2>1 DEF Enter
  <2>2. CASE QLock(c) \/ NoSlot(c) \/ Choose(c) \/ Post(c) \/ QUnlock(c)
    BY <1>2, <2>2 DEF QLock, NoSlot, Choose, Post, QUnlock
  <2> QED
    BY <1>4, <2>1, <2>2 DEF mtrr
<1>5. CASE Tick(c)
  BY <1>3, <1>5 DEF Tick
<1>6. CASE \E r \in Regs : Call(c, r)
  BY <1>2, <1>6 DEF Call
<1>7. CASE mtrrop(c)
  <2>1. CASE Sync(c)
    <3>1. \A d \in CPUs : at[d] \in {"sync", "put", "join", "sync2", "fault"}
      BY <2>1, Barriers DEF Sync, OrderInv, Counted1
    <3> QED
      BY <2>1, <3>1 DEF Sync, OrderInv, TypeOK
  <2>2. CASE Put(c) \/ Join(c)
    <3>1. \A d \in CPUs : at[d] \in {"sync", "put", "join", "sync2", "fault"}
      BY <2>2 DEF Put, Join, OrderInv
    <3>2. PICK to \in {"join", "sync2", "fault"} : at' = [at EXCEPT ![c] = to]
      BY <2>2 DEF Put, Join
    <3> QED
      BY <3>1, <3>2 DEF OrderInv, TypeOK
  <2>3. CASE Clear(c)
    <3>1. \A d \in CPUs : at[d] \in {"sync2", "leave", "drain"}
      BY <2>3, Barriers DEF Clear, OrderInv, Counted2
    <3> QED
      BY <2>3, <3>1 DEF Clear, OrderInv, TypeOK
  <2>4. CASE Leave(c)
    <3>1. \A d \in CPUs : at[d] \in {"sync2", "leave", "drain"}
      BY <2>4 DEF Leave, OrderInv
    <3> QED
      BY <2>4, <3>1 DEF Leave, OrderInv, TypeOK
  <2>5. CASE Drain(c)
    <3>1. \A d \in CPUs : at[d] \notin {"put", "join", "sync2", "leave"}
      BY <2>5, Barriers DEF Drain, TypeOK, Counted1
    <3> QED
      BY <2>5, <3>1 DEF Drain, OrderInv, TypeOK
  <2>6. CASE Done(c)
    <3>1. \A d \in CPUs : at[d] \notin {"put", "join", "sync2", "leave"}
      BY <2>6 DEF Done, OrderInv
    <3> QED
      BY <2>6, <3>1 DEF Done, OrderInv, TypeOK
  <2> QED
    BY <1>7, <2>1, <2>2, <2>3, <2>4, <2>5, <2>6 DEF mtrrop
<1> QED
  BY <1>1, <1>4, <1>5, <1>6, <1>7

\* Who has carried the operation out.
Applied(c) == at[c] \in {"join", "sync2"}

\* An action that changes no register and neither posts nor clears an
\* operation keeps SameInv if nobody moves into or out of Applied.
LEMMA SameStays ==
  ASSUME TypeOK, SameInv, UNCHANGED <<msr, postedop>>,
         postedop # NoOp => /\ \A c \in CPUs : Applied(c)' <=> Applied(c)
                            /\ \A c \in CPUs : at'[c] # "leave"
                            /\ \A c, d \in CPUs : at'[c] = "sync2" => at'[d] # "drain"
  PROVE  SameInv'
<1>1. SameEverywhere'
  BY DEF SameInv, SameEverywhere
<1>2. ASSUME postedop # NoOp
      PROVE  \E base \in [Slots -> Regs \cup {Free}] : \A c \in CPUs :
               msr'[c] = IF Applied(c)' THEN [base EXCEPT ![postedop'.slot] = postedop'.reg]
                                        ELSE base
  <2>1. PICK base \in [Slots -> Regs \cup {Free}] : \A c \in CPUs :
          msr[c] = IF Applied(c) THEN [base EXCEPT ![postedop.slot] = postedop.reg]
                                 ELSE base
    BY <1>2 DEF SameInv, Applied
  <2> QED
    BY <1>2, <2>1
<1> QED
  BY <1>1, <1>2 DEF SameInv, Applied

LEMMA SameStep ==
  ASSUME TypeOK, CountInv, OrderInv, SameInv, [Next]_vars
  PROVE  SameInv'
<1> SUFFICES ASSUME Next PROVE SameInv'
  <2>1. CASE vars' = vars
    BY <2>1, SameStays DEF vars, SameInv, Applied
  <2> QED
    BY <2>1
<1>1. PICK c \in CPUs : mtrr(c) \/ mtrrop(c) \/ Tick(c) \/ \E r \in Regs : Call(c, r)
  BY DEF Next
<1>2. ASSUME UNCHANGED <<msr, postedop, at>> PROVE SameInv'
  BY <1>2, SameStays DEF SameInv, Applied
\* A step from one place to another, neither of them in Applied.
<1>3. ASSUME NEW to, UNCHANGED <<msr, postedop>>, at' = [at EXCEPT ![c] = to],
             ~Applied(c), to \in {"sync", "put", "drain", "done", "out", "fault"},
             to = "drain" => postedop = NoOp
      PROVE  SameInv'
  <2>1. \A d \in CPUs : at'[d] = IF d = c THEN to ELSE at[d]
    BY <1>3 DEF TypeOK
  <2> QED
    BY <1>3, <2>1, SameStays DEF SameInv, Applied
<1>4. CASE mtrr(c)
  <2>1. CASE Enter(c)
    BY <1>3, <2>1 DEF Enter, Applied
  <2>2. CASE QLock(c) \/ NoSlot(c) \/ Choose(c) \/ QUnlock(c)
    BY <1>2, <2>2 DEF QLock, NoSlot, Choose, QUnlock
  <2>3. CASE Post(c)
    <3>1. \A d \in CPUs : at'[d] = at[d] /\ at[d] \notin {"join", "sync2", "leave"}
      BY <2>3 DEF Post, OrderInv
    <3>2. \A d \in CPUs : msr'[d] = msr[c]
      BY <2>3 DEF Post, SameInv, SameEverywhere
    <3>3. msr[c] \in [Slots -> Regs \cup {Free}]
      BY DEF TypeOK
    <3>4. postedop' # NoOp
      BY <2>3 DEF Post, TypeOK
    <3> QED
      BY <3>1, <3>2, <3>3, <3>4 DEF SameInv, SameEverywhere
  <2> QED
    BY <1>4, <2>1, <2>2, <2>3 DEF mtrr
<1>5. CASE Tick(c)
  BY <1>3, <1>5 DEF Tick, Applied
<1>6. CASE \E r \in Regs : Call(c, r)
  BY <1>2, <1>6 DEF Call
<1>7. CASE mtrrop(c)
  <2>1. CASE Sync(c)
    BY <1>3, <2>1 DEF Sync, Applied
  <2>2. CASE Put(c)
    <3>1. CASE postedop = NoOp
      BY <1>3, <2>2, <3>1 DEF Put, Applied
    <3>2. CASE postedop # NoOp
      <4>1. PICK base \in [Slots -> Regs \cup {Free}] : \A d \in CPUs :
              msr[d] = IF at[d] \in {"join", "sync2"}
                         THEN [base EXCEPT ![postedop.slot] = postedop.reg]
                         ELSE base
        BY <3>2 DEF SameInv
      <4>2. \A d \in CPUs : at'[d] = IF d = c THEN "join" ELSE at[d]
        BY <2>2, <3>2 DEF Put, TypeOK
      <4>3. \A d \in CPUs : msr'[d] = IF d = c THEN [base EXCEPT ![postedop.slot] = postedop.reg]
                                              ELSE msr[d]
        BY <2>2, <3>2, <4>1 DEF Put, TypeOK
      <4>4. \A d \in CPUs : msr'[d] = IF at'[d] \in {"join", "sync2"}
                                        THEN [base EXCEPT ![postedop.slot] = postedop.reg]
                                        ELSE base
        BY <4>1, <4>2, <4>3
      <4>5. postedop' = postedop
        BY <2>2 DEF Put
      <4> QED
        BY <3>2, <4>2, <4>4, <4>5 DEF SameInv, SameEverywhere
    <3> QED
      BY <3>1, <3>2
  <2>3. CASE Join(c)
    <3>1. \A d \in CPUs : at'[d] = IF d = c THEN "sync2" ELSE at[d]
      BY <2>3 DEF Join, TypeOK
    <3>2. \A d \in CPUs : at[d] # "drain"
      BY <2>3 DEF Join, OrderInv
    <3> QED
      BY <2>3, <3>1, <3>2, SameStays DEF Join, SameInv, Applied
  <2>4. CASE Clear(c)
    <3>1. ASSUME postedop # NoOp PROVE \A d, e \in CPUs : msr[d] = msr[e]
      <4>1. \A d \in CPUs : at[d] = "sync2"
        BY <2>4, <3>1, Barriers DEF Clear, OrderInv, SameInv, Counted2
      <4> QED
        BY <3>1, <4>1 DEF SameInv
    <3>2. \A d, e \in CPUs : msr[d] = msr[e]
      BY <3>1 DEF SameInv, SameEverywhere
    <3> QED
      BY <2>4, <3>2 DEF Clear, SameInv, SameEverywhere
  <2>5. CASE Leave(c)
    <3>1. postedop = NoOp
      BY <2>5 DEF Leave, SameInv
    <3> QED
      BY <1>3, <2>5, <3>1 DEF Leave, Applied
  <2>6. CASE Drain(c)
    BY <1>3, <2>6 DEF Drain, Applied
  <2>7. CASE Done(c)
    BY <1>3, <2>7 DEF Done, Applied
  <2> QED
    BY <1>7, <2>1, <2>2, <2>3, <2>4, <2>5, <2>6, <2>7 DEF mtrrop
<1> QED
  BY <1>1, <1>4, <1>5, <1>6, <1>7

-----------------------------------------------------------------------------
\* Every processor is outside mtrrop and both counters are zero at first.
LEMMA InitInv == Init => IndInv
<1> SUFFICES ASSUME Init PROVE IndInv
  OBVIOUS
<1>1. nmach \in Nat /\ Cardinality({}) = 0
  BY Counting, FS_EmptySet
<1>2. In1 = {} /\ In2 = {}
  BY DEF Init, In1, In2, Counted1, Counted2
<1>3. TypeOK
  BY <1>1 DEF Init, TypeOK
<1>4. CountInv
  BY <1>1, <1>2 DEF Init, CountInv
<1>5. OrderInv /\ SameInv
  BY DEF Init, OrderInv, SameInv, SameEverywhere
<1> QED
  BY <1>3, <1>4, <1>5 DEF IndInv

\* What is known of the counters, the places and the registers together is
\* kept by every step.
THEOREM Invariance == Spec => []IndInv
<1>1. IndInv /\ [Next]_vars => IndInv'
  BY TypeStep, CountStep, OrderStep, SameStep DEF IndInv
<1> QED
  BY InitInv, <1>1, PTL DEF Spec

\* The counters never leave 0..nmach, however often they are reused.
THEOREM TypeCorrect == Spec => []TypeOK
BY Invariance, PTL DEF IndInv

\* While one processor changes a register with its caches off, all others are
\* between the barriers of mtrrop.
THEOREM AllSetUpTogether == Spec => []SetupTogether
<1>1. IndInv => SetupTogether
  BY DEF IndInv, OrderInv, SetupTogether
<1> QED
  BY Invariance, <1>1, PTL

\* When no operation is posted all processors have the same registers.
THEOREM AllTheSame == Spec => []SameEverywhere
<1>1. IndInv => SameEverywhere
  BY DEF IndInv, SameInv
<1> QED
  BY Invariance, <1>1, PTL
=============================================================================
