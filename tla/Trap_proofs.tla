------------------------------ MODULE Trap_proofs ------------------------------
(* The two halves of trap.c: interrupts (Intr) and notes (Notes).            *)
(*                                                                           *)
(* Interrupts.  For any devices on any lines: the masks follow the table of  *)
(* handlers, and no interrupt is in service while a process runs.  The masks *)
(* and the table change together (MaskMatchesTable is inductive).  What is   *)
(* in service is known at each point between an interrupt and the end of     *)
(* trap: the irq itself unless its request was gone, and the slave's place   *)
(* on the master.  The one end of interrupt that trap sends ends both, and   *)
(* comes before another process can run (ServiceInv).                        *)
(*                                                                           *)
(* Notes.  For any registers, queue and number of notes: the frames in the   *)
(* user's memory are the stack of what was interrupted (NotesInv, and the    *)
(* lemmas on ChainFrom, which follows them from link to link).               *)
EXTENDS Intr, Notes, SequenceTheorems, WellFoundedInduction, TLAPS

\* What vector vno can have in service until it is ended.
Serving ==
  IF vno < 8 THEN vno # Cascade /\ inService \in {{}, {vno}}
  ELSE inService \in {{Cascade}, {Cascade, vno}}

Ends == {k \in DOMAIN todo : todo[k] = Eoi}

ServiceInv ==
  /\ todo \in Seq(({"f"} \X Device) \cup ({"eoi", "preempted"} \X Irq))
  /\ pc = "calls" <=> todo # <<>>
  /\ pc \in {"run", "ack"} => inService = {}
  /\ pc = "cascade" => inService = {Cascade}
  /\ pc = "trap" => Serving
  /\ pc = "calls" => IF Ends # {} THEN Serving ELSE inService = {}
  /\ \A k \in Ends, j \in DOMAIN todo : todo[j] \in {Eoi, Preempted} => k <= j

IndInv == TypeOK /\ MaskMatchesTable /\ ServiceInv

-----------------------------------------------------------------------------
\* The irq of a device is not the slave's place.
LEMMA IrqType ==
  ASSUME load \in Loads, NEW d \in Device
  PROVE  load.irq[d] \in Irq \ {Cascade}
BY IntrAssumption

\* The smallest of a set of irqs is in it.
LEMMA MinType ==
  ASSUME NEW S, S \subseteq Irq, S # {}
  PROVE  Min(S) \in S
<1>1. \E i \in S : \A j \in S : i <= j
  <2> SUFFICES ASSUME \A i \in S : \E j \in S : j < i PROVE FALSE
    BY DEF Irq
  <2>1. \A i \in 0..3 : i \notin S
    BY DEF Irq
  <2>2. \A i \in 4..7 : i \notin S
    BY <2>1 DEF Irq
  <2>3. \A i \in 8..11 : i \notin S
    BY <2>1, <2>2 DEF Irq
  <2>4. \A i \in 12..15 : i \notin S
    BY <2>1, <2>2, <2>3 DEF Irq
  <2>5. PICK i \in S : TRUE
    OBVIOUS
  <2>6. i \in 0..3 \/ i \in 4..7 \/ i \in 8..11 \/ i \in 12..15
    BY <2>5 DEF Irq
  <2> QED
    BY <2>1, <2>2, <2>3, <2>4, <2>5, <2>6
<1> QED
  BY <1>1 DEF Min

LEMMA MinOfOne == ASSUME NEW i \in Irq PROVE Min({i}) = i
BY DEF Min, Irq

\* Who can be delivered is a request: on the master one that is not above an
\* interrupt in service, or the slave; on the slave one of its own.
LEMMA Pending ==
  /\ Master \subseteq 0..7 /\ Slave \subseteq 8..15
  /\ Master # {} => Min(Master) \in Master
  /\ Slave # {} => Min(Slave) \in Slave
<1>1. Master \subseteq 0..7 /\ Slave \subseteq 8..15
  BY DEF Master, Slave, Above, Requests, Cascade
<1>2. Master \subseteq Irq /\ Slave \subseteq Irq
  BY <1>1 DEF Irq
<1> QED
  BY <1>1, <1>2, MinType

-----------------------------------------------------------------------------
\* Handlers are linked once when a new one is linked and when one is unlinked.
LEMMA LinkIn ==
  ASSUME NEW s \in Seq(Device), IsInjective(s), NEW d \in Device, ~Contains(s, d)
  PROVE  <<d>> \o s \in Seq(Device) /\ IsInjective(<<d>> \o s) /\ <<d>> \o s # <<>>
<1> DEFINE t == <<d>> \o s
<1>1. Len(s) \in Nat /\ DOMAIN s = 1..Len(s) /\ t \in Seq(Device) /\ Len(t) = Len(s) + 1
      /\ DOMAIN t = 1..Len(s) + 1
  OBVIOUS
<1>2. t[1] = d /\ \A k \in 2..Len(s) + 1 : t[k] = s[k-1] /\ k-1 \in 1..Len(s)
  BY <1>1
<1>3. \A k \in 1..Len(s) : s[k] # d
  BY DEF Contains
<1>4. ASSUME NEW j \in DOMAIN t, NEW k \in DOMAIN t, t[j] = t[k] PROVE j = k
  <2>1. (j = 1 \/ j \in 2..Len(s) + 1) /\ (k = 1 \/ k \in 2..Len(s) + 1)
    BY <1>1
  <2>2. CASE j = 1 \/ k = 1
    BY <1>2, <1>3, <1>4, <2>1, <2>2
  <2>3. CASE j # 1 /\ k # 1
    <3>1. s[j-1] = s[k-1] /\ j-1 \in DOMAIN s /\ k-1 \in DOMAIN s
      BY <1>1, <1>2, <1>4, <2>1, <2>3
    <3>2. j-1 = k-1
      BY <3>1 DEF IsInjective
    <3> QED
      BY <3>2, <1>1
  <2> QED
    BY <2>2, <2>3
<1>5. IsInjective(t) 
  BY <1>4 DEF IsInjective
<1> QED
  BY <1>1, <1>5

LEMMA LinkOut ==
  ASSUME NEW s \in Seq(Device), IsInjective(s), NEW k \in DOMAIN s
  PROVE  RemoveAt(s, k) \in Seq(Device) /\ IsInjective(RemoveAt(s, k)) /\ s # <<>>
<1> DEFINE a == SubSeq(s, 1, k-1)
           b == SubSeq(s, k+1, Len(s))
           t == a \o b
           At(j) == IF j < k THEN j ELSE j + 1
<1>1. Len(s) \in Nat /\ DOMAIN s = 1..Len(s) /\ k \in 1..Len(s)
  OBVIOUS
<1>2. /\ a \in Seq(Device) /\ Len(a) = k-1 /\ \A j \in 1..k-1 : a[j] = s[j]
      /\ b \in Seq(Device) /\ Len(b) = Len(s) - k /\ \A j \in 1..Len(s)-k : b[j] = s[j+k]
  <2>1. /\ k-1 \in Int /\ k+1 \in Int
        /\ \A j \in 1..k-1 : s[j] \in Device
        /\ \A j \in k+1..Len(s) : s[j] \in Device
    BY <1>1
  <2>2. a \in Seq(Device) /\ Len(a) = (IF 1 <= k-1 THEN (k-1)-1+1 ELSE 0)
        /\ \A j \in 1..(k-1)-1+1 : a[j] = s[1+j-1]
    BY <2>1, SubSeqProperties
  <2>3. b \in Seq(Device) /\ Len(b) = (IF k+1 <= Len(s) THEN Len(s)-(k+1)+1 ELSE 0)
        /\ \A j \in 1..Len(s)-(k+1)+1 : b[j] = s[(k+1)+j-1]
    BY <1>1, <2>1, SubSeqProperties
  <2> HIDE DEF a, b
  <2>4. Len(a) = k-1 /\ \A j \in 1..k-1 : a[j] = s[j]
    BY <1>1, <2>2
  <2>5. Len(b) = Len(s) - k
    BY <1>1, <2>3
  <2>6. ASSUME NEW j \in 1..Len(s)-k PROVE b[j] = s[j+k]
    <3>1. j \in 1..Len(s)-(k+1)+1 /\ (k+1)+j-1 = j+k
      BY <1>1
    <3> QED
      BY <2>3, <3>1
  <2> QED
    BY <2>2, <2>3, <2>4, <2>5, <2>6
<1> HIDE DEF a, b
<1>3. /\ t \in Seq(Device) /\ Len(t) = Len(s) - 1 /\ DOMAIN t = 1..Len(s)-1
      /\ \A j \in 1..Len(s)-1 : t[j] = IF j <= k-1 THEN a[j] ELSE b[j - (k-1)]
  <2>1. t \in Seq(Device) /\ Len(t) = Len(a) + Len(b)
        /\ \A j \in 1..Len(a) + Len(b) : t[j] = IF j <= Len(a) THEN a[j] ELSE b[j - Len(a)]
    BY <1>2, ConcatProperties
  <2> HIDE DEF t
  <2>2. Len(a) + Len(b) = Len(s) - 1 /\ DOMAIN t = 1..Len(t)
    BY <1>1, <1>2, <2>1
  <2> QED
    BY <1>2, <2>1, <2>2
<1> HIDE DEF t
<1>4. ASSUME NEW j \in 1..Len(s)-1 PROVE t[j] = s[At(j)] /\ At(j) \in DOMAIN s
  <2>1. CASE j < k
    BY <1>1, <1>2, <1>3, <2>1
  <2>2. CASE ~(j < k)
    <3>1. j - (k-1) \in 1..Len(s)-k /\ (j - (k-1)) + k = j + 1 /\ ~(j <= k-1)
      BY <1>1, <2>2
    <3>2. t[j] = b[j - (k-1)]
      BY <1>3, <3>1
    <3>3. b[j - (k-1)] = s[(j - (k-1)) + k]
      BY <1>2, <3>1
    <3>4. At(j) = j + 1 /\ j + 1 \in DOMAIN s
      BY <1>1, <2>2
    <3> QED
      BY <3>1, <3>2, <3>3, <3>4
  <2> QED
    BY <2>1, <2>2
<1>5. ASSUME NEW i \in DOMAIN t, NEW j \in DOMAIN t, t[i] = t[j] PROVE i = j
  <2>1. At(i) = At(j)
    <3> HIDE DEF At
    <3>1. s[At(i)] = s[At(j)] /\ At(i) \in DOMAIN s /\ At(j) \in DOMAIN s
      BY <1>3, <1>4, <1>5
    <3> QED
      BY <3>1 DEF IsInjective
  <2> QED
    BY <2>1, <1>1, <1>3
<1>6. IsInjective(t)
  BY <1>5 DEF IsInjective
<1> QED
  BY <1>1, <1>3, <1>6 DEF RemoveAt, t, a, b

\* A device that an action adds or removes changes one list of handlers, and
\* the mask with the list's first and last.
LEMMA Added ==
  ASSUME TypeOK, MaskMatchesTable, NEW d \in Device, intrenable(d)
  PROVE  TypeOK' /\ MaskMatchesTable'
<1> DEFINE i == load.irq[d]
<1>1. i \in Irq \ {Cascade}
  BY IrqType DEF TypeOK
<1>2. vctl \in [Irq -> Seq(Device)] /\ vctl[i] \in Seq(Device)
  BY <1>1 DEF TypeOK
<1>3. vctl' = [vctl EXCEPT ![i] = <<d>> \o vctl[i]]
  BY DEF intrenable
<1>4. IsInjective(vctl[i]) /\ ~Contains(vctl[i], d)
  BY <1>1 DEF TypeOK, intrenable, Enabled
<1>5. vctl'[i] \in Seq(Device) /\ vctl'[i] # <<>> /\ IsInjective(vctl'[i])
  BY <1>1, <1>2, <1>3, <1>4, LinkIn
<1>6. i8259mask' = i8259mask \ {i} /\ imr' = (imr \ Chip(i)) \cup (i8259mask' \cap Chip(i))
  BY DEF intrenable, i8259enable, SetMask
<1>7. MaskMatchesTable'
  <2>1. \A j \in Irq : j # i => vctl'[j] = vctl[j]
    BY <1>1, <1>2, <1>3
  <2>2. i8259mask' = {j \in Irq \ {Cascade} : vctl'[j] = <<>>}
    BY <1>1, <1>5, <1>6, <2>1 DEF MaskMatchesTable
  <2>3. i \in Chip(i)
    BY <1>1 DEF Chip, Irq
  <2>4. imr' = i8259mask'
    BY <1>1, <1>6, <2>3 DEF MaskMatchesTable
  <2> QED
    BY <2>2, <2>4 DEF MaskMatchesTable
<1>8. TypeOK'
  <2>1. vctl' \in [Irq -> Seq(Device)] /\ \A j \in Irq : IsInjective(vctl'[j])
    BY <1>1, <1>2, <1>3, <1>5 DEF TypeOK
  <2>2. i8259mask' \subseteq Irq /\ imr' \subseteq Irq
    BY <1>7 DEF MaskMatchesTable
  <2> QED
    BY <2>1, <2>2 DEF TypeOK, intrenable, devices, chips, cpu
<1> QED
  BY <1>7, <1>8

LEMMA Removed ==
  ASSUME TypeOK, MaskMatchesTable, NEW d \in Device, intrdisable(d)
  PROVE  TypeOK' /\ MaskMatchesTable'
<1> DEFINE i == load.irq[d]
<1>1. i \in Irq \ {Cascade}
  BY IrqType DEF TypeOK
<1>2. vctl \in [Irq -> Seq(Device)] /\ vctl[i] \in Seq(Device)
  BY <1>1 DEF TypeOK
<1>3. PICK k \in DOMAIN vctl[i] : vctl' = [vctl EXCEPT ![i] = RemoveAt(vctl[i], k)]
  BY DEF intrdisable
<1>4. IsInjective(vctl[i])
  BY <1>1 DEF TypeOK
<1>5. vctl'[i] \in Seq(Device) /\ vctl[i] # <<>> /\ IsInjective(vctl'[i])
  BY <1>1, <1>2, <1>3, <1>4, LinkOut
<1>6. \A j \in Irq : j # i => vctl'[j] = vctl[j]
  BY <1>1, <1>2, <1>3
<1>7. MaskMatchesTable'
  <2>1. vctl[i] # <<>>
    BY <1>5
  <2>2. i \notin i8259mask
    BY <2>1 DEF MaskMatchesTable
  <2>3. i \in Chip(i)
    BY <1>1 DEF Chip, Irq
  <2>4. CASE vctl'[i] = <<>>
    <3>1. i8259mask' = i8259mask \cup {i} /\ imr' = (imr \ Chip(i)) \cup (i8259mask' \cap Chip(i))
      BY <2>2, <2>4 DEF intrdisable, i8259disable, SetMask
    <3>2. i8259mask' = {j \in Irq \ {Cascade} : vctl'[j] = <<>>}
      BY <1>1, <1>6, <2>4, <3>1 DEF MaskMatchesTable
    <3>3. imr' = i8259mask'
      BY <2>3, <3>1 DEF MaskMatchesTable
    <3> QED
      BY <3>2, <3>3 DEF MaskMatchesTable
  <2>5. CASE vctl'[i] # <<>>
    <3>1. UNCHANGED <<i8259mask, imr>>
      BY <2>5 DEF intrdisable
    <3> QED
      BY <1>1, <1>6, <2>1, <2>5, <3>1 DEF MaskMatchesTable
  <2> QED
    BY <2>4, <2>5
<1>8. TypeOK'
  <2>1. vctl' \in [Irq -> Seq(Device)] /\ \A j \in Irq : IsInjective(vctl'[j])
    BY <1>1, <1>2, <1>3, <1>5 DEF TypeOK
  <2>2. i8259mask' \subseteq Irq /\ imr' \subseteq Irq
    BY <1>7 DEF MaskMatchesTable
  <2> QED
    BY <2>1, <2>2 DEF TypeOK, intrdisable, devices, chips, cpu
<1> QED
  BY <1>7, <1>8

-----------------------------------------------------------------------------
\* The end of an interrupt leaves nothing in service, of the slave's too.
LEMMA EndsAll ==
  ASSUME vno \in Irq, Serving, i8259isr(vno)
  PROVE  inService' = {}
<1>1. CASE vno < 8
  <2>1. Ended(0..7) = inService
    <3>1. CASE inService = {}
      BY <3>1 DEF Ended
    <3>2. CASE inService = {vno}
      <4>1. vno \in 0..7
        BY <1>1 DEF Irq
      <4>2. inService \cap 0..7 = {vno}
        BY <4>1, <3>2
      <4> QED
        BY <3>2, <4>2, MinOfOne DEF Ended
    <3> QED
      BY <1>1, <3>1, <3>2 DEF Serving
  <2> QED
    BY <1>1, <2>1 DEF i8259isr, Irq
<1>2. CASE vno >= 8
  <2>1. inService \in {{Cascade}, {Cascade, vno}}
    BY <1>2 DEF Serving, Irq
  <2>2. Ended(0..7) = {Cascade}
    <3>1. inService \cap 0..7 = {Cascade}
      BY <1>2, <2>1 DEF Cascade
    <3> QED
      BY <3>1, MinOfOne DEF Ended, Cascade, Irq
  <2>3. Ended(8..15) = inService \ {Cascade}
    <3>1. CASE inService = {Cascade}
      BY <3>1 DEF Ended, Cascade
    <3>2. CASE inService = {Cascade, vno}
      <4>1. vno \in 8..15 /\ vno # Cascade /\ Cascade \notin 8..15
        BY <1>2 DEF Irq, Cascade
      <4>2. inService \cap 8..15 = {vno}
        BY <4>1, <3>2
      <4>3. inService \ {Cascade} = {vno}
        BY <4>1, <3>2
      <4> QED
        BY <4>2, <4>3, MinOfOne DEF Ended
    <3> QED
      BY <2>1, <3>1, <3>2
  <2> QED
    BY <1>2, <2>1, <2>2, <2>3 DEF i8259isr, Cascade
<1> QED
  BY <1>1, <1>2 DEF Irq

\* What the second half of ServiceInv says of what is still to be called.
OneEnd(q) ==
  \A k \in DOMAIN q : q[k] = Eoi => \A j \in DOMAIN q : q[j] \in {Eoi, Preempted} => k <= j

Entry == ({"f"} \X Device) \cup ({"eoi", "preempted"} \X Irq)

\* trap ends each interrupt, once, and before another process can run.
LEMMA CallsEnd ==
  ASSUME vno \in Irq, NEW hs \in Seq(Device)
  PROVE  /\ Calls(hs) \in Seq(Entry) /\ Calls(hs) # <<>>
         /\ \E k \in DOMAIN Calls(hs) : Calls(hs)[k] = Eoi
         /\ OneEnd(Calls(hs))
<1> DEFINE fs == [k \in DOMAIN hs |-> HandlerOf(hs[k])]
           n  == Len(hs)
<1>1. /\ Eoi \in Entry /\ Preempted \in Entry /\ Eoi # Preempted
      /\ \A d \in Device : HandlerOf(d) \in Entry /\ HandlerOf(d) \notin {Eoi, Preempted}
  BY DEF Eoi, Preempted, HandlerOf, Entry
<1>2. n \in Nat /\ fs \in Seq(Entry) /\ Len(fs) = n /\ \A k \in 1..n : fs[k] \notin {Eoi, Preempted}
  BY <1>1
<1> HIDE DEF fs, n
<1>3. CASE hs = <<>>
  <2>1. Calls(hs) = <<Eoi>>
    BY <1>3 DEF Calls
  <2> HIDE DEF Calls
  <2> QED
    BY <1>1, <2>1 DEF OneEnd
<1>4. CASE hs # <<>> /\ vno \in load.level
  <2> DEFINE q == (fs \o <<Eoi>>) \o <<Preempted>>
  <2>1. Calls(hs) = q
    BY <1>4 DEF Calls, fs
  <2>2. /\ q \in Seq(Entry) /\ DOMAIN q = 1..n+2 /\ q[n+1] = Eoi /\ q[n+2] = Preempted
        /\ \A k \in 1..n : q[k] = fs[k]
    <3> DEFINE p == fs \o <<Eoi>>
    <3>1. p \in Seq(Entry) /\ Len(p) = n+1 /\ p[n+1] = Eoi /\ \A k \in 1..n : p[k] = fs[k]
      BY <1>1, <1>2
    <3> HIDE DEF p
    <3>2. q = p \o <<Preempted>>
      BY DEF p
    <3> HIDE DEF q
    <3> QED
      BY <1>1, <1>2, <3>1, <3>2
  <2> HIDE DEF q
  <2>3. \A k \in 1..n+2 : k \in 1..n \/ k = n+1 \/ k = n+2
    BY <1>2
  <2>4. n+1 \in DOMAIN q /\ n+1 <= n+2
    BY <1>2, <2>2
  <2>5. OneEnd(q)
    BY <1>1, <1>2, <2>2, <2>3, <2>4 DEF OneEnd
  <2>6. q # <<>>
    BY <2>4
  <2> QED
    BY <2>1, <2>2, <2>4, <2>5, <2>6
<1>5. CASE hs # <<>> /\ vno \notin load.level
  <2> DEFINE q == (<<Eoi>> \o fs) \o <<Preempted>>
  <2>1. Calls(hs) = q
    BY <1>5 DEF Calls, fs
  <2>2. /\ q \in Seq(Entry) /\ DOMAIN q = 1..n+2 /\ q[1] = Eoi /\ q[n+2] = Preempted
        /\ \A k \in 2..n+1 : q[k] = fs[k-1]
    BY <1>1, <1>2
  <2> HIDE DEF q
  <2>3. \A k \in 1..n+2 : k = 1 \/ (k \in 2..n+1 /\ k-1 \in 1..n) \/ k = n+2
    BY <1>2
  <2>4. 1 \in DOMAIN q /\ \A k \in DOMAIN q : 1 <= k
    BY <1>2, <2>2
  <2>5. OneEnd(q)
    BY <1>1, <1>2, <2>2, <2>3, <2>4 DEF OneEnd
  <2>6. q # <<>>
    BY <2>4
  <2> QED
    BY <2>1, <2>2, <2>4, <2>5, <2>6
<1> QED
  BY <1>3, <1>4, <1>5

\* ServiceInv in terms of OneEnd.
LEMMA ServiceForm ==
  ServiceInv <=>
    /\ todo \in Seq(Entry) /\ (pc = "calls" <=> todo # <<>>)
    /\ pc \in {"run", "ack"} => inService = {}
    /\ pc = "cascade" => inService = {Cascade}
    /\ pc = "trap" => Serving
    /\ pc = "calls" => IF \E k \in DOMAIN todo : todo[k] = Eoi THEN Serving ELSE inService = {}
    /\ OneEnd(todo)
BY DEF ServiceInv, OneEnd, Ends, Entry

-----------------------------------------------------------------------------
(* Every action preserves the invariant. *)

\* What is in service is of the chips' two orders.
LEMMA ServiceType ==
  ASSUME ServiceInv', vno' \in Irq, pc' \in {"run", "ack", "cascade", "trap", "calls"}
  PROVE  /\ \A i, j \in inService' : Chip(i) = Chip(j) => i = j
         /\ inService' \cap 8..15 # {} => Cascade \in inService'
<1>1. CASE inService' = {} \/ inService' = {Cascade} \/ (inService' = {vno'} /\ vno' < 8)
  BY <1>1 DEF Irq, Cascade
<1>2. CASE inService' = {Cascade, vno'} /\ ~(vno' < 8)
  <2>1. Chip(Cascade) = 0..7 /\ Chip(vno') = 8..15 /\ 0 \in 0..7 /\ 0 \notin 8..15
    BY <1>2 DEF Chip, Cascade
  <2> QED
    BY <1>2, <2>1
<1> QED
  BY <1>1, <1>2 DEF ServiceInv, Serving

\* Actions that leave the processor and what is in service alone.
LEMMA ServiceSame ==
  ASSUME ServiceInv, UNCHANGED <<inService, cpu>>
  PROVE  ServiceInv'
BY DEF ServiceInv, Serving, Ends, Eoi, Preempted, cpu

LEMMA AcknowledgeStep ==
  ASSUME IndInv, Acknowledge
  PROVE  ServiceInv' /\ vno' \in Irq /\ latched' \subseteq latched
<1>1. todo = <<>> /\ inService = {} /\ OneEnd(todo)
  BY DEF IndInv, ServiceInv, Acknowledge, OneEnd
<1>2. CASE Master = {}
  <2>1. vno' = 7 /\ pc' = "trap" /\ UNCHANGED <<inService, latched, todo>>
    BY <1>2 DEF Acknowledge, chips
  <2> QED
    BY <1>1, <2>1 DEF ServiceInv, Serving, Ends, Irq, Cascade
<1>3. CASE Master # {}
  <2> DEFINE m == Min(Master)
  <2>1. m \in 0..7
    BY <1>3, Pending
  <2>2. /\ inService' = {m} /\ latched' \subseteq latched /\ vno' = m
        /\ pc' = (IF m = Cascade THEN "cascade" ELSE "trap") /\ todo' = <<>>
    BY <1>1, <1>3 DEF Acknowledge, Deliver
  <2> HIDE DEF m
  <2> QED
    BY <2>1, <2>2 DEF ServiceInv, Serving, Ends, Irq
<1> QED
  BY <1>2, <1>3

LEMMA AcknowledgeSlaveStep ==
  ASSUME IndInv, AcknowledgeSlave
  PROVE  ServiceInv' /\ vno' \in Irq /\ latched' \subseteq latched
<1>1. todo = <<>> /\ inService = {Cascade}
  BY DEF IndInv, ServiceInv, AcknowledgeSlave
<1>2. CASE Slave = {}
  <2>1. vno' = 15 /\ pc' = "trap" /\ UNCHANGED <<inService, latched, todo>>
    BY <1>2 DEF AcknowledgeSlave, chips
  <2> QED
    BY <1>1, <2>1 DEF ServiceInv, Serving, Ends, Irq
<1>3. CASE Slave # {}
  <2> DEFINE m == Min(Slave)
  <2>1. m \in 8..15
    BY <1>3, Pending
  <2>2. /\ inService' = {Cascade, m} /\ latched' \subseteq latched /\ vno' = m
        /\ pc' = "trap" /\ todo' = <<>>
    BY <1>1, <1>3 DEF AcknowledgeSlave, Deliver
  <2> HIDE DEF m
  <2> QED
    BY <2>1, <2>2 DEF ServiceInv, Serving, Ends, Irq
<1> QED
  BY <1>2, <1>3

LEMMA TrapStep ==
  ASSUME IndInv, trap
  PROVE  ServiceInv'
<1>1. vno \in Irq /\ vctl[vno] \in Seq(Device) /\ Serving
  BY DEF IndInv, TypeOK, ServiceInv, trap
<1>2. todo' = Calls(vctl[vno]) /\ pc' = "calls" /\ UNCHANGED <<inService, vno>>
  BY DEF trap, chips
<1>3. /\ todo' \in Seq(Entry) /\ todo' # <<>> /\ \E k \in DOMAIN todo' : todo'[k] = Eoi
      /\ OneEnd(todo')
  BY <1>1, <1>2, CallsEnd
<1> QED
  BY <1>1, <1>2, <1>3 DEF ServiceInv, OneEnd, Entry, Ends, Serving, Eoi, Preempted

\* The tail of what is to be called.
LEMMA TailEnds ==
  ASSUME NEW q \in Seq(Entry), q # <<>>, OneEnd(q)
  PROVE  /\ Tail(q) \in Seq(Entry) /\ OneEnd(Tail(q)) /\ (Tail(q) = <<>> <=> Len(q) = 1)
         /\ Head(q) = q[1] /\ 1 \in DOMAIN q
         /\ Head(q) \in {Eoi, Preempted} => \A k \in DOMAIN Tail(q) : Tail(q)[k] # Eoi
         /\ Head(q) # Eoi => ((\E k \in DOMAIN q : q[k] = Eoi) <=> \E k \in DOMAIN Tail(q) : Tail(q)[k] = Eoi)
<1> DEFINE t == Tail(q)
           n == Len(q)
<1>1. n \in Nat /\ n >= 1 /\ DOMAIN q = 1..n /\ Head(q) = q[1]
  OBVIOUS
<1>2. t \in Seq(Entry) /\ Len(t) = n-1 /\ DOMAIN t = 1..n-1 /\ \A k \in 1..n-1 : t[k] = q[k+1]
  BY <1>1
<1> HIDE DEF t, n
<1>3. t = <<>> <=> n = 1
  <2>1. t = <<>> <=> Len(t) = 0
    BY <1>2, EmptySeq
  <2> QED
    BY <2>1, <1>1, <1>2
<1>4. \A k \in 1..n-1 : k+1 \in 1..n
  BY <1>1
<1>5. OneEnd(t)
  <2> SUFFICES ASSUME NEW k \in 1..n-1, t[k] = Eoi, NEW j \in 1..n-1, t[j] \in {Eoi, Preempted}
               PROVE  k <= j
    BY <1>2 DEF OneEnd
  <2>1. q[k+1] = Eoi /\ q[j+1] \in {Eoi, Preempted} /\ k+1 \in DOMAIN q /\ j+1 \in DOMAIN q
    BY <1>1, <1>2, <1>4
  <2>2. k+1 <= j+1
    BY <2>1 DEF OneEnd
  <2> QED
    BY <2>2, <1>1
<1>6. ASSUME NEW k \in 1..n-1, q[1] \in {Eoi, Preempted} PROVE t[k] # Eoi
  <2> SUFFICES ASSUME q[k+1] = Eoi PROVE FALSE
    BY <1>2
  <2> QED
    BY <1>1, <1>4, <1>6 DEF OneEnd
<1>7. ASSUME NEW k \in 1..n, q[k] = Eoi, q[1] # Eoi PROVE k-1 \in 1..n-1 /\ t[k-1] = Eoi
  BY <1>1, <1>2, <1>7
<1>8. q[1] # Eoi => ((\E k \in 1..n : q[k] = Eoi) <=> \E k \in 1..n-1 : t[k] = Eoi)
  BY <1>2, <1>4, <1>7
<1> QED
  <2>1. t = Tail(q) /\ n = Len(q)
    BY DEF t, n
  <2>2. q[1] \in {Eoi, Preempted} => \A k \in DOMAIN t : t[k] # Eoi
    BY <1>2, <1>6
  <2>3. q[1] # Eoi => ((\E k \in DOMAIN q : q[k] = Eoi) <=> \E k \in DOMAIN t : t[k] = Eoi)
    BY <1>1, <1>2, <1>8
  <2>4. 1 \in DOMAIN q
    BY <1>1
  <2> QED
    BY <1>1, <1>2, <1>3, <1>5, <2>1, <2>2, <2>3, <2>4

LEMMA CallStep ==
  ASSUME IndInv, Call
  PROVE  ServiceInv'
<1>1. /\ todo \in Seq(Entry) /\ todo # <<>> /\ OneEnd(todo) /\ pc = "calls" /\ vno \in Irq
      /\ IF \E k \in DOMAIN todo : todo[k] = Eoi THEN Serving ELSE inService = {}
  BY ServiceForm DEF IndInv, TypeOK, Call
<1>2. todo' = Tail(todo) /\ pc' = (IF todo' = <<>> THEN "run" ELSE "calls") /\ vno' = vno
  BY <1>1, TailEnds DEF Call
<1>3. todo' \in Seq(Entry) /\ OneEnd(todo') /\ Eoi' = Eoi /\ Preempted' = Preempted
  BY <1>1, <1>2, TailEnds DEF Eoi, Preempted
<1>4. IF \E k \in DOMAIN todo' : todo'[k] = Eoi THEN Serving' ELSE inService' = {}
  <2>1. CASE \E d \in Device : Head(todo) = HandlerOf(d) /\ UNCHANGED inService
    <3>1. Head(todo) # Eoi
      BY <2>1 DEF HandlerOf, Eoi
    <3>2. Serving' = Serving
      BY <1>2, <2>1 DEF Serving
    <3> QED
      BY <1>1, <1>2, <2>1, <3>1, <3>2, TailEnds
  <2>2. CASE Head(todo) = Eoi /\ i8259isr(vno)
    <3>1. Serving
      BY <1>1, <2>2, TailEnds
    <3>2. inService' = {}
      BY <1>1, <2>2, <3>1, EndsAll
    <3> QED
      BY <1>1, <1>2, <2>2, <3>2, TailEnds
  <2>3. CASE Head(todo) = Preempted /\ UNCHANGED inService
    <3>1. \A k \in DOMAIN todo' : todo'[k] # Eoi
      BY <1>1, <1>2, <2>3, TailEnds
    <3>2. Preempted # Eoi
      BY DEF Preempted, Eoi
    <3>3. \A k \in DOMAIN todo : todo[k] # Eoi
      BY <1>1, <1>2, <2>3, <3>1, <3>2, TailEnds
    <3> QED
      BY <1>1, <2>3, <3>1, <3>3
  <2> QED
    BY <2>1, <2>2, <2>3 DEF Call, chips
<1>5. \A k \in DOMAIN todo' : todo'[k] = Eoi => todo' # <<>>
  BY <1>3
<1> QED
  BY <1>2, <1>3, <1>4, <1>5 DEF ServiceInv, OneEnd, Entry, Ends

LEMMA InitInv == Init => IndInv
<1> SUFFICES ASSUME Init PROVE IndInv
  OBVIOUS
<1>1. TypeOK
  BY IntrAssumption DEF Init, TypeOK, IsInjective, Irq, Cascade, Chip
<1>2. MaskMatchesTable
  BY DEF Init, MaskMatchesTable
<1>3. ServiceInv
  BY DEF Init, ServiceInv, Ends
<1> QED
  BY <1>1, <1>2, <1>3 DEF IndInv

\* TypeOK but for the requirements on what is in service.
Types ==
  /\ load \in Loads /\ i8259mask \subseteq Irq /\ imr \subseteq Irq
  /\ vctl \in [Irq -> Seq(Device)] /\ \A i \in Irq : IsInjective(vctl[i])
  /\ want \subseteq Device /\ asked \in [Device -> 0..load.asks] /\ latched \subseteq Irq
  /\ pc \in {"run", "ack", "cascade", "trap", "calls"} /\ vno \in Irq

LEMMA Closing ==
  ASSUME Types', ServiceInv', MaskMatchesTable' PROVE IndInv'
BY ServiceType DEF Types, IndInv, TypeOK

LEMMA LinesType ==
  ASSUME NEW w, Lines(w) PROVE want' = w /\ latched' \subseteq Irq
BY DEF Lines

LEMMA StepInv == IndInv /\ [Next]_vars => IndInv'
<1> SUFFICES ASSUME IndInv, [Next]_vars PROVE IndInv'
  OBVIOUS
<1> USE DEF IndInv
<1>1. Types
  BY DEF TypeOK, Types
<1>2. CASE TakeInterrupt
  <2>1. Types' /\ MaskMatchesTable'
    BY <1>1, <1>2 DEF TakeInterrupt, Types, MaskMatchesTable, table, devices, chips
  <2>2. ServiceInv'
    BY <1>2 DEF TakeInterrupt, ServiceInv, Ends, Eoi, Preempted, chips
  <2> QED
    BY <2>1, <2>2, Closing
<1>3. CASE Acknowledge \/ AcknowledgeSlave
  <2>1. ServiceInv' /\ vno' \in Irq /\ latched' \subseteq Irq
    BY <1>1, <1>3, AcknowledgeStep, AcknowledgeSlaveStep DEF Types
  <2>2. Types' /\ MaskMatchesTable'
    BY <1>1, <1>3, <2>1 DEF Acknowledge, AcknowledgeSlave, Types, MaskMatchesTable, table, devices
  <2> QED
    BY <2>1, <2>2, Closing
<1>4. CASE trap
  <2>1. Types' /\ MaskMatchesTable'
    BY <1>1, <1>4 DEF trap, Types, MaskMatchesTable, table, devices, chips
  <2> QED
    BY <1>4, <2>1, TrapStep, Closing
<1>5. CASE Call
  <2>1. want' \subseteq Device /\ latched' \subseteq Irq
    <3>1. CASE \E d \in Device : Lines(want \ {d})
      BY <1>1, <3>1, LinesType DEF Types
    <3>2. CASE UNCHANGED <<want, latched>>
      BY <1>1, <3>2 DEF Types
    <3> QED
      BY <1>5, <3>1, <3>2 DEF Call, chips
  <2>2. Types' /\ MaskMatchesTable'
    BY <1>1, <1>5, <2>1 DEF Call, Types, MaskMatchesTable, table
  <2> QED
    BY <1>5, <2>2, CallStep, Closing
<1>6. ASSUME NEW d \in Device, intrenable(d) \/ intrdisable(d) PROVE IndInv'
  <2>1. TypeOK' /\ MaskMatchesTable'
    BY <1>6, Added, Removed
  <2>2. ServiceInv'
    BY <1>6, ServiceSame DEF intrenable, intrdisable, chips
  <2> QED
    BY <2>1, <2>2
<1>7. ASSUME NEW d \in Device, Asks(d) \/ Withdraws(d) PROVE IndInv'
  <2>1. want' \subseteq Device /\ latched' \subseteq Irq
    BY <1>1, <1>7, LinesType DEF Asks, Withdraws, Types
  <2>2. asked' \in [Device -> 0..load.asks]
    <3>1. load.asks \in Nat
      BY <1>1, IntrAssumption DEF Types
    <3>2. CASE Asks(d)
      <4>1. asked[d] \in 0..load.asks /\ asked[d] < load.asks /\ asked[d] + 1 \in 0..load.asks
        BY <1>1, <3>1, <3>2 DEF Asks, Types
      <4> QED
        BY <1>1, <3>2, <4>1 DEF Asks, Types
    <3> QED
      BY <1>1, <1>7, <3>2 DEF Withdraws, Types
  <2>3. Types' /\ MaskMatchesTable'
    BY <1>1, <1>7, <2>1, <2>2 DEF Asks, Withdraws, Types, MaskMatchesTable, table, cpu
  <2>4. ServiceInv'
    BY <1>7, ServiceSame DEF Asks, Withdraws
  <2> QED
    BY <2>3, <2>4, Closing
<1>8. CASE UNCHANGED vars
  <2>1. Types' /\ MaskMatchesTable' /\ UNCHANGED <<inService, cpu>>
    BY <1>1, <1>8 DEF vars, Types, MaskMatchesTable, table, devices, chips, cpu
  <2> QED
    BY <2>1, ServiceSame, Closing
<1> QED
  BY <1>2, <1>3, <1>4, <1>5, <1>6, <1>7, <1>8 DEF Next, Cpu

THEOREM Invariance == Spec => []IndInv
BY InitInv, StepInv, PTL DEF Spec

\* Handlers are linked once each, and the chips' in-service bits are one per
\* chip, the slave's under the master's.
THEOREM TypeCorrect == Spec => []TypeOK
<1>1. IndInv => TypeOK
  BY DEF IndInv
<1> QED
  BY <1>1, Invariance, PTL

\* Whatever is enabled and disabled in whatever order, an irq is unmasked while
\* it has a handler and at no other time.
THEOREM MasksFollowTheTable == Spec => []MaskMatchesTable
<1>1. IndInv => MaskMatchesTable
  BY DEF IndInv
<1> QED
  BY <1>1, Invariance, PTL

\* No process ever runs, after an interrupt or in the middle of trap, with an
\* interrupt in service.
THEOREM ServiceEnds == Spec => []NothingInService
<1>1. IndInv => NothingInService
  <2> SUFFICES ASSUME ServiceInv, todo # <<>>, Head(todo) = Preempted PROVE inService = {}
    BY DEF IndInv, NothingInService, ServiceInv
  <2>1. Preempted # Eoi /\ todo \in Seq(Entry) /\ OneEnd(todo) /\ pc = "calls"
    BY ServiceForm DEF ServiceInv, Preempted, Eoi
  <2>2. \A k \in DOMAIN todo : todo[k] # Eoi
    BY <2>1, TailEnds
  <2> QED
    BY <2>1, <2>2, ServiceForm
<1> QED
  BY <1>1, Invariance, PTL

-----------------------------------------------------------------------------
(* Notes.                                                                    *)

\* Induction, for the depth of a chain: a set of numbers with 0 and, after k,
\* k + 1 has them all.
LEMMA Induction ==
  ASSUME NEW S, 0 \in S, \A k \in Nat : k \in S => k + 1 \in S
  PROVE  Nat \subseteq S
<1> DEFINE R == OpToRel(<, Nat)
           T == Nat \ S
<1> SUFFICES ASSUME T # {} PROVE FALSE
  OBVIOUS
<1>1. IsWellFoundedOn(R, Nat)
  BY NatLessThanWellFounded
<1>2. \E x \in T : \A y \in T : ~ (<<y, x>> \in R)
  <2>1. T \subseteq Nat
    OBVIOUS
  <2> HIDE DEF R, T
  <2> QED
    BY <1>1, <2>1, WFMin, Zenon
<1>3. \A x, y \in Nat : x < y => <<x, y>> \in R
  BY DEF OpToRel
<1> HIDE DEF R
<1>4. PICK n \in T : \A y \in T : ~ (<<y, n>> \in R)
  BY <1>2
<1>5. n \in Nat /\ n # 0
  OBVIOUS
<1>6. n - 1 \in Nat /\ n - 1 < n /\ (n - 1) + 1 = n
  BY <1>5
<1>7. n - 1 \notin T
  BY <1>3, <1>4, <1>5, <1>6
<1> QED
  BY <1>4, <1>6, <1>7

\* The frames of m are linked up the stack.
Linked(m) ==
  /\ m \in [1..MaxNotes -> Frames \cup {NoFrame}]
  /\ \A a \in 1..MaxNotes : m[a] # NoFrame => m[a].link < a

\* The frame at a, and the frame it is linked to.
LEMMA LinkIs ==
  ASSUME NEW m, Linked(m), NEW a \in 0..MaxNotes, a # 0, m[a] # NoFrame
  PROVE  /\ a \in 1..MaxNotes /\ m[a] \in Frames /\ m[a].regs \in Regs
         /\ m[a].link \in Nat /\ m[a].link < a /\ m[a].link \in 0..MaxNotes
<1>1. a \in 1..MaxNotes /\ MaxNotes \in Nat
  BY NotesAssumption
<1>2. m[a] \in Frames /\ m[a].link < a
  BY <1>1 DEF Linked
<1> QED
  BY <1>1, <1>2 DEF Frames

\* The frames in memory are followed link by link.
LEMMA ChainIs ==
  ASSUME NEW m, Linked(m), NEW b \in 0..MaxNotes
  PROVE  ChainFrom(m, b) = IF b = 0 \/ m[b] = NoFrame THEN <<>>
                             ELSE <<m[b].regs>> \o ChainFrom(m, m[b].link)
<1> DEFINE n == MaxNotes
           Next1(f, a) == <<m[a].regs>> \o f[m[a].link]
           Step(f, a) == IF a = 0 \/ m[a] = NoFrame THEN <<>> ELSE Next1(f, a)
           From(f, k) == f = [a \in 0..k |-> Step(f, a)]
<1>0. n \in Nat
  BY NotesAssumption
<1>a. \A a \in 0..n : a # 0 /\ m[a] # NoFrame => m[a].link \in Nat /\ m[a].link < a /\ m[a].link \in 0..n
  BY LinkIs
<1> HIDE DEF n
<1>1. \E f : From(f, n)
  <2> DEFINE S == {k \in Nat : k <= n => \E f : From(f, k)}
  <2>1. 0 \in S
    <3> DEFINE f == [a \in 0..0 |-> <<>>]
    <3>1. From(f, 0)
      BY DEF f
    <3> QED
      BY <3>1
  <2>2. ASSUME NEW k \in Nat, k \in S PROVE k + 1 \in S
    <3> SUFFICES ASSUME k + 1 <= n PROVE \E f : From(f, k + 1)
      <4> HIDE DEF From
      <4> QED
        OBVIOUS
    <3>1. PICK f : From(f, k)
      <4>1. k <= n
        BY <1>0
      <4> QED
        BY <2>2, <4>1
    <3> DEFINE g == [a \in 0..(k + 1) |-> IF a = k + 1 THEN Step(f, a) ELSE f[a]]
    <3>2. ASSUME NEW a \in 0..(k + 1) PROVE g[a] = Step(g, a)
      <4>1. a \in 0..n
        BY <1>0
      <4>2. a # 0 /\ m[a] # NoFrame => g[m[a].link] = f[m[a].link]
        <5>1. a # 0 /\ m[a] # NoFrame => m[a].link \in 0..k /\ m[a].link # k + 1 /\ m[a].link \in 0..(k + 1)
          BY <1>a, <4>1
        <5> QED
          BY <5>1
      <4>3. Step(g, a) = Step(f, a)
        <5> HIDE DEF g
        <5> QED
          BY <4>2
      <4>4. a # k + 1 => a \in 0..k
        OBVIOUS
      <4>5. a # k + 1 => f[a] = Step(f, a)
        <5> HIDE DEF Step
        <5> QED
          BY <3>1, <4>4
      <4>6. g[a] = IF a = k + 1 THEN Step(f, a) ELSE f[a]
        OBVIOUS
      <4> HIDE DEF Step, g
      <4> QED
        BY <4>3, <4>5, <4>6
    <3>3. g = [a \in 0..(k + 1) |-> g[a]]
      OBVIOUS
    <3> HIDE DEF g, Step
    <3>4. From(g, k + 1)
      BY <3>2, <3>3
    <3> HIDE DEF From
    <3> QED
      BY <3>4
  <2> HIDE DEF S
  <2>3. n \in S
    BY <1>0, <2>1, <2>2, Induction
  <2> HIDE DEF From
  <2> QED
    BY <1>0, <2>3 DEF S
<1> DEFINE it == CHOOSE f : From(f, n)
<1>2. From(it, n)
  BY <1>1, Zenon
<1>3. \A a : ChainFrom(m, a) = it[a]
  BY DEF ChainFrom, n
<1> HIDE DEF it
<1>4. \A a \in 0..n : it[a] = Step(it, a)
  <2> HIDE DEF Step
  <2> QED
    BY <1>2
<1> QED
  BY <1>3, <1>4 DEF n

\* A chain is a sequence of register sets.
LEMMA ChainType ==
  ASSUME NEW m, Linked(m)
  PROVE  \A a \in 0..MaxNotes : ChainFrom(m, a) \in Seq(Regs)
<1> DEFINE S == {k \in Nat : \A a \in 0..MaxNotes : a <= k => ChainFrom(m, a) \in Seq(Regs)}
<1>0. MaxNotes \in Nat
  BY NotesAssumption
<1>1. 0 \in S
  <2>1. \A a \in 0..MaxNotes : a <= 0 => a = 0
    BY <1>0
  <2>2. \A a \in 0..MaxNotes : a = 0 => ChainFrom(m, a) = <<>>
    BY ChainIs
  <2>3. <<>> \in Seq(Regs)
    OBVIOUS
  <2> QED
    BY <2>1, <2>2, <2>3
<1>2. ASSUME NEW k \in Nat, k \in S PROVE k + 1 \in S
  <2> SUFFICES ASSUME NEW a \in 0..MaxNotes, a <= k + 1 PROVE ChainFrom(m, a) \in Seq(Regs)
    OBVIOUS
  <2>1. CASE a = 0 \/ m[a] = NoFrame
    <3>1. ChainFrom(m, a) = <<>>
      BY <2>1, ChainIs
    <3>2. <<>> \in Seq(Regs)
      OBVIOUS
    <3> QED
      BY <3>1, <3>2
  <2>2. CASE a # 0 /\ m[a] # NoFrame
    <3>1. /\ m[a].regs \in Regs /\ m[a].link \in Nat /\ m[a].link < a /\ m[a].link \in 0..MaxNotes
      BY <2>2, LinkIs
    <3>2. m[a].link <= k
      BY <3>1
    <3>3. ChainFrom(m, m[a].link) \in Seq(Regs)
      BY <1>2, <3>1, <3>2
    <3>4. ChainFrom(m, a) = <<m[a].regs>> \o ChainFrom(m, m[a].link)
      BY <2>2, ChainIs
    <3> QED
      BY <3>1, <3>3, <3>4
  <2> QED
    BY <2>1, <2>2
<1> HIDE DEF S
<1>3. MaxNotes \in S
  BY <1>0, <1>1, <1>2, Induction
<1> QED
  BY <1>0, <1>3 DEF S

\* What is above a frame is on no chain that starts there.
LEMMA ChainAgree ==
  ASSUME NEW m, Linked(m), NEW q, Linked(q), NEW n \in 0..MaxNotes,
         \A a \in 1..n : q[a] = m[a]
  PROVE  \A a \in 0..n : ChainFrom(q, a) = ChainFrom(m, a)
<1> DEFINE S == {k \in Nat : \A a \in 0..n : a <= k => ChainFrom(q, a) = ChainFrom(m, a)}
<1>0. MaxNotes \in Nat /\ n \in Nat /\ n <= MaxNotes
  BY NotesAssumption
<1>1. 0 \in S
  <2>1. \A a \in 0..n : a <= 0 => a = 0 /\ a \in 0..MaxNotes
    BY <1>0
  <2>2. \A a \in 0..n : a <= 0 => ChainFrom(m, a) = <<>> /\ ChainFrom(q, a) = <<>>
    BY <2>1, ChainIs
  <2> QED
    BY <2>2
<1>2. ASSUME NEW k \in Nat, k \in S PROVE k + 1 \in S
  <2> SUFFICES ASSUME NEW a \in 0..n, a <= k + 1 PROVE ChainFrom(q, a) = ChainFrom(m, a)
    OBVIOUS
  <2>0. a \in 0..MaxNotes
    BY <1>0
  <2>1. CASE a = 0
    BY <2>0, <2>1, ChainIs
  <2>2. CASE a # 0
    <3>1. q[a] = m[a]
      BY <2>2
    <3>2. CASE m[a] = NoFrame
      BY <2>0, <3>1, <3>2, ChainIs
    <3>3. CASE m[a] # NoFrame
      <4>1. m[a].link \in Nat /\ m[a].link < a
        BY <2>0, <2>2, <3>3, LinkIs
      <4>2. m[a].link <= k /\ m[a].link \in 0..n
        BY <1>0, <4>1
      <4>3. ChainFrom(q, m[a].link) = ChainFrom(m, m[a].link)
        BY <1>2, <4>2
      <4>4. /\ ChainFrom(m, a) = <<m[a].regs>> \o ChainFrom(m, m[a].link)
            /\ ChainFrom(q, a) = <<q[a].regs>> \o ChainFrom(q, q[a].link)
        BY <2>0, <2>2, <3>1, <3>3, ChainIs
      <4> QED
        BY <3>1, <4>3, <4>4
    <3> QED
      BY <3>2, <3>3
  <2> QED
    BY <2>1, <2>2
<1> HIDE DEF S
<1>3. n \in S
  BY <1>0, <1>1, <1>2, Induction
<1> QED
  BY <1>0, <1>3 DEF S

\* The newest frame, and those under it.
LEMMA ChainTop ==
  ASSUME NEW m, Linked(m), NEW u \in 1..MaxNotes, m[u] # NoFrame
  PROVE  /\ ChainFrom(m, u) = <<m[u].regs>> \o ChainFrom(m, m[u].link)
         /\ ChainFrom(m, u) # <<>> /\ ChainFrom(m, u)[1] = m[u].regs
         /\ Tail(ChainFrom(m, u)) = ChainFrom(m, m[u].link)
<1>0. u \in 0..MaxNotes /\ u # 0
  BY NotesAssumption
<1>1. ChainFrom(m, u) = <<m[u].regs>> \o ChainFrom(m, m[u].link)
  BY <1>0, ChainIs
<1>2. PICK r : r = m[u].regs
  OBVIOUS
<1>3. PICK c : c = ChainFrom(m, m[u].link)
  OBVIOUS
<1>4. r \in Regs /\ c \in Seq(Regs)
  BY <1>0, <1>2, <1>3, LinkIs, ChainType
<1>5. <<r>> \o c # <<>> /\ (<<r>> \o c)[1] = r /\ Tail(<<r>> \o c) = c
  BY <1>4
<1> QED
  BY <1>1, <1>2, <1>3, <1>5

\* Frames are linked up the stack, and never overwritten while they are linked.
FramesOK ==
  \A a \in 1..MaxNotes : mem[a] # NoFrame =>
    /\ mem[a].regs.sp = a - 1
    /\ mem[a].link # 0 => mem[mem[a].link] # NoFrame

\* The stack pointer is at the newest frame, or where its owner resumed; every
\* frame under it is for a note that was posted, and has left the queue.
StackOK ==
  /\ ureg <= regs.sp /\ regs.sp + Len(note) <= posted
  /\ notified => ureg # 0 /\ regs.sp = ureg
  /\ regs.sys = UserFlags

NotesInv == NotesTypeOK /\ FramesOK /\ StackOK

\* The parts of TypeOK.
MemoryTypes == Linked(mem) /\ ureg \in 0..MaxNotes /\ (ureg # 0 => mem[ureg] # NoFrame)
QueueTypes  == /\ note \in Seq(Flags) /\ Len(note) <= NNOTE /\ posted \in 0..MaxNotes
               /\ (upc = "notify" => note # <<>>)
StateTypes  == /\ upc \in {"user", "syscall", "noted", "check", "trap", "notify", "dead"}
               /\ call \in SysCalls \cup {"none"} /\ notified \in BOOLEAN /\ notify \in BOOLEAN

LEMMA NotesTypesAre == NotesTypeOK <=> MemoryTypes /\ QueueTypes /\ StateTypes /\ regs \in Regs
BY DEF NotesTypeOK, MemoryTypes, QueueTypes, StateTypes, Linked

\* A new process.
LEMMA NotesStart ==
  ASSUME NotesInit
  PROVE  NotesInv
<1>1. PICK c \in Codes : regs = [code |-> c, sys |-> UserFlags, sp |-> 0]
  BY DEF NotesInit
<1>2. regs \in Regs /\ regs.sp = 0 /\ regs.sys = UserFlags
  BY <1>1, NotesAssumption DEF Regs
<1>3. MemoryTypes /\ FramesOK
  BY NotesAssumption DEF NotesInit, MemoryTypes, Linked, FramesOK
<1>4. QueueTypes /\ StateTypes
  <2>1. note = <<>> /\ posted = 0 /\ upc = "user" /\ call = "none" /\ notified = FALSE /\ notify = FALSE
    BY DEF NotesInit
  <2>2. NNOTE \in Nat /\ MaxNotes \in Nat
    BY NotesAssumption
  <2>3. note \in Seq(Flags) /\ Len(note) = 0
    BY <2>1
  <2>4. QueueTypes
    BY <2>1, <2>2, <2>3 DEF QueueTypes
  <2> QED
    BY <2>1, <2>4 DEF StateTypes
<1>5. StackOK
  BY <1>2 DEF NotesInit, StackOK
<1> QED
  BY <1>2, <1>3, <1>4, <1>5, NotesTypesAre DEF NotesInv

\* Steps that leave the stack, the queue and the stack pointer alone.
LEMMA CalmStep ==
  ASSUME NotesInv, UNCHANGED <<mem, ureg, note, posted, notified>>,
         regs' = regs \/ \E c \in Codes : regs' = [regs EXCEPT !.code = c],
         StateTypes', upc' = "notify" => note # <<>>
  PROVE  NotesInv'
<1>1. MemoryTypes /\ QueueTypes /\ StateTypes /\ regs \in Regs
  BY NotesTypesAre DEF NotesInv
<1>2. regs' \in Regs /\ regs'.sp = regs.sp /\ regs'.sys = regs.sys
  BY <1>1 DEF Regs
<1>3. MemoryTypes' /\ QueueTypes'
  BY <1>1 DEF MemoryTypes, QueueTypes, Linked
<1>4. FramesOK' /\ StackOK'
  BY <1>2 DEF NotesInv, FramesOK, StackOK
<1>5. NotesTypeOK'
  BY <1>2, <1>3 DEF NotesTypeOK, MemoryTypes, QueueTypes, StateTypes, Linked
<1> QED
  BY <1>4, <1>5 DEF NotesInv

\* postnote: the queue grows by one note at most.
LEMMA PostedStep ==
  ASSUME NotesInv, NEW flag \in Flags, posted < MaxNotes,
         note' = Posted(flag), posted' = posted + 1, UNCHANGED <<call, regs, mem, ureg, notified, notify>>,
         upc' = upc \/ upc' = "trap"
  PROVE  NotesInv'
<1>1. MemoryTypes /\ QueueTypes /\ StateTypes /\ regs \in Regs /\ FramesOK /\ StackOK
  BY NotesTypesAre DEF NotesInv
<1>2. note' \in Seq(Flags) /\ Len(note') <= Len(note) + 1 /\ Len(note') <= NNOTE /\ (note # <<>> => note' # <<>>)
  <2>1. note \in Seq(Flags) /\ NNOTE \in Nat \ {0} /\ Len(note) <= NNOTE
    BY <1>1, NotesAssumption DEF QueueTypes
  <2>2. PICK q : q = IF flag # "NUser" /\ (~notify \/ notified) THEN <<>> ELSE note
    OBVIOUS
  <2>3. note' = IF Len(q) < NNOTE THEN Append(q, flag) ELSE q
    BY <2>2 DEF Posted
  <2>4. q \in Seq(Flags) /\ Len(q) <= Len(note) /\ Len(q) \in Nat
    BY <2>1, <2>2
  <2>5. CASE Len(q) < NNOTE
    BY <2>1, <2>3, <2>4, <2>5
  <2>6. CASE ~(Len(q) < NNOTE)
    <3>1. Len(q) >= 1
      BY <2>1, <2>4, <2>6
    <3> QED
      BY <2>1, <2>3, <2>4, <2>6, <3>1
  <2> QED
    BY <2>5, <2>6
<1>3. regs.sp \in Nat /\ Len(note) \in Nat /\ posted \in Nat /\ Len(note') \in Nat /\ MaxNotes \in Nat
  BY <1>1, <1>2, NotesAssumption DEF QueueTypes, Regs
<1>4. MemoryTypes' /\ FramesOK'
  BY <1>1 DEF MemoryTypes, Linked, FramesOK
<1>5. QueueTypes' /\ StateTypes'
  BY <1>1, <1>2, <1>3 DEF QueueTypes, StateTypes
<1>6. StackOK'
  BY <1>1, <1>2, <1>3 DEF StackOK
<1>7. NotesTypeOK'
  BY <1>1, <1>4, <1>5 DEF NotesTypeOK, MemoryTypes, QueueTypes, StateTypes, Linked
<1> QED
  BY <1>4, <1>6, <1>7 DEF NotesInv

\* q is m, with the registers r in the frame at u.
Rewritten(q, m, u, r) ==
  /\ q[u].regs = r /\ q[u].link = m[u].link /\ q[u] # NoFrame
  /\ \A a \in 1..MaxNotes : a # u => q[a] = m[a]

\* Only the registers of a frame in use change.
LEMMA RewriteFrame ==
  ASSUME NEW m, Linked(m), NEW u \in 1..MaxNotes, m[u] # NoFrame, NEW r \in Regs,
         NEW q, q = [m EXCEPT ![u].regs = r]
  PROVE  Linked(q) /\ Rewritten(q, m, u, r)
<1>1. PICK x : x = m[u]
  OBVIOUS
<1>2. x \in Frames /\ x.link < u
  BY <1>1 DEF Linked
<1>3. PICK y : y = [x EXCEPT !.regs = r]
  OBVIOUS
<1>4. y \in Frames /\ y.regs = r /\ y.link = x.link
  BY <1>2, <1>3 DEF Frames
<1>5. y # NoFrame
  BY <1>4, NotesAssumption
<1>6. q = [m EXCEPT ![u] = y]
  BY <1>1, <1>3
<1>7. m \in [1..MaxNotes -> Frames \cup {NoFrame}] /\ \A a \in 1..MaxNotes : m[a] # NoFrame => m[a].link < a
  BY DEF Linked
<1>8. q[u] = y /\ \A a \in 1..MaxNotes : a # u => q[a] = m[a]
  BY <1>6, <1>7
<1>9. q \in [1..MaxNotes -> Frames \cup {NoFrame}]
  BY <1>4, <1>6, <1>7
<1>10. ASSUME NEW a \in 1..MaxNotes, q[a] # NoFrame PROVE q[a].link < a
  BY <1>2, <1>4, <1>7, <1>8, <1>10
<1>11. Linked(q)
  BY <1>9, <1>10 DEF Linked
<1>12. Rewritten(q, m, u, r)
  BY <1>1, <1>4, <1>5, <1>8 DEF Rewritten
<1> QED
  BY <1>11, <1>12

\* A rewrite that keeps the stack pointer keeps FramesOK.
LEMMA RewriteKeeps ==
  ASSUME MemoryTypes, FramesOK, NEW r, Linked(mem'), ureg # 0, Rewritten(mem', mem, ureg, r), r.sp = ureg - 1
  PROVE  FramesOK' /\ \A a \in 1..MaxNotes : mem[a] # NoFrame => mem'[a] # NoFrame /\ mem'[a].link = mem[a].link
<1>1. \A a \in 1..MaxNotes : /\ mem'[a] # NoFrame <=> mem[a] # NoFrame
                             /\ mem[a] # NoFrame => mem'[a].link = mem[a].link
                             /\ a # ureg => mem'[a] = mem[a]
  BY DEF Rewritten, MemoryTypes
<1>2. ASSUME NEW a \in 1..MaxNotes, mem'[a] # NoFrame
      PROVE  mem'[a].regs.sp = a - 1 /\ (mem'[a].link # 0 => mem'[mem'[a].link] # NoFrame)
  <2>1. mem[a] # NoFrame /\ mem'[a].link = mem[a].link /\ mem[a].link \in 0..MaxNotes
    BY <1>1, <1>2 DEF MemoryTypes, Linked, Frames
  <2>2. mem[a].regs.sp = a - 1 /\ (mem[a].link # 0 => mem[mem[a].link] # NoFrame)
    BY <2>1 DEF FramesOK
  <2>3. mem[a].link # 0 => mem[a].link \in 1..MaxNotes
    BY <2>1
  <2>4. mem'[a].regs.sp = a - 1
    BY <1>1, <2>2 DEF Rewritten
  <2> QED
    BY <1>1, <2>1, <2>2, <2>3, <2>4
<1>3. FramesOK'
  BY <1>2 DEF FramesOK
<1> QED
  BY <1>1, <1>3

\* The frame up->ureg points at.
LEMMA TopIs ==
  ASSUME NotesInv, ureg # 0
  PROVE  /\ ureg \in 1..MaxNotes /\ mem[ureg] # NoFrame /\ Linked(mem) /\ mem[ureg] \in Frames
         /\ mem[ureg].regs \in Regs /\ mem[ureg].regs.sp = ureg - 1
         /\ mem[ureg].link \in 0..MaxNotes /\ mem[ureg].link < ureg
         /\ mem[ureg].link # 0 => mem[mem[ureg].link] # NoFrame
<1>1. MemoryTypes /\ FramesOK
  BY NotesTypesAre DEF NotesInv
<1>2. ureg \in 1..MaxNotes /\ ureg \in 0..MaxNotes /\ mem[ureg] # NoFrame /\ Linked(mem)
  BY <1>1, NotesAssumption DEF MemoryTypes
<1>3. /\ mem[ureg] \in Frames /\ mem[ureg].regs \in Regs /\ mem[ureg].link < ureg /\ mem[ureg].link \in 0..MaxNotes
  BY <1>2, LinkIs
<1> QED
  BY <1>1, <1>2, <1>3 DEF FramesOK

\* Edit, as one rewrite of the newest frame.
LEMMA EditIs ==
  ASSUME NotesInv, Edit
  PROVE  \E c \in Codes, f \in SysFlags :
           mem' = [mem EXCEPT ![ureg].regs = [mem[ureg].regs EXCEPT !.code = c, !.sys = f]]
<1>1. PICK c \in Codes, f \in SysFlags : mem' = [mem EXCEPT ![ureg].regs.code = c, ![ureg].regs.sys = f]
  BY DEF Edit
<1>2. ureg # 0
  BY DEF Edit
<1>3. ureg \in 1..MaxNotes /\ mem[ureg] \in Frames /\ mem[ureg].regs \in Regs /\ Linked(mem)
  BY <1>2, TopIs
<1>4. mem \in [1..MaxNotes -> Frames \cup {NoFrame}]
  BY <1>3 DEF Linked
<1>5. [mem EXCEPT ![ureg].regs.code = c, ![ureg].regs.sys = f]
      = [mem EXCEPT ![ureg].regs = [mem[ureg].regs EXCEPT !.code = c, !.sys = f]]
  BY <1>3, <1>4 DEF Frames, Regs
<1> QED
  BY <1>1, <1>5

\* A handler that edits its registers keeps the invariant.
LEMMA EditStep ==
  ASSUME NotesInv, Edit
  PROVE  NotesInv'
<1>1. PICK c \in Codes, f \in SysFlags :
        mem' = [mem EXCEPT ![ureg].regs = [mem[ureg].regs EXCEPT !.code = c, !.sys = f]]
  BY EditIs
<1>2. PICK r : r = [mem[ureg].regs EXCEPT !.code = c, !.sys = f]
  OBVIOUS
<1>3. ureg # 0 /\ UNCHANGED <<upc, call, regs, ureg, note, notified, notify, posted>>
  BY DEF Edit
<1>4. /\ ureg \in 1..MaxNotes /\ mem[ureg] # NoFrame /\ Linked(mem)
      /\ mem[ureg].regs \in Regs /\ mem[ureg].regs.sp = ureg - 1
  BY <1>3, TopIs
<1>5. r \in Regs /\ r.sp = ureg - 1
  BY <1>2, <1>4 DEF Regs
<1>6. Linked(mem') /\ Rewritten(mem', mem, ureg, r)
  BY <1>1, <1>2, <1>4, <1>5, RewriteFrame
<1>7. MemoryTypes /\ QueueTypes /\ StateTypes /\ regs \in Regs /\ FramesOK /\ StackOK
  BY NotesTypesAre DEF NotesInv
<1>8. FramesOK' /\ mem'[ureg] # NoFrame
  BY <1>3, <1>5, <1>6, <1>7, RewriteKeeps DEF Rewritten
<1>9. MemoryTypes'
  BY <1>3, <1>6, <1>7, <1>8 DEF MemoryTypes, Linked
<1>10. QueueTypes' /\ StateTypes' /\ StackOK'
  BY <1>3, <1>7 DEF QueueTypes, StateTypes, StackOK
<1>11. NotesTypeOK'
  BY <1>3, <1>7, <1>9, <1>10 DEF NotesTypeOK, MemoryTypes, QueueTypes, StateTypes, Linked
<1> QED
  BY <1>8, <1>10, <1>11 DEF NotesInv

\* What noted takes from the frame, and puts back in it.
LEMMA UserRegsAre ==
  ASSUME NotesInv, ureg # 0
  PROVE  /\ UserRegs \in Regs /\ UserRegs.sp = ureg - 1 /\ UserRegs.sys = UserFlags
         /\ UserRegs = [mem[ureg].regs EXCEPT !.sys = UserFlags]
<1>1. mem[ureg].regs \in Regs /\ mem[ureg].regs.sp = ureg - 1
  BY TopIs
<1>2. regs.sys = UserFlags /\ UserFlags \in SysFlags
  BY NotesAssumption DEF NotesInv, StackOK
<1> QED
  BY <1>1, <1>2 DEF UserRegs, Regs

\* noted, when it resumes and when it saves.
LEMMA NotedStep ==
  ASSUME NotesInv, Resume \/ Save
  PROVE  NotesInv'
<1>1. /\ ureg # 0 /\ mem' = [mem EXCEPT ![ureg].regs = UserRegs] /\ notified' = FALSE /\ upc' = "check"
      /\ UNCHANGED <<call, note, notify, posted>>
      /\ \/ Resume /\ regs' = UserRegs /\ ureg' = mem[ureg].link
         \/ Save /\ notified /\ regs' = [UserRegs EXCEPT !.sp = ureg] /\ ureg' = ureg
  BY DEF Resume, Save
<1>2. PICK r : r = UserRegs
  OBVIOUS
<1>3. r \in Regs /\ r.sp = ureg - 1 /\ r.sys = UserFlags
  BY <1>1, <1>2, UserRegsAre
<1>4. /\ ureg \in 1..MaxNotes /\ ureg \in Nat /\ mem[ureg] # NoFrame /\ Linked(mem)
      /\ mem[ureg].link \in 0..MaxNotes /\ mem[ureg].link < ureg
      /\ mem[ureg].link # 0 => mem[mem[ureg].link] # NoFrame
  BY <1>1, TopIs
<1>5. Linked(mem') /\ Rewritten(mem', mem, ureg, r)
  BY <1>1, <1>2, <1>3, <1>4, RewriteFrame
<1>6. MemoryTypes /\ QueueTypes /\ StateTypes /\ regs \in Regs /\ FramesOK /\ StackOK
  BY NotesTypesAre DEF NotesInv
<1>7. FramesOK' /\ \A a \in 1..MaxNotes : mem[a] # NoFrame => mem'[a] # NoFrame
  BY <1>1, <1>3, <1>5, <1>6, RewriteKeeps
<1>8. ureg' \in 0..MaxNotes /\ (ureg' # 0 => mem'[ureg'] # NoFrame) /\ ureg' <= ureg
  <2>1. ureg' \in {ureg, mem[ureg].link}
    BY <1>1
  <2>2. mem[ureg].link # 0 => mem[ureg].link \in 1..MaxNotes
    BY <1>4
  <2> QED
    BY <1>4, <1>7, <2>1, <2>2
<1>9. MemoryTypes'
  BY <1>5, <1>8 DEF MemoryTypes, Linked
<1>10. QueueTypes' /\ StateTypes'
  BY <1>1, <1>6 DEF QueueTypes, StateTypes
<1>11. regs' \in Regs /\ regs'.sys = UserFlags /\ ureg' <= regs'.sp /\ regs'.sp <= ureg
  <2>1. CASE regs' = r /\ ureg' = mem[ureg].link
    <3>1. ureg' \in Nat /\ ureg' < ureg
      BY <1>4, <2>1
    <3> QED
      BY <1>3, <1>4, <2>1, <3>1
  <2>2. CASE regs' = [r EXCEPT !.sp = ureg] /\ ureg' = ureg
    <3>1. regs' \in Regs /\ regs'.sys = UserFlags /\ regs'.sp = ureg
      BY <1>3, <1>4, <2>2 DEF Regs
    <3> QED
      BY <1>4, <2>2, <3>1
  <2> QED
    BY <1>1, <1>2, <2>1, <2>2
<1>12. StackOK'
  <2>1. ureg <= regs.sp /\ regs.sp + Len(note) <= posted /\ regs.sp \in Nat /\ Len(note) \in Nat /\ posted \in Nat
    BY <1>6 DEF StackOK, QueueTypes, Regs
  <2>2. regs'.sp \in Nat
    BY <1>11 DEF Regs
  <2>3. regs'.sp + Len(note') <= posted'
    BY <1>1, <1>4, <1>11, <2>1, <2>2
  <2> QED
    BY <1>1, <1>11, <2>3 DEF StackOK
<1>13. NotesTypeOK'
  BY <1>9, <1>10, <1>11 DEF NotesTypeOK, MemoryTypes, QueueTypes, StateTypes, Linked
<1> QED
  BY <1>7, <1>12, <1>13 DEF NotesInv

\* There is room for the frame of a note that has been posted.
LEMMA PushIs ==
  ASSUME NotesInv, NotifyPush
  PROVE  /\ regs.sp + 1 \in 1..MaxNotes /\ ureg < regs.sp + 1 /\ ureg \in 0..MaxNotes /\ regs \in Regs
         /\ upc = "notify" /\ note # <<>> /\ note \in Seq(Flags) /\ Linked(mem)
         /\ mem' = [mem EXCEPT ![regs.sp + 1] = [regs |-> regs, link |-> ureg]]
         /\ ureg' = regs.sp + 1 /\ regs' = [regs EXCEPT !.code = Handler, !.sp = regs.sp + 1]
         /\ note' = Tail(note) /\ notified' = TRUE /\ upc' = "user" /\ UNCHANGED <<call, notify, posted>>
<1>1. MemoryTypes /\ QueueTypes /\ StateTypes /\ regs \in Regs /\ FramesOK /\ StackOK
  BY NotesTypesAre DEF NotesInv
<1>2. /\ upc = "notify"
      /\ mem' = [mem EXCEPT ![regs.sp + 1] = [regs |-> regs, link |-> ureg]]
      /\ ureg' = regs.sp + 1 /\ regs' = [regs EXCEPT !.code = Handler, !.sp = regs.sp + 1]
      /\ note' = Tail(note) /\ notified' = TRUE /\ upc' = "user" /\ UNCHANGED <<call, notify, posted>>
  BY DEF NotifyPush
<1>3. note # <<>> /\ note \in Seq(Flags) /\ posted \in 0..MaxNotes
  BY <1>1, <1>2 DEF QueueTypes
<1>4. Len(note) \in Nat /\ Len(note) >= 1 /\ regs.sp \in Nat /\ posted \in Nat /\ posted <= MaxNotes /\ MaxNotes \in Nat
  BY <1>1, <1>3, NotesAssumption DEF Regs
<1>5. regs.sp + Len(note) <= posted /\ ureg <= regs.sp /\ ureg \in 0..MaxNotes
  BY <1>1 DEF StackOK, MemoryTypes
<1>6. regs.sp + 1 \in 1..MaxNotes /\ ureg < regs.sp + 1
  BY <1>4, <1>5
<1> QED
  BY <1>1, <1>2, <1>3, <1>5, <1>6 DEF MemoryTypes

\* q is m, with the registers s and the link u in a new frame at n.
Pushed(q, m, n, s, u) ==
  /\ q[n].regs = s /\ q[n].link = u /\ q[n] # NoFrame
  /\ \A a \in 1..MaxNotes : a # n => q[a] = m[a]

\* A frame above all others, linked to one under it.
LEMMA PushedFrame ==
  ASSUME NEW m, Linked(m), NEW s \in Regs, NEW u \in 0..MaxNotes, NEW n \in 1..MaxNotes, u < n,
         NEW q, q = [m EXCEPT ![n] = [regs |-> s, link |-> u]]
  PROVE  Linked(q) /\ Pushed(q, m, n, s, u)
<1>1. PICK x : x = [regs |-> s, link |-> u]
  OBVIOUS
<1>2. x \in Frames /\ x.regs = s /\ x.link = u
  BY <1>1 DEF Frames
<1>3. x # NoFrame
  BY <1>2, NotesAssumption
<1>4. m \in [1..MaxNotes -> Frames \cup {NoFrame}] /\ \A a \in 1..MaxNotes : m[a] # NoFrame => m[a].link < a
  BY DEF Linked
<1>5. q[n] = x /\ (\A a \in 1..MaxNotes : a # n => q[a] = m[a]) /\ q \in [1..MaxNotes -> Frames \cup {NoFrame}]
  BY <1>1, <1>2, <1>4
<1>6. \A a \in 1..MaxNotes : q[a] # NoFrame => q[a].link < a
  BY <1>2, <1>4, <1>5
<1> QED
  BY <1>2, <1>3, <1>5, <1>6 DEF Linked, Pushed

\* notify, when it delivers a note.
LEMMA PushStep ==
  ASSUME NotesInv, NotifyPush
  PROVE  NotesInv'
<1>1. PICK n : n = regs.sp + 1
  OBVIOUS
<1>2. /\ n \in 1..MaxNotes /\ ureg < n /\ ureg \in 0..MaxNotes /\ regs \in Regs
      /\ note # <<>> /\ note \in Seq(Flags) /\ Linked(mem)
      /\ mem' = [mem EXCEPT ![n] = [regs |-> regs, link |-> ureg]]
      /\ ureg' = n /\ regs' = [regs EXCEPT !.code = Handler, !.sp = n]
      /\ note' = Tail(note) /\ notified' = TRUE /\ upc' = "user" /\ UNCHANGED <<call, notify, posted>>
  BY <1>1, PushIs
<1>3. Linked(mem') /\ Pushed(mem', mem, n, regs, ureg)
  BY <1>2, PushedFrame
<1>4. MemoryTypes /\ QueueTypes /\ StateTypes /\ FramesOK /\ StackOK
  BY NotesTypesAre DEF NotesInv
<1>5. regs.sp \in Nat /\ n \in Nat /\ MaxNotes \in Nat /\ regs.sp = n - 1
  BY <1>1, <1>2, NotesAssumption DEF Regs
<1>6. ASSUME NEW a \in 1..MaxNotes, mem'[a] # NoFrame
      PROVE  mem'[a].regs.sp = a - 1 /\ (mem'[a].link # 0 => mem'[mem'[a].link] # NoFrame)
  <2>1. CASE a = n
    <3>1. ureg # 0 => ureg \in 1..MaxNotes /\ mem[ureg] # NoFrame
      BY <1>2, <1>4 DEF MemoryTypes
    <3> QED
      BY <1>3, <1>5, <2>1, <3>1 DEF Pushed
  <2>2. CASE a # n
    <3>1. mem'[a] = mem[a] /\ mem[a] # NoFrame
      BY <1>3, <1>6, <2>2 DEF Pushed
    <3>2. mem[a].regs.sp = a - 1 /\ (mem[a].link # 0 => mem[mem[a].link] # NoFrame)
      BY <1>4, <3>1 DEF FramesOK
    <3>3. a \in 0..MaxNotes /\ a # 0
      BY <1>5
    <3>4. mem[a].link # 0 => mem[a].link \in 1..MaxNotes
      BY <1>2, <3>1, <3>3, LinkIs
    <3> QED
      BY <1>3, <3>1, <3>2, <3>4 DEF Pushed
  <2> QED
    BY <2>1, <2>2
<1>7. FramesOK'
  BY <1>6 DEF FramesOK
<1>8. MemoryTypes'
  BY <1>2, <1>3, <1>5 DEF MemoryTypes, Linked, Pushed
<1>9. regs' \in Regs /\ regs'.sp = n /\ regs'.sys = regs.sys
  <2>1. n \in 0..MaxNotes /\ Handler \in Codes
    BY <1>2, <1>5, NotesAssumption
  <2>2. PICK s : s = regs
    OBVIOUS
  <2>3. s \in Regs /\ regs' = [s EXCEPT !.code = Handler, !.sp = n]
    BY <1>2, <2>2
  <2>4. regs' \in Regs /\ regs'.sp = n /\ regs'.sys = s.sys
    BY <2>1, <2>3 DEF Regs
  <2> QED
    BY <2>2, <2>4
<1>10. note' \in Seq(Flags) /\ Len(note') = Len(note) - 1 /\ Len(note) \in Nat
  BY <1>2
<1>11. NNOTE \in Nat
  BY NotesAssumption
<1>12. QueueTypes' /\ StateTypes'
  BY <1>2, <1>4, <1>10, <1>11 DEF QueueTypes, StateTypes
<1>13. StackOK'
  <2>1. regs.sp + Len(note) <= posted /\ posted \in Nat /\ regs.sys = UserFlags
    BY <1>4 DEF StackOK, QueueTypes
  <2>2. n + Len(note') <= posted
    BY <1>5, <1>10, <2>1
  <2> QED
    BY <1>2, <1>5, <1>9, <2>1, <2>2 DEF StackOK
<1>14. NotesTypeOK'
  BY <1>8, <1>9, <1>12 DEF NotesTypeOK, MemoryTypes, QueueTypes, StateTypes, Linked
<1> QED
  BY <1>7, <1>13, <1>14 DEF NotesInv

\* Every step keeps the invariant.
LEMMA NotesStep ==
  ASSUME NotesInv, [NotesNext]_(notesVars)
  PROVE  NotesInv'
<1>1. QueueTypes /\ StateTypes
  BY NotesTypesAre DEF NotesInv
<1>2. CASE Compute
  <2>1. /\ UNCHANGED <<upc, call, mem, ureg, note, notified, notify, posted>>
        /\ \E c \in Codes : regs' = [regs EXCEPT !.code = c]
    BY <1>2 DEF Compute
  <2>2. StateTypes' /\ (upc' = "notify" => note # <<>>)
    BY <1>1, <2>1 DEF StateTypes, QueueTypes
  <2> QED
    BY <2>1, <2>2, CalmStep
<1>3. CASE Edit
  BY <1>3, EditStep
<1>4. CASE Syscall \/ ClockTick \/ TrapEnd \/ SyscallEnd \/ NotedSuicide \/ NotifySuicide \/ NotifyLater
  <2>1. UNCHANGED <<mem, ureg, note, posted, notified, notify, regs>>
    BY <1>4 DEF Syscall, ClockTick, TrapEnd, SyscallEnd, NotedSuicide, NotifySuicide, NotifyLater, Pexit
  <2>2. /\ upc' \in {"syscall", "trap", "user", "notify", "dead"} /\ call' \in SysCalls \cup {"none"}
        /\ upc' = "notify" => note # <<>>
    BY <1>1, <1>4 DEF Syscall, ClockTick, TrapEnd, SyscallEnd, NotedSuicide, NotifySuicide, NotifyLater,
                      Pexit, StateTypes
  <2>3. StateTypes'
    BY <1>1, <2>1, <2>2 DEF StateTypes
  <2> QED
    BY <2>1, <2>2, <2>3, CalmStep
<1>5. CASE Fault
  <2>1. /\ posted < MaxNotes /\ note' = Posted("NDebug") /\ posted' = posted + 1 /\ upc' = "trap"
        /\ UNCHANGED <<call, regs, mem, ureg, notified, notify>>
    BY <1>5 DEF Fault
  <2>2. "NDebug" \in Flags
    BY DEF Flags
  <2> QED
    BY <2>1, <2>2, PostedStep
<1>6. CASE \E flag \in Flags : PostNote(flag)
  <2>1. PICK flag \in Flags : PostNote(flag)
    BY <1>6
  <2>2. /\ posted < MaxNotes /\ note' = Posted(flag) /\ posted' = posted + 1 /\ upc' = upc
        /\ UNCHANGED <<call, regs, mem, ureg, notified, notify>>
    BY <2>1 DEF PostNote
  <2> QED
    BY <2>2, PostedStep
<1>7. CASE Return
  <2>1. /\ UNCHANGED <<call, mem, ureg, note, notified, posted>>
        /\ \E c \in Codes : regs' = [regs EXCEPT !.code = c]
        /\ upc' \in {"noted", "check"} /\ notify' \in BOOLEAN
    BY <1>1, <1>7 DEF Return, StateTypes
  <2>2. StateTypes' /\ (upc' = "notify" => note # <<>>)
    BY <1>1, <2>1 DEF StateTypes
  <2> QED
    BY <2>1, <2>2, CalmStep
<1>8. CASE Resume \/ Save
  BY <1>8, NotedStep
<1>9. CASE NotifyPush
  BY <1>9, PushStep
<1>10. CASE UNCHANGED notesVars
  <2>1. UNCHANGED <<upc, call, regs, mem, ureg, note, notified, notify, posted>>
    BY <1>10 DEF notesVars
  <2>2. StateTypes' /\ (upc' = "notify" => note # <<>>)
    BY <1>1, <2>1 DEF StateTypes, QueueTypes
  <2> QED
    BY <2>1, <2>2, CalmStep
<1> QED
  BY <1>2, <1>3, <1>4, <1>5, <1>6, <1>7, <1>8, <1>9, <1>10 DEF NotesNext, Kernel

\* Whatever notes come and however handlers save, resume and edit their frames,
\* notify never writes past the frames there is room for, and every frame it
\* links to is one that it wrote before.
THEOREM NotesTypeCorrect ==
  NotesSpec => []NotesTypeOK
<1>1. NotesInit => NotesInv
  BY NotesStart
<1>2. NotesInv /\ [NotesNext]_(notesVars) => NotesInv'
  BY NotesStep
<1>3. NotesInv => NotesTypeOK
  BY DEF NotesInv
<1> QED
  BY <1>1, <1>2, <1>3, PTL DEF NotesSpec

\* A frame that is rewritten changes one context of the chain.
LEMMA RewrittenChain ==
  ASSUME NEW m, Linked(m), NEW u \in 1..MaxNotes, m[u] # NoFrame, NEW r,
         NEW q, Linked(q), Rewritten(q, m, u, r)
  PROVE  /\ ChainFrom(q, u) = <<r>> \o Tail(ChainFrom(m, u))
         /\ ChainFrom(q, m[u].link) = Tail(ChainFrom(m, u))
<1>1. q[u].regs = r /\ q[u].link = m[u].link /\ q[u] # NoFrame /\ \A a \in 1..MaxNotes : a # u => q[a] = m[a]
  BY DEF Rewritten
<1>2. u \in 0..MaxNotes /\ u # 0 /\ u \in Nat /\ MaxNotes \in Nat
  BY NotesAssumption
<1>3. m[u].link \in Nat /\ m[u].link < u
  BY <1>2, LinkIs
<1>4. PICK n : n = u - 1
  OBVIOUS
<1>5. n \in 0..MaxNotes /\ m[u].link \in 0..n /\ \A a \in 1..n : a \in 1..MaxNotes /\ a # u
  BY <1>2, <1>3, <1>4
<1>6. \A a \in 1..n : q[a] = m[a]
  BY <1>1, <1>5
<1>7. \A a \in 0..n : ChainFrom(q, a) = ChainFrom(m, a)
  BY <1>5, <1>6, ChainAgree
<1>8. Tail(ChainFrom(m, u)) = ChainFrom(m, m[u].link)
  BY ChainTop
<1>9. ChainFrom(q, u) = <<q[u].regs>> \o ChainFrom(q, q[u].link)
  BY <1>1, ChainTop
<1> QED
  BY <1>1, <1>5, <1>7, <1>8, <1>9

\* The stack of the abstract specification is the chain from up->ureg.
LEMMA ViewIs ==
  ASSUME NotesInv
  PROVE  regs # Gone /\ Chain = ChainFrom(mem, ureg)
<1>1. regs \in Regs
  BY NotesTypesAre DEF NotesInv
<1>2. regs # Gone
  BY <1>1, NotesAssumption
<1> QED
  BY <1>2 DEF Chain

LEMMA NextViewIs == Chain' = ChainFrom(mem', ureg')
BY DEF Chain

LEMMA SameChain ==
  ASSUME UNCHANGED <<mem, ureg>>
  PROVE  Chain' = Chain
BY DEF Chain

\* The steps that are steps of NoteStack, one by one.
LEMMA ComputeRefines ==
  ASSUME NotesInv, Compute \/ Return
  PROVE  Abstract!Compute
<1>1. /\ UNCHANGED <<mem, ureg, notified>> /\ upc # "dead" /\ upc' # "dead"
      /\ \E c \in Codes : regs' = [regs EXCEPT !.code = c]
  BY DEF Compute, Return
<1>2. Chain' = Chain /\ regs # Gone
  BY <1>1, SameChain, ViewIs
<1> QED
  BY <1>1, <1>2 DEF Abstract!Compute

LEMMA EditRefines ==
  ASSUME NotesInv, Edit
  PROVE  Abstract!Edit
<1>1. upc = "user" /\ ureg # 0 /\ UNCHANGED <<upc, regs, ureg, notified>>
  BY DEF Edit
<1>2. PICK c \in Codes, f \in SysFlags :
        mem' = [mem EXCEPT ![ureg].regs = [mem[ureg].regs EXCEPT !.code = c, !.sys = f]]
  BY EditIs
<1>3. PICK r : r = [mem[ureg].regs EXCEPT !.code = c, !.sys = f]
  OBVIOUS
<1>4. ureg \in 1..MaxNotes /\ mem[ureg] # NoFrame /\ Linked(mem) /\ mem[ureg].regs \in Regs
  BY <1>1, TopIs
<1>5. r \in Regs
  BY <1>3, <1>4 DEF Regs
<1>6. Linked(mem') /\ Rewritten(mem', mem, ureg, r)
  BY <1>2, <1>3, <1>4, <1>5, RewriteFrame
<1>7. ChainFrom(mem', ureg) = <<r>> \o Tail(ChainFrom(mem, ureg))
  BY <1>4, <1>6, RewrittenChain
<1>8. ChainFrom(mem, ureg) # <<>> /\ ChainFrom(mem, ureg)[1] = mem[ureg].regs
  BY <1>4, ChainTop
<1>9. Chain' = ChainFrom(mem', ureg) /\ Chain = ChainFrom(mem, ureg) /\ regs # Gone
  BY <1>1, NextViewIs, ViewIs
<1>10. /\ Chain # <<>> /\ r = [Chain[1] EXCEPT !.code = c, !.sys = f]
       /\ Chain' = <<r>> \o Tail(Chain)
  BY <1>3, <1>7, <1>8, <1>9
<1>11. \E d \in Codes, g \in SysFlags : Chain' = <<[Chain[1] EXCEPT !.code = d, !.sys = g]>> \o Tail(Chain)
  BY <1>10
<1> QED
  BY <1>1, <1>9, <1>10, <1>11 DEF Abstract!Edit

LEMMA ResumeRefines ==
  ASSUME NotesInv, Resume
  PROVE  Abstract!Resume
<1>1. /\ upc = "noted" /\ upc' = "check" /\ ureg # 0 /\ regs' = UserRegs
      /\ mem' = [mem EXCEPT ![ureg].regs = UserRegs] /\ ureg' = mem[ureg].link /\ notified' = FALSE
  BY DEF Resume
<1>2. PICK r : r = UserRegs
  OBVIOUS
<1>3. r \in Regs /\ r = [mem[ureg].regs EXCEPT !.sys = UserFlags]
  BY <1>1, <1>2, UserRegsAre
<1>4. ureg \in 1..MaxNotes /\ mem[ureg] # NoFrame /\ Linked(mem)
  BY <1>1, TopIs
<1>5. Linked(mem') /\ Rewritten(mem', mem, ureg, r)
  BY <1>1, <1>2, <1>3, <1>4, RewriteFrame
<1>6. ChainFrom(mem', mem[ureg].link) = Tail(ChainFrom(mem, ureg))
  BY <1>4, <1>5, RewrittenChain
<1>7. ChainFrom(mem, ureg) # <<>> /\ ChainFrom(mem, ureg)[1] = mem[ureg].regs
  BY <1>4, ChainTop
<1>8. Chain' = ChainFrom(mem', ureg') /\ Chain = ChainFrom(mem, ureg) /\ regs # Gone
  BY NextViewIs, ViewIs
<1>9. Chain # <<>> /\ r = [Chain[1] EXCEPT !.sys = UserFlags] /\ Chain' = Tail(Chain)
  BY <1>1, <1>3, <1>6, <1>7, <1>8
<1> QED
  BY <1>1, <1>2, <1>8, <1>9 DEF Abstract!Resume, Abstract!Restored

LEMMA SaveRefines ==
  ASSUME NotesInv, Save
  PROVE  Abstract!Save
<1>1. /\ upc = "noted" /\ upc' = "check" /\ ureg # 0 /\ notified /\ regs' = [UserRegs EXCEPT !.sp = ureg]
      /\ mem' = [mem EXCEPT ![ureg].regs = UserRegs] /\ ureg' = ureg /\ notified' = FALSE
  BY DEF Save
<1>2. PICK r : r = UserRegs
  OBVIOUS
<1>3. r \in Regs /\ r = [mem[ureg].regs EXCEPT !.sys = UserFlags]
  BY <1>1, <1>2, UserRegsAre
<1>4. ureg \in 1..MaxNotes /\ mem[ureg] # NoFrame /\ Linked(mem)
  BY <1>1, TopIs
<1>5. Linked(mem') /\ Rewritten(mem', mem, ureg, r)
  BY <1>1, <1>2, <1>3, <1>4, RewriteFrame
<1>6. ChainFrom(mem', ureg) = <<r>> \o Tail(ChainFrom(mem, ureg))
  BY <1>4, <1>5, RewrittenChain
<1>7. ChainFrom(mem, ureg)[1] = mem[ureg].regs
  BY <1>4, ChainTop
<1>8. Chain' = ChainFrom(mem', ureg') /\ Chain = ChainFrom(mem, ureg) /\ regs # Gone
  BY NextViewIs, ViewIs
<1>9. r = [Chain[1] EXCEPT !.sys = UserFlags] /\ Chain' = <<r>> \o Tail(Chain)
  BY <1>1, <1>3, <1>6, <1>7, <1>8
<1>10. regs.sp = ureg
  BY <1>1 DEF NotesInv, StackOK
<1>11. regs' = [r EXCEPT !.sp = regs.sp]
  BY <1>1, <1>2, <1>10
<1> QED
  BY <1>1, <1>8, <1>9, <1>11 DEF Abstract!Save, Abstract!Restored

LEMMA PushRefines ==
  ASSUME NotesInv, NotifyPush
  PROVE  Abstract!Deliver
<1>1. PICK n : n = regs.sp + 1
  OBVIOUS
<1>2. /\ n \in 1..MaxNotes /\ ureg < n /\ ureg \in 0..MaxNotes /\ regs \in Regs
      /\ upc = "notify" /\ Linked(mem)
      /\ mem' = [mem EXCEPT ![n] = [regs |-> regs, link |-> ureg]]
      /\ ureg' = n /\ regs' = [regs EXCEPT !.code = Handler, !.sp = n]
      /\ notified' = TRUE /\ upc' = "user"
  BY <1>1, PushIs
<1>3. ~notified
  BY DEF NotifyPush
<1>4. Linked(mem') /\ Pushed(mem', mem, n, regs, ureg)
  BY <1>2, PushedFrame
<1>5. /\ mem'[n].regs = regs /\ mem'[n].link = ureg /\ mem'[n] # NoFrame
      /\ \A a \in 1..MaxNotes : a # n => mem'[a] = mem[a]
  BY <1>4 DEF Pushed
<1>6. ChainFrom(mem', n) = <<regs>> \o ChainFrom(mem', ureg)
  <2>1. PICK q : q = mem'
    OBVIOUS
  <2>2. Linked(q) /\ q[n] # NoFrame /\ n \in 1..MaxNotes
    BY <1>2, <1>4, <1>5, <2>1
  <2>3. ChainFrom(q, n) = <<q[n].regs>> \o ChainFrom(q, q[n].link)
    BY <2>2, ChainTop
  <2> QED
    BY <1>5, <2>1, <2>3
<1>7. PICK k : k = n - 1
  OBVIOUS
<1>8. MaxNotes \in Nat
  BY NotesAssumption
<1>9. k \in 0..MaxNotes /\ ureg \in 0..k /\ \A a \in 1..k : a \in 1..MaxNotes /\ a # n
  BY <1>2, <1>7, <1>8
<1>10. \A a \in 1..k : mem'[a] = mem[a]
  BY <1>5, <1>9
<1>11. ChainFrom(mem', ureg) = ChainFrom(mem, ureg)
  <2>1. PICK q : q = mem'
    OBVIOUS
  <2>2. Linked(q) /\ Linked(mem) /\ k \in 0..MaxNotes /\ \A a \in 1..k : q[a] = mem[a]
    BY <1>2, <1>4, <1>9, <1>10, <2>1
  <2>3. \A a \in 0..k : ChainFrom(q, a) = ChainFrom(mem, a)
    BY <2>2, ChainAgree
  <2> QED
    BY <1>9, <2>1, <2>3
<1>12. Chain' = ChainFrom(mem', ureg') /\ Chain = ChainFrom(mem, ureg) /\ regs # Gone
  BY NextViewIs, ViewIs
<1>13. Chain' = <<regs>> \o Chain
  BY <1>2, <1>6, <1>11, <1>12
<1>14. regs' = [regs EXCEPT !.code = Handler, !.sp = regs.sp + 1]
  BY <1>1, <1>2
<1> QED
  BY <1>2, <1>3, <1>12, <1>13, <1>14 DEF Abstract!Deliver

\* Every step is one of NoteStack, or changes nothing that it shows.
LEMMA NotesRefine ==
  ASSUME NotesInv, [NotesNext]_(notesVars)
  PROVE  [Abstract!Next]_(Abstract!vars)
<1>1. CASE Compute \/ Return
  BY <1>1, ComputeRefines DEF Abstract!Next
<1>2. CASE Edit
  BY <1>2, EditRefines DEF Abstract!Next
<1>3. CASE Resume
  BY <1>3, ResumeRefines DEF Abstract!Next
<1>4. CASE Save
  BY <1>4, SaveRefines DEF Abstract!Next
<1>5. CASE NotifyPush
  BY <1>5, PushRefines DEF Abstract!Next
<1>6. CASE NotedSuicide \/ NotifySuicide
  <2>1. UNCHANGED <<mem, ureg, notified>> /\ upc' = "dead"
    BY <1>6 DEF NotedSuicide, NotifySuicide, Pexit
  <2>2. Chain' = Chain
    BY <2>1, SameChain
  <2>3. Abstract!Exit
    BY <2>1, <2>2 DEF Abstract!Exit
  <2> QED
    BY <2>3 DEF Abstract!Next
<1>7. CASE \/ Syscall \/ Fault \/ ClockTick \/ TrapEnd \/ SyscallEnd \/ NotifyLater
           \/ \E flag \in Flags : PostNote(flag)
  <2>1. UNCHANGED <<regs, mem, ureg, notified>> /\ ((upc # "dead" /\ upc' # "dead") \/ upc' = upc)
    BY <1>7 DEF Syscall, Fault, ClockTick, TrapEnd, SyscallEnd, NotifyLater, PostNote
  <2>2. Chain' = Chain
    BY <2>1, SameChain
  <2> QED
    BY <2>1, <2>2 DEF Abstract!vars
<1>8. CASE UNCHANGED notesVars
  <2>1. UNCHANGED <<regs, mem, ureg, notified, upc>>
    BY <1>8 DEF notesVars
  <2>2. Chain' = Chain
    BY <2>1, SameChain
  <2> QED
    BY <2>1, <2>2 DEF Abstract!vars
<1> QED
  BY <1>1, <1>2, <1>3, <1>4, <1>5, <1>6, <1>7, <1>8 DEF NotesNext, Kernel

\* notify and noted keep a stack of the interrupted contexts: nobody is resumed
\* twice, at another's place or with system flags of its own making.
THEOREM NotesStack ==
  NotesSpec => IsNoteStack
<1>1. NotesInit => NotesInv
  BY NotesStart
<1>2. NotesInv /\ [NotesNext]_(notesVars) => NotesInv'
  BY NotesStep
<1>3. NotesInit => Abstract!Init
  <2> SUFFICES ASSUME NotesInit PROVE Abstract!Init
    OBVIOUS
  <2>1. /\ \E c \in Codes : regs = [code |-> c, sys |-> UserFlags, sp |-> 0]
        /\ ureg = 0 /\ upc = "user" /\ notified = FALSE
    BY DEF NotesInit
  <2>2. NotesInv
    BY <1>1
  <2>3. Linked(mem) /\ ureg \in 0..MaxNotes
    BY <2>2, NotesTypesAre DEF NotesInv, MemoryTypes
  <2>4. ChainFrom(mem, ureg) = <<>>
    BY <2>1, <2>3, ChainIs
  <2>5. Chain = <<>>
    BY <2>2, <2>4, ViewIs
  <2> QED
    BY <2>1, <2>5 DEF Abstract!Init
<1>4. NotesInv /\ [NotesNext]_(notesVars) => [Abstract!Next]_(Abstract!vars)
  BY NotesRefine
<1> QED
  BY <1>1, <1>2, <1>3, <1>4, PTL DEF NotesSpec, IsNoteStack, Abstract!Spec
=============================================================================
