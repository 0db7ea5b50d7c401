--------------------------- MODULE Ether8139_proofs ---------------------------
(* For any connections, blocks, descriptors and packets: the types; a block   *)
(* in use is in one queue, descriptor or process, and a free one in none;     *)
(* packets leave in the order in which they were queued.  The invariant is    *)
(* IInv: the types, OwnInv (where blocks are) and Ordered (how tdh, tdi, ntd  *)
(* and the chip stand to each other, and what left says of them).  With it    *)
(* the driver and the multiplexer implement PacketHub.                        *)
EXTENDS Ether8139, FiniteSetTheorems, SequenceTheorems, WellFoundedInduction, TLAPS

-------------------------------------------------------------------------------
(* etheriq: memory, connection queues and the packet that is given to all   *)

\* What etheriq works on.
Mem == [blk : [Block -> Packet \cup {Free}], inq : [Conn -> Seq(Block)], heard : [Conn -> Seq(Packet)],
        soverflows : Nat, fx : 0..NConn]

Short(m) == \A c \in Conn : Len(m.inq[c]) <= InLimit

Queued(m, b) == \E c \in Conn : \E i \in 1..Len(m.inq[c]) : m.inq[c][i] = b

\* Blocks are in use exactly when they are in R or in one place of one queue.
Given(m, R) ==
  /\ \A c \in Conn : \A i \in 1..Len(m.inq[c]) : m.inq[c][i] \notin R
  /\ \A c, d \in Conn : \A i \in 1..Len(m.inq[c]), j \in 1..Len(m.inq[d]) :
       m.inq[c][i] = m.inq[d][j] => c = d /\ i = j
  /\ \A b \in Block : m.blk[b] # Free <=> b \in R \/ Queued(m, b)

\* What a turn leaves alone, and what it may add.
BlkKept(q, m, b) == \A x \in Block \ {b} : q.blk[x] = m.blk[x]
InqKept(q, m, c) == \A d \in Conn \ {c} : q.inq[d] = m.inq[d]
OneHears(q, m, c, p) == \A d \in Conn : q.heard[d] = IF d = c THEN Append(m.heard[c], p) ELSE m.heard[d]

LEMMA Induction ==
  ASSUME NEW S, 0 \in S, \A k \in Nat : k \in S => k + 1 \in S
  PROVE  Nat \subseteq S
<1> DEFINE R == OpToRel(<, Nat)
           T == Nat \ S
<1> SUFFICES ASSUME T # {} PROVE FALSE
  OBVIOUS
<1>1. IsWellFoundedOn(R, Nat)
  BY NatLessThanWellFounded
<1>2. \E x \in T : \A y \in T : ~ (<<y, x>> \in R)
  <2>1. T \subseteq Nat
    OBVIOUS
  <2> HIDE DEF R, T
  <2> QED
    BY <1>1, <2>1, WFMin, Zenon
<1>3. \A x, y \in Nat : x < y => <<x, y>> \in R
  BY DEF OpToRel
<1> HIDE DEF R
<1>4. PICK n \in T : \A y \in T : ~ (<<y, n>> \in R)
  BY <1>2
<1>5. n \in Nat /\ n # 0
  OBVIOUS
<1>6. n - 1 \in Nat /\ n - 1 < n /\ (n - 1) + 1 = n
  BY <1>5
<1>7. n - 1 \notin T
  BY <1>3, <1>4, <1>5, <1>6
<1> QED
  BY <1>6, <1>7

LEMMA MaxOf ==
  ASSUME NEW n \in Nat, NEW s \in SUBSET (1..n), s # {}
  PROVE  Max(s) \in s /\ \A y \in s : Max(s) >= y
<1> DEFINE P(k) == \A t \in SUBSET (1..k) : t # {} => \E x \in t : \A y \in t : x >= y
           S == {k \in Nat : P(k)}
<1>1. P(0)
  <2>1. 1..0 = {}
    OBVIOUS
  <2> QED
    BY <2>1
<1>2. ASSUME NEW k \in Nat, P(k) PROVE P(k + 1)
  <2> SUFFICES ASSUME NEW t \in SUBSET (1..(k + 1)), t # {}
               PROVE  \E x \in t : \A y \in t : x >= y
    OBVIOUS
  <2>1. CASE k + 1 \in t
    BY <2>1
  <2>2. CASE k + 1 \notin t
    <3>1. t \in SUBSET (1..k)
      BY <2>2
    <3> QED
      BY <1>2, <3>1
  <2> QED
    BY <2>1, <2>2
<1>3. Nat \subseteq S
  <2>1. 0 \in S /\ \A k \in Nat : k \in S => k + 1 \in S
    BY <1>1, <1>2
  <2> HIDE DEF S
  <2> QED
    BY <2>1, Induction
<1>4. \E x \in s : \A y \in s : x >= y
  BY <1>3
<1> QED
  BY <1>4 DEF Max

\* A set of naturals has a least element.
LEMMA LeastOf ==
  ASSUME NEW s \in SUBSET Nat, s # {}
  PROVE  Min(s) \in s /\ \A y \in s : Min(s) <= y
<1> DEFINE R == OpToRel(<, Nat)
<1>1. IsWellFoundedOn(R, Nat)
  BY NatLessThanWellFounded
<1>2. \E x \in s : \A y \in s : ~ (<<y, x>> \in R)
  <2> HIDE DEF R
  <2> QED
    BY <1>1, WFMin, Zenon
<1>3. \A x, y \in Nat : x < y => <<x, y>> \in R
  BY DEF OpToRel
<1> HIDE DEF R
<1>4. PICK x \in s : \A y \in s : ~ (<<y, x>> \in R)
  BY <1>2
<1>5. \A y \in s : x <= y
  <2> SUFFICES ASSUME NEW y \in s, y < x PROVE FALSE
    OBVIOUS
  <2>1. <<y, x>> \in R
    BY <1>3
  <2> QED
    BY <1>4, <2>1
<1>6. \E z \in s : \A y \in s : z <= y
  BY <1>5
<1> QED
  BY <1>6 DEF Min

LEMMA PacketsAre ==
  /\ \A f \in Frame, n \in 1..MaxPackets : Numbered(f, n) \in Packet
  /\ \A p \in Packet : p # Free /\ p.n \in 1..MaxPackets
<1>1. ASSUME NEW p \in Packet PROVE p # Free /\ p.n \in 1..MaxPackets
  <2>1. PICK f \in Frame, n \in 1..MaxPackets : p = Numbered(f, n)
    BY DEF Packet
  <2> QED
    BY <2>1, EtherAssumption DEF Numbered
<1> QED
  BY <1>1 DEF Packet

LEMMA AllocIs ==
  ASSUME NEW m \in Mem
  PROVE  \/ iallocb(m) = NoBlock /\ \A b \in Block : m.blk[b] # Free
         \/ iallocb(m) \in Block /\ m.blk[iallocb(m)] = Free /\ iallocb(m) # NoBlock
<1>1. CASE \E b \in Block : m.blk[b] = Free
  <2> DEFINE s == {b \in Block : m.blk[b] = Free}
  <2>1. s \in SUBSET Nat /\ s # {}
    BY <1>1, EtherAssumption DEF Block
  <2>2. iallocb(m) = Min(s)
    BY <1>1 DEF iallocb
  <2>3. Min(s) \in s
    BY <2>1, LeastOf
  <2> QED
    BY <2>2, <2>3, EtherAssumption
<1>2. CASE ~ \E b \in Block : m.blk[b] = Free
  BY <1>2 DEF iallocb
<1> QED
  BY <1>1, <1>2

LEMMA PutMem ==
  ASSUME NEW m \in Mem, Short(m), NEW R, Given(m, R), NEW c \in Conn, ~Full(m, c),
         NEW b \in Block, b \in R \/ m.blk[b] = Free, NEW p \in Packet, NEW q, q = Put(m, c, b, p)
  PROVE  /\ q \in Mem /\ Short(q) /\ Given(q, R \ {b}) /\ q.fx = m.fx /\ q.soverflows = m.soverflows
         /\ BlkKept(q, m, b)
         /\ OneHears(q, m, c, p)
         /\ InqKept(q, m, c)
<1>1. ~Queued(m, b)
  BY DEF Given, Queued
<1>3. /\ m.blk \in [Block -> Packet \cup {Free}] /\ m.inq \in [Conn -> Seq(Block)]
      /\ m.heard \in [Conn -> Seq(Packet)] /\ m.soverflows \in Nat /\ m.fx \in 0..NConn
  BY DEF Mem
<1>2. /\ q.blk = [m.blk EXCEPT ![b] = p] /\ q.inq = [m.inq EXCEPT ![c] = Append(@, b)]
      /\ q.heard = [m.heard EXCEPT ![c] = Append(@, p)] /\ q.fx = m.fx /\ q.soverflows = m.soverflows
      /\ q \in Mem
  <2> DEFINE u == [m EXCEPT !.blk[b] = p]
             v == [u EXCEPT !.inq[c] = Append(@, b)]
  <2>1. /\ u.blk = [m.blk EXCEPT ![b] = p] /\ u.inq = m.inq /\ u.heard = m.heard
        /\ u.fx = m.fx /\ u.soverflows = m.soverflows /\ u \in Mem
    BY DEF Mem
  <2>2. q = [v EXCEPT !.heard[c] = Append(@, p)]
    BY DEF Put
  <2> HIDE DEF u
  <2>3. /\ v.inq = [u.inq EXCEPT ![c] = Append(@, b)] /\ v.blk = u.blk /\ v.heard = u.heard
        /\ v.fx = u.fx /\ v.soverflows = u.soverflows /\ v \in Mem
    <3>1. Append(u.inq[c], b) \in Seq(Block)
      BY <1>3, <2>1
    <3> QED
      BY <2>1, <3>1 DEF Mem
  <2> HIDE DEF v
  <2>4. /\ q.heard = [v.heard EXCEPT ![c] = Append(@, p)] /\ q.blk = v.blk /\ q.inq = v.inq
        /\ q.fx = v.fx /\ q.soverflows = v.soverflows /\ q \in Mem
    <3>1. Append(v.heard[c], p) \in Seq(Packet)
      BY <1>3, <2>1, <2>3
    <3> QED
      <4>1. [v EXCEPT !.heard[c] = Append(@, p)] \in Mem
        BY <2>3, <3>1 DEF Mem
      <4>2. LET w == [v EXCEPT !.heard[c] = Append(@, p)] IN
            /\ w.heard = [v.heard EXCEPT ![c] = Append(@, p)] /\ w.blk = v.blk /\ w.inq = v.inq
            /\ w.fx = v.fx /\ w.soverflows = v.soverflows
        BY <2>3 DEF Mem
      <4> QED
        BY <2>2, <4>1, <4>2
  <2> QED
    BY <2>1, <2>3, <2>4
<1> DEFINE n == Len(m.inq[c])
<1>5. /\ n \in Nat /\ n < InLimit /\ Len(q.inq[c]) = n + 1 /\ q.inq[c][n + 1] = b
      /\ \A i \in 1..n : q.inq[c][i] = m.inq[c][i]
      /\ \A d \in Conn \ {c} : q.inq[d] = m.inq[d]
  <2>1. n \in Nat /\ n < InLimit
    BY <1>3, EtherAssumption DEF Full
  <2>2. m.inq[c] \in Seq(Block) /\ q.inq[c] = Append(m.inq[c], b) /\ \A d \in Conn \ {c} : q.inq[d] = m.inq[d]
    BY <1>2, <1>3
  <2> QED
    BY <2>1, <2>2, AppendProperties
<1>6. Short(q)
  <2> SUFFICES ASSUME NEW d \in Conn PROVE Len(q.inq[d]) <= InLimit
    BY DEF Short
  <2>1. CASE d = c
    BY <1>5, <2>1, EtherAssumption
  <2>2. CASE d # c
    BY <1>5, <2>2 DEF Short
  <2> QED
    BY <2>1, <2>2
<1>7. \A d \in Conn : Len(m.inq[d]) \in Nat
  BY <1>3
<1> HIDE DEF n
\* A place of the queues afterwards is one from before, or the new one.
<1>8. \A d \in Conn : \A i \in 1..Len(q.inq[d]) :
        \/ d = c /\ i = n + 1 /\ q.inq[d][i] = b
        \/ i \in 1..Len(m.inq[d]) /\ q.inq[d][i] = m.inq[d][i] /\ q.inq[d][i] # b
  <2> SUFFICES ASSUME NEW d \in Conn, NEW i \in 1..Len(q.inq[d])
               PROVE  \/ d = c /\ i = n + 1 /\ q.inq[d][i] = b
                      \/ i \in 1..Len(m.inq[d]) /\ q.inq[d][i] = m.inq[d][i]
    BY <1>1 DEF Queued
  <2>1. CASE d = c
    BY <1>5, <2>1 DEF n
  <2>2. CASE d # c
    BY <1>5, <2>2
  <2> QED
    BY <2>1, <2>2
<1>9. \A d \in Conn : \A i \in 1..Len(m.inq[d]) : i \in 1..Len(q.inq[d]) /\ q.inq[d][i] = m.inq[d][i]
  <2> SUFFICES ASSUME NEW d \in Conn, NEW i \in 1..Len(m.inq[d])
               PROVE  i \in 1..Len(q.inq[d]) /\ q.inq[d][i] = m.inq[d][i]
    OBVIOUS
  <2>1. CASE d = c
    BY <1>5, <2>1 DEF n
  <2>2. CASE d # c
    BY <1>5, <2>2
  <2> QED
    BY <2>1, <2>2
<1>10. \A x \in Block : Queued(q, x) <=> Queued(m, x) \/ x = b
  <2>1. n + 1 \in 1..Len(q.inq[c]) /\ q.inq[c][n + 1] = b
    BY <1>5
  <2>2. \A x : Queued(q, x) => Queued(m, x) \/ x = b
    BY <1>8, ZenonT(30) DEF Queued
  <2>3. \A x : Queued(m, x) => Queued(q, x)
    BY <1>9, ZenonT(30) DEF Queued
  <2>4. Queued(q, b)
    BY <2>1, Zenon DEF Queued
  <2> QED
    BY <2>2, <2>3, <2>4
<1>11. \A x \in Block : q.blk[x] = IF x = b THEN p ELSE m.blk[x]
  BY <1>2, <1>3
<1>12. Given(q, R \ {b})
  <2>1. \A d \in Conn : \A i \in 1..Len(q.inq[d]) : q.inq[d][i] \notin R \ {b}
    BY <1>8, SMTT(30) DEF Given
  <2>2. \A d, e \in Conn : \A i \in 1..Len(q.inq[d]), j \in 1..Len(q.inq[e]) :
          q.inq[d][i] = q.inq[e][j] => d = e /\ i = j
    BY <1>8 DEF Given
  <2>3. \A x \in Block : q.blk[x] # Free <=> x \in R \ {b} \/ Queued(q, x)
    BY <1>10, <1>11, PacketsAre DEF Given
  <2> QED
    BY <2>1, <2>2, <2>3 DEF Given
<1>13. OneHears(q, m, c, p) /\ InqKept(q, m, c) /\ BlkKept(q, m, b)
  BY <1>2, <1>3, <1>5, <1>11 DEF OneHears, InqKept, BlkKept
<1> QED
  BY <1>2, <1>6, <1>12, <1>13

LEMMA FreeMem ==
  ASSUME NEW m \in Mem, Short(m), NEW R, Given(m, R),
         NEW b \in Block, b \in R \/ m.blk[b] = Free
  PROVE  LET q == freeb(m, b) IN
         /\ q \in Mem /\ Short(q) /\ Given(q, R \ {b}) /\ q.fx = m.fx /\ q.soverflows = m.soverflows
         /\ BlkKept(q, m, b)
         /\ q.heard = m.heard /\ q.inq = m.inq /\ q.blk[b] = Free
<1> DEFINE q == freeb(m, b)
<1>1. ~Queued(m, b)
  BY DEF Given, Queued
<1>2. /\ q.blk = [m.blk EXCEPT ![b] = Free] /\ q.inq = m.inq
      /\ q.heard = m.heard /\ q.fx = m.fx /\ q.soverflows = m.soverflows
      /\ q \in Mem
  BY DEF freeb, Mem
<1> HIDE DEF q
<1>3. \A x \in Block : q.blk[x] = IF x = b THEN Free ELSE m.blk[x]
  BY <1>2 DEF Mem
<1>4. \A x : Queued(q, x) <=> Queued(m, x)
  BY <1>2 DEF Queued
<1>5. Given(q, R \ {b})
  BY <1>1, <1>2, <1>3, <1>4 DEF Given
<1>6. Short(q)
  BY <1>2 DEF Short
<1> QED
  BY <1>2, <1>3, <1>5, <1>6 DEF q, BlkKept

\* What one turn of the loop in etheriq does.
LEMMA GiveCases ==
  ASSUME NEW m, NEW c, NEW p, NEW fw \in BOOLEAN
  PROVE  LET q    == Give(m, c, p, fw)
             b    == iallocb(m)
             keep == conns[c].headersonly \/ ~(fw /\ m.fx = 0)
         IN
         \/ ~Wants(c, p, fw) /\ q = m
         \/ Wants(c, p, fw) /\ conns[c].headersonly /\ (Full(m, c) \/ b = NoBlock) /\ q = m
         \/ Wants(c, p, fw) /\ ~keep /\ q = [m EXCEPT !.fx = c]
         \/ Wants(c, p, fw) /\ keep /\ ~Full(m, c) /\ b # NoBlock /\ q = Put(m, c, b, p)
         \/ /\ Wants(c, p, fw) /\ keep /\ ~conns[c].headersonly /\ Full(m, c) /\ b # NoBlock
            /\ q = [freeb(m, b) EXCEPT !.soverflows = @ + 1]
         \/ /\ Wants(c, p, fw) /\ keep /\ ~conns[c].headersonly /\ b = NoBlock
            /\ q = [m EXCEPT !.soverflows = @ + 1]
<1>1. CASE ~Wants(c, p, fw)
  BY <1>1 DEF Give
<1>2. CASE Wants(c, p, fw) /\ conns[c].headersonly
  <2>1. Give(m, c, p, fw) = etherrtrace(m, c, p)
    BY <1>2 DEF Give
  <2> QED
    BY <1>2, <2>1 DEF etherrtrace
<1>3. CASE Wants(c, p, fw) /\ ~conns[c].headersonly /\ fw /\ m.fx = 0
  BY <1>3 DEF Give
<1>4. CASE Wants(c, p, fw) /\ ~conns[c].headersonly /\ ~(fw /\ m.fx = 0)
  <2>1. Give(m, c, p, fw) = IF iallocb(m) # NoBlock THEN qpass(m, c, iallocb(m), p)
                            ELSE [m EXCEPT !.soverflows = @ + 1]
    BY <1>4 DEF Give
  <2> QED
    BY <1>4, <2>1 DEF qpass
<1> QED
  BY <1>1, <1>2, <1>3, <1>4

\* The counters of what etheriq works on are apart from its blocks.
LEMMA CountMem ==
  ASSUME NEW m \in Mem, Short(m), NEW R, Given(m, R), NEW f \in 0..NConn
  PROVE  /\ LET q == [m EXCEPT !.fx = f] IN
              /\ q \in Mem /\ Short(q) /\ Given(q, R) /\ q.blk = m.blk /\ q.inq = m.inq
              /\ q.heard = m.heard /\ q.soverflows = m.soverflows /\ q.fx = f
         /\ LET q == [m EXCEPT !.soverflows = @ + 1] IN
              /\ q \in Mem /\ Short(q) /\ Given(q, R) /\ q.blk = m.blk /\ q.inq = m.inq
              /\ q.heard = m.heard /\ q.soverflows = m.soverflows + 1 /\ q.fx = m.fx
<1> DEFINE Same(q) == /\ q \in Mem /\ q.blk = m.blk /\ q.inq = m.inq /\ q.heard = m.heard
<1>1. Same([m EXCEPT !.fx = f]) /\ [m EXCEPT !.fx = f].fx = f /\ [m EXCEPT !.fx = f].soverflows = m.soverflows
  BY DEF Mem
<1>3. LET q == [m EXCEPT !.soverflows = @ + 1] IN
      Same(q) /\ q.soverflows = m.soverflows + 1 /\ q.fx = m.fx
  <2>1. m.soverflows + 1 \in Nat
    BY DEF Mem
  <2> QED
    BY <2>1 DEF Mem
<1>2. ASSUME NEW q, Same(q) PROVE Short(q) /\ Given(q, R)
  <2>1. \A x : Queued(q, x) <=> Queued(m, x)
    BY <1>2 DEF Queued
  <2> QED
    BY <1>2, <2>1 DEF Short, Given
<1> QED
  BY <1>1, <1>2, <1>3

\* A block that qpass has no room for is freed, and the overflow counted.
LEMMA PassMem ==
  ASSUME NEW m \in Mem, Short(m), NEW R, Given(m, R), NEW c \in Conn,
         NEW b \in Block, b \in R \/ m.blk[b] = Free, NEW p \in Packet
  PROVE  LET q == qpass(m, c, b, p) IN
         /\ q \in Mem /\ Short(q) /\ Given(q, R \ {b}) /\ q.fx = m.fx
         /\ BlkKept(q, m, b)
         /\ Full(m, c) => q.heard = m.heard /\ q.inq = m.inq /\ q.soverflows = m.soverflows + 1
         /\ InqKept(q, m, c)
         /\ ~Full(m, c) =>
              /\ q.soverflows = m.soverflows
              /\ OneHears(q, m, c, p)
<1>1. CASE ~Full(m, c)
  <2>0. PICK q : q = Put(m, c, b, p)
    OBVIOUS
  <2>1. /\ q \in Mem /\ Short(q) /\ Given(q, R \ {b}) /\ q.fx = m.fx /\ q.soverflows = m.soverflows
        /\ BlkKept(q, m, b)
        /\ OneHears(q, m, c, p)
        /\ InqKept(q, m, c)
    BY <1>1, <2>0, PutMem
  <2>2. qpass(m, c, b, p) = q
    BY <1>1, <2>0 DEF qpass
  <2> QED
    BY <1>1, <2>1, <2>2
<1>2. CASE Full(m, c)
  <2>1. qpass(m, c, b, p) = [freeb(m, b) EXCEPT !.soverflows = @ + 1]
    BY <1>2 DEF qpass
  <2> DEFINE u == freeb(m, b)
  <2>2. /\ u \in Mem /\ Short(u) /\ Given(u, R \ {b}) /\ u.fx = m.fx /\ u.soverflows = m.soverflows
        /\ BlkKept(u, m, b)
        /\ u.heard = m.heard /\ u.inq = m.inq
    BY FreeMem
  <2> HIDE DEF u
  <2>3. 0 \in 0..NConn
    BY EtherAssumption
  <2> DEFINE q == [u EXCEPT !.soverflows = @ + 1]
  <2>4. /\ q \in Mem /\ Short(q) /\ Given(q, R \ {b}) /\ q.blk = u.blk /\ q.inq = u.inq
        /\ q.heard = u.heard /\ q.soverflows = u.soverflows + 1 /\ q.fx = u.fx
    BY <2>2, <2>3, CountMem
  <2>5. qpass(m, c, b, p) = q
    BY <2>1 DEF u
  <2> HIDE DEF q
  <2> QED
    BY <1>2, <2>2, <2>4, <2>5 DEF BlkKept, InqKept
<1> QED
  BY <1>1, <1>2

LEMMA GiveMem ==
  ASSUME NEW m \in Mem, Short(m), NEW R, Given(m, R), NEW c \in Conn, NEW p \in Packet, NEW fw \in BOOLEAN
  PROVE  LET q == Give(m, c, p, fw) IN
         /\ q \in Mem /\ Short(q) /\ Given(q, R)
         /\ \A x \in Block : m.blk[x] # Free => q.blk[x] = m.blk[x]
         /\ q.fx = m.fx \/ (fw /\ m.fx = 0 /\ q.fx = c)
<1> DEFINE q == Give(m, c, p, fw)
           b == iallocb(m)
<1>1. \/ q = m
      \/ fw /\ m.fx = 0 /\ q = [m EXCEPT !.fx = c]
      \/ b # NoBlock /\ q = qpass(m, c, b, p)
      \/ b = NoBlock /\ q = [m EXCEPT !.soverflows = @ + 1]
  BY GiveCases DEF qpass
<1> SUFFICES /\ q \in Mem /\ Short(q) /\ Given(q, R)
             /\ \A x \in Block : m.blk[x] # Free => q.blk[x] = m.blk[x]
             /\ q.fx = m.fx \/ (fw /\ m.fx = 0 /\ q.fx = c)
  OBVIOUS
<1> HIDE DEF q
<1>2. c \in 0..NConn
  BY EtherAssumption DEF Conn
<1>3. CASE q = m
  BY <1>3
<1>4. CASE fw /\ m.fx = 0 /\ q = [m EXCEPT !.fx = c]
  BY <1>2, <1>4, CountMem
<1>5. CASE b # NoBlock /\ q = qpass(m, c, b, p)
  <2>1. b \in Block /\ m.blk[b] = Free
    BY <1>5, AllocIs
  <2>2. R \ {b} = R
    BY <2>1 DEF Given
  <2> HIDE DEF b
  <2>3. /\ q \in Mem /\ Short(q) /\ Given(q, R \ {b}) /\ q.fx = m.fx
        /\ BlkKept(q, m, b)
    BY <1>5, <2>1, PassMem
  <2> QED
    BY <2>1, <2>2, <2>3 DEF BlkKept
<1>6. CASE b = NoBlock /\ q = [m EXCEPT !.soverflows = @ + 1]
  BY <1>2, <1>6, CountMem
<1> QED
  BY <1>1, <1>3, <1>4, <1>5, <1>6

\* The loop of etheriq, turn by turn.
LEMMA FoldGive ==
  ASSUME NEW t, NEW p, NEW fw
  PROVE  \E g : /\ g[0] = t
                /\ \A k \in 1..NConn : g[k] = Give(g[k - 1], k, p, fw)
                /\ g[NConn] = Loop(t, p, fw)
<1> DEFINE n == NConn
           Op(u, c) == Give(u, c, p, fw)
           Step(f, s) == IF s = {} THEN t ELSE Op(f[s \ {Max(s)}], Max(s))
           Fold(f, k) == f = [s \in SUBSET (1..k) |-> Step(f, s)]
<1>0. n \in Nat
  BY EtherAssumption
<1>a. \A k \in Nat : \A s \in SUBSET (1..k) : s # {} => Max(s) \in s /\ \A y \in s : Max(s) >= y
  BY MaxOf
<1> HIDE DEF n, Op
<1>1. \E f : Fold(f, n)
  <2> DEFINE S == {k \in Nat : \E f : Fold(f, k)}
  <2>1. 0 \in S
    <3> DEFINE f == [s \in SUBSET (1..0) |-> t]
    <3>1. SUBSET (1..0) = {{}}
      OBVIOUS
    <3>2. Fold(f, 0)
      BY <3>1
    <3> QED
      BY <3>2
  <2>2. ASSUME NEW k \in Nat, k \in S PROVE k + 1 \in S
    <3>1. PICK f : Fold(f, k)
      BY <2>2
    <3> DEFINE g == [s \in SUBSET (1..(k + 1)) |->
                       IF k + 1 \in s THEN Op(f[s \ {k + 1}], k + 1) ELSE f[s]]
    <3>2. ASSUME NEW s \in SUBSET (1..(k + 1)) PROVE g[s] = Step(g, s)
      <4>1. CASE k + 1 \in s
        <5>1. Max(s) = k + 1
          <6>1. k + 1 \in Nat /\ s # {}
            BY <4>1
          <6>2. Max(s) \in s /\ \A y \in s : Max(s) >= y
            BY <1>a, <6>1
          <6>3. Max(s) \in 1..(k + 1) /\ Max(s) >= k + 1
            BY <4>1, <6>2
          <6> QED
            BY <6>3
        <5>2. s \ {k + 1} \in SUBSET (1..k) /\ k + 1 \notin s \ {k + 1}
          OBVIOUS
        <5>3. g[s \ {k + 1}] = f[s \ {k + 1}]
          BY <5>2
        <5> HIDE DEF g
        <5>4. g[s] = Op(f[s \ {k + 1}], k + 1)
          BY <4>1 DEF g
        <5> QED
          BY <4>1, <5>1, <5>3, <5>4
      <4>2. CASE k + 1 \notin s /\ s # {}
        <5>1. s \in SUBSET (1..k) /\ g[s] = f[s]
          BY <4>2
        <5>2. s \ {Max(s)} \in SUBSET (1..k) /\ k + 1 \notin s \ {Max(s)}
          <6>1. PICK m : m = Max(s)
            OBVIOUS
          <6>2. s \ {m} \in SUBSET (1..k) /\ k + 1 \notin s \ {m}
            BY <4>2, <5>1
          <6> QED
            BY <6>1, <6>2, Zenon
        <5>3. g[s \ {Max(s)}] = f[s \ {Max(s)}]
          BY <5>2
        <5>4. f[s] = Step(f, s)
          BY <3>1, <5>1
        <5> HIDE DEF g
        <5> QED
          BY <4>2, <5>1, <5>3, <5>4
      <4>3. CASE s = {}
        <5>1. {} \in SUBSET (1..k) /\ k + 1 \notin {}
          OBVIOUS
        <5>2. f[{}] = t
          BY <3>1, <5>1
        <5> QED
          BY <4>3, <5>1, <5>2
      <4> QED
        BY <4>1, <4>2, <4>3
    <3>3. g = [s \in SUBSET (1..(k + 1)) |-> g[s]]
      OBVIOUS
    <3> HIDE DEF g
    <3>4. Fold(g, k + 1)
      BY <3>2, <3>3
    <3>5. k + 1 \in Nat
      OBVIOUS
    <3>6. \E h : Fold(h, k + 1)
      BY <3>4, Zenon
    <3> HIDE DEF Fold
    <3> QED
      BY <3>5, <3>6
  <2> HIDE DEF S
  <2>3. n \in S
    BY <1>0, <2>1, <2>2, Induction
  <2> QED
    BY <2>3 DEF S
<1> DEFINE it == CHOOSE f : Fold(f, n)
<1>2. Fold(it, n)
  BY <1>1, Zenon
<1>b. DOMAIN [c \in Conn |-> c] = 1..n /\ \A c \in 1..n : [d \in Conn |-> d][c] = c
  BY DEF Conn, n
<1>3. Loop(t, p, fw) = it[1..n]
  <2> DEFINE Raw(f, s) == IF s = {} THEN t ELSE Op(f[s \ {Max(s)}], [d \in Conn |-> d][Max(s)])
             raw == CHOOSE f : f = [s \in SUBSET (1..n) |-> Raw(f, s)]
  <2>1. Loop(t, p, fw) = raw[1..n]
    BY <1>b DEF Loop, FoldLeft, MapThenFoldSet, Op
  <2>2. ASSUME NEW f, NEW s \in SUBSET (1..n) PROVE Raw(f, s) = Step(f, s)
    <3>1. s # {} => Max(s) \in 1..n
      BY <1>0, <1>a
    <3> QED
      BY <1>b, <3>1
  <2>3. ASSUME NEW f PROVE [s \in SUBSET (1..n) |-> Raw(f, s)] = [s \in SUBSET (1..n) |-> Step(f, s)]
    BY <2>2
  <2>4. raw = it
    BY <2>3, Zenon
  <2> QED
    BY <2>1, <2>4
<1> HIDE DEF it
<1>4. ASSUME NEW s \in SUBSET (1..n) PROVE it[s] = Step(it, s)
  BY <1>2
<1> DEFINE g == [k \in 0..n |-> it[1..k]]
<1>5. g[0] = t /\ g[n] = it[1..n]
  <2>1. 1..0 = {} /\ {} \in SUBSET (1..n) /\ 0 \in 0..n /\ n \in 0..n
    BY <1>0
  <2>2. it[{}] = t
    BY <1>4, <2>1
  <2> QED
    BY <2>1, <2>2
<1>6. ASSUME NEW k \in 1..n PROVE g[k] = Give(g[k - 1], k, p, fw)
  <2>1. 1..k \in SUBSET (1..n) /\ 1..k # {} /\ k \in Nat /\ k \in 0..n /\ k - 1 \in 0..n
    BY <1>0
  <2>2. Max(1..k) = k
    <3>1. Max(1..k) \in 1..k /\ Max(1..k) >= k
      <4>1. 1..k \in SUBSET (1..k) /\ k \in 1..k
        BY <2>1
      <4> QED
        BY <1>a, <2>1, <4>1
    <3> QED
      BY <2>1, <3>1
  <2>3. (1..k) \ {k} = 1..(k - 1)
    BY <2>1
  <2>4. it[1..k] = Op(it[1..(k - 1)], k)
    BY <1>4, <2>1, <2>2, <2>3
  <2> QED
    BY <2>1, <2>4 DEF Op
<1>7. \E h : h[0] = t /\ (\A k \in 1..n : h[k] = Give(h[k - 1], k, p, fw)) /\ h[n] = it[1..n]
  <2> HIDE DEF g
  <2> QED
    BY <1>5, <1>6, Zenon
<1> HIDE DEF it
<1> QED
  BY <1>3, <1>7, Zenon DEF n

\* The blocks etheriq leaves in use are those it was given, less the one of a
\* packet from the wire, and what it has queued.
LEMMA EtheriqMem ==
  ASSUME NEW m \in Mem, Short(m), NEW R, Given(m, R), m.fx = 0, NEW b \in Block, b \in R,
         NEW p \in Packet, NEW fw \in BOOLEAN, NEW s, s = etheriq(m, b, p, fw)
  PROVE  /\ s \in Mem /\ Short(s) /\ Given(s, IF fw THEN R \ {b} ELSE R)
         /\ \A x \in Block : x \in R /\ x # b => s.blk[x] = m.blk[x]
         /\ ~fw => s.blk[b] = m.blk[b]
<1> DEFINE F == Loop(m, p, fw)
<1>1. PICK g : /\ g[0] = m /\ \A k \in 1..NConn : g[k] = Give(g[k - 1], k, p, fw)
               /\ g[NConn] = F
  BY FoldGive
<1> DEFINE Good(u) == /\ u \in Mem /\ Short(u) /\ Given(u, R) /\ u.fx \in 0..NConn /\ (u.fx # 0 => fw)
                      /\ \A x \in Block : m.blk[x] # Free => u.blk[x] = m.blk[x]
           S == {k \in Nat : k <= NConn => Good(g[k])}
<1>2. 0 \in S
  BY <1>1, EtherAssumption DEF Mem
<1>3. ASSUME NEW k \in Nat, k \in S PROVE k + 1 \in S
  <2> SUFFICES ASSUME k + 1 <= NConn PROVE Good(g[k + 1])
    OBVIOUS
  <2>1. k + 1 \in Conn /\ (k + 1) - 1 = k /\ k <= NConn
    BY EtherAssumption DEF Conn
  <2>2. Good(g[k])
    BY <1>3, <2>1
  <2>3. g[k + 1] = Give(g[k], k + 1, p, fw)
    BY <1>1, <2>1 DEF Conn
  <2> DEFINE u == g[k]
             v == Give(u, k + 1, p, fw)
  <2>4. /\ v \in Mem /\ Short(v) /\ Given(v, R)
        /\ \A x \in Block : u.blk[x] # Free => v.blk[x] = u.blk[x]
        /\ v.fx = u.fx \/ (fw /\ u.fx = 0 /\ v.fx = k + 1)
    BY <2>1, <2>2, GiveMem
  <2> HIDE DEF u, v
  <2>5. v.fx \in 0..NConn
    BY <2>4 DEF Mem
  <2>6. Good(v)
    BY <2>2, <2>4, <2>5 DEF u
  <2> QED
    BY <2>3, <2>6 DEF u, v
<1> HIDE DEF S
<1>4. NConn \in S
  BY <1>2, <1>3, Induction, EtherAssumption
<1>5. Good(F)
  BY <1>1, <1>4, EtherAssumption DEF S
<1>6. m.blk[b] # Free /\ \A x \in Block : x \in R => m.blk[x] # Free
  BY DEF Given
<1>7. CASE multi(p) /\ p.dst # "bcast" /\ ~Prom /\ ~activemulti(p)
  <2>1. s = IF fw THEN freeb(m, b) ELSE m
    BY <1>7 DEF etheriq
  <2>2. CASE fw
    <3>1. s = freeb(m, b)
      BY <2>1, <2>2
    <3>2. s \in Mem /\ Short(s) /\ Given(s, R \ {b}) /\ BlkKept(s, m, b)
      BY <3>1, FreeMem
    <3> QED
      BY <2>2, <3>2 DEF BlkKept
  <2>3. CASE ~fw
    BY <2>1, <2>3
  <2> QED
    BY <2>2, <2>3
<1>8. CASE ~(multi(p) /\ p.dst # "bcast" /\ ~Prom /\ ~activemulti(p))
  <2>1. s = IF F.fx # 0 THEN qpass(F, F.fx, b, p) ELSE IF fw THEN freeb(F, b) ELSE F
    BY <1>8 DEF etheriq
  <2> HIDE DEF F
  <2>2. CASE F.fx # 0
    <3>1. fw /\ F.fx \in Conn
      BY <1>5, <2>2, EtherAssumption DEF Conn
    <3>2. s = qpass(F, F.fx, b, p)
      BY <2>1, <2>2
    <3> DEFINE d == F.fx
    <3>3. d \in Conn /\ s = qpass(F, d, b, p)
      BY <3>1, <3>2
    <3> HIDE DEF d
    <3>4. s \in Mem /\ Short(s) /\ Given(s, R \ {b}) /\ BlkKept(s, F, b)
      <4>1. F \in Mem /\ Short(F) /\ Given(F, R)
        BY <1>5
      <4>2. qpass(F, d, b, p) \in Mem /\ Short(qpass(F, d, b, p)) /\ Given(qpass(F, d, b, p), R \ {b})
            /\ BlkKept(qpass(F, d, b, p), F, b)
        BY <3>3, <4>1, PassMem
      <4> QED
        BY <3>3, <4>2
    <3> QED
      BY <1>5, <1>6, <3>1, <3>4 DEF BlkKept
  <2>3. CASE F.fx = 0 /\ fw
    <3>1. s = freeb(F, b)
      BY <2>1, <2>3
    <3>2. s \in Mem /\ Short(s) /\ Given(s, R \ {b}) /\ BlkKept(s, F, b)
      BY <1>5, <3>1, FreeMem
    <3> QED
      BY <1>5, <1>6, <2>3, <3>2 DEF BlkKept
  <2>4. CASE F.fx = 0 /\ ~fw
    BY <1>5, <1>6, <2>1, <2>4
  <2> QED
    BY <2>2, <2>3, <2>4
<1> QED
  BY <1>7, <1>8

-------------------------------------------------------------------------------
(* Where blocks are, and what the processes of devether.c do with them      *)

D == 0..Ntd-1

\* The blocks that oq, the descriptors and the processes have.
OutBlocks  == {oq[i] : i \in 1..Len(oq)}
TdBlocks   == {td[i].bp : i \in D} \ {NoBlock}
ProcBlocks == {wblk[w] : w \in Proc} \ {NoBlock}
Elsewhere  == OutBlocks \cup TdBlocks \cup ProcBlocks

Types ==
  /\ TypeOK /\ load \in Loads
  /\ rx \in Seq([ok : BOOLEAN, p : Packet])

\* Every place but the connections' queues, which Given is about, has blocks
\* of its own.
Apart ==
  /\ \A i, j \in 1..Len(oq) : oq[i] = oq[j] => i = j
  /\ \A i, j \in D : td[i].bp = td[j].bp /\ td[i].bp # NoBlock => i = j
  /\ \A v, w \in Proc : wblk[v] = wblk[w] /\ wblk[v] # NoBlock => v = w
  /\ OutBlocks \cap TdBlocks = {} /\ OutBlocks \cap ProcBlocks = {} /\ TdBlocks \cap ProcBlocks = {}
  /\ \A w \in Proc : wblk[w] # NoBlock <=> wpc[w] \in {"feed", "free", "queue"}

OwnInv == Given(Counted, Elsewhere) /\ Apart

LEMMA GivenSame ==
  ASSUME NEW m, NEW q, m.blk = q.blk, m.inq = q.inq, NEW R, Given(m, R)
  PROVE  Given(q, R)
<1>1. \A x : Queued(q, x) <=> Queued(m, x)
  BY DEF Queued
<1> QED
  BY <1>1 DEF Given

LEMMA CountedMem ==
  ASSUME Types
  PROVE  /\ Counted \in Mem /\ Short(Counted) /\ Counted.fx = 0 /\ Counted.blk = blk /\ Counted.inq = inq
         /\ Counted.heard = heard /\ Counted.soverflows = soverflows
<1>1. 0 \in 0..NConn
  BY EtherAssumption
<1>2. /\ blk \in [Block -> Packet \cup {Free}] /\ inq \in [Conn -> Seq(Block)]
      /\ heard \in [Conn -> Seq(Packet)] /\ soverflows \in Nat
      /\ \A c \in Conn : Len(inq[c]) <= InLimit
  BY DEF Types, TypeOK
<1> QED
  BY <1>1, <1>2 DEF Counted, Mem, Short

\* What becomes of the memory has its types.
LEMMA BecomeTypes ==
  ASSUME NEW s \in Mem, Short(s), Become(s)
  PROVE  /\ blk' \in [Block -> Packet \cup {Free}] /\ inq' \in [Conn -> Seq(Block)]
         /\ heard' \in [Conn -> Seq(Packet)] /\ soverflows' \in Nat
         /\ \A c \in Conn : Len(inq'[c]) <= InLimit
BY DEF Become, Mem, Short

LEMMA BlocksAre ==
  ASSUME Types, OwnInv
  PROVE  /\ Elsewhere \subseteq Block
         /\ \A b \in Block : b \in Elsewhere => blk[b] \in Packet
         /\ \A i \in 1..Len(oq) : oq[i] \in Block /\ oq[i] \in Elsewhere
         /\ \A w \in Proc : wblk[w] # NoBlock => wblk[w] \in Block /\ wblk[w] \in Elsewhere
         /\ \A i \in D : td[i].bp # NoBlock => td[i].bp \in Block /\ td[i].bp \in Elsewhere
<1>1. /\ oq \in Seq(Block) /\ wblk \in [Proc -> Block \cup {NoBlock}]
      /\ \A i \in D : td[i].bp \in Block \cup {NoBlock}
      /\ blk \in [Block -> Packet \cup {Free}]
  BY DEF Types, TypeOK, D
<1>2. \A i \in 1..Len(oq) : oq[i] \in Block
  BY <1>1
<1>3. OutBlocks \subseteq Block /\ TdBlocks \subseteq Block /\ ProcBlocks \subseteq Block
  BY <1>1, <1>2 DEF OutBlocks, TdBlocks, ProcBlocks
<1>4. \A b \in Block : b \in Elsewhere => blk[b] # Free
  BY CountedMem DEF OwnInv, Given
<1>5. Elsewhere \subseteq Block /\ \A b \in Block : b \in Elsewhere => blk[b] \in Packet
  BY <1>1, <1>3, <1>4 DEF Elsewhere
<1>6. /\ \A i \in 1..Len(oq) : oq[i] \in Elsewhere
      /\ \A w \in Proc : wblk[w] # NoBlock => wblk[w] \in Elsewhere
      /\ \A i \in D : td[i].bp # NoBlock => td[i].bp \in Elsewhere
  BY DEF Elsewhere, OutBlocks, TdBlocks, ProcBlocks
<1> QED
  BY <1>1, <1>2, <1>5, <1>6

\* A process has taken a free block.
Taken(q, m, b, p) == q = [m EXCEPT !.blk[b] = p]
BlkSet(q, m, b, p) == q.blk = [m.blk EXCEPT ![b] = p]

LEMMA TakeMem ==
  ASSUME NEW m \in Mem, Short(m), NEW R, Given(m, R), NEW b \in Block, m.blk[b] = Free, NEW p \in Packet,
         NEW q, Taken(q, m, b, p)
  PROVE  /\ q \in Mem /\ Short(q) /\ Given(q, R \cup {b}) /\ BlkKept(q, m, b) /\ q.fx = m.fx /\ q.inq = m.inq
         /\ BlkSet(q, m, b, p) /\ b \notin R
<1>1. q \in Mem /\ q.fx = m.fx /\ q.inq = m.inq /\ q.blk = [m.blk EXCEPT ![b] = p]
  BY DEF Mem, Taken
<1>2. \A x \in Block : q.blk[x] = IF x = b THEN p ELSE m.blk[x]
  BY <1>1 DEF Mem
<1>3. \A x : Queued(q, x) <=> Queued(m, x)
  BY <1>1 DEF Queued
<1>4. ~Queued(m, b) /\ b \notin R
  BY DEF Given
<1>5. Given(q, R \cup {b})
  BY <1>1, <1>2, <1>3, <1>4, PacketsAre DEF Given, Queued
<1> QED
  BY <1>1, <1>2, <1>4, <1>5 DEF Short, BlkKept, BlkSet

(* What the steps of the processes make of ownership. *)

\* A process changes its block and where it is.
LEMMA ProcStep ==
  ASSUME Types, Apart, NEW w \in Proc, NEW b \in Block \cup {NoBlock}, NEW pc, wblk' = [wblk EXCEPT ![w] = b], Goto(w, pc),
         UNCHANGED <<oq, td>>, b # NoBlock <=> pc \in {"feed", "free", "queue"},
         b = NoBlock \/ b = wblk[w] \/ b \notin Elsewhere
  PROVE  /\ Apart' /\ Elsewhere' = (Elsewhere \ {wblk[w]}) \cup ({b} \ {NoBlock})
         /\ wblk' \in [Proc -> Block \cup {NoBlock}] /\ wpc' = [wpc EXCEPT ![w] = pc]
<1>1. wblk \in [Proc -> Block \cup {NoBlock}] /\ wpc \in [Proc -> {"idle", "feed", "free", "queue", "flow", "kick"}]
  BY DEF Types, TypeOK
<1>2. \A v \in Proc : wblk'[v] = (IF v = w THEN b ELSE wblk[v]) /\ wpc'[v] = (IF v = w THEN pc ELSE wpc[v])
  BY <1>1 DEF Goto
<1>3. /\ OutBlocks' = OutBlocks /\ TdBlocks' = TdBlocks
      /\ ProcBlocks' = (ProcBlocks \ {wblk[w]}) \cup ({b} \ {NoBlock})
  <2>1. OutBlocks' = OutBlocks /\ TdBlocks' = TdBlocks
    BY DEF OutBlocks, TdBlocks
  <2>2. \A x : x \in ProcBlocks' <=> x \in (ProcBlocks \ {wblk[w]}) \cup ({b} \ {NoBlock})
    BY <1>2 DEF ProcBlocks, Apart
  <2> QED
    BY <2>1, <2>2
<1>4. wblk[w] \notin OutBlocks /\ wblk[w] \notin TdBlocks
  <2>1. NoBlock \notin OutBlocks /\ NoBlock \notin TdBlocks
    BY EtherAssumption, SMTT(30) DEF OutBlocks, TdBlocks, Types, TypeOK
  <2>2. wblk[w] # NoBlock => wblk[w] \in ProcBlocks
    BY DEF ProcBlocks
  <2> QED
    BY <2>1, <2>2 DEF Apart
<1>5. Elsewhere' = (Elsewhere \ {wblk[w]}) \cup ({b} \ {NoBlock})
  BY <1>3, <1>4 DEF Elsewhere
<1>6. Apart'
  <2>1. \A v, u \in Proc : wblk'[v] = wblk'[u] /\ wblk'[v] # NoBlock => v = u
    BY <1>2 DEF Apart, Elsewhere, ProcBlocks
  <2>2. \A v \in Proc : wblk'[v] # NoBlock <=> wpc'[v] \in {"feed", "free", "queue"}
    BY <1>2 DEF Apart
  <2>3. OutBlocks' \cap ProcBlocks' = {} /\ TdBlocks' \cap ProcBlocks' = {} /\ OutBlocks' \cap TdBlocks' = {}
    <3>1. b # NoBlock => b \notin OutBlocks /\ b \notin TdBlocks
      BY <1>4 DEF Elsewhere
    <3> QED
      BY <1>3, <3>1 DEF Apart
  <2> QED
    BY <2>1, <2>2, <2>3 DEF Apart, D
<1> QED
  BY <1>1, <1>5, <1>6 DEF Goto

\* The types, in parts.
MuxTypes ==
  /\ load \in Loads /\ conns \in [Conn -> Config \cup {Closed}]
  /\ oq \in Seq(Block) /\ noblock \in BOOLEAN
  /\ inpackets \in Nat /\ outpackets \in Nat /\ made \in 0..MaxPackets
  /\ wpc \in [Proc -> {"idle", "feed", "free", "queue", "flow", "kick"}]
  /\ wblk \in [Proc -> Block \cup {NoBlock}]
  /\ queued \in Seq(1..MaxPackets)

MemTypes ==
  /\ blk \in [Block -> Packet \cup {Free}] /\ inq \in [Conn -> Seq(Block)]
  /\ heard \in [Conn -> Seq(Packet)] /\ soverflows \in Nat
  /\ \A c \in Conn : Len(inq[c]) <= InLimit

RingTypes ==
  /\ td \in [D -> [bp : Block \cup {NoBlock}, st : {"idle", "own", "Tcok", "Tabt"}, n : 0..MaxPackets]]
  /\ ntd \in 0..Ntd /\ tdh \in D /\ tdi \in D /\ chip \in D

ChipTypes ==
  /\ {isr, loc} \subseteq SUBSET {"Tok", "Ter", "Rok", "Rer", "Rxovw", "Serr"}
  /\ intr \in {"out", "read", "ack", "rx", "tx", "serr"}
  /\ rx \in Seq([ok : BOOLEAN, p : Packet]) /\ Len(rx) <= RxSlots
  /\ left \in Seq(1..MaxPackets) /\ errors \in 0..load.errors /\ resets \in BOOLEAN

LEMMA TypesAre == Types <=> MuxTypes /\ MemTypes /\ RingTypes /\ ChipTypes
BY DEF Types, TypeOK, MuxTypes, MemTypes, RingTypes, ChipTypes, D

\* Blocks in oq keep what they hold.
OutKept == \A i \in 1..Len(oq) : blk'[oq[i]] = blk[oq[i]]

LEMMA CountedNext == Counted'.blk = blk' /\ Counted'.inq = inq'
BY DEF Counted

LEMMA NotNoBlock ==
  ASSUME Types, OwnInv
  PROVE  NoBlock \notin Elsewhere /\ NoBlock \notin Block
BY BlocksAre, EtherAssumption

LEMMA FreeOwn ==
  ASSUME Types, OwnInv, NEW b \in Block, b \in Elsewhere, Become(freeb(Counted, b)),
         Elsewhere' = Elsewhere \ {b}
  PROVE  /\ MemTypes' /\ Given(Counted, Elsewhere)' /\ inq' = inq
         /\ \A x \in Block \ {b} : blk'[x] = blk[x]
<1>1. PICK q : q = freeb(Counted, b)
  OBVIOUS
<1>2. Counted \in Mem /\ Short(Counted) /\ Given(Counted, Elsewhere) /\ Counted.blk = blk /\ Counted.inq = inq
  BY CountedMem DEF OwnInv
<1>3. q \in Mem /\ Short(q) /\ Given(q, Elsewhere \ {b}) /\ BlkKept(q, Counted, b) /\ q.inq = inq
  BY <1>1, <1>2, FreeMem
<1>4. Become(q)
  BY <1>1
<1>5. q.blk = Counted'.blk /\ q.inq = Counted'.inq
  BY <1>4, CountedNext DEF Become
<1>6. Given(Counted', Elsewhere \ {b})
  BY <1>3, <1>5, GivenSame
<1>7. MemTypes'
  BY <1>3, <1>4, BecomeTypes DEF MemTypes
<1> QED
  BY <1>2, <1>3, <1>4, <1>6, <1>7 DEF Become, BlkKept

LEMMA WriteOwn ==
  ASSUME Types, OwnInv, UNCHANGED driver, NEW w \in Proc, NEW f \in Frame, EtherWrite(w, f)
  PROVE  MuxTypes' /\ MemTypes' /\ OwnInv' /\ OutKept /\ UNCHANGED <<oq, queued>>
<1>1. PICK b : b = iallocb(Counted)
  OBVIOUS
<1>2. PICK p : p = Numbered(f, made + 1)
  OBVIOUS
<1>3. /\ wpc[w] = "idle" /\ made < load.packets /\ b # NoBlock /\ made' = made + 1
      /\ wblk' = [wblk EXCEPT ![w] = b] /\ blk' = [blk EXCEPT ![b] = p] /\ Goto(w, "feed")
      /\ UNCHANGED <<setup, inq, heard, soverflows, output, counts>>
  BY <1>1, <1>2 DEF EtherWrite
<1>4. Counted \in Mem /\ Short(Counted) /\ Given(Counted, Elsewhere) /\ Counted.blk = blk /\ Counted.inq = inq
  BY CountedMem DEF OwnInv
<1>5. b \in Block /\ blk[b] = Free
  BY <1>1, <1>3, <1>4, AllocIs
<1>6. made + 1 \in 1..MaxPackets /\ p \in Packet
  <2>1. load.packets \in 0..MaxPackets /\ made \in 0..MaxPackets
    BY LoadAssumption, TypesAre DEF MuxTypes
  <2> QED
    BY <1>2, <1>3, <2>1, PacketsAre, EtherAssumption
<1>7. PICK q : Taken(q, Counted, b, p)
  BY DEF Taken
<1>8. /\ q \in Mem /\ Short(q) /\ Given(q, Elsewhere \cup {b}) /\ q.inq = inq /\ q.blk = blk' /\ b \notin Elsewhere
  <2>1. Counted.blk[b] = Free
    BY <1>4, <1>5
  <2>2. q \in Mem /\ Short(q) /\ Given(q, Elsewhere \cup {b}) /\ q.inq = inq /\ BlkSet(q, Counted, b, p) /\ b \notin Elsewhere
    <3>1. PICK c : c = Counted
      OBVIOUS
    <3>2. PICK R : R = Elsewhere
      OBVIOUS
    <3>3. c \in Mem /\ Short(c) /\ Given(c, R) /\ c.blk[b] = Free /\ b \in Block /\ p \in Packet /\ Taken(q, c, b, p)
      BY <1>4, <1>5, <1>6, <1>7, <2>1, <3>1, <3>2
    <3>4. q \in Mem /\ Short(q) /\ Given(q, R \cup {b}) /\ q.inq = c.inq /\ BlkSet(q, c, b, p) /\ b \notin R
      BY <3>3, TakeMem
    <3> QED
      BY <1>4, <3>1, <3>2, <3>4
  <2> QED
    BY <1>3, <1>4, <2>2 DEF BlkSet
<1>9. /\ Apart' /\ Elsewhere' = Elsewhere \cup {b}
      /\ wblk' \in [Proc -> Block \cup {NoBlock}] /\ wpc' = [wpc EXCEPT ![w] = "feed"]
  <2>1. wblk[w] = NoBlock
    BY <1>3 DEF OwnInv, Apart
  <2>2. UNCHANGED <<oq, td>>
    BY <1>3 DEF output, driver, ring
  <2>3. /\ Apart' /\ Elsewhere' = (Elsewhere \ {wblk[w]}) \cup ({b} \ {NoBlock})
        /\ wblk' \in [Proc -> Block \cup {NoBlock}] /\ wpc' = [wpc EXCEPT ![w] = "feed"]
    BY <1>3, <1>5, <1>8, <2>2, ProcStep DEF OwnInv
  <2> QED
    BY <1>3, <2>1, <2>3, NotNoBlock
<1>10. Given(Counted', Elsewhere \cup {b})
  BY <1>3, <1>8, CountedNext, GivenSame
<1>11. MemTypes'
  BY <1>3, <1>5, <1>6, TypesAre DEF MemTypes
<1>12. MuxTypes'
  BY <1>3, <1>6, <1>9, TypesAre DEF MuxTypes, setup, output, counts
<1>13. OutKept
  BY <1>3, <1>8, BlocksAre, TypesAre DEF OutKept, MemTypes
<1> QED
  BY <1>3, <1>9, <1>10, <1>11, <1>12, <1>13 DEF OwnInv, output

\* A process frees its block.
LEMMA DropOwn ==
  ASSUME Types, OwnInv, UNCHANGED driver, NEW w \in Proc, EtherReject(w) \/ EtherFree(w)
  PROVE  MuxTypes' /\ MemTypes' /\ OwnInv' /\ OutKept /\ UNCHANGED <<oq, queued>>
<1>1. /\ wpc[w] \in {"feed", "free"} /\ Become(freeb(Counted, wblk[w]))
      /\ wblk' = [wblk EXCEPT ![w] = NoBlock] /\ Goto(w, "idle")
      /\ UNCHANGED <<setup, output, counts, made>>
  BY DEF EtherReject, EtherFree
<1>2. wblk[w] \in Block /\ wblk[w] \in Elsewhere
  BY <1>1, BlocksAre DEF OwnInv, Apart
<1>3. /\ Apart' /\ Elsewhere' = Elsewhere \ {wblk[w]}
      /\ wblk' \in [Proc -> Block \cup {NoBlock}] /\ wpc' = [wpc EXCEPT ![w] = "idle"]
  <2>1. UNCHANGED <<oq, td>>
    BY <1>1 DEF output, driver, ring
  <2> QED
    BY <1>1, <2>1, ProcStep DEF OwnInv
<1>4. MemTypes' /\ Given(Counted, Elsewhere)' /\ \A x \in Block \ {wblk[w]} : blk'[x] = blk[x]
  BY <1>1, <1>2, <1>3, FreeOwn
<1>5. MuxTypes'
  BY <1>1, <1>3, TypesAre DEF MuxTypes, setup, output, counts
<1>6. OutKept
  <2>1. wblk[w] \in ProcBlocks
    BY <1>2, NotNoBlock DEF ProcBlocks
  <2>2. \A i \in 1..Len(oq) : oq[i] # wblk[w]
    BY <2>1 DEF OwnInv, Apart, OutBlocks
  <2> QED
    BY <1>4, <2>2, BlocksAre DEF OutKept
<1> QED
  BY <1>1, <1>3, <1>4, <1>5, <1>6 DEF OwnInv, output

LEMMA FeedOwn ==
  ASSUME Types, OwnInv, UNCHANGED driver, NEW w \in Proc, EtherFeed(w)
  PROVE  MuxTypes' /\ MemTypes' /\ OwnInv' /\ OutKept /\ UNCHANGED <<oq, queued>>
<1> DEFINE b == wblk[w]
           p == blk[b]
           pc == IF p.dst = "me" THEN "free" ELSE "queue"
<1>1. /\ wpc[w] = "feed" /\ outpackets' = outpackets + 1 /\ Goto(w, pc)
      /\ \/ Become(etheriq(Counted, b, p, FALSE)) /\ inpackets' = inpackets + 1
         \/ UNCHANGED <<memory, inpackets>>
      /\ UNCHANGED <<setup, output, wblk, made>>
  BY DEF EtherFeed
<1>2. b \in Block /\ b \in Elsewhere /\ p \in Packet /\ b # NoBlock
  BY <1>1, BlocksAre DEF OwnInv, Apart
<1> HIDE DEF b, p
<1>3. Apart' /\ Elsewhere' = Elsewhere /\ wpc' = [wpc EXCEPT ![w] = pc]
  <2>1. UNCHANGED <<oq, td>>
    BY <1>1 DEF output, driver, ring
  <2>2. wblk' = [wblk EXCEPT ![w] = b] /\ b \in Block \cup {NoBlock}
    BY <1>1, <1>2, TypesAre DEF MuxTypes, b
  <2>3. b # NoBlock <=> pc \in {"feed", "free", "queue"}
    BY <1>2
  <2> HIDE DEF pc
  <2>4. Apart' /\ Elsewhere' = (Elsewhere \ {wblk[w]}) \cup ({b} \ {NoBlock}) /\ wpc' = [wpc EXCEPT ![w] = pc]
    BY <1>1, <2>1, <2>2, <2>3, ProcStep DEF OwnInv, b
  <2> QED
    BY <1>2, <2>4 DEF b
<1>4. MuxTypes'
  <2>1. pc \in {"free", "queue"}
    OBVIOUS
  <2> HIDE DEF pc
  <2>2. inpackets' = inpackets + 1 \/ inpackets' = inpackets
    BY <1>1
  <2>3. inpackets' \in Nat /\ outpackets' \in Nat
    BY <1>1, <2>2, TypesAre DEF MuxTypes
  <2> QED
    BY <1>1, <1>3, <2>1, <2>3, TypesAre DEF MuxTypes, setup, output
<1>5. CASE Become(etheriq(Counted, b, p, FALSE))
  <2>1. Counted \in Mem /\ Short(Counted) /\ Given(Counted, Elsewhere) /\ Counted.blk = blk /\ Counted.fx = 0
    BY CountedMem DEF OwnInv
  <2>2. PICK s : s = etheriq(Counted, b, p, FALSE)
    OBVIOUS
  <2>3. /\ s \in Mem /\ Short(s) /\ Given(s, Elsewhere)
        /\ \A x \in Block : x \in Elsewhere => s.blk[x] = blk[x]
    <3>1. PICK fw \in BOOLEAN : fw = FALSE
      OBVIOUS
    <3>2. s = etheriq(Counted, b, p, fw)
      BY <2>2, <3>1
    <3>3. /\ s \in Mem /\ Short(s) /\ Given(s, IF fw THEN Elsewhere \ {b} ELSE Elsewhere)
          /\ \A x \in Block : x \in Elsewhere /\ x # b => s.blk[x] = Counted.blk[x]
          /\ ~fw => s.blk[b] = Counted.blk[b]
      BY <1>2, <2>1, <3>2, EtheriqMem
    <3> QED
      BY <2>1, <3>1, <3>3
  <2>4. Become(s)
    BY <1>5, <2>2
  <2>5. s.blk = Counted'.blk /\ s.inq = Counted'.inq
    BY <2>4, CountedNext DEF Become
  <2>6. Given(Counted', Elsewhere)
    BY <2>3, <2>5, GivenSame
  <2>7. MemTypes'
    BY <2>3, <2>4, BecomeTypes DEF MemTypes
  <2>8. OutKept
    BY <2>3, <2>4, BlocksAre DEF OutKept, Become
  <2> QED
    BY <1>1, <1>3, <1>4, <2>6, <2>7, <2>8 DEF OwnInv, output
<1>6. CASE UNCHANGED memory
  <2>1. UNCHANGED <<blk, inq, heard, soverflows>>
    BY <1>6 DEF memory
  <2>2. Counted' = Counted
    BY <2>1 DEF Counted
  <2>3. MemTypes' /\ OutKept
    BY <2>1, TypesAre DEF MemTypes, OutKept
  <2> QED
    BY <1>1, <1>3, <1>4, <2>2, <2>3 DEF OwnInv, output
<1> QED
  BY <1>1, <1>5, <1>6

LEMMA QueueOwn ==
  ASSUME Types, OwnInv, UNCHANGED driver, NEW w \in Proc, EtherQueue(w)
  PROVE  /\ MuxTypes' /\ MemTypes' /\ OwnInv' /\ OutKept
         /\ \/ UNCHANGED <<oq, queued>>
            \/ /\ oq' = Append(oq, wblk[w]) /\ queued' = Append(queued, blk[wblk[w]].n)
               /\ UNCHANGED blk /\ wblk[w] \in Block /\ blk[wblk[w]].n \in 1..MaxPackets
<1> DEFINE b == wblk[w]
<1>1. /\ wpc[w] = "queue" /\ wblk' = [wblk EXCEPT ![w] = NoBlock]
      /\ \/ Become(freeb(Counted, b)) /\ UNCHANGED <<oq, queued>> /\ Goto(w, "kick")
         \/ /\ oq' = Append(oq, b) /\ queued' = Append(queued, blk[b].n)
            /\ Goto(w, "flow") /\ UNCHANGED memory
      /\ UNCHANGED <<setup, noblock, counts, made>>
  BY DEF EtherQueue
<1>2. b \in Block /\ b \in Elsewhere /\ blk[b] \in Packet /\ b # NoBlock /\ b \in ProcBlocks /\ blk[b].n \in 1..MaxPackets
  BY <1>1, BlocksAre, PacketsAre DEF OwnInv, Apart, ProcBlocks
<1>3. \A i \in 1..Len(oq) : oq[i] # b
  BY <1>2 DEF OwnInv, Apart, OutBlocks
<1>4. CASE Become(freeb(Counted, b)) /\ UNCHANGED <<oq, queued>> /\ Goto(w, "kick")
  <2>1. /\ Apart' /\ Elsewhere' = Elsewhere \ {b}
        /\ wblk' \in [Proc -> Block \cup {NoBlock}] /\ wpc' = [wpc EXCEPT ![w] = "kick"]
    <3>1. UNCHANGED <<oq, td>>
      BY <1>4 DEF driver, ring
    <3> QED
      BY <1>1, <1>4, <3>1, ProcStep DEF OwnInv
  <2>2. MemTypes' /\ Given(Counted, Elsewhere)' /\ \A x \in Block \ {b} : blk'[x] = blk[x]
    BY <1>2, <1>4, <2>1, FreeOwn
  <2>3. MuxTypes'
    BY <1>1, <1>4, <2>1, TypesAre DEF MuxTypes, setup, counts
  <2>4. OutKept
    BY <1>3, <2>2, BlocksAre DEF OutKept
  <2> QED
    BY <1>4, <2>1, <2>2, <2>3, <2>4 DEF OwnInv
<1>5. CASE /\ oq' = Append(oq, b) /\ queued' = Append(queued, blk[b].n)
           /\ Goto(w, "flow") /\ UNCHANGED memory
  <2>1. UNCHANGED <<blk, inq, heard, soverflows, td>>
    BY <1>5 DEF memory, driver, ring
  <2> HIDE DEF b
  <2>2. oq \in Seq(Block) /\ wblk \in [Proc -> Block \cup {NoBlock}] /\ queued \in Seq(1..MaxPackets)
        /\ wpc \in [Proc -> {"idle", "feed", "free", "queue", "flow", "kick"}]
    BY TypesAre DEF MuxTypes
  <2>3. /\ oq' \in Seq(Block) /\ Len(oq) \in Nat /\ Len(oq') = Len(oq) + 1 /\ oq'[Len(oq) + 1] = b
        /\ \A i \in 1..Len(oq) : oq'[i] = oq[i]
    BY <1>2, <1>5, <2>2, AppendProperties
  <2>4. queued' \in Seq(1..MaxPackets)
    <3>1. blk[b].n \in 1..MaxPackets
      BY <1>2, PacketsAre
    <3> QED
      BY <1>5, <2>2, <3>1
  <2>5. MuxTypes'
    BY <1>1, <1>5, <2>2, <2>3, <2>4, TypesAre DEF MuxTypes, setup, counts, Goto
  <2>6. MemTypes' /\ OutKept
    BY <2>1, TypesAre DEF MemTypes, OutKept
  <2>7. OutBlocks' = OutBlocks \cup {b} /\ TdBlocks' = TdBlocks /\ ProcBlocks' = ProcBlocks \ {b}
    <3>1. TdBlocks' = TdBlocks
      BY <2>1 DEF TdBlocks
    <3>2. \A x : x \in OutBlocks' <=> x \in OutBlocks \cup {b}
      <4>1. 1..Len(oq') = 1..Len(oq) \cup {Len(oq) + 1}
        BY <2>3
      <4> QED
        BY <2>3, <4>1 DEF OutBlocks
    <3>3. \A v \in Proc : wblk'[v] = IF v = w THEN NoBlock ELSE wblk[v]
      BY <1>1, <2>2
    <3>4. \A x : x \in ProcBlocks' <=> x \in ProcBlocks \ {b}
      BY <1>2, <3>3 DEF ProcBlocks, OwnInv, Apart, b
    <3> QED
      BY <3>1, <3>2, <3>4
  <2>8. Elsewhere' = Elsewhere
    BY <1>2, <2>7 DEF Elsewhere
  <2>9. Apart'
    <3>1. \A i, j \in 1..Len(oq') : oq'[i] = oq'[j] => i = j
      <4>1. \A i \in 1..Len(oq') : i \in 1..Len(oq) \/ i = Len(oq) + 1
        BY <2>3
      <4>2. \A i, j \in 1..Len(oq) : oq[i] = oq[j] => i = j
        BY DEF OwnInv, Apart
      <4> QED
        BY <1>3, <2>3, <4>1, <4>2
    <3>2. \A v \in Proc : /\ wblk'[v] = (IF v = w THEN NoBlock ELSE wblk[v])
                          /\ wpc'[v] = (IF v = w THEN "flow" ELSE wpc[v])
      BY <1>1, <1>5, <2>2 DEF Goto
    <3>3. /\ \A u, v \in Proc : wblk'[v] = wblk'[u] /\ wblk'[v] # NoBlock => v = u
          /\ \A v \in Proc : wblk'[v] # NoBlock <=> wpc'[v] \in {"feed", "free", "queue"}
      BY <3>2 DEF OwnInv, Apart
    <3>4. OutBlocks' \cap TdBlocks' = {} /\ OutBlocks' \cap ProcBlocks' = {} /\ TdBlocks' \cap ProcBlocks' = {}
      BY <1>2, <2>7 DEF OwnInv, Apart
    <3> QED
      BY <2>1, <3>1, <3>3, <3>4 DEF OwnInv, Apart, D
  <2>10. Counted' = Counted
    BY <2>1 DEF Counted
  <2> QED
    BY <1>2, <1>5, <2>1, <2>5, <2>6, <2>8, <2>9, <2>10 DEF OwnInv, b
<1> QED
  BY <1>1, <1>4, <1>5

\* A process waits no longer.
LEMMA FlowOwn ==
  ASSUME Types, OwnInv, UNCHANGED driver, NEW w \in Proc, EtherFlow(w) \/ EtherInterrupted(w)
  PROVE  MuxTypes' /\ MemTypes' /\ OwnInv' /\ OutKept /\ UNCHANGED <<oq, queued>>
<1>1. PICK pc \in {"kick", "idle"} : wpc[w] = "flow" /\ Goto(w, pc)
  BY DEF EtherFlow, EtherInterrupted
<1>2. UNCHANGED <<setup, memory, output, counts, wblk, made>>
  BY DEF EtherFlow, EtherInterrupted
<1>3. UNCHANGED <<oq, td, blk, inq, heard, soverflows, queued>>
  BY <1>2 DEF output, driver, ring, memory
<1>4. wblk[w] = NoBlock /\ wblk' = [wblk EXCEPT ![w] = NoBlock]
  BY <1>1, <1>2, TypesAre DEF OwnInv, Apart, MuxTypes
<1>5. Apart' /\ Elsewhere' = (Elsewhere \ {wblk[w]}) \cup ({NoBlock} \ {NoBlock}) /\ wpc' = [wpc EXCEPT ![w] = pc]
  BY <1>1, <1>3, <1>4, ProcStep DEF OwnInv
<1>6. Elsewhere' = Elsewhere
  BY <1>4, <1>5, NotNoBlock
<1>7. Counted' = Counted
  BY <1>3 DEF Counted
<1>8. MuxTypes' /\ MemTypes' /\ OutKept
  BY <1>1, <1>2, <1>3, <1>5, TypesAre DEF MuxTypes, MemTypes, OutKept, setup, output, counts
<1> QED
  BY <1>3, <1>5, <1>6, <1>7, <1>8 DEF OwnInv

-------------------------------------------------------------------------------
(* Blocks that leave a connection's queue                                   *)

\* The first k blocks of a queue have gone, and are free.
Gone(q, m, c, k) ==
  /\ \A d \in Conn : Len(m.inq[d]) \in Nat
  /\ InqKept(q, m, c) /\ k \in Nat /\ k <= Len(m.inq[c]) /\ Len(q.inq[c]) = Len(m.inq[c]) - k
  /\ \A i \in 1..Len(q.inq[c]) : q.inq[c][i] = m.inq[c][i + k]
  /\ \A x \in Block : q.blk[x] = IF \E i \in 1..k : m.inq[c][i] = x THEN Free ELSE m.blk[x]

LEMMA GoneMem ==
  ASSUME NEW m, NEW q, NEW R, Given(m, R), NEW c \in Conn, NEW k, Gone(q, m, c, k)
  PROVE  Given(q, R)
<1> DEFINE At(d, i) == IF d = c THEN i + k ELSE i
<1>1. ASSUME NEW d \in Conn, NEW i \in 1..Len(q.inq[d])
      PROVE  i \in Nat /\ At(d, i) \in 1..Len(m.inq[d]) /\ q.inq[d][i] = m.inq[d][At(d, i)]
  <2>1. CASE d = c
    <3>1. /\ Len(m.inq[c]) \in Nat /\ k \in Nat /\ k <= Len(m.inq[c]) /\ Len(q.inq[c]) = Len(m.inq[c]) - k
          /\ \A j \in 1..Len(q.inq[c]) : q.inq[c][j] = m.inq[c][j + k]
      BY DEF Gone
    <3>2. i \in 1..Len(q.inq[c])
      BY <2>1
    <3>4. q.inq[c][i] = m.inq[c][i + k]
      BY <3>1, <3>2
    <3>5. i \in Nat /\ 1 <= i /\ i <= Len(m.inq[c]) - k
      BY <3>1, <3>2
    <3>3. i \in Nat /\ i + k \in 1..Len(m.inq[c]) /\ q.inq[c][i] = m.inq[c][i + k]
      BY <3>1, <3>4, <3>5
    <3> QED
      BY <2>1, <3>3
  <2>2. CASE d # c
    <3>1. q.inq[d] = m.inq[d] /\ Len(m.inq[d]) \in Nat
      BY <2>2 DEF Gone, InqKept
    <3> QED
      BY <2>2, <3>1
  <2> QED
    BY <2>1, <2>2
<1>2. \A d \in Conn : \A i \in 1..Len(q.inq[d]) : q.inq[d][i] \notin R
  <2> SUFFICES ASSUME NEW d \in Conn, NEW i \in 1..Len(q.inq[d]) PROVE q.inq[d][i] \notin R
    OBVIOUS
  <2>1. PICK x \in 1..Len(m.inq[d]) : q.inq[d][i] = m.inq[d][x]
    BY <1>1
  <2> QED
    BY <2>1 DEF Given
<1>3. ASSUME NEW d \in Conn, NEW e \in Conn, NEW i \in 1..Len(q.inq[d]), NEW j \in 1..Len(q.inq[e]),
             q.inq[d][i] = q.inq[e][j]
      PROVE  d = e /\ i = j
  <2>1. PICK x \in 1..Len(m.inq[d]) : x = At(d, i) /\ q.inq[d][i] = m.inq[d][x]
    BY <1>1
  <2>2. PICK y \in 1..Len(m.inq[e]) : y = At(e, j) /\ q.inq[e][j] = m.inq[e][y]
    BY <1>1
  <2>3. d = e /\ x = y
    <3>1. m.inq[d][x] = m.inq[e][y]
      BY <1>3, <2>1, <2>2
    <3> QED
      BY <3>1 DEF Given
  <2>4. i \in Nat /\ j \in Nat /\ k \in Nat
    BY <1>1 DEF Gone
  <2> QED
    BY <2>1, <2>2, <2>3, <2>4
<1>4. ASSUME NEW x \in Block PROVE q.blk[x] # Free <=> x \in R \/ Queued(q, x)
  <2>1. CASE \E i \in 1..k : m.inq[c][i] = x
    <3>1. PICK i \in 1..k : m.inq[c][i] = x
      BY <2>1
    <3>2. i \in 1..Len(m.inq[c])
      BY DEF Gone
    <3>3. x \notin R
      BY <3>1, <3>2 DEF Given
    <3>4. ASSUME NEW d \in Conn, NEW j \in 1..Len(q.inq[d]), q.inq[d][j] = x PROVE FALSE
      <4>1. PICK y \in 1..Len(m.inq[d]) : y = At(d, j) /\ q.inq[d][j] = m.inq[d][y]
        BY <1>1
      <4>2. d = c /\ y = i
        BY <3>1, <3>2, <3>4, <4>1 DEF Given
      <4>3. j \in Nat /\ j >= 1 /\ k \in Nat
        BY <1>1 DEF Gone
      <4> QED
        BY <4>1, <4>2, <4>3
    <3> QED
      BY <2>1, <3>3, <3>4 DEF Queued, Gone
  <2>2. CASE ~ \E i \in 1..k : m.inq[c][i] = x
    <3>1. Queued(q, x) => Queued(m, x)
      <4> HIDE DEF At
      <4> QED
        BY <1>1 DEF Queued
    <3>2. ASSUME NEW d \in Conn, NEW i \in 1..Len(m.inq[d]), m.inq[d][i] = x PROVE Queued(q, x)
      <4>1. CASE d = c
        <5>1. i - k \in 1..Len(q.inq[c]) /\ (i - k) + k = i
          BY <2>2, <3>2, <4>1 DEF Gone
        <5>2. q.inq[c][i - k] = x
          BY <3>2, <4>1, <5>1 DEF Gone
        <5> QED
          BY <5>1, <5>2 DEF Queued
      <4>2. CASE d # c
        BY <3>2, <4>2 DEF Gone, InqKept, Queued
      <4> QED
        BY <4>1, <4>2
    <3> QED
      BY <2>2, <3>1, <3>2 DEF Given, Queued, Gone
  <2> QED
    BY <2>1, <2>2
<1> QED
  BY <1>2, <1>3, <1>4 DEF Given

\* Blocks leave a connection's queue: those in oq are others.
LEMMA GoneOwn ==
  ASSUME Types, OwnInv, UNCHANGED driver, UNCHANGED <<oq, queued, wblk, wpc>>, NEW c \in Conn, NEW k,
         inq' \in [Conn -> Seq(Block)], Gone(Counted', Counted, c, k),
         blk' = [b \in Block |-> IF \E i \in 1..k : inq[c][i] = b THEN Free ELSE blk[b]]
  PROVE  OwnInv' /\ OutKept /\ blk' \in [Block -> Packet \cup {Free}] /\ \A d \in Conn : Len(inq'[d]) <= InLimit
<1>1. MemTypes /\ Given(Counted, Elsewhere) /\ Counted.blk = blk /\ Counted.inq = inq
  BY TypesAre, CountedMem DEF OwnInv
<1>2. \A d \in Conn : Len(inq[d]) \in Nat /\ Len(inq[d]) <= InLimit
  BY <1>1 DEF MemTypes
<1>3. Counted'.blk = blk' /\ Counted'.inq = inq'
  BY CountedNext
<1>4. Given(Counted', Elsewhere)
  <2>1. PICK m : m = Counted
    OBVIOUS
  <2>2. PICK q : q = Counted'
    OBVIOUS
  <2>3. Given(m, Elsewhere) /\ Gone(q, m, c, k)
    BY <1>1, <2>1, <2>2
  <2> QED
    BY <2>2, <2>3, GoneMem
<1>5. Elsewhere' = Elsewhere /\ Apart'
  <2>1. UNCHANGED td
    BY DEF driver, ring
  <2>2. OutBlocks' = OutBlocks /\ TdBlocks' = TdBlocks /\ ProcBlocks' = ProcBlocks
    BY <2>1 DEF OutBlocks, TdBlocks, ProcBlocks
  <2> QED
    BY <2>1, <2>2 DEF OwnInv, Apart, Elsewhere, D
<1>6. blk' \in [Block -> Packet \cup {Free}]
  BY <1>1 DEF MemTypes
<1>7. \A d \in Conn : Len(inq'[d]) <= InLimit
  <2> SUFFICES ASSUME NEW d \in Conn PROVE Len(inq'[d]) <= InLimit
    OBVIOUS
  <2>1. CASE d = c
    BY <1>1, <1>2, <1>3, <2>1, EtherAssumption DEF Gone
  <2>2. CASE d # c
    BY <1>1, <1>2, <1>3, <2>2 DEF Gone, InqKept
  <2> QED
    BY <2>1, <2>2
<1>8. OutKept
  <2> SUFFICES ASSUME NEW i \in 1..Len(oq) PROVE blk'[oq[i]] = blk[oq[i]]
    BY DEF OutKept
  <2>1. oq[i] \in Block /\ oq[i] \in Elsewhere
    BY BlocksAre
  <2>2. ~ \E j \in 1..k : inq[c][j] = oq[i]
    <3>1. \A j \in 1..Len(inq[c]) : inq[c][j] \notin Elsewhere
      BY <1>1 DEF Given
    <3>2. \A j \in 1..k : j \in 1..Len(inq[c])
      BY <1>1, <1>2 DEF Gone
    <3> QED
      BY <2>1, <3>1, <3>2
  <2> QED
    BY <2>1, <2>2
<1> QED
  BY <1>4, <1>5, <1>6, <1>7, <1>8 DEF OwnInv

LEMMA GoneIs ==
  ASSUME Types, NEW c \in Conn, NEW k \in Nat, k <= Len(inq[c]),
         \A d \in Conn \ {c} : inq'[d] = inq[d], Len(inq'[c]) = Len(inq[c]) - k,
         \A i \in 1..Len(inq'[c]) : inq'[c][i] = inq[c][i + k],
         blk' = [b \in Block |-> IF \E i \in 1..k : inq[c][i] = b THEN Free ELSE blk[b]]
  PROVE  Gone(Counted', Counted, c, k)
<1>1. Counted.blk = blk /\ Counted.inq = inq
  BY CountedMem
<1>2. Counted'.blk = blk' /\ Counted'.inq = inq'
  BY CountedNext
<1>3. \A d \in Conn : Len(inq[d]) \in Nat
  BY TypesAre DEF MemTypes
<1>4. \A x \in Block : blk'[x] = IF \E i \in 1..k : inq[c][i] = x THEN Free ELSE blk[x]
  OBVIOUS
<1>5. InqKept(Counted', Counted, c)
  BY <1>1, <1>2 DEF InqKept
<1> QED
  BY <1>1, <1>2, <1>3, <1>4, <1>5 DEF Gone

LEMMA ReadOwn ==
  ASSUME Types, OwnInv, UNCHANGED driver, NEW c \in Conn, EtherRead(c)
  PROVE  MuxTypes' /\ MemTypes' /\ OwnInv' /\ OutKept /\ UNCHANGED <<oq, queued>>
<1>1. /\ inq[c] # <<>> /\ inq' = [inq EXCEPT ![c] = Tail(@)]
      /\ blk' = [blk EXCEPT ![Head(inq[c])] = Free]
      /\ UNCHANGED <<setup, heard, soverflows, output, counts, procs, made>>
  BY DEF EtherRead
<1>2. UNCHANGED <<oq, queued, wblk, wpc>>
  BY <1>1 DEF output, procs
<1>3. MuxTypes /\ MemTypes
  BY TypesAre
<1>4. PICK s \in Seq(Block) : s = inq[c]
  BY <1>3 DEF MemTypes
<1>5. /\ Tail(s) \in Seq(Block) /\ Len(Tail(s)) = Len(s) - 1 /\ 1 <= Len(s) /\ Len(s) \in Nat
      /\ \A i \in 1..Len(Tail(s)) : Tail(s)[i] = s[i + 1]
  BY <1>1, <1>4, HeadTailProperties
<1>6. Head(s) = s[1]
  BY <1>1, <1>4, <1>5
<1>7. /\ inq' \in [Conn -> Seq(Block)] /\ inq'[c] = Tail(s) /\ \A d \in Conn \ {c} : inq'[d] = inq[d]
  BY <1>1, <1>3, <1>4, <1>5 DEF MemTypes
<1>8. 1 <= Len(inq[c]) /\ Len(inq'[c]) = Len(inq[c]) - 1 /\ \A i \in 1..Len(inq'[c]) : inq'[c][i] = inq[c][i + 1]
  BY <1>4, <1>5, <1>7
<1>9. blk' = [b \in Block |-> IF \E i \in 1..1 : inq[c][i] = b THEN Free ELSE blk[b]]
  <2>1. \A b : (\E i \in 1..1 : s[i] = b) <=> b = s[1]
    BY <1>5
  <2> QED
    BY <1>1, <1>3, <1>4, <1>6, <2>1 DEF MemTypes
<1>10. Gone(Counted', Counted, c, 1)
  BY <1>7, <1>8, <1>9, GoneIs
<1>11. OwnInv' /\ OutKept /\ blk' \in [Block -> Packet \cup {Free}] /\ \A d \in Conn : Len(inq'[d]) <= InLimit
  BY <1>2, <1>7, <1>9, <1>10, GoneOwn
<1> QED
  BY <1>1, <1>2, <1>3, <1>7, <1>11 DEF MuxTypes, MemTypes, setup, output, counts, procs

LEMMA CloseOwn ==
  ASSUME Types, OwnInv, UNCHANGED driver, NEW c \in Conn, EtherClose(c)
  PROVE  MuxTypes' /\ MemTypes' /\ OwnInv' /\ OutKept /\ UNCHANGED <<oq, queued>>
<1>1. /\ conns' = [conns EXCEPT ![c] = Closed]
      /\ inq' = [inq EXCEPT ![c] = <<>>] /\ heard' = [heard EXCEPT ![c] = <<>>]
      /\ blk' = [b \in Block |-> IF Contains(inq[c], b) THEN Free ELSE blk[b]]
      /\ UNCHANGED <<load, soverflows, output, counts, procs, made>>
  BY DEF EtherClose
<1>2. UNCHANGED <<oq, queued, wblk, wpc>>
  BY <1>1 DEF output, procs
<1>3. MuxTypes /\ MemTypes
  BY TypesAre
<1>4. PICK s \in Seq(Block) : s = inq[c]
  BY <1>3 DEF MemTypes
<1>5. Len(s) \in Nat
  OBVIOUS
<1>6. inq' \in [Conn -> Seq(Block)] /\ inq'[c] = <<>> /\ \A d \in Conn \ {c} : inq'[d] = inq[d]
  BY <1>1, <1>3 DEF MemTypes
<1>7. Len(s) <= Len(inq[c]) /\ Len(inq'[c]) = Len(inq[c]) - Len(s) /\ 1..Len(inq'[c]) = {}
  BY <1>4, <1>5, <1>6
<1>8. blk' = [b \in Block |-> IF \E i \in 1..Len(s) : inq[c][i] = b THEN Free ELSE blk[b]]
  BY <1>1, <1>4 DEF Contains
<1>9. OwnInv' /\ OutKept /\ blk' \in [Block -> Packet \cup {Free}] /\ \A d \in Conn : Len(inq'[d]) <= InLimit
  <2>1. Gone(Counted', Counted, c, Len(s))
    BY <1>5, <1>6, <1>7, <1>8, GoneIs
  <2> QED
    BY <1>2, <1>6, <1>8, <2>1, GoneOwn
<1>10. heard' \in [Conn -> Seq(Packet)] /\ conns' \in [Conn -> Config \cup {Closed}]
  BY <1>1, <1>3 DEF MemTypes, MuxTypes
<1> QED
  BY <1>1, <1>2, <1>3, <1>6, <1>9, <1>10 DEF MuxTypes, MemTypes, output, counts, procs

LEMMA OpenOwn ==
  ASSUME Types, OwnInv, UNCHANGED driver,
         \/ \E on \in BOOLEAN : Nonblocking(on)
         \/ \E c \in Conn, cfg \in Config : EtherOpen(c, cfg)
  PROVE  MuxTypes' /\ MemTypes' /\ OwnInv' /\ OutKept /\ UNCHANGED <<oq, queued>>
<1>1. /\ UNCHANGED <<load, blk, inq, soverflows, oq, queued, counts, procs, made>>
      /\ noblock' \in BOOLEAN /\ conns' \in [Conn -> Config \cup {Closed}] /\ heard' \in [Conn -> Seq(Packet)]
  <2>1. MuxTypes /\ MemTypes
    BY TypesAre
  <2>2. CASE \E on \in BOOLEAN : Nonblocking(on)
    BY <2>1, <2>2 DEF Nonblocking, memory, MuxTypes, MemTypes
  <2>3. CASE \E c \in Conn, cfg \in Config : EtherOpen(c, cfg)
    BY <2>1, <2>3 DEF EtherOpen, output, MuxTypes, MemTypes
  <2> QED
    BY <2>2, <2>3
<1>2. UNCHANGED <<wpc, wblk, inpackets, outpackets, td>>
  BY <1>1 DEF counts, procs, driver, ring
<1>3. MuxTypes' /\ MemTypes' /\ OutKept
  BY <1>1, <1>2, TypesAre DEF MuxTypes, MemTypes, OutKept
<1>4. Elsewhere' = Elsewhere /\ Apart'
  <2>1. OutBlocks' = OutBlocks /\ TdBlocks' = TdBlocks /\ ProcBlocks' = ProcBlocks
    BY <1>1, <1>2 DEF OutBlocks, TdBlocks, ProcBlocks
  <2> QED
    BY <1>1, <1>2, <2>1 DEF OwnInv, Apart, Elsewhere, D
<1>5. Given(Counted', Elsewhere)
  BY <1>1, CountedNext, CountedMem, GivenSame DEF OwnInv
<1> QED
  BY <1>1, <1>3, <1>4, <1>5 DEF OwnInv

\* What a process does in devether.c.
LEMMA MuxOwn ==
  ASSUME Types, OwnInv, UNCHANGED driver, MuxNext
  PROVE  /\ MuxTypes' /\ MemTypes' /\ OwnInv' /\ OutKept
         /\ \/ UNCHANGED <<oq, queued>>
            \/ \E w \in Proc : /\ oq' = Append(oq, wblk[w]) /\ queued' = Append(queued, blk[wblk[w]].n)
                               /\ UNCHANGED blk /\ wblk[w] \in Block /\ blk[wblk[w]].n \in 1..MaxPackets
<1>1. CASE \E w \in Proc, f \in Frame : EtherWrite(w, f)
  BY <1>1, WriteOwn
<1>2. CASE \E w \in Proc : EtherReject(w) \/ EtherFree(w)
  BY <1>2, DropOwn
<1>3. CASE \E w \in Proc : EtherFeed(w)
  BY <1>3, FeedOwn
<1>4. CASE \E w \in Proc : EtherQueue(w)
  BY <1>4, QueueOwn
<1>5. CASE \E w \in Proc : EtherFlow(w) \/ EtherInterrupted(w)
  BY <1>5, FlowOwn
<1>6. CASE \E c \in Conn : EtherRead(c)
  BY <1>6, ReadOwn
<1>7. CASE \E c \in Conn : EtherClose(c)
  BY <1>7, CloseOwn
<1>8. CASE (\E on \in BOOLEAN : Nonblocking(on)) \/ \E c \in Conn, cfg \in Config : EtherOpen(c, cfg)
  BY <1>8, OpenOwn
<1> QED
  BY <1>1, <1>2, <1>3, <1>4, <1>5, <1>6, <1>7, <1>8 DEF MuxNext, etheroq

-------------------------------------------------------------------------------
(* The ring of descriptors                                                  *)

\* The descriptor k places after i, and how far after j it is.
Place(i, k) == IF i + k < Ntd THEN i + k ELSE i + k - Ntd
Past(i, j)  == IF i >= j THEN i - j ELSE i - j + Ntd

\* Of the ntd descriptors in use from tdi on, the last k are the chip's.
RingInv(k) ==
  /\ k \in 0..ntd
  /\ tdh = Place(chip, k) /\ chip = Place(tdi, ntd - k)
  /\ \A i \in D : td[i].st = "own" <=> Past(i, chip) < k
  /\ \A i \in D : td[i].bp # NoBlock => Past(i, tdi) < ntd

\* What was queued has left, or the chip has it, or waits in oq.
OrderInv(k) ==
  /\ Len(queued) = Len(left) + k + Len(oq)
  /\ \A i \in 1..Len(left) : queued[i] = left[i]
  /\ \A i \in D : Past(i, chip) < k => queued[Len(left) + 1 + Past(i, chip)] = td[i].n
  /\ \A i \in 1..Len(oq) : queued[Len(left) + k + i] = blk[oq[i]].n

Ordered == \E k \in 0..Ntd : RingInv(k) /\ OrderInv(k)

LEMMA WrapPlace ==
  ASSUME NEW j \in D, NEW k \in 0..Ntd
  PROVE  Place(j, k) \in D /\ (j + k) % Ntd = Place(j, k)
<1>1. Ntd \in Nat \ {0}
  BY DriverAssumption
<1>2. ASSUME NEW a \in 0..Ntd-1 PROVE a % Ntd = a
  BY <1>1, <1>2
<1>3. ASSUME NEW a \in 0..Ntd-1 PROVE (a + Ntd) % Ntd = a
  BY <1>1, <1>3
<1>4. Place(j, k) \in 0..Ntd-1
  BY <1>1 DEF Place, D
<1>5. CASE j + k < Ntd
  <2>1. j + k \in 0..Ntd-1 /\ Place(j, k) = j + k
    BY <1>1, <1>5 DEF Place, D
  <2> QED
    BY <1>2, <1>4, <2>1 DEF D
<1>6. CASE ~(j + k < Ntd)
  <2>1. PICK a \in 0..Ntd-1 : a = j + k - Ntd
    BY <1>1, <1>6 DEF D
  <2>2. j + k = a + Ntd /\ Place(j, k) = a
    BY <1>1, <1>6, <2>1 DEF Place, D
  <2> QED
    BY <1>3, <1>4, <2>2 DEF D
<1> QED
  BY <1>5, <1>6

LEMMA PastIs ==
  ASSUME NEW i \in D, NEW j \in D
  PROVE  Past(i, j) \in 0..Ntd-1 /\ Place(j, Past(i, j)) = i
BY DriverAssumption DEF Past, Place, D

LEMMA PlacePast ==
  ASSUME NEW j \in D, NEW k \in 0..Ntd-1
  PROVE  Past(Place(j, k), j) = k
BY DriverAssumption DEF Past, Place, D

LEMMA PlaceTwice ==
  ASSUME NEW j \in D, NEW k \in 0..Ntd, NEW n \in Nat, k + n <= Ntd
  PROVE  Place(Place(j, k), n) = Place(j, k + n)
BY DriverAssumption DEF Place, D

LEMMA NextIs ==
  ASSUME NEW j \in D
  PROVE  NEXT(j) = Place(j, 1) /\ NEXT(j) \in D
BY WrapPlace, DriverAssumption DEF NEXT

\* What changes neither the descriptors nor the queue, nor what is in it.
LEMMA KeepRing ==
  ASSUME Types, Ordered, UNCHANGED <<td, ntd, tdh, tdi, chip, left>>, UNCHANGED <<oq, queued>>, OutKept
  PROVE  Ordered'
<1>1. PICK k \in 0..Ntd : RingInv(k) /\ OrderInv(k)
  BY DEF Ordered
<1>2. RingInv(k)'
  BY <1>1 DEF RingInv, D, Past, Place
<1>3. OrderInv(k)'
  BY <1>1 DEF OrderInv, OutKept, D, Past
<1> QED
  BY <1>2, <1>3 DEF Ordered

LEMMA MuxRing ==
  ASSUME Types, OwnInv, Ordered, UNCHANGED driver, MuxNext
  PROVE  Ordered'
<1>1. UNCHANGED <<td, ntd, tdh, tdi, chip, left>>
  BY DEF driver, ring, history
<1>2. CASE UNCHANGED <<oq, queued>>
  BY <1>1, <1>2, MuxOwn, KeepRing
<1>3. CASE \E w \in Proc : /\ oq' = Append(oq, wblk[w]) /\ queued' = Append(queued, blk[wblk[w]].n)
                           /\ UNCHANGED blk /\ wblk[w] \in Block /\ blk[wblk[w]].n \in 1..MaxPackets
  <2>1. PICK w \in Proc : /\ oq' = Append(oq, wblk[w]) /\ queued' = Append(queued, blk[wblk[w]].n)
                          /\ UNCHANGED blk /\ wblk[w] \in Block /\ blk[wblk[w]].n \in 1..MaxPackets
    BY <1>3
  <2>2. PICK k \in 0..Ntd : RingInv(k) /\ OrderInv(k)
    BY DEF Ordered
  <2>3. RingInv(k)'
    BY <1>1, <2>2 DEF RingInv, D, Past, Place
  <2> DEFINE b == wblk[w]
             p == blk[b].n
  <2>a. oq' = Append(oq, b) /\ queued' = Append(queued, p) /\ blk' = blk /\ b \in Block /\ p \in 1..MaxPackets
    BY <2>1
  <2>4. queued \in Seq(1..MaxPackets) /\ oq \in Seq(Block) /\ queued' \in Seq(1..MaxPackets)
        /\ left \in Seq(1..MaxPackets)
    BY MuxOwn, TypesAre DEF MuxTypes, ChipTypes
  <2> HIDE DEF b
  <2>5. /\ Len(oq) \in Nat /\ Len(queued) \in Nat /\ Len(left) \in Nat
        /\ Len(oq') = Len(oq) + 1 /\ oq'[Len(oq) + 1] = b
        /\ \A i \in 1..Len(oq) : oq'[i] = oq[i]
    BY <2>a, <2>4, AppendProperties
  <2> HIDE DEF p
  <2>6. /\ Len(queued') = Len(queued) + 1 /\ queued'[Len(queued) + 1] = p
        /\ \A i \in 1..Len(queued) : queued'[i] = queued[i]
    BY <2>a, <2>4, AppendProperties
  <2>7. /\ Len(queued) = Len(left) + k + Len(oq)
        /\ \A i \in 1..Len(left) : queued[i] = left[i]
        /\ \A i \in D : Past(i, chip) < k => queued[Len(left) + 1 + Past(i, chip)] = td[i].n
        /\ \A i \in 1..Len(oq) : queued[Len(left) + k + i] = blk[oq[i]].n
    BY <2>2 DEF OrderInv
  <2>8. OrderInv(k)'
    <3>1. Len(queued)' = Len(left') + k + Len(oq)'
      BY <1>1, <2>5, <2>6, <2>7
    <3>2. \A i \in 1..Len(left') : queued'[i] = left'[i]
      BY <1>1, <2>5, <2>6, <2>7
    <3>3. \A i \in D : Past(i, chip') < k => queued'[Len(left') + 1 + Past(i, chip')] = td'[i].n
      <4> SUFFICES ASSUME NEW i \in D, Past(i, chip) < k PROVE queued'[Len(left) + 1 + Past(i, chip)] = td[i].n
        BY <1>1
      <4>1. Past(i, chip) \in 0..k-1
        <5>1. chip \in D
          BY TypesAre DEF RingTypes
        <5> QED
          BY <5>1, PastIs
      <4>2. Len(left) + 1 + Past(i, chip) \in 1..Len(queued)
        BY <2>5, <2>7, <4>1
      <4> QED
        BY <2>6, <2>7, <4>2
    <3>4. \A i \in 1..Len(oq') : queued'[Len(left') + k + i] = blk'[oq'[i]].n
      <4> SUFFICES ASSUME NEW i \in 1..Len(oq') PROVE queued'[Len(left) + k + i] = blk[oq'[i]].n
        BY <1>1, <2>a
      <4>1. CASE i \in 1..Len(oq)
        <5>1. Len(left) + k + i \in 1..Len(queued)
          BY <2>5, <2>7, <4>1
        <5> QED
          BY <2>5, <2>6, <2>7, <4>1, <5>1
      <4>2. CASE i = Len(oq) + 1
        <5>1. Len(left) + k + i = Len(queued) + 1
          BY <2>5, <2>7, <4>2
        <5> QED
          BY <2>5, <2>6, <4>2, <5>1 DEF p
      <4> QED
        BY <2>5, <4>1, <4>2
    <3> QED
      BY <3>1, <3>2, <3>3, <3>4 DEF OrderInv, D, Past
  <2> QED
    BY <2>3, <2>8 DEF Ordered
<1> QED
  BY <1>2, <1>3, MuxOwn

-------------------------------------------------------------------------------
(* The chip and the interrupt handler                                       *)

LEMMA TypesNext == Types' <=> MuxTypes' /\ MemTypes' /\ RingTypes' /\ ChipTypes'
BY DEF Types, TypeOK, MuxTypes, MemTypes, RingTypes, ChipTypes, D

\* Who has which block does not change.
LEMMA KeepOwn ==
  ASSUME OwnInv, UNCHANGED <<blk, inq, oq, wpc, wblk>>, \A i \in D : td'[i].bp = td[i].bp
  PROVE  OwnInv' /\ OutKept
<1>1. OutBlocks' = OutBlocks /\ TdBlocks' = TdBlocks /\ ProcBlocks' = ProcBlocks
  BY DEF OutBlocks, TdBlocks, ProcBlocks
<1>2. Elsewhere' = Elsewhere
  BY <1>1 DEF Elsewhere
<1>3. Apart'
  BY <1>1 DEF OwnInv, Apart, D
<1>4. Counted.blk = Counted'.blk /\ Counted.inq = Counted'.inq
  BY DEF Counted
<1>5. Given(Counted', Elsewhere)
  BY <1>4, GivenSame DEF OwnInv
<1> QED
  BY <1>2, <1>3, <1>5 DEF OwnInv, OutKept

LEMMA KeepMux ==
  ASSUME Types, UNCHANGED mux
  PROVE  MuxTypes' /\ MemTypes'
BY TypesAre DEF mux, setup, memory, output, counts, procs, MuxTypes, MemTypes

LEMMA KeepAll ==
  ASSUME Types, OwnInv, Ordered, UNCHANGED mux, UNCHANGED <<ring, chip, left>>
  PROVE  MuxTypes' /\ MemTypes' /\ RingTypes' /\ OwnInv' /\ Ordered'
<1>1. UNCHANGED <<blk, inq, oq, wpc, wblk, queued, td, ntd, tdh, tdi, chip, left>>
  BY DEF mux, memory, output, procs, ring
<1>2. OwnInv' /\ OutKept
  BY <1>1, KeepOwn
<1>3. Ordered'
  BY <1>1, <1>2, KeepRing
<1>4. RingTypes'
  BY <1>1, TypesAre DEF RingTypes, D
<1> QED
  BY <1>2, <1>3, <1>4, KeepMux

LEMMA SendsStep ==
  ASSUME Types, OwnInv, Ordered, NEW ok \in BOOLEAN, ChipSends(ok)
  PROVE  Types' /\ OwnInv' /\ Ordered'
<1> DEFINE n == td[chip].n
           st == IF ok THEN "Tcok" ELSE "Tabt"
<1>1. /\ td[chip].st = "own" /\ Fault("tx", ok) /\ td' = [td EXCEPT ![chip].st = st]
      /\ left' = Append(left, n) /\ chip' = NEXT(chip)
      /\ isr' = isr \cup {IF ok THEN "Tok" ELSE "Ter"}
      /\ UNCHANGED <<mux, ntd, tdh, tdi, loc, intr, rx, resets>>
  BY DEF ChipSends
<1>2. UNCHANGED <<blk, inq, oq, wpc, wblk, queued, load>>
  BY <1>1 DEF mux, memory, output, procs, setup
<1>3. RingTypes /\ ChipTypes /\ left \in Seq(1..MaxPackets) /\ chip \in D /\ queued \in Seq(1..MaxPackets)
      /\ oq \in Seq(Block) /\ td \in [D -> [bp : Block \cup {NoBlock}, st : {"idle", "own", "Tcok", "Tabt"}, n : 0..MaxPackets]]
      /\ ntd \in 0..Ntd /\ tdh \in D /\ tdi \in D
  BY TypesAre DEF RingTypes, ChipTypes, MuxTypes
<1>4. PICK k \in 0..Ntd : RingInv(k) /\ OrderInv(k)
  BY DEF Ordered
<1>5. chip' = Place(chip, 1) /\ chip' \in D
  BY <1>1, <1>3, NextIs
<1>6. /\ \A i \in D : /\ td'[i].st = (IF i = chip THEN st ELSE td[i].st)
                      /\ td'[i].bp = td[i].bp /\ td'[i].n = td[i].n
      /\ td' \in [D -> [bp : Block \cup {NoBlock}, st : {"idle", "own", "Tcok", "Tabt"}, n : 0..MaxPackets]]
  <2>1. st \in {"idle", "own", "Tcok", "Tabt"}
    OBVIOUS
  <2> HIDE DEF st
  <2> QED
    BY <1>1, <1>3, <2>1
<1>a. st # "own"
  OBVIOUS
<1> HIDE DEF st
<1>7. k > 0
  <2>1. Past(chip, chip) = 0
    BY <1>3 DEF Past, D
  <2>2. Past(chip, chip) < k
    BY <1>1, <1>3, <1>4 DEF RingInv
  <2> QED
    BY <2>1, <2>2
<1>8. ASSUME NEW i \in D
      PROVE  Past(i, chip') < k - 1 <=> i # chip /\ Past(i, chip) < k
  BY <1>3, <1>5, <1>7, DriverAssumption DEF Past, Place, D
<1>9. ASSUME NEW i \in D, i # chip
      PROVE  Past(i, chip) = Past(i, chip') + 1
  BY <1>3, <1>5, <1>9, DriverAssumption DEF Past, Place, D
<1>10. RingInv(k - 1)'
  <2>0. /\ k \in 0..ntd /\ tdh = Place(chip, k) /\ chip = Place(tdi, ntd - k)
        /\ \A i \in D : td[i].st = "own" <=> Past(i, chip) < k
        /\ \A i \in D : td[i].bp # NoBlock => Past(i, tdi) < ntd
    BY <1>4 DEF RingInv
  <2>1. k - 1 \in 0..ntd /\ tdh = Place(chip', k - 1) /\ chip' = Place(tdi, ntd - (k - 1))
    BY <1>3, <1>5, <1>7, <2>0, DriverAssumption DEF Place, D
  <2>2. \A i \in D : td'[i].st = "own" <=> Past(i, chip') < k - 1
    BY <1>6, <1>8, <1>a, <2>0
  <2>3. \A i \in D : td'[i].bp # NoBlock => Past(i, tdi) < ntd
    BY <1>6, <2>0
  <2> QED
    BY <1>1, <2>1, <2>2, <2>3 DEF RingInv, D, Past, Place
<1>11. n \in 1..MaxPackets /\ queued[Len(left) + 1] = n /\ Len(left) \in Nat
  <2>1. Past(chip, chip) = 0
    BY <1>3 DEF Past, D
  <2>2. queued[Len(left) + 1 + 0] = n /\ Len(queued) = Len(left) + k + Len(oq)
    BY <1>3, <1>4, <1>7, <2>1 DEF OrderInv
  <2>3. Len(left) \in Nat /\ Len(oq) \in Nat
    BY <1>3
  <2>4. Len(left) + 1 \in 1..Len(queued)
    BY <1>7, <2>2, <2>3
  <2> HIDE DEF n
  <2>5. queued[Len(left) + 1] \in 1..MaxPackets
    BY <1>3, <2>4, ElementOfSeq
  <2> QED
    BY <2>2, <2>3, <2>5
<1> HIDE DEF n
<1>12. /\ left' \in Seq(1..MaxPackets) /\ Len(left') = Len(left) + 1 /\ left'[Len(left) + 1] = n
       /\ \A i \in 1..Len(left) : left'[i] = left[i]
  BY <1>1, <1>3, <1>11, AppendProperties
<1>13. OrderInv(k - 1)'
  <2>0. /\ Len(queued) = Len(left) + k + Len(oq)
        /\ \A i \in 1..Len(left) : queued[i] = left[i]
        /\ \A i \in D : Past(i, chip) < k => queued[Len(left) + 1 + Past(i, chip)] = td[i].n
        /\ \A i \in 1..Len(oq) : queued[Len(left) + k + i] = blk[oq[i]].n
    BY <1>4 DEF OrderInv
  <2>9. Len(left) \in Nat /\ Len(oq) \in Nat
    BY <1>3
  <2>1. Len(queued) = Len(left') + (k - 1) + Len(oq)
    BY <1>12, <2>0, <2>9
  <2>2. ASSUME NEW i \in 1..Len(left') PROVE queued[i] = left'[i]
    <3>1. CASE i \in 1..Len(left)
      BY <1>12, <2>0, <3>1
    <3>2. CASE i = Len(left) + 1
      BY <1>11, <1>12, <3>2
    <3> QED
      BY <1>12, <2>9, <3>1, <3>2
  <2>3. ASSUME NEW i \in D, Past(i, chip') < k - 1 PROVE queued[Len(left') + 1 + Past(i, chip')] = td'[i].n
    <3>1. i # chip /\ Past(i, chip) < k /\ Past(i, chip) = Past(i, chip') + 1
      BY <1>8, <1>9, <2>3
    <3>2. Past(i, chip') \in Nat /\ Past(i, chip) \in Nat
      BY <1>3, <1>5, PastIs, DriverAssumption
    <3>3. Len(left') + 1 + Past(i, chip') = Len(left) + 1 + Past(i, chip)
      BY <1>12, <2>9, <3>1, <3>2
    <3> QED
      BY <1>6, <2>0, <3>1, <3>3
  <2>4. ASSUME NEW i \in 1..Len(oq) PROVE queued[Len(left') + (k - 1) + i] = blk[oq[i]].n
    <3>1. Len(left') + (k - 1) + i = Len(left) + k + i
      BY <1>12, <2>9
    <3> QED
      BY <2>0, <3>1
  <2> QED
    BY <1>2, <2>1, <2>2, <2>3, <2>4 DEF OrderInv, D, Past
<1>14. Ordered'
  <2>1. k - 1 \in 0..Ntd
    BY <1>7, DriverAssumption
  <2> QED
    BY <1>10, <1>13, <2>1 DEF Ordered
<1>15. OwnInv'
  BY <1>2, <1>6, KeepOwn
<1>16. Types'
  <2>1. MuxTypes' /\ MemTypes'
    BY <1>1, KeepMux
  <2>2. RingTypes'
    BY <1>1, <1>3, <1>5, <1>6 DEF RingTypes, D
  <2>3. errors' \in 0..load'.errors
    <3>1. load \in Loads /\ load.errors \in Nat
      BY TypesAre, LoadAssumption DEF MuxTypes
    <3> QED
      BY <1>1, <1>2, <1>3, <3>1, SMTT(30) DEF Fault, ChipTypes
  <2>4. ChipTypes'
    BY <1>1, <1>3, <1>12, <2>3 DEF ChipTypes
  <2> QED
    BY <2>1, <2>2, <2>4, TypesNext
<1> QED
  BY <1>14, <1>15, <1>16

LEMMA ReapStep ==
  ASSUME Types, OwnInv, Ordered, IntrReap
  PROVE  Types' /\ OwnInv' /\ Ordered'
<1> DEFINE b == td[tdi].bp
<1>1. /\ intr = "tx" /\ ntd > 0 /\ td[tdi].st \in {"Tcok", "Tabt"}
      /\ \/ b # NoBlock /\ Become(freeb(Counted, b))
         \/ b = NoBlock /\ UNCHANGED memory
      /\ td' = [td EXCEPT ![tdi].bp = NoBlock] /\ ntd' = ntd - 1 /\ tdi' = NEXT(tdi)
      /\ UNCHANGED <<setup, output, counts, procs, made, tdh, chip, isr, loc, intr, rx, history>>
  BY DEF IntrReap, TxDone
<1>2. UNCHANGED <<oq, wpc, wblk, queued, load, left>>
  BY <1>1 DEF output, procs, setup, history
<1>3. /\ td \in [D -> [bp : Block \cup {NoBlock}, st : {"idle", "own", "Tcok", "Tabt"}, n : 0..MaxPackets]]
      /\ ntd \in 0..Ntd /\ tdh \in D /\ tdi \in D /\ chip \in D
  BY TypesAre DEF RingTypes
<1>4. PICK k \in 0..Ntd : RingInv(k) /\ OrderInv(k)
  BY DEF Ordered
<1>5. tdi' = Place(tdi, 1) /\ tdi' \in D
  BY <1>1, <1>3, NextIs
<1>6. /\ \A i \in D : /\ td'[i].bp = (IF i = tdi THEN NoBlock ELSE td[i].bp)
                      /\ td'[i].st = td[i].st /\ td'[i].n = td[i].n
      /\ td' \in [D -> [bp : Block \cup {NoBlock}, st : {"idle", "own", "Tcok", "Tabt"}, n : 0..MaxPackets]]
  BY <1>1, <1>3
<1>7. /\ k \in 0..ntd /\ tdh = Place(chip, k) /\ chip = Place(tdi, ntd - k)
      /\ \A i \in D : td[i].st = "own" <=> Past(i, chip) < k
      /\ \A i \in D : td[i].bp # NoBlock => Past(i, tdi) < ntd
  BY <1>4 DEF RingInv
<1>8. k < ntd
  <2> SUFFICES ASSUME k = ntd PROVE FALSE
    BY <1>3, <1>7
  <2>1. chip = tdi
    BY <1>3, <1>7, DriverAssumption DEF Place, D
  <2>2. Past(tdi, chip) = 0
    BY <1>3, <2>1 DEF Past, D
  <2> QED
    BY <1>1, <1>3, <1>7, <2>2
<1>9. ASSUME NEW i \in D, i # tdi, Past(i, tdi) < ntd
      PROVE  Past(i, tdi') < ntd - 1
  BY <1>3, <1>5, <1>9, DriverAssumption DEF Past, Place, D
<1>10. RingInv(k)'
  <2>1. k \in 0..ntd' /\ tdh' = Place(chip', k) /\ chip' = Place(tdi', ntd' - k)
    <3>1. ntd' = ntd - 1 /\ chip' = chip /\ tdh' = tdh
      BY <1>1
    <3>2. tdh = Place(chip, k) /\ chip = Place(tdi, ntd - k)
      BY <1>7
    <3> QED
      BY <1>3, <1>5, <1>8, <3>1, <3>2, DriverAssumption DEF Place, D
  <2>2. \A i \in D : td'[i].st = "own" <=> Past(i, chip') < k
    BY <1>1, <1>6, <1>7
  <2>3. \A i \in D : td'[i].bp # NoBlock => Past(i, tdi') < ntd'
    BY <1>1, <1>6, <1>7, <1>9
  <2> QED
    BY <2>1, <2>2, <2>3 DEF RingInv, D, Past, Place
<1>11. b # NoBlock => b \in Block /\ b \in Elsewhere /\ b \in TdBlocks
  BY <1>3, BlocksAre DEF TdBlocks
<1>12. OutBlocks' = OutBlocks /\ ProcBlocks' = ProcBlocks /\ TdBlocks' = TdBlocks \ {b}
  <2>1. OutBlocks' = OutBlocks /\ ProcBlocks' = ProcBlocks
    BY <1>2 DEF OutBlocks, ProcBlocks
  <2>2. \A i \in D : td[i].bp = b /\ b # NoBlock => i = tdi
    BY <1>3 DEF OwnInv, Apart
  <2>3. \A x : x \in TdBlocks' <=> x \in TdBlocks \ {b}
    <3> HIDE DEF b
    <3> QED
      BY <1>3, <1>6, <2>2 DEF TdBlocks, b
  <2> QED
    BY <2>1, <2>3
<1>13. Elsewhere' = Elsewhere \ {b}
  <2>1. b # NoBlock => b \notin OutBlocks /\ b \notin ProcBlocks
    BY <1>11 DEF OwnInv, Apart
  <2>2. b = NoBlock => b \notin Elsewhere
    BY NotNoBlock
  <2> QED
    BY <1>12, <2>1, <2>2 DEF Elsewhere
<1>14. Apart'
  <2>1. \A i, j \in D : td'[i].bp = td'[j].bp /\ td'[i].bp # NoBlock => i = j
    BY <1>6 DEF OwnInv, Apart
  <2> QED
    BY <1>2, <1>12, <2>1 DEF OwnInv, Apart, D
<1> HIDE DEF b
<1>15. MemTypes' /\ Given(Counted, Elsewhere)' /\ OutKept
  <2>1. CASE b # NoBlock
    <3>1. MemTypes' /\ Given(Counted, Elsewhere)' /\ \A x \in Block \ {b} : blk'[x] = blk[x]
      BY <1>1, <1>11, <1>13, <2>1, FreeOwn
    <3>2. \A i \in 1..Len(oq) : oq[i] # b
      BY <1>11, <2>1 DEF OwnInv, Apart, OutBlocks
    <3> QED
      BY <3>1, <3>2, BlocksAre DEF OutKept
  <2>2. CASE b = NoBlock
    <3>1. UNCHANGED <<blk, inq, heard, soverflows>>
      BY <1>1, <2>2 DEF memory
    <3>2. Counted' = Counted
      BY <3>1 DEF Counted
    <3>3. Elsewhere' = Elsewhere
      BY <1>13, <2>2, NotNoBlock
    <3>4. MemTypes' /\ OutKept
      BY <3>1, TypesAre DEF MemTypes, OutKept
    <3> QED
      BY <3>2, <3>3, <3>4 DEF OwnInv
  <2> QED
    BY <2>1, <2>2
<1>16. OrderInv(k)'
  <2>1. \A i \in D : Past(i, chip') < k => queued'[Len(left') + 1 + Past(i, chip')] = td'[i].n
    BY <1>1, <1>2, <1>4, <1>6 DEF OrderInv
  <2> QED
    BY <1>1, <1>2, <1>4, <1>15, <2>1 DEF OrderInv, OutKept, D, Past
<1>17. Types'
  <2>1. MuxTypes'
    BY <1>1, TypesAre DEF MuxTypes, setup, output, counts, procs
  <2>2. RingTypes'
    BY <1>1, <1>3, <1>5, <1>6, DriverAssumption, SMTT(30) DEF RingTypes, D
  <2>3. ChipTypes'
    BY <1>1, <1>2, TypesAre DEF ChipTypes, history
  <2> QED
    BY <1>15, <2>1, <2>2, <2>3, TypesNext
<1> QED
  BY <1>10, <1>14, <1>15, <1>16, <1>17 DEF OwnInv, Ordered

LEMMA ReceiveStep ==
  ASSUME Types, OwnInv, Ordered, IntrRx
  PROVE  Types' /\ OwnInv' /\ Ordered'
<1> DEFINE b == iallocb(Counted)
           p == Head(rx).p
           Handed == /\ Become(etheriq([Counted EXCEPT !.blk[b] = p], b, p, TRUE)) /\ inpackets' = inpackets + 1
                     /\ UNCHANGED <<setup, output, outpackets, procs, made>>
<1>1. /\ rx # <<>>
      /\ \/ rx' = <<>> /\ UNCHANGED mux
         \/ rx' = Tail(rx) /\ UNCHANGED mux
         \/ rx' = Tail(rx) /\ b # NoBlock /\ Handed
      /\ UNCHANGED <<ring, chip, isr, loc, intr, history>>
  BY DEF IntrRx
<1>a. rx # <<>> /\ (rx' = <<>> \/ rx' = Tail(rx)) /\ UNCHANGED <<ring, chip, isr, loc, intr, history>>
  BY <1>1
<1>b. UNCHANGED load
  BY <1>1 DEF mux, setup
<1> HIDE DEF b, p, Handed
<1>2. UNCHANGED <<td, ntd, tdh, tdi, chip, left, load>>
  BY <1>a, <1>b DEF ring, history
<1>3. rx \in Seq([ok : BOOLEAN, p : Packet]) /\ Len(rx) <= RxSlots /\ RxSlots \in Nat
  BY TypesAre, DriverAssumption DEF ChipTypes
<1>4. rx' \in Seq([ok : BOOLEAN, p : Packet]) /\ Len(rx') <= RxSlots /\ p \in Packet
  <2>1. PICK S : S = [ok : BOOLEAN, p : Packet]
    OBVIOUS
  <2>2. rx \in Seq(S) /\ Tail(rx) \in Seq(S) /\ Len(Tail(rx)) = Len(rx) - 1 /\ Len(rx) \in Nat /\ Head(rx) \in S
    <3>1. rx \in Seq(S) /\ rx # <<>>
      BY <1>a, <1>3, <2>1
    <3>2. Tail(rx) \in Seq(S) /\ Len(Tail(rx)) = Len(rx) - 1 /\ Head(rx) \in S
      BY <3>1, HeadTailProperties
    <3>3. Len(rx) \in Nat
      BY <3>1
    <3> QED
      BY <3>1, <3>2, <3>3
  <2>3. Len(<<>>) = 0 /\ <<>> \in Seq(S)
    OBVIOUS
  <2>4. p \in Packet
    BY <2>1, <2>2 DEF p
  <2>6. rx' \in Seq(S) /\ Len(rx') <= RxSlots
    <3>1. CASE rx' = <<>>
      BY <1>3, <2>3, <3>1
    <3>2. CASE rx' = Tail(rx)
      <4>1. PICK t : t = Tail(rx)
        OBVIOUS
      <4>2. t \in Seq(S) /\ Len(t) <= RxSlots
        <5>1. PICK n : n = Len(rx)
          OBVIOUS
        <5> QED
          BY <1>3, <2>2, <4>1, <5>1
      <4> QED
        BY <3>2, <4>1, <4>2
    <3> QED
      BY <1>a, <3>1, <3>2
  <2> QED
    BY <2>1, <2>4, <2>6
<1>5. ChipTypes' /\ RingTypes'
  BY <1>a, <1>2, <1>4, TypesAre DEF ChipTypes, RingTypes, history, D
<1>6. CASE UNCHANGED mux
  <2>1. UNCHANGED <<ring, chip, left>>
    BY <1>1, <1>2
  <2> QED
    BY <1>5, <1>6, <2>1, KeepAll, TypesNext
<1>7. CASE b # NoBlock /\ Handed
  <2>0. PICK c : c = Counted
    OBVIOUS
  <2>1. c \in Mem /\ Short(c) /\ Given(c, Elsewhere) /\ c.blk = blk /\ c.inq = inq /\ c.fx = 0
    BY <2>0, CountedMem DEF OwnInv
  <2>2. b \in Block /\ blk[b] = Free
    BY <1>7, <2>0, <2>1, AllocIs DEF b
  <2>3. PICK m : m = [c EXCEPT !.blk[b] = p]
    OBVIOUS
  <2>4. /\ m \in Mem /\ Short(m) /\ Given(m, Elsewhere \cup {b}) /\ BlkKept(m, c, b) /\ m.fx = 0 /\ b \notin Elsewhere
    <3>1. c.blk[b] = Free /\ p \in Packet
      BY <1>4, <2>1, <2>2
    <3>3. PICK R : R = Elsewhere
      OBVIOUS
    <3>4. Given(c, R) /\ c \in Mem /\ Short(c)
      BY <2>1, <3>3
    <3>5. m \in Mem /\ Short(m) /\ Given(m, R \cup {b}) /\ BlkKept(m, c, b) /\ m.fx = c.fx /\ b \notin R
      <4>1. Taken(m, c, b, p)
        BY <2>3 DEF Taken
      <4> QED
        BY <2>2, <3>1, <3>4, <4>1, TakeMem, SMTT(30)
    <3>2. m \in Mem /\ Short(m) /\ Given(m, Elsewhere \cup {b}) /\ BlkKept(m, c, b) /\ m.fx = c.fx /\ b \notin Elsewhere
      BY <3>3, <3>5
    <3> QED
      BY <2>1, <3>2
  <2>5. PICK fw \in BOOLEAN : fw = TRUE
    OBVIOUS
  <2>6. PICK s : s = etheriq(m, b, p, fw)
    OBVIOUS
  <2>7. /\ s \in Mem /\ Short(s) /\ Given(s, IF fw THEN (Elsewhere \cup {b}) \ {b} ELSE Elsewhere \cup {b})
        /\ \A x \in Block : x \in Elsewhere \cup {b} /\ x # b => s.blk[x] = m.blk[x]
    <3>1. PICK R : R = Elsewhere \cup {b}
      OBVIOUS
    <3>2. b \in R /\ Given(m, R) /\ m \in Mem /\ Short(m) /\ m.fx = 0
      BY <2>4, <3>1
    <3>3. /\ s \in Mem /\ Short(s) /\ Given(s, IF fw THEN R \ {b} ELSE R)
          /\ \A x \in Block : x \in R /\ x # b => s.blk[x] = m.blk[x]
      <4>1. p \in Packet
        BY <1>4
      <4> QED
        BY <2>2, <2>6, <3>2, <4>1, EtheriqMem
    <3> QED
      BY <3>1, <3>3
  <2>8. Given(s, Elsewhere)
    <3>1. (Elsewhere \cup {b}) \ {b} = Elsewhere
      BY <2>4
    <3> QED
      BY <2>5, <2>7, <3>1
  <2>9. Become(s)
    BY <1>7, <2>0, <2>3, <2>5, <2>6 DEF Handed
  <2>10. s.blk = Counted'.blk /\ s.inq = Counted'.inq
    BY <2>9, CountedNext DEF Become
  <2>11. MemTypes'
    BY <2>7, <2>9, BecomeTypes DEF MemTypes
  <2>12. UNCHANGED <<oq, queued, wpc, wblk>>
    BY <1>7 DEF output, procs, Handed
  <2>13. OutKept
    <3>1. \A i \in 1..Len(oq) : oq[i] \in Block /\ oq[i] \in Elsewhere
      BY BlocksAre
    <3> QED
      BY <2>1, <2>4, <2>7, <2>9, <3>1 DEF OutKept, Become, BlkKept
  <2>14. Elsewhere' = Elsewhere /\ Apart'
    <3>1. OutBlocks' = OutBlocks /\ TdBlocks' = TdBlocks /\ ProcBlocks' = ProcBlocks
      BY <1>2, <2>12 DEF OutBlocks, TdBlocks, ProcBlocks
    <3> QED
      BY <1>2, <2>12, <3>1 DEF OwnInv, Apart, Elsewhere, D
  <2>15. OwnInv'
    BY <2>8, <2>10, <2>14, GivenSame DEF OwnInv
  <2>16. MuxTypes'
    <3>1. inpackets' = inpackets + 1 /\ UNCHANGED <<setup, output, outpackets, procs, made>>
      BY <1>7 DEF Handed
    <3> QED
      BY <3>1, TypesAre DEF MuxTypes, setup, output, procs
  <2>17. Ordered'
    BY <1>2, <2>12, <2>13, KeepRing
  <2> QED
    BY <1>5, <2>11, <2>15, <2>16, <2>17, TypesNext
<1> QED
  BY <1>1, <1>6, <1>7

\* The chip and the handler change what is theirs alone.
LEMMA ChipStep ==
  ASSUME Types, OwnInv, Ordered,
         BusError \/ IntrRead \/ IntrAck \/ IntrRxEnd \/ IntrEnd
  PROVE  Types' /\ OwnInv' /\ Ordered'
<1>1. UNCHANGED <<mux, ring, chip, left, rx>>
  BY DEF BusError, IntrRead, IntrAck, IntrRxEnd, IntrEnd, history
<1>2. UNCHANGED load
  BY <1>1 DEF mux, setup
<1>3. ChipTypes
  BY TypesAre
<1>4. load.errors \in Nat
  BY TypesAre, LoadAssumption DEF MuxTypes
<1>5. ChipTypes'
  <2>1. CASE BusError
    <3>1. errors' \in 0..load'.errors
      BY <1>2, <1>3, <1>4, <2>1 DEF ChipTypes, BusError, Fault
    <3>2. isr' = isr \cup {"Serr"} /\ resets' = TRUE /\ UNCHANGED <<loc, intr>>
      BY <2>1 DEF BusError
    <3> QED
      BY <1>1, <1>3, <3>1, <3>2 DEF ChipTypes
  <2>2. CASE IntrRead \/ IntrAck \/ IntrRxEnd \/ IntrEnd
    <3>1. UNCHANGED <<errors, resets>>
      BY <2>2 DEF IntrRead, IntrAck, IntrRxEnd, IntrEnd, history
    <3>2. /\ isr' = isr \/ isr' = isr \ loc
          /\ loc' = isr \/ loc' = loc
          /\ intr' \in {"out", "read", "ack", "rx", "tx", "serr"}
      BY <2>2 DEF IntrRead, IntrAck, IntrRxEnd, IntrEnd
    <3> QED
      BY <1>1, <1>2, <1>3, <3>1, <3>2 DEF ChipTypes
  <2> QED
    BY <2>1, <2>2
<1> QED
  BY <1>1, <1>5, KeepAll, TypesNext

LEMMA ArriveStep ==
  ASSUME Types, OwnInv, Ordered, NEW ok \in BOOLEAN, NEW f \in load.arrives, ChipReceives(f, ok)
  PROVE  Types' /\ OwnInv' /\ Ordered'
<1> DEFINE r == [ok |-> ok, p |-> Numbered(f, made + 1)]
<1>1. /\ made < load.packets /\ Fault("rx", ok) /\ made' = made + 1
      /\ \/ /\ Len(rx) < RxSlots /\ rx' = Append(rx, r)
            /\ isr' \in {isr \cup {"Rok"}, isr \cup {"Rer"}}
         \/ isr' = isr \cup {"Rxovw"} /\ UNCHANGED rx
      /\ UNCHANGED <<setup, memory, output, counts, procs, ring, chip, loc, intr, left, resets>>
  BY DEF ChipReceives
<1>2. UNCHANGED <<blk, inq, oq, wpc, wblk, queued, td, ntd, tdh, tdi, chip, left, load>>
  BY <1>1 DEF memory, output, procs, ring, setup
<1>3. load \in Loads /\ made \in 0..MaxPackets /\ ChipTypes
  BY TypesAre DEF MuxTypes
<1>4. made + 1 \in 1..MaxPackets /\ r \in [ok : BOOLEAN, p : Packet] /\ load.errors \in Nat
  <2>1. load.packets \in 0..MaxPackets /\ load.arrives \subseteq Frame /\ load.errors \in Nat
    BY <1>3, LoadAssumption
  <2>2. made + 1 \in 1..MaxPackets
    BY <1>1, <1>3, <2>1, EtherAssumption
  <2> QED
    BY <2>1, <2>2, PacketsAre
<1> HIDE DEF r
<1>5. rx' \in Seq([ok : BOOLEAN, p : Packet]) /\ Len(rx') <= RxSlots
  <2>0. PICK S : S = [ok : BOOLEAN, p : Packet]
    OBVIOUS
  <2>1. rx \in Seq(S) /\ Len(rx) <= RxSlots /\ RxSlots \in Nat /\ Len(rx) \in Nat /\ r \in S
    BY <1>3, <1>4, <2>0, DriverAssumption DEF ChipTypes
  <2>2. Append(rx, r) \in Seq(S) /\ Len(Append(rx, r)) = Len(rx) + 1
    BY <2>1, AppendProperties
  <2>3. (rx' = Append(rx, r) /\ Len(rx) < RxSlots) \/ rx' = rx
    BY <1>1
  <2>4. rx' \in Seq(S) /\ Len(rx') <= RxSlots
    BY <2>1, <2>2, <2>3
  <2> QED
    BY <2>0, <2>4
<1>6. errors' \in 0..load'.errors
  BY <1>1, <1>2, <1>3, <1>4 DEF ChipTypes, Fault
<1>7. ChipTypes'
  BY <1>1, <1>2, <1>3, <1>5, <1>6 DEF ChipTypes
<1>8. MuxTypes' /\ MemTypes' /\ RingTypes'
  <2>1. made' \in 0..MaxPackets
    BY <1>1, <1>3, <1>4
  <2> QED
    BY <1>1, <2>1, TypesAre DEF MuxTypes, MemTypes, RingTypes, setup, memory, output, counts, procs, ring, D
<1>9. OwnInv' /\ OutKept
  BY <1>2, KeepOwn
<1>10. Ordered'
  BY <1>2, <1>9, KeepRing
<1> QED
  BY <1>7, <1>8, <1>9, <1>10, TypesNext

-------------------------------------------------------------------------------
(* rtl8139txstart, descriptor by descriptor                                 *)

\* The loop of rtl8139txstart, descriptor by descriptor.
LEMMA FoldFill ==
  ASSUME NEW n \in Nat, NEW aligned
  PROVE  \E g : /\ g[0] = [td |-> td, blk |-> blk, tdh |-> tdh]
                /\ \A k \in 1..n : g[k] = Fill(g[k - 1], k, aligned[k])
                /\ g[n] = Filled(n, aligned)
<1> DEFINE t == [td |-> td, blk |-> blk, tdh |-> tdh]
           Op(u, c) == Fill(u, c, aligned[c])
           Step(f, s) == IF s = {} THEN t ELSE Op(f[s \ {Max(s)}], Max(s))
           Fold(f, k) == f = [s \in SUBSET (1..k) |-> Step(f, s)]
<1>a. \A k \in Nat : \A s \in SUBSET (1..k) : s # {} => Max(s) \in s /\ \A y \in s : Max(s) >= y
  BY MaxOf
<1> HIDE DEF t, Op
<1>1. \E f : Fold(f, n)
  <2> DEFINE S == {k \in Nat : \E f : Fold(f, k)}
  <2>1. 0 \in S
    <3> DEFINE f == [s \in SUBSET (1..0) |-> t]
    <3>1. SUBSET (1..0) = {{}}
      OBVIOUS
    <3>2. Fold(f, 0)
      BY <3>1
    <3> QED
      BY <3>2
  <2>2. ASSUME NEW k \in Nat, k \in S PROVE k + 1 \in S
    <3>1. PICK f : Fold(f, k)
      BY <2>2
    <3> DEFINE g == [s \in SUBSET (1..(k + 1)) |->
                       IF k + 1 \in s THEN Op(f[s \ {k + 1}], k + 1) ELSE f[s]]
    <3>2. ASSUME NEW s \in SUBSET (1..(k + 1)) PROVE g[s] = Step(g, s)
      <4>1. CASE k + 1 \in s
        <5>1. Max(s) = k + 1
          <6>1. k + 1 \in Nat /\ s # {}
            BY <4>1
          <6>2. Max(s) \in s /\ \A y \in s : Max(s) >= y
            BY <1>a, <6>1
          <6>3. Max(s) \in 1..(k + 1) /\ Max(s) >= k + 1
            BY <4>1, <6>2
          <6> QED
            BY <6>3
        <5>2. s \ {k + 1} \in SUBSET (1..k) /\ k + 1 \notin s \ {k + 1}
          OBVIOUS
        <5>3. g[s \ {k + 1}] = f[s \ {k + 1}]
          BY <5>2
        <5> HIDE DEF g
        <5>4. g[s] = Op(f[s \ {k + 1}], k + 1)
          BY <4>1 DEF g
        <5> QED
          BY <4>1, <5>1, <5>3, <5>4
      <4>2. CASE k + 1 \notin s /\ s # {}
        <5>1. s \in SUBSET (1..k) /\ g[s] = f[s]
          BY <4>2
        <5>2. s \ {Max(s)} \in SUBSET (1..k) /\ k + 1 \notin s \ {Max(s)}
          <6>1. PICK m : m = Max(s)
            OBVIOUS
          <6>2. s \ {m} \in SUBSET (1..k) /\ k + 1 \notin s \ {m}
            BY <4>2, <5>1
          <6> QED
            BY <6>1, <6>2, Zenon
        <5>3. g[s \ {Max(s)}] = f[s \ {Max(s)}]
          BY <5>2
        <5>4. f[s] = Step(f, s)
          BY <3>1, <5>1
        <5> HIDE DEF g
        <5> QED
          BY <4>2, <5>1, <5>3, <5>4
      <4>3. CASE s = {}
        <5>1. {} \in SUBSET (1..k) /\ k + 1 \notin {}
          OBVIOUS
        <5>2. f[{}] = t
          BY <3>1, <5>1
        <5> QED
          BY <4>3, <5>1, <5>2
      <4> QED
        BY <4>1, <4>2, <4>3
    <3>3. g = [s \in SUBSET (1..(k + 1)) |-> g[s]]
      OBVIOUS
    <3> HIDE DEF g
    <3>4. Fold(g, k + 1)
      BY <3>2, <3>3
    <3>5. k + 1 \in Nat
      OBVIOUS
    <3>6. \E h : Fold(h, k + 1)
      BY <3>4, Zenon
    <3> HIDE DEF Fold
    <3> QED
      BY <3>5, <3>6
  <2> HIDE DEF S
  <2>3. n \in S
    BY <2>1, <2>2, Induction
  <2> QED
    BY <2>3 DEF S
<1> DEFINE it == CHOOSE f : Fold(f, n)
<1>2. Fold(it, n)
  BY <1>1, Zenon
<1>b. DOMAIN [c \in 1..n |-> c] = 1..n /\ \A c \in 1..n : [d \in 1..n |-> d][c] = c
  OBVIOUS
<1>3. Filled(n, aligned) = it[1..n]
  <2> DEFINE Raw(f, s) == IF s = {} THEN t ELSE Op(f[s \ {Max(s)}], [d \in 1..n |-> d][Max(s)])
             raw == CHOOSE f : f = [s \in SUBSET (1..n) |-> Raw(f, s)]
  <2>1. Filled(n, aligned) = raw[1..n]
    BY <1>b DEF Filled, FoldLeft, MapThenFoldSet, Op, t
  <2>2. ASSUME NEW f, NEW s \in SUBSET (1..n) PROVE Raw(f, s) = Step(f, s)
    <3>1. s # {} => Max(s) \in 1..n
      BY <1>a
    <3> QED
      BY <1>b, <3>1
  <2>3. ASSUME NEW f PROVE [s \in SUBSET (1..n) |-> Raw(f, s)] = [s \in SUBSET (1..n) |-> Step(f, s)]
    BY <2>2
  <2>4. raw = it
    BY <2>3, Zenon
  <2> QED
    BY <2>1, <2>4
<1> HIDE DEF it
<1>4. ASSUME NEW s \in SUBSET (1..n) PROVE it[s] = Step(it, s)
  BY <1>2
<1> DEFINE g == [k \in 0..n |-> it[1..k]]
<1>5. g[0] = t /\ g[n] = it[1..n]
  <2>1. 1..0 = {} /\ {} \in SUBSET (1..n) /\ 0 \in 0..n /\ n \in 0..n
    OBVIOUS
  <2>2. it[{}] = t
    BY <1>4, <2>1
  <2> QED
    BY <2>1, <2>2
<1>6. ASSUME NEW k \in 1..n PROVE g[k] = Fill(g[k - 1], k, aligned[k])
  <2>1. 1..k \in SUBSET (1..n) /\ 1..k # {} /\ k \in Nat /\ k \in 0..n /\ k - 1 \in 0..n
    OBVIOUS
  <2>2. Max(1..k) = k
    <3>1. Max(1..k) \in 1..k /\ Max(1..k) >= k
      <4>1. 1..k \in SUBSET (1..k) /\ k \in 1..k
        BY <2>1
      <4> QED
        BY <1>a, <2>1, <4>1
    <3> QED
      BY <2>1, <3>1
  <2>3. (1..k) \ {k} = 1..(k - 1)
    BY <2>1
  <2>4. it[1..k] = Op(it[1..(k - 1)], k)
    BY <1>4, <2>1, <2>2, <2>3
  <2> QED
    BY <2>1, <2>4 DEF Op
<1>7. \E h : h[0] = t /\ (\A k \in 1..n : h[k] = Fill(h[k - 1], k, aligned[k])) /\ h[n] = it[1..n]
  <2> HIDE DEF g
  <2> QED
    BY <1>5, <1>6, Zenon
<1> HIDE DEF it
<1> QED
  BY <1>3, <1>7, Zenon DEF t

TdType == [D -> [bp : Block \cup {NoBlock}, st : {"idle", "own", "Tcok", "Tabt"}, n : 0..MaxPackets]]
BlkType == [Block -> Packet \cup {Free}]

\* The descriptors and blocks when j packets of oq have been given to the chip.
Copied(j, aligned) == {oq[x] : x \in {y \in 1..j : ~aligned[y]}}
FillTd(u, j, aligned) ==
  \A i \in D : IF Past(i, tdh) < j
               THEN /\ u.td[i].bp = IF aligned[Past(i, tdh) + 1] THEN oq[Past(i, tdh) + 1] ELSE NoBlock
                    /\ u.td[i].st = "own" /\ u.td[i].n = blk[oq[Past(i, tdh) + 1]].n
               ELSE u.td[i] = td[i]
FillBlk(u, j, aligned) ==
  \A b \in Block : u.blk[b] = IF b \in Copied(j, aligned) THEN Free ELSE blk[b]
FillInv(u, j, aligned) ==
  /\ u.td \in TdType /\ u.blk \in BlkType
  /\ u.tdh = Place(tdh, j) /\ FillTd(u, j, aligned) /\ FillBlk(u, j, aligned)

LEMMA FillStep ==
  ASSUME Types, OwnInv, NEW u, NEW j \in Nat, j < Len(oq), j < Ntd, NEW aligned,
         \A x \in 1..(j + 1) : aligned[x] \in BOOLEAN,
         FillInv(u, j, aligned), NEW v, v = Fill(u, j + 1, aligned[j + 1])
  PROVE  FillInv(v, j + 1, aligned)
<1> DEFINE b == oq[j + 1]
           al == aligned[j + 1]
           h == u.tdh
           d == [bp |-> IF al THEN b ELSE NoBlock, st |-> "own", n |-> u.blk[b].n]
<1>1. /\ v.td = [u.td EXCEPT ![h] = d]
      /\ v.blk = (IF al THEN u.blk ELSE [u.blk EXCEPT ![b] = Free])
      /\ v.tdh = NEXT(h)
  BY DEF Fill
<1>2. /\ u.td \in TdType /\ u.blk \in BlkType
      /\ h = Place(tdh, j) /\ FillTd(u, j, aligned) /\ FillBlk(u, j, aligned)
  BY DEF FillInv
<1>3. /\ tdh \in D /\ Ntd \in Nat \ {0} /\ j + 1 \in 1..Len(oq) /\ al \in BOOLEAN /\ Len(oq) \in Nat
  <2>1. oq \in Seq(Block) /\ tdh \in D
    BY TypesAre DEF RingTypes, MuxTypes
  <2>2. j + 1 \in 1..(j + 1)
    OBVIOUS
  <2>3. Len(oq) \in Nat
    BY <2>1
  <2> QED
    BY <2>1, <2>2, <2>3, DriverAssumption
<1>4. b \in Block /\ b \in Elsewhere /\ blk[b] \in Packet
  BY <1>3, BlocksAre
<1>5. b \notin Copied(j, aligned)
  <2>1. \A x \in 1..j : x \in 1..Len(oq) /\ x # j + 1
    BY <1>3
  <2> QED
    BY <1>3, <2>1 DEF Copied, OwnInv, Apart
<1>6. u.blk[b] = blk[b] /\ u.blk[b].n \in 1..MaxPackets
  BY <1>2, <1>4, <1>5, PacketsAre DEF FillBlk
<1>7. h \in D /\ Past(h, tdh) = j /\ NEXT(h) = Place(tdh, j + 1)
  <2>1. h \in D /\ Past(h, tdh) = j
    BY <1>2, <1>3, PlacePast, WrapPlace
  <2>2. NEXT(h) = Place(h, 1)
    BY <2>1, NextIs
  <2>3. Place(Place(tdh, j), 1) = Place(tdh, j + 1)
    BY <1>3 DEF Place, D
  <2> QED
    BY <1>2, <2>1, <2>2, <2>3
<1> HIDE DEF b, al, h
<1>8. d \in [bp : Block \cup {NoBlock}, st : {"idle", "own", "Tcok", "Tabt"}, n : 0..MaxPackets]
  <2>1. u.blk[b].n \in 0..MaxPackets
    BY <1>6
  <2>2. (IF al THEN b ELSE NoBlock) \in Block \cup {NoBlock}
    BY <1>4
  <2> QED
    BY <2>1, <2>2
<1>a. d.bp = (IF al THEN b ELSE NoBlock) /\ d.st = "own" /\ d.n = blk[b].n
  BY <1>6
<1> HIDE DEF d
<1>9. v.td \in TdType /\ \A i \in D : v.td[i] = IF i = h THEN d ELSE u.td[i]
  <2>1. PICK T : T = [bp : Block \cup {NoBlock}, st : {"idle", "own", "Tcok", "Tabt"}, n : 0..MaxPackets]
    OBVIOUS
  <2>2. u.td \in [D -> T] /\ d \in T /\ h \in D /\ v.td = [u.td EXCEPT ![h] = d]
    BY <1>1, <1>2, <1>7, <1>8, <2>1 DEF TdType
  <2>3. v.td \in [D -> T] /\ \A i \in D : v.td[i] = IF i = h THEN d ELSE u.td[i]
    BY <2>2
  <2> QED
    BY <2>1, <2>3 DEF TdType
<1>10. ASSUME NEW i \in D
       PROVE  (Past(i, tdh) < j + 1 <=> Past(i, tdh) < j \/ i = h) /\ (i = h => Past(i, tdh) = j)
  <2>1. Past(i, tdh) \in 0..Ntd-1 /\ Place(tdh, Past(i, tdh)) = i
    BY <1>3, PastIs
  <2>2. Past(i, tdh) = j => i = h
    BY <1>2, <2>1
  <2> QED
    BY <1>7, <2>1, <2>2
<1>11. FillTd(v, j + 1, aligned)
  <2> SUFFICES ASSUME NEW i \in D
               PROVE  IF Past(i, tdh) < j + 1
                      THEN /\ v.td[i].bp = IF aligned[Past(i, tdh) + 1] THEN oq[Past(i, tdh) + 1] ELSE NoBlock
                           /\ v.td[i].st = "own" /\ v.td[i].n = blk[oq[Past(i, tdh) + 1]].n
                      ELSE v.td[i] = td[i]
    BY DEF FillTd
  <2>1. CASE i = h
    BY <1>9, <1>10, <1>a, <2>1 DEF b, al
  <2>2. CASE i # h
    <3>1. v.td[i] = u.td[i] /\ (Past(i, tdh) < j + 1 <=> Past(i, tdh) < j)
      BY <1>9, <1>10, <2>2
    <3> QED
      BY <1>2, <3>1 DEF FillTd
  <2> QED
    BY <2>1, <2>2
<1>12. \A x : x \in Copied(j + 1, aligned) <=> x \in Copied(j, aligned) \/ (~al /\ x = b)
  <2>1. 1..(j + 1) = 1..j \cup {j + 1}
    OBVIOUS
  <2> QED
    BY <2>1 DEF Copied, b, al
<1>13. v.blk \in BlkType /\ FillBlk(v, j + 1, aligned)
  <2>1. CASE al
    <3>1. v.blk = u.blk
      BY <1>1, <2>1
    <3> QED
      BY <1>2, <1>12, <2>1, <3>1 DEF FillBlk
  <2>2. CASE ~al
    <3>1. v.blk = [u.blk EXCEPT ![b] = Free]
      BY <1>1, <2>2
    <3>2. v.blk \in BlkType /\ \A x \in Block : v.blk[x] = IF x = b THEN Free ELSE u.blk[x]
      BY <1>2, <3>1 DEF BlkType
    <3> QED
      BY <1>2, <1>12, <2>2, <3>2 DEF FillBlk
  <2> QED
    BY <2>1, <2>2
<1> QED
  BY <1>1, <1>7, <1>9, <1>11, <1>13 DEF FillInv

LEMMA FilledIs ==
  ASSUME Types, OwnInv, NEW n \in Nat, n <= Len(oq), n <= Ntd, NEW aligned,
         \A x \in 1..n : aligned[x] \in BOOLEAN
  PROVE  FillInv(Filled(n, aligned), n, aligned)
<1>1. PICK g : /\ g[0] = [td |-> td, blk |-> blk, tdh |-> tdh]
               /\ \A k \in 1..n : g[k] = Fill(g[k - 1], k, aligned[k])
               /\ g[n] = Filled(n, aligned)
  BY FoldFill
<1>2. oq \in Seq(Block) /\ tdh \in D /\ td \in TdType /\ blk \in BlkType /\ Ntd \in Nat
  BY TypesAre, DriverAssumption DEF RingTypes, MuxTypes, MemTypes, TdType, BlkType
<1> DEFINE S == {k \in Nat : k <= n => FillInv(g[k], k, aligned)}
<1>3. 0 \in S
  <2>1. g[0].td = td /\ g[0].blk = blk /\ g[0].tdh = tdh
    BY <1>1
  <2>2. tdh = Place(tdh, 0)
    BY <1>2 DEF Place, D
  <2>3. \A i \in D : Past(i, tdh) >= 0 /\ ~(Past(i, tdh) < 0)
    BY <1>2, PastIs
  <2>4. Copied(0, aligned) = {}
    BY DEF Copied
  <2>5. FillInv(g[0], 0, aligned)
    BY <1>2, <2>1, <2>2, <2>3, <2>4 DEF FillInv, FillTd, FillBlk
  <2> QED
    BY <2>5
<1>4. ASSUME NEW k \in Nat, k \in S PROVE k + 1 \in S
  <2> SUFFICES ASSUME k + 1 <= n PROVE FillInv(g[k + 1], k + 1, aligned)
    OBVIOUS
  <2>1. /\ k + 1 \in 1..n /\ (k + 1) - 1 = k /\ k <= n /\ k < Ntd /\ Len(oq) \in Nat /\ k < Len(oq)
        /\ \A x \in 1..(k + 1) : x \in 1..n
    BY <1>2
  <2>2. FillInv(g[k], k, aligned)
    BY <1>4, <2>1
  <2>3. g[k + 1] = Fill(g[k], k + 1, aligned[k + 1])
    BY <1>1, <2>1
  <2>4. \A x \in 1..(k + 1) : aligned[x] \in BOOLEAN
    BY <2>1
  <2> QED
    BY <2>1, <2>2, <2>3, <2>4, FillStep
<1> HIDE DEF S
<1>5. n \in S
  BY <1>3, <1>4, Induction
<1> QED
  BY <1>1, <1>5 DEF S

Freed(q, m, F) == \A x \in Block : q.blk[x] = IF x \in F THEN Free ELSE m.blk[x]

LEMMA FreeSet ==
  ASSUME NEW m, NEW q, NEW R, Given(m, R), NEW F, F \subseteq R, q.inq = m.inq, Freed(q, m, F)
  PROVE  Given(q, R \ F)
<1>1. \A x : Queued(q, x) <=> Queued(m, x)
  BY DEF Queued
<1>2. \A x \in F : ~Queued(m, x)
  BY DEF Given, Queued
<1> QED
  BY <1>1, <1>2 DEF Given, Freed

\* How many packets rtl8139txstart takes from oq.
LEMMA TakesSome ==
  ASSUME Types
  PROVE  LET n == Min({Ntd - ntd, Len(oq)}) IN
         n \in Nat /\ n <= Ntd - ntd /\ n <= Len(oq)
<1>1. ntd \in 0..Ntd /\ Ntd \in Nat /\ Len(oq) \in Nat
  BY TypesAre, DriverAssumption DEF RingTypes, MuxTypes
<1> DEFINE s == {Ntd - ntd, Len(oq)}
<1>2. s \in SUBSET Nat /\ s # {}
  BY <1>1
<1> HIDE DEF s
<1>3. Min(s) \in s /\ \A y \in s : Min(s) <= y
  BY <1>2, LeastOf
<1> QED
  BY <1>2, <1>3 DEF s

LEMMA StartStep ==
  ASSUME Types, OwnInv, Ordered, rtl8139txstart, UNCHANGED <<tdi, chip, left>>,
         wpc' \in [Proc -> {"idle", "feed", "free", "queue", "flow", "kick"}],
         \A w \in Proc : wpc'[w] \in {"feed", "free", "queue"} <=> wpc[w] \in {"feed", "free", "queue"}
  PROVE  MuxTypes' /\ MemTypes' /\ RingTypes' /\ OwnInv' /\ Ordered'
<1>1. PICK n : n = Min({Ntd - ntd, Len(oq)})
  OBVIOUS
<1>2. n \in Nat /\ n <= Ntd - ntd /\ n <= Len(oq)
  BY <1>1, TakesSome
<1>3. PICK aligned \in [1..n -> BOOLEAN] :
        /\ td' = Filled(n, aligned).td /\ blk' = Filled(n, aligned).blk /\ tdh' = Filled(n, aligned).tdh
        /\ ntd' = ntd + n /\ oq' = SubSeq(oq, n + 1, Len(oq))
        /\ UNCHANGED <<setup, inq, heard, soverflows, noblock, queued, counts, wblk, made>>
  BY <1>1 DEF rtl8139txstart
<1>4. /\ td \in TdType /\ ntd \in 0..Ntd /\ tdh \in D /\ tdi \in D /\ chip \in D
      /\ oq \in Seq(Block) /\ Len(oq) \in Nat /\ Ntd \in Nat \ {0} /\ MuxTypes /\ MemTypes
  BY TypesAre, DriverAssumption DEF RingTypes, MuxTypes, TdType
<1>5. FillInv(Filled(n, aligned), n, aligned)
  BY <1>2, <1>3, <1>4, FilledIs
<1>6. /\ td' \in TdType /\ blk' \in BlkType /\ tdh' = Place(tdh, n)
      /\ \A i \in D : IF Past(i, tdh) < n
                      THEN /\ td'[i].bp = IF aligned[Past(i, tdh) + 1] THEN oq[Past(i, tdh) + 1] ELSE NoBlock
                           /\ td'[i].st = "own" /\ td'[i].n = blk[oq[Past(i, tdh) + 1]].n
                      ELSE td'[i] = td[i]
      /\ \A b \in Block : blk'[b] = IF b \in Copied(n, aligned) THEN Free ELSE blk[b]
  <2>1. PICK u : u = Filled(n, aligned)
    OBVIOUS
  <2>2. td' = u.td /\ blk' = u.blk /\ tdh' = u.tdh
    BY <1>3, <2>1
  <2>3. /\ u.td \in TdType /\ u.blk \in BlkType
        /\ u.tdh = Place(tdh, n) /\ FillTd(u, n, aligned) /\ FillBlk(u, n, aligned)
    BY <1>5, <2>1 DEF FillInv
  <2> QED
    BY <2>2, <2>3 DEF FillTd, FillBlk
<1>7. /\ oq' \in Seq(Block) /\ Len(oq') = Len(oq) - n
      /\ \A i \in 1..Len(oq') : oq'[i] = oq[n + i]
  BY <1>2, <1>3, <1>4, SubSeqProperties
<1>8. PICK k \in 0..Ntd : RingInv(k) /\ OrderInv(k)
  BY DEF Ordered
<1>9. /\ k \in 0..ntd /\ tdh = Place(chip, k) /\ chip = Place(tdi, ntd - k)
      /\ \A i \in D : td[i].st = "own" <=> Past(i, chip) < k
      /\ \A i \in D : td[i].bp # NoBlock => Past(i, tdi) < ntd
  BY <1>8 DEF RingInv
\* The descriptors that are filled: behind those in use.
<1>10. ASSUME NEW i \in D
       PROVE  /\ Past(i, tdh) < n <=> Past(i, chip) >= k /\ Past(i, chip) < k + n
              /\ Past(i, tdh) < n => Past(i, chip) = Past(i, tdh) + k
              /\ Past(i, tdh) < n => Past(i, tdi) >= ntd
              /\ Past(i, tdh) < n => Past(i, tdi) < ntd + n
              /\ Past(i, chip) \in 0..Ntd-1 /\ Past(i, tdh) \in 0..Ntd-1
  <2>1. i \in Nat /\ tdh \in Nat /\ tdi \in Nat /\ chip \in Nat /\ i < Ntd /\ tdh < Ntd /\ tdi < Ntd /\ chip < Ntd
        /\ k \in Nat /\ ntd \in Nat /\ k <= ntd /\ n + ntd <= Ntd
    BY <1>2, <1>4, <1>9 DEF D
  <2>2. tdh = IF chip + k < Ntd THEN chip + k ELSE chip + k - Ntd
    BY <1>9 DEF Place
  <2>3. chip = IF tdi + (ntd - k) < Ntd THEN tdi + (ntd - k) ELSE tdi + (ntd - k) - Ntd
    BY <1>9 DEF Place
  <2>4. Past(i, chip) \in 0..Ntd-1 /\ Past(i, tdh) \in 0..Ntd-1
    BY <1>4, PastIs
  <2> QED
    BY <1>2, <1>4, <2>1, <2>2, <2>3, <2>4 DEF Past
<1>11. RingInv(k + n)'
  <2>1. k + n \in 0..ntd'
    BY <1>2, <1>3, <1>4, <1>9
  <2>2. tdh' = Place(chip', k + n)
    <3>1. k \in 0..Ntd /\ k + n <= Ntd
      BY <1>2, <1>4, <1>9
    <3> QED
      BY <1>2, <1>3, <1>4, <1>6, <1>9, <3>1, PlaceTwice
  <2>3. chip' = Place(tdi', ntd' - (k + n))
    <3>1. ntd' - (k + n) = ntd - k
      BY <1>2, <1>3, <1>4
    <3> QED
      BY <1>9, <3>1
  <2>4. \A i \in D : td'[i].st = "own" <=> Past(i, chip') < k + n
    <3> SUFFICES ASSUME NEW i \in D PROVE td'[i].st = "own" <=> Past(i, chip) < k + n
      OBVIOUS
    <3>1. CASE Past(i, tdh) < n
      BY <1>6, <1>10, <3>1
    <3>2. CASE ~(Past(i, tdh) < n)
      <4>1. td'[i] = td[i]
        BY <1>6, <3>2
      <4>2. Past(i, chip) < k + n <=> Past(i, chip) < k
        BY <1>2, <1>4, <1>9, <1>10, <3>2, SMTT(30)
      <4> QED
        BY <1>9, <4>1, <4>2
    <3> QED
      BY <3>1, <3>2
  <2>5. \A i \in D : td'[i].bp # NoBlock => Past(i, tdi') < ntd'
    <3> SUFFICES ASSUME NEW i \in D, td'[i].bp # NoBlock PROVE Past(i, tdi) < ntd + n
      BY <1>3
    <3>1. CASE Past(i, tdh) < n
      BY <1>10, <3>1
    <3>2. CASE ~(Past(i, tdh) < n)
      <4>1. Past(i, tdi) < ntd
        BY <1>6, <1>9, <3>2
      <4>2. Past(i, tdi) \in 0..Ntd-1
        BY <1>4, PastIs
      <4> QED
        BY <1>2, <1>4, <4>1, <4>2
    <3> QED
      BY <3>1, <3>2
  <2> QED
    BY <2>1, <2>2, <2>3, <2>4, <2>5 DEF RingInv, D, Past, Place
<1>12. \A x \in 1..n : x \in 1..Len(oq) /\ aligned[x] \in BOOLEAN
  BY <1>2, <1>4
<1>13. \A i, j \in 1..Len(oq) : oq[i] = oq[j] => i = j
  BY DEF OwnInv, Apart
\* Blocks in oq afterwards are not freed.
<1>14. \A i \in 1..Len(oq') : /\ n + i \in 1..Len(oq) /\ oq'[i] = oq[n + i] /\ oq[n + i] \in Block
                              /\ blk'[oq'[i]] = blk[oq[n + i]]
  <2> SUFFICES ASSUME NEW i \in 1..Len(oq')
               PROVE  /\ n + i \in 1..Len(oq) /\ oq'[i] = oq[n + i] /\ oq[n + i] \in Block
                      /\ blk'[oq'[i]] = blk[oq[n + i]]
    OBVIOUS
  <2>1. n + i \in 1..Len(oq) /\ \A x \in 1..n : x # n + i
    BY <1>2, <1>4, <1>7
  <2>2. oq[n + i] \in Block /\ oq'[i] = oq[n + i]
    BY <1>7, <2>1, BlocksAre
  <2>3. oq[n + i] \notin Copied(n, aligned)
    BY <1>12, <1>13, <2>1 DEF Copied
  <2> QED
    BY <1>6, <2>1, <2>2, <2>3
<1>15. OrderInv(k + n)'
  <2>0. /\ Len(queued) = Len(left) + k + Len(oq)
        /\ \A i \in 1..Len(left) : queued[i] = left[i]
        /\ \A i \in D : Past(i, chip) < k => queued[Len(left) + 1 + Past(i, chip)] = td[i].n
        /\ \A i \in 1..Len(oq) : queued[Len(left) + k + i] = blk[oq[i]].n
    BY <1>8 DEF OrderInv
  <2>9. Len(left) \in Nat /\ k \in Nat
    BY <1>4, <1>9, TypesAre DEF ChipTypes
  <2>1. Len(queued) = Len(left) + (k + n) + Len(oq')
    BY <1>2, <1>4, <1>7, <2>0, <2>9
  <2>3. ASSUME NEW i \in D, Past(i, chip) < k + n PROVE queued[Len(left) + 1 + Past(i, chip)] = td'[i].n
    <3>1. CASE Past(i, tdh) < n
      <4>1. Past(i, chip) = Past(i, tdh) + k /\ Past(i, tdh) \in Nat
        BY <1>4, <1>10, <3>1
      <4>2. Past(i, tdh) + 1 \in 1..Len(oq)
        BY <1>2, <1>4, <3>1, <4>1
      <4>3. Len(left) + 1 + Past(i, chip) = Len(left) + k + (Past(i, tdh) + 1)
        BY <2>9, <4>1
      <4>4. PICK x : x = Past(i, tdh) + 1
        OBVIOUS
      <4>5. td'[i].n = blk[oq[x]].n
        BY <1>6, <3>1, <4>4
      <4>6. queued[Len(left) + k + x] = blk[oq[x]].n
        BY <2>0, <4>2, <4>4
      <4> QED
        BY <4>3, <4>4, <4>5, <4>6
    <3>2. CASE ~(Past(i, tdh) < n)
      <4>1. Past(i, chip) < k
        BY <1>2, <1>4, <1>9, <1>10, <2>3, <3>2
      <4> QED
        BY <1>6, <2>0, <3>2, <4>1
    <3> QED
      BY <3>1, <3>2
  <2>4. ASSUME NEW i \in 1..Len(oq') PROVE queued[Len(left) + (k + n) + i] = blk'[oq'[i]].n
    <3>1. Len(left) + (k + n) + i = Len(left) + k + (n + i)
      BY <1>2, <2>9
    <3>2. n + i \in 1..Len(oq) /\ blk'[oq'[i]] = blk[oq[n + i]]
      BY <1>14
    <3>3. queued[Len(left) + k + (n + i)] = blk[oq[n + i]].n
      BY <2>0, <3>2
    <3> QED
      BY <3>1, <3>2, <3>3
  <2> QED
    BY <1>3, <2>0, <2>1, <2>3, <2>4 DEF OrderInv, D, Past
<1>16. Ordered'
  <2>1. k + n \in 0..Ntd
    BY <1>2, <1>4, <1>9
  <2> QED
    BY <1>11, <1>15, <2>1 DEF Ordered
<1>17. /\ OutBlocks' = {oq[i] : i \in (n + 1)..Len(oq)}
       /\ TdBlocks' = TdBlocks \cup {oq[i] : i \in {x \in 1..n : aligned[x]}}
       /\ ProcBlocks' = ProcBlocks
  <2>1. \A x : x \in OutBlocks' <=> x \in {oq[i] : i \in (n + 1)..Len(oq)}
    <3>1. \A i \in (n + 1)..Len(oq) : i - n \in 1..Len(oq') /\ n + (i - n) = i
      BY <1>2, <1>4, <1>7
    <3>2. \A i \in 1..Len(oq') : n + i \in (n + 1)..Len(oq)
      BY <1>2, <1>4, <1>7
    <3> QED
      BY <1>7, <3>1, <3>2 DEF OutBlocks
  <2>2. ASSUME NEW i \in D, Past(i, tdh) < n PROVE td[i].bp = NoBlock
    <3>1. Past(i, tdi) \in 0..Ntd-1 /\ Past(i, tdi) >= ntd
      BY <1>4, <1>10, <2>2, PastIs
    <3> QED
      BY <1>4, <1>9, <3>1
  <2>3. ASSUME NEW x \in 1..n, aligned[x] PROVE oq[x] \in TdBlocks'
    <3> DEFINE i == Place(tdh, x - 1)
    <3>1. i \in D /\ Past(i, tdh) = x - 1
      <4>1. x - 1 \in 0..Ntd-1 /\ x - 1 \in 0..Ntd
        BY <1>2, <1>4
      <4> QED
        BY <1>4, <4>1, WrapPlace, PlacePast
    <3> HIDE DEF i
    <3>2. td'[i].bp = oq[x]
      <4>1. x - 1 < n /\ (x - 1) + 1 = x
        BY <1>2
      <4> QED
        BY <1>6, <2>3, <3>1, <4>1
    <3>3. oq[x] # NoBlock
      BY <1>12, BlocksAre, EtherAssumption
    <3> QED
      BY <3>1, <3>2, <3>3 DEF TdBlocks
  <2>4. ASSUME NEW x, x \in TdBlocks PROVE x \in TdBlocks'
    <3>1. PICK i \in D : td[i].bp = x /\ x # NoBlock
      BY <2>4 DEF TdBlocks
    <3>2. td'[i] = td[i]
      BY <1>6, <2>2, <3>1
    <3> QED
      BY <3>1, <3>2 DEF TdBlocks
  <2>5. ASSUME NEW x, x \in TdBlocks' PROVE x \in TdBlocks \cup {oq[i] : i \in {y \in 1..n : aligned[y]}}
    <3>1. PICK i \in D : td'[i].bp = x /\ x # NoBlock
      BY <2>5 DEF TdBlocks
    <3>2. CASE Past(i, tdh) < n
      <4>1. Past(i, tdh) + 1 \in 1..n
        BY <1>2, <1>4, <1>10, <3>2, SMTT(30)
      <4>2. aligned[Past(i, tdh) + 1] /\ x = oq[Past(i, tdh) + 1]
        BY <1>6, <3>1, <3>2
      <4> QED
        BY <4>1, <4>2
    <3>3. CASE ~(Past(i, tdh) < n)
      BY <1>6, <3>1, <3>3 DEF TdBlocks
    <3> QED
      BY <3>2, <3>3
  <2>6. TdBlocks' = TdBlocks \cup {oq[i] : i \in {x \in 1..n : aligned[x]}}
    BY <2>3, <2>4, <2>5
  <2>7. ProcBlocks' = ProcBlocks
    BY <1>3 DEF ProcBlocks
  <2> QED
    BY <2>1, <2>6, <2>7
<1>18. Copied(n, aligned) \subseteq OutBlocks
  BY <1>12 DEF Copied, OutBlocks
<1>19. Elsewhere' = Elsewhere \ Copied(n, aligned)
  <2>1. \A x \in Copied(n, aligned) : x \in OutBlocks /\ x \notin TdBlocks /\ x \notin ProcBlocks
    BY <1>18 DEF OwnInv, Apart
  <2>2. ASSUME NEW i \in 1..Len(oq) PROVE oq[i] \in Copied(n, aligned) <=> i <= n /\ ~aligned[i]
    <3>1. oq[i] \in Copied(n, aligned) => i \in 1..n /\ ~aligned[i]
      BY <1>12, <1>13 DEF Copied
    <3>2. i <= n /\ ~aligned[i] => oq[i] \in Copied(n, aligned)
      BY <1>2 DEF Copied
    <3> QED
      BY <1>2, <3>1, <3>2
  <2>3. \A x : x \in OutBlocks \ Copied(n, aligned) <=>
                 x \in OutBlocks' \/ x \in {oq[i] : i \in {y \in 1..n : aligned[y]}}
    <3>1. \A i \in (n + 1)..Len(oq) : i \in 1..Len(oq) /\ ~(i <= n)
      BY <1>2, <1>4
    <3>2. \A i \in 1..Len(oq) : i \in (n + 1)..Len(oq) \/ i \in 1..n
      BY <1>2, <1>4
    <3>3. ASSUME NEW x, x \in OutBlocks, x \notin Copied(n, aligned)
          PROVE  x \in OutBlocks' \/ x \in {oq[i] : i \in {y \in 1..n : aligned[y]}}
      <4>1. PICK i \in 1..Len(oq) : x = oq[i]
        BY <3>3 DEF OutBlocks
      <4>2. ~(i <= n /\ ~aligned[i])
        BY <2>2, <3>3, <4>1
      <4>3. CASE i \in (n + 1)..Len(oq)
        BY <1>17, <4>1, <4>3
      <4>4. CASE i \in 1..n
        BY <4>1, <4>2, <4>4
      <4> QED
        BY <3>2, <4>3, <4>4
    <3>4. ASSUME NEW x, x \in OutBlocks'
          PROVE  x \in OutBlocks /\ x \notin Copied(n, aligned)
      <4>1. PICK i \in (n + 1)..Len(oq) : x = oq[i]
        BY <1>17, <3>4
      <4> QED
        BY <2>2, <3>1, <4>1 DEF OutBlocks
    <3>5. ASSUME NEW x, x \in {oq[i] : i \in {y \in 1..n : aligned[y]}}
          PROVE  x \in OutBlocks /\ x \notin Copied(n, aligned)
      <4>1. PICK i \in 1..n : x = oq[i] /\ aligned[i]
        BY <3>5
      <4> QED
        BY <1>12, <2>2, <4>1 DEF OutBlocks
    <3> QED
      BY <3>3, <3>4, <3>5
  <2> QED
    BY <1>17, <2>1, <2>3 DEF Elsewhere
<1>20. Apart'
  <2>1. \A i, j \in 1..Len(oq') : oq'[i] = oq'[j] => i = j
    <3> SUFFICES ASSUME NEW i \in 1..Len(oq'), NEW j \in 1..Len(oq'), oq'[i] = oq'[j] PROVE i = j
      OBVIOUS
    <3>1. n + i = n + j
      BY <1>13, <1>14
    <3> QED
      BY <1>2, <3>1
  <2>2. ASSUME NEW i \in D, NEW j \in D, td'[i].bp = td'[j].bp, td'[i].bp # NoBlock PROVE i = j
    <3>1. ASSUME NEW a \in D, NEW b \in D, Past(a, tdh) < n, ~(Past(b, tdh) < n), td'[a].bp = td'[b].bp, td'[a].bp # NoBlock
          PROVE  FALSE
      <4>0. Past(a, tdh) \in 0..Ntd-1
        BY <1>4, PastIs
      <4>1. Past(a, tdh) + 1 \in 1..n
        BY <1>2, <1>4, <3>1, <4>0
      <4>2. td'[a].bp = oq[Past(a, tdh) + 1]
        BY <1>6, <3>1
      <4>3. td'[a].bp \in OutBlocks
        BY <1>12, <4>1, <4>2 DEF OutBlocks
      <4>4. td'[b].bp \in TdBlocks
        BY <1>6, <3>1 DEF TdBlocks
      <4> QED
        BY <3>1, <4>3, <4>4 DEF OwnInv, Apart
    <3>2. CASE Past(i, tdh) < n /\ Past(j, tdh) < n
      <4>0. Past(i, tdh) \in 0..Ntd-1 /\ Past(j, tdh) \in 0..Ntd-1
        BY <1>4, PastIs
      <4>1. Past(i, tdh) + 1 \in 1..n /\ Past(j, tdh) + 1 \in 1..n
        BY <1>2, <1>4, <3>2, <4>0
      <4>2. oq[Past(i, tdh) + 1] = oq[Past(j, tdh) + 1]
        BY <1>6, <2>2, <3>2
      <4>3. Past(i, tdh) + 1 = Past(j, tdh) + 1
        BY <1>12, <1>13, <4>1, <4>2
      <4>4. Past(i, tdh) = Past(j, tdh)
        BY <1>10, <4>3
      <4> QED
        BY <1>4, <4>4, PastIs
    <3>3. CASE ~(Past(i, tdh) < n) /\ ~(Past(j, tdh) < n)
      BY <1>6, <2>2, <3>3 DEF OwnInv, Apart
    <3> QED
      BY <2>2, <3>1, <3>2, <3>3
  <2>3. OutBlocks' \subseteq OutBlocks /\ TdBlocks' \subseteq TdBlocks \cup OutBlocks
    <3>1. \A i \in (n + 1)..Len(oq) : i \in 1..Len(oq)
      BY <1>2, <1>4
    <3> QED
      BY <1>12, <1>17, <3>1 DEF OutBlocks
  <2>4. OutBlocks' \cap TdBlocks' = {}
    <3>1. \A i \in (n + 1)..Len(oq), j \in 1..n : oq[i] # oq[j]
      <4>1. \A i \in (n + 1)..Len(oq), j \in 1..n : i \in 1..Len(oq) /\ i # j
        BY <1>2, <1>4
      <4> QED
        BY <1>12, <1>13, <4>1
    <3> QED
      BY <1>17, <2>3, <3>1 DEF OwnInv, Apart
  <2>5. OutBlocks' \cap ProcBlocks' = {} /\ TdBlocks' \cap ProcBlocks' = {}
    BY <1>17, <2>3 DEF OwnInv, Apart
  <2>6. /\ \A v, w \in Proc : wblk'[v] = wblk'[w] /\ wblk'[v] # NoBlock => v = w
        /\ \A w \in Proc : wblk'[w] # NoBlock <=> wpc'[w] \in {"feed", "free", "queue"}
    BY <1>3 DEF OwnInv, Apart
  <2> QED
    BY <2>1, <2>2, <2>4, <2>5, <2>6 DEF Apart, D
<1>21. Given(Counted, Elsewhere)'
  <2>1. PICK m : m = Counted
    OBVIOUS
  <2>2. PICK q : q = Counted'
    OBVIOUS
  <2>3. Given(m, Elsewhere) /\ m.blk = blk /\ m.inq = inq /\ q.blk = blk' /\ q.inq = inq'
    BY <2>1, <2>2, CountedMem, CountedNext DEF OwnInv
  <2>4. Freed(q, m, Copied(n, aligned)) /\ q.inq = m.inq
    BY <1>3, <1>6, <2>3 DEF Freed
  <2>5. Copied(n, aligned) \subseteq Elsewhere
    BY <1>18 DEF Elsewhere
  <2>6. Given(q, Elsewhere \ Copied(n, aligned))
    BY <2>3, <2>4, <2>5, FreeSet
  <2> QED
    BY <1>19, <2>2, <2>6
<1>22. RingTypes'
  <2>1. tdh' \in D /\ ntd' \in 0..Ntd
    <3>1. n \in 0..Ntd
      BY <1>2, <1>4
    <3>2. Place(tdh, n) \in D
      BY <1>4, <3>1, WrapPlace
    <3>3. ntd + n \in 0..Ntd
      BY <1>2, <1>4
    <3> QED
      BY <1>3, <1>6, <3>2, <3>3
  <2> QED
    BY <1>4, <1>6, <2>1 DEF RingTypes, TdType, D
<1>23. MuxTypes' /\ MemTypes'
  <2>1. MemTypes'
    BY <1>3, <1>4, <1>6 DEF MemTypes, BlkType
  <2>2. MuxTypes'
    BY <1>3, <1>4, <1>7 DEF MuxTypes, setup, counts
  <2> QED
    BY <2>1, <2>2
<1> QED
  BY <1>16, <1>20, <1>21, <1>22, <1>23 DEF OwnInv

LEMMA FunIsSeq ==
  ASSUME NEW S, NEW n \in Nat, NEW f \in [1..n -> S]
  PROVE  f \in Seq(S) /\ Len(f) = n
<1>1. f \in Seq(S)
  BY SeqDef
<1>2. Len(f) \in Nat /\ DOMAIN f = 1..Len(f)
  BY <1>1, LenProperties
<1> QED
  BY <1>1, <1>2

\* The descriptors that are the chip's.
LEMMA OutstandingIs ==
  ASSUME Types, NEW k \in 0..Ntd, RingInv(k)
  PROVE  Outstanding = [i \in 1..k |-> td[Place(chip, i - 1)].n]
<1>1. chip \in D /\ Ntd \in Nat \ {0} /\ k \in Nat
  BY TypesAre, DriverAssumption DEF RingTypes
<1> DEFINE own(j) == \A i \in 0..j-1 : td[(chip + i) % Ntd].st = "own"
           s == {j \in 0..Ntd : own(j)}
<1>2. ASSUME NEW i \in 0..Ntd-1
      PROVE  (chip + i) % Ntd = Place(chip, i) /\ (td[(chip + i) % Ntd].st = "own" <=> i < k)
  <2>1. i \in 0..Ntd
    BY <1>1
  <2>2. (chip + i) % Ntd = Place(chip, i) /\ Place(chip, i) \in D /\ Past(Place(chip, i), chip) = i
    BY <1>1, <2>1, WrapPlace, PlacePast
  <2> QED
    BY <2>2 DEF RingInv
<1>3. \A j \in 0..Ntd : own(j) <=> j <= k
  <2> SUFFICES ASSUME NEW j \in 0..Ntd PROVE own(j) <=> j <= k
    OBVIOUS
  <2>1. CASE j <= k
    <3>1. \A i \in 0..j-1 : i \in 0..Ntd-1 /\ i < k
      BY <1>1, <2>1
    <3> QED
      BY <1>2, <2>1, <3>1
  <2>2. CASE ~(j <= k)
    <3>1. k \in 0..j-1 /\ k \in 0..Ntd-1 /\ ~(k < k)
      BY <1>1, <2>2
    <3>2. td[(chip + k) % Ntd].st # "own"
      BY <1>2, <3>1
    <3> QED
      BY <2>2, <3>1, <3>2
  <2> QED
    BY <2>1, <2>2
<1> HIDE DEF own
<1>4. s = 0..k
  BY <1>1, <1>3
<1>5. Max(0..k) = k
  <2>1. k \in 0..k /\ \A y \in 0..k : k >= y
    BY <1>1
  <2>2. Max(0..k) \in 0..k /\ \A y \in 0..k : Max(0..k) >= y
    BY <2>1 DEF Max
  <2> QED
    BY <1>1, <2>2
<1>6. Outstanding = [i \in 1..k |-> td[(chip + i - 1) % Ntd].n]
  BY <1>4, <1>5 DEF Outstanding, own
<1>7. ASSUME NEW i \in 1..k PROVE td[(chip + i - 1) % Ntd].n = td[Place(chip, i - 1)].n
  <2>1. i - 1 \in 0..Ntd-1 /\ chip + i - 1 = chip + (i - 1)
    BY <1>1 DEF D
  <2>2. (chip + (i - 1)) % Ntd = Place(chip, i - 1)
    BY <1>2, <2>1
  <2> QED
    BY <2>1, <2>2
<1> QED
  BY <1>6, <1>7

LEMMA OutstandingSeq ==
  ASSUME Types, NEW k \in 0..Ntd, RingInv(k), OrderInv(k)
  PROVE  /\ Outstanding \in Seq(1..MaxPackets) /\ Len(Outstanding) = k
         /\ \A i \in 1..k : Outstanding[i] = queued[Len(left) + i]
<1>1. chip \in D /\ Ntd \in Nat \ {0} /\ k \in Nat /\ queued \in Seq(1..MaxPackets) /\ Len(left) \in Nat /\ Len(oq) \in Nat
  BY TypesAre, DriverAssumption, SMTT(30) DEF RingTypes, MuxTypes, ChipTypes
<1>2. Outstanding = [i \in 1..k |-> td[Place(chip, i - 1)].n]
  BY OutstandingIs
<1>3. ASSUME NEW i \in 1..k
      PROVE  td[Place(chip, i - 1)].n = queued[Len(left) + i] /\ queued[Len(left) + i] \in 1..MaxPackets
  <2>1. i - 1 \in 0..Ntd-1 /\ i - 1 \in 0..Ntd /\ i - 1 < k /\ Len(left) + 1 + (i - 1) = Len(left) + i
    BY <1>1
  <2>2. Place(chip, i - 1) \in D /\ Past(Place(chip, i - 1), chip) = i - 1
    BY <1>1, <2>1, WrapPlace, PlacePast
  <2>3. td[Place(chip, i - 1)].n = queued[Len(left) + i]
    BY <2>1, <2>2 DEF OrderInv
  <2>4. Len(left) + i \in 1..Len(queued)
    BY <1>1 DEF OrderInv
  <2> QED
    BY <1>1, <2>3, <2>4, ElementOfSeq
<1>4. Outstanding \in [1..k -> 1..MaxPackets]
  BY <1>2, <1>3
<1> QED
  BY <1>1, <1>2, <1>3, <1>4, FunIsSeq

LEMMA ResetStep ==
  ASSUME Types, OwnInv, Ordered, IntrReset
  PROVE  Types' /\ OwnInv' /\ Ordered'
<1>1. /\ blk' = [b \in Block |-> IF b \in Halted THEN Free ELSE blk[b]]
      /\ left' = left \o Outstanding
      /\ td' = [i \in 0..Ntd-1 |-> Idle] /\ ntd' = 0 /\ tdh' = 0 /\ tdi' = 0 /\ chip' = 0
      /\ isr' = {} /\ rx' = <<>> /\ intr' = "read"
      /\ UNCHANGED <<setup, inq, heard, soverflows, output, counts, procs, made, loc, errors, resets>>
  BY DEF IntrReset
<1>2. UNCHANGED <<oq, queued, wpc, wblk, load>>
  BY <1>1 DEF output, procs, setup
<1>3. PICK k \in 0..Ntd : RingInv(k) /\ OrderInv(k)
  BY DEF Ordered
<1>4. Ntd \in Nat \ {0} /\ k \in Nat /\ left \in Seq(1..MaxPackets) /\ Len(left) \in Nat /\ Len(oq) \in Nat /\ MaxPackets \in Nat
  BY TypesAre, DriverAssumption, EtherAssumption DEF ChipTypes, MuxTypes
<1>5. /\ Outstanding \in Seq(1..MaxPackets) /\ Len(Outstanding) = k
      /\ \A i \in 1..k : Outstanding[i] = queued[Len(left) + i]
  BY <1>3, OutstandingSeq
<1>6. /\ left' \in Seq(1..MaxPackets) /\ Len(left') = Len(left) + k
      /\ \A i \in 1..(Len(left) + k) : left'[i] = IF i <= Len(left) THEN left[i] ELSE Outstanding[i - Len(left)]
  <2>1. PICK o : o = Outstanding
    OBVIOUS
  <2>2. /\ left \o o \in Seq(1..MaxPackets) /\ Len(left \o o) = Len(left) + Len(o)
        /\ \A i \in 1..(Len(left) + Len(o)) : (left \o o)[i] = IF i <= Len(left) THEN left[i] ELSE o[i - Len(left)]
    BY <1>4, <1>5, <2>1, ConcatProperties
  <2> QED
    BY <1>1, <1>5, <2>1, <2>2
<1>7. \A i \in D : td'[i] = Idle
  BY <1>1 DEF D
<1>8. Halted \ {NoBlock} = TdBlocks
  BY DEF Halted, TdBlocks, D
<1>9. TdBlocks' = {} /\ OutBlocks' = OutBlocks /\ ProcBlocks' = ProcBlocks
  BY <1>2, <1>7 DEF TdBlocks, OutBlocks, ProcBlocks, Idle
<1>10. Elsewhere' = Elsewhere \ TdBlocks
  BY <1>9 DEF OwnInv, Apart, Elsewhere
<1>11. \A b \in Block : blk'[b] = IF b \in TdBlocks THEN Free ELSE blk[b]
  BY <1>1, <1>8, NotNoBlock
<1>12. Given(Counted, Elsewhere)'
  <2>1. PICK m : m = Counted
    OBVIOUS
  <2>2. PICK q : q = Counted'
    OBVIOUS
  <2>3. Given(m, Elsewhere) /\ m.blk = blk /\ m.inq = inq /\ q.blk = blk' /\ q.inq = inq'
    BY <2>1, <2>2, CountedMem, CountedNext DEF OwnInv
  <2>4. Freed(q, m, TdBlocks) /\ q.inq = m.inq
    BY <1>1, <1>11, <2>3 DEF Freed
  <2>5. TdBlocks \subseteq Elsewhere
    BY DEF Elsewhere
  <2>6. Given(q, Elsewhere \ TdBlocks)
    BY <2>3, <2>4, <2>5, FreeSet
  <2> QED
    BY <1>10, <2>2, <2>6
<1>13. Apart'
  <2>1. \A i, j \in D : td'[i].bp = td'[j].bp /\ td'[i].bp # NoBlock => i = j
    BY <1>7 DEF Idle
  <2> QED
    BY <1>2, <1>9, <2>1 DEF OwnInv, Apart, D
<1>14. 0 \in D /\ Place(0, 0) = 0
  BY <1>4 DEF D, Place
<1>15. RingInv(0)'
  <2>1. \A i \in D : Past(i, 0) \in 0..Ntd-1
    BY <1>14, PastIs
  <2>2. \A i \in D : td'[i].st # "own" /\ td'[i].bp = NoBlock
    BY <1>7 DEF Idle
  <2> QED
    <3>1. \A i \in D : ~(Past(i, chip') < 0)
      BY <1>1, <1>4, <2>1
    <3>2. 0 \in 0..ntd' /\ tdh' = Place(chip', 0) /\ chip' = Place(tdi', ntd' - 0)
      BY <1>1, <1>14
    <3> QED
      BY <2>2, <3>1, <3>2 DEF RingInv, D, Past, Place
<1>16. OrderInv(0)'
  <2>0. /\ Len(queued) = Len(left) + k + Len(oq)
        /\ \A i \in 1..Len(left) : queued[i] = left[i]
        /\ \A i \in 1..Len(oq) : queued[Len(left) + k + i] = blk[oq[i]].n
    BY <1>3 DEF OrderInv
  <2>1. Len(queued) = Len(left') + 0 + Len(oq)
    BY <1>4, <1>6, <2>0
  <2>2. ASSUME NEW i \in 1..Len(left') PROVE queued[i] = left'[i]
    <3>0. i \in 1..(Len(left) + k)
      BY <1>6
    <3>1. CASE i <= Len(left)
      <4>1. i \in 1..Len(left)
        BY <1>4, <3>0, <3>1
      <4>2. left'[i] = left[i]
        BY <1>6, <3>0, <3>1
      <4> QED
        BY <2>0, <4>1, <4>2
    <3>2. CASE ~(i <= Len(left))
      <4>1. i - Len(left) \in 1..k /\ Len(left) + (i - Len(left)) = i
        BY <1>4, <3>0, <3>2
      <4> QED
        BY <1>5, <1>6, <3>0, <3>2, <4>1
    <3> QED
      BY <3>1, <3>2
  <2>3. \A i \in D : ~(Past(i, 0) < 0)
    BY <1>4, <1>14, PastIs
  <2>4. ASSUME NEW i \in 1..Len(oq) PROVE queued[Len(left') + 0 + i] = blk'[oq[i]].n
    <3>1. oq[i] \in Block /\ oq[i] \in OutBlocks
      BY BlocksAre DEF OutBlocks
    <3>2. blk'[oq[i]] = blk[oq[i]]
      BY <1>11, <3>1 DEF OwnInv, Apart
    <3>3. Len(left') + 0 + i = Len(left) + k + i
      BY <1>4, <1>6
    <3> QED
      BY <2>0, <3>2, <3>3
  <2> QED
    BY <1>1, <1>2, <2>1, <2>2, <2>3, <2>4 DEF OrderInv, D, Past
<1>17. Ordered'
  <2>1. 0 \in 0..Ntd
    BY <1>4
  <2> QED
    BY <1>15, <1>16, <2>1 DEF Ordered
<1>18. Types'
  <2>1. MuxTypes'
    BY <1>1, TypesAre DEF MuxTypes, setup, output, counts, procs
  <2>2. MemTypes'
    BY <1>1, TypesAre DEF MemTypes
  <2>3. RingTypes'
    <3>1. Idle \in [bp : Block \cup {NoBlock}, st : {"idle", "own", "Tcok", "Tabt"}, n : 0..MaxPackets]
      BY <1>4 DEF Idle
    <3>2. td' \in [D -> [bp : Block \cup {NoBlock}, st : {"idle", "own", "Tcok", "Tabt"}, n : 0..MaxPackets]]
      BY <1>1, <3>1 DEF D
    <3>3. ntd' \in 0..Ntd /\ tdh' \in D /\ tdi' \in D /\ chip' \in D
      BY <1>1, <1>4, <1>14
    <3> QED
      BY <3>2, <3>3 DEF RingTypes, D
  <2>4. ChipTypes'
    <3>1. <<>> \in Seq([ok : BOOLEAN, p : Packet]) /\ Len(<<>>) = 0
      OBVIOUS
    <3>2. rx' \in Seq([ok : BOOLEAN, p : Packet]) /\ Len(rx') <= RxSlots
      BY <1>1, <3>1, DriverAssumption
    <3> QED
      BY <1>1, <1>2, <1>6, <3>2, TypesAre DEF ChipTypes
  <2> QED
    BY <2>1, <2>2, <2>3, <2>4, TypesNext
<1> QED
  BY <1>12, <1>13, <1>17, <1>18 DEF OwnInv

LEMMA TransmitStep ==
  ASSUME Types, OwnInv, Ordered, (\E w \in Proc : rtl8139transmit(w)) \/ IntrRefill
  PROVE  Types' /\ OwnInv' /\ Ordered'
<1>1. rtl8139txstart /\ UNCHANGED <<tdi, chip, isr, loc, rx, history>>
      /\ intr' \in {"out", "read", "ack", "rx", "tx", "serr"}
  BY TypesAre DEF rtl8139transmit, IntrRefill, ChipTypes
<1>2. /\ wpc' \in [Proc -> {"idle", "feed", "free", "queue", "flow", "kick"}]
      /\ \A w \in Proc : wpc'[w] \in {"feed", "free", "queue"} <=> wpc[w] \in {"feed", "free", "queue"}
  <2>1. wpc \in [Proc -> {"idle", "feed", "free", "queue", "flow", "kick"}]
    BY TypesAre DEF MuxTypes
  <2>2. CASE IntrRefill
    BY <2>1, <2>2 DEF IntrRefill
  <2>3. CASE \E w \in Proc : rtl8139transmit(w)
    <3>1. PICK w \in Proc : wpc[w] = "kick" /\ wpc' = [wpc EXCEPT ![w] = "idle"]
      BY <2>3 DEF rtl8139transmit, Goto
    <3> QED
      BY <2>1, <3>1
  <2> QED
    BY <2>2, <2>3
<1>3. UNCHANGED <<tdi, chip, left>>
  BY <1>1 DEF history
<1>4. MuxTypes' /\ MemTypes' /\ RingTypes' /\ OwnInv' /\ Ordered'
  BY <1>1, <1>2, <1>3, StartStep
<1>5. UNCHANGED load
  BY <1>1 DEF rtl8139txstart, setup
<1>6. ChipTypes'
  BY <1>1, <1>5, TypesAre DEF ChipTypes, history
<1> QED
  BY <1>4, <1>6, TypesNext

-------------------------------------------------------------------------------
(* The invariant                                                            *)

\* The inductive invariant.
IInv == Types /\ OwnInv /\ Ordered

\* The program starts with every block free and the ring empty.
LEMMA InitInv == Init => IInv
<1> SUFFICES ASSUME Init PROVE IInv
  OBVIOUS
<1>1. /\ load \in Loads /\ conns = load.conns
      /\ inq = [c \in Conn |-> <<>>] /\ oq = <<>> /\ noblock = FALSE
      /\ blk = [b \in Block |-> Free]
      /\ soverflows = 0 /\ inpackets = 0 /\ outpackets = 0 /\ made = 0
      /\ wpc = [w \in Proc |-> "idle"] /\ wblk = [w \in Proc |-> NoBlock]
      /\ heard = [c \in Conn |-> <<>>] /\ queued = <<>>
      /\ td = [i \in 0..Ntd-1 |-> Idle] /\ ntd = 0 /\ tdh = 0 /\ tdi = 0 /\ chip = 0
      /\ isr = {} /\ loc = {} /\ intr = "out" /\ rx = <<>> /\ left = <<>> /\ errors = 0 /\ resets = FALSE
  BY DEF Init, MuxInit
<1>2. /\ Ntd \in Nat \ {0} /\ RxSlots \in Nat /\ MaxPackets \in Nat /\ InLimit \in Nat
      /\ load.conns \in [Conn -> Config \cup {Closed}] /\ load.errors \in Nat
  <2>1. load.conns \in [Conn -> Config \cup {Closed}] /\ load.errors \in Nat
    BY <1>1, LoadAssumption
  <2>2. Ntd \in Nat \ {0} /\ RxSlots \in Nat
    BY DriverAssumption
  <2>3. MaxPackets \in Nat /\ InLimit \in Nat
    BY EtherAssumption
  <2> QED
    BY <2>1, <2>2, <2>3
<1>3. /\ <<>> \in Seq(Block) /\ <<>> \in Seq(Packet) /\ <<>> \in Seq(1..MaxPackets)
      /\ <<>> \in Seq([ok : BOOLEAN, p : Packet]) /\ Len(<<>>) = 0
  BY EmptySeq
<1>4. Types
  <2>1. MuxTypes
    <3>1. load \in Loads /\ conns \in [Conn -> Config \cup {Closed}]
      BY <1>1, <1>2
    <3>2. oq \in Seq(Block) /\ queued \in Seq(1..MaxPackets) /\ noblock \in BOOLEAN
      BY <1>1, <1>3
    <3>3. inpackets \in Nat /\ outpackets \in Nat /\ made \in 0..MaxPackets
      BY <1>1, <1>2
    <3>4. wpc \in [Proc -> {"idle", "feed", "free", "queue", "flow", "kick"}] /\ wblk \in [Proc -> Block \cup {NoBlock}]
      BY <1>1
    <3> QED
      BY <3>1, <3>2, <3>3, <3>4 DEF MuxTypes
  <2>2. MemTypes
    BY <1>1, <1>2, <1>3 DEF MemTypes
  <2>3. RingTypes
    <3>1. Idle \in [bp : Block \cup {NoBlock}, st : {"idle", "own", "Tcok", "Tabt"}, n : 0..MaxPackets]
      BY <1>2 DEF Idle
    <3>2. td \in [D -> [bp : Block \cup {NoBlock}, st : {"idle", "own", "Tcok", "Tabt"}, n : 0..MaxPackets]]
      BY <1>1, <3>1 DEF D
    <3> QED
      BY <1>1, <1>2, <3>2 DEF RingTypes, D
  <2>4. ChipTypes
    <3>1. rx \in Seq([ok : BOOLEAN, p : Packet]) /\ Len(rx) = 0 /\ left \in Seq(1..MaxPackets)
      BY <1>1, <1>3
    <3>2. isr = {} /\ loc = {} /\ intr = "out" /\ errors = 0 /\ resets = FALSE
      BY <1>1
    <3>3. Len(rx) <= RxSlots /\ errors \in 0..load.errors
      <4>1. 0 \in 0..load.errors /\ 0 <= RxSlots
        BY <1>2
      <4> QED
        BY <3>1, <3>2, <4>1
    <3>7. resets \in BOOLEAN
      BY <3>2
    <3>4. {isr, loc} \subseteq SUBSET {"Tok", "Ter", "Rok", "Rer", "Rxovw", "Serr"}
      BY <3>2
    <3>5. intr \in {"out", "read", "ack", "rx", "tx", "serr"}
      BY <3>2
    <3>6. rx \in Seq([ok : BOOLEAN, p : Packet]) /\ left \in Seq(1..MaxPackets)
      BY <3>1
    <3> QED
      BY <3>3, <3>4, <3>5, <3>6, <3>7, Zenon DEF ChipTypes
  <2> QED
    BY <2>1, <2>2, <2>3, <2>4, TypesAre
<1>5. OwnInv
  <2>1. 1..Len(oq) = {} /\ \A c \in Conn : 1..Len(inq[c]) = {}
    BY <1>1, <1>3
  <2>2. \A i \in D : td[i].bp = NoBlock
    BY <1>1 DEF D, Idle
  <2>3. OutBlocks = {} /\ TdBlocks = {} /\ ProcBlocks = {}
    BY <1>1, <2>1, <2>2 DEF OutBlocks, TdBlocks, ProcBlocks
  <2>4. Counted.blk = blk /\ Counted.inq = inq
    BY DEF Counted
  <2>5. \A b \in Block : ~Queued(Counted, b) /\ blk[b] = Free
    BY <1>1, <2>1, <2>4 DEF Queued
  <2>6. Given(Counted, Elsewhere)
    BY <2>1, <2>3, <2>4, <2>5 DEF Given, Elsewhere
  <2>7. Apart
    BY <1>1, <2>1, <2>2, <2>3 DEF Apart
  <2> QED
    BY <2>6, <2>7 DEF OwnInv
<1>6. Ordered
  <2>1. 0 \in D /\ 0 \in 0..Ntd /\ Place(0, 0) = 0
    BY <1>2 DEF D, Place
  <2>2. \A i \in D : Past(i, 0) \in 0..Ntd-1 /\ td[i] = Idle
    BY <1>1, <2>1, PastIs DEF D
  <2>3. \A i \in D : ~(Past(i, 0) < 0)
    BY <2>2
  <2>4. RingInv(0)
    <3>1. 0 \in 0..ntd /\ tdh = Place(chip, 0) /\ chip = Place(tdi, ntd - 0)
      BY <1>1, <2>1
    <3>2. \A i \in D : ~(Past(i, chip) < 0) /\ td[i].st # "own" /\ td[i].bp = NoBlock
      <4>1. Idle.st = "idle" /\ Idle.bp = NoBlock /\ chip = 0
        BY <1>1 DEF Idle
      <4> QED
        BY <2>2, <2>3, <4>1
    <3> QED
      BY <3>1, <3>2 DEF RingInv
  <2>5. 1..Len(oq) = {} /\ 1..Len(left) = {} /\ Len(queued) = 0 /\ Len(left) = 0 /\ Len(oq) = 0
    BY <1>1, <1>3
  <2>6. OrderInv(0)
    BY <1>1, <2>3, <2>5 DEF OrderInv
  <2> QED
    BY <2>1, <2>4, <2>6 DEF Ordered
<1> QED
  BY <1>4, <1>5, <1>6 DEF IInv

\* Every action of the multiplexer, of the driver and of the chip keeps IInv.
LEMMA StepInv == IInv /\ [Next]_vars => IInv'
<1> SUFFICES ASSUME IInv, [Next]_vars PROVE IInv'
  OBVIOUS
<1> USE DEF IInv
<1>1. CASE \E w \in Proc : Process(rtl8139transmit(w))
  BY <1>1, TransmitStep DEF Process
<1>2. CASE Process(MuxNext /\ UNCHANGED driver)
  <2>1. MuxNext /\ UNCHANGED driver
    BY <1>2 DEF Process
  <2>2. UNCHANGED <<td, ntd, tdh, tdi, chip, isr, loc, intr, rx, left, errors, resets>>
    BY <2>1 DEF driver, ring, history
  <2>3. MuxTypes' /\ MemTypes' /\ OwnInv' /\ Ordered'
    BY <2>1, MuxOwn, MuxRing
  <2>4. UNCHANGED load
    BY <2>1 DEF MuxNext, etheroq, EtherReject, EtherFeed, EtherFree, EtherQueue, EtherFlow, EtherInterrupted,
                EtherWrite, EtherRead, EtherClose, EtherOpen, Nonblocking, setup
  <2>5. RingTypes' /\ ChipTypes'
    BY <2>2, <2>4, TypesAre DEF RingTypes, ChipTypes, D
  <2> QED
    BY <2>3, <2>5, TypesNext
<1>3. CASE rtl8139interrupt \/ BusError
  BY <1>3, ChipStep, ReceiveStep, ReapStep, TransmitStep, ResetStep DEF rtl8139interrupt
<1>4. CASE \E ok \in BOOLEAN : ChipSends(ok) \/ \E f \in load.arrives : ChipReceives(f, ok)
  BY <1>4, SendsStep, ArriveStep
<1>5. CASE UNCHANGED vars
  <2>1. UNCHANGED mux /\ UNCHANGED <<ring, chip, left>> /\ UNCHANGED driver
    BY <1>5 DEF vars, driver, history
  <2>2. UNCHANGED load
    BY <2>1 DEF mux, setup
  <2>3. ChipTypes'
    BY <2>1, <2>2, TypesAre DEF ChipTypes, driver, history
  <2> QED
    BY <2>1, <2>3, KeepAll, TypesNext
<1> QED
  BY <1>1, <1>2, <1>3, <1>4, <1>5 DEF Next

LEMMA Invariance == Spec => []IInv
BY InitInv, StepInv, PTL DEF Spec

\* Every variable of the driver keeps its type: ntd, tdh and tdi stay in the
\* ring, the queues within their limits, and every step is one of the code's.
THEOREM TypeCorrect == Spec => []TypeOK
<1>1. IInv => TypeOK
  BY DEF IInv, Types
<1> QED
  BY <1>1, Invariance, PTL

LEMMA HoldersAre ==
  ASSUME NEW b
  PROVE  Holders(b) = InPlaces(b) \cup OutPlaces(b) \cup TdPlaces(b) \cup ProcPlaces(b)
BY DEF Holders

\* The one place a block is in.
LEMMA OneHolder ==
  ASSUME IInv, NEW b \in Block
  PROVE  Cardinality(Holders(b)) = IF blk[b] = Free THEN 0 ELSE 1
<1>1. Given(Counted, Elsewhere) /\ Counted.blk = blk /\ Counted.inq = inq
  BY CountedMem DEF IInv, OwnInv
<1>2. Apart /\ b # NoBlock
  BY EtherAssumption DEF IInv, OwnInv
<1>3. (\A c \in Conn : DOMAIN inq[c] = 1..Len(inq[c])) /\ DOMAIN oq = 1..Len(oq)
  BY TypesAre DEF IInv, MuxTypes, MemTypes
<1> DEFINE I == InPlaces(b)
           O == OutPlaces(b)
           T == TdPlaces(b)
           P == ProcPlaces(b)
<1>4. Holders(b) = I \cup O \cup T \cup P
  BY HoldersAre
<1> USE DEF InPlaces, OutPlaces, TdPlaces, ProcPlaces
<1>5. /\ I # {} <=> Queued(Counted, b)
      /\ \A x \in I : \A y \in I : x = y
  <2>1. ASSUME NEW x \in I
        PROVE  \E c \in Conn : \E i \in 1..Len(inq[c]) : inq[c][i] = b /\ x = <<"in", c, i>>
    BY <1>3
  <2>2. Queued(Counted, b) => I # {}
    <3> SUFFICES ASSUME Queued(Counted, b) PROVE I # {}
      OBVIOUS
    <3>1. PICK c \in Conn : \E i \in 1..Len(inq[c]) : inq[c][i] = b
      BY <1>1 DEF Queued
    <3>2. {<<"in", c, i>> : i \in {j \in DOMAIN inq[c] : inq[c][j] = b}} # {}
      BY <1>3, <3>1
    <3> QED
      BY <3>2
  <2> HIDE DEF I
  <2>3. I # {} => Queued(Counted, b)
    BY <1>1, <2>1 DEF Queued
  <2>4. ASSUME NEW x \in I, NEW y \in I PROVE x = y
    <3>1. PICK c \in Conn : \E i \in 1..Len(inq[c]) : inq[c][i] = b /\ x = <<"in", c, i>>
      BY <2>1
    <3>2. PICK i \in 1..Len(inq[c]) : inq[c][i] = b /\ x = <<"in", c, i>>
      BY <3>1
    <3>3. PICK d \in Conn : \E j \in 1..Len(inq[d]) : inq[d][j] = b /\ y = <<"in", d, j>>
      BY <2>1
    <3>4. PICK j \in 1..Len(inq[d]) : inq[d][j] = b /\ y = <<"in", d, j>>
      BY <3>3
    <3>5. c = d /\ i = j
      BY <1>1, <3>2, <3>4 DEF Given
    <3> QED
      BY <3>2, <3>4, <3>5
  <2> QED
    BY <2>2, <2>3, <2>4
<1>6. /\ O # {} <=> b \in OutBlocks
      /\ \A x \in O : \A y \in O : x = y
  <2>1. O # {} <=> b \in OutBlocks
    BY <1>3 DEF OutBlocks
  <2>2. \A x \in O : \E i \in 1..Len(oq) : oq[i] = b /\ x = <<"oq", i>>
    BY <1>3
  <2>3. \A i, j \in 1..Len(oq) : oq[i] = b /\ oq[j] = b => i = j
    BY <1>2 DEF Apart
  <2> HIDE DEF O
  <2> QED
    BY <2>1, <2>2, <2>3
<1>7. /\ T # {} <=> b \in TdBlocks
      /\ \A x \in T : \A y \in T : x = y
  <2>1. T # {} <=> b \in TdBlocks
    BY <1>2 DEF TdBlocks, D
  <2>2. \A x \in T : \E i \in D : td[i].bp = b /\ x = <<"td", i>>
    BY DEF D
  <2>3. \A i, j \in D : td[i].bp = b /\ td[j].bp = b => i = j
    BY <1>2 DEF Apart
  <2> HIDE DEF T
  <2> QED
    BY <2>1, <2>2, <2>3
<1>8. /\ P # {} <=> b \in ProcBlocks
      /\ \A x \in P : \A y \in P : x = y
  <2>1. P # {} <=> b \in ProcBlocks
    BY <1>2 DEF ProcBlocks
  <2>2. \A x \in P : \E w \in Proc : wblk[w] = b /\ x = <<"proc", w>>
    OBVIOUS
  <2>3. \A v, w \in Proc : wblk[v] = b /\ wblk[w] = b => v = w
    BY <1>2 DEF Apart
  <2> HIDE DEF P
  <2> QED
    BY <2>1, <2>2, <2>3
<1> HIDE DEF I, O, T, P, InPlaces, OutPlaces, TdPlaces, ProcPlaces
<1>9. Queued(Counted, b) => b \notin Elsewhere
  BY <1>1 DEF Given, Queued
<1>10. /\ ~(b \in OutBlocks /\ b \in TdBlocks) /\ ~(b \in OutBlocks /\ b \in ProcBlocks) /\ ~(b \in TdBlocks /\ b \in ProcBlocks)
       /\ b \in Elsewhere <=> b \in OutBlocks \/ b \in TdBlocks \/ b \in ProcBlocks
  BY <1>2 DEF Apart, Elsewhere
<1>11. blk[b] # Free <=> b \in Elsewhere \/ Queued(Counted, b)
  BY <1>1 DEF Given
<1>12. CASE blk[b] = Free
  <2>1. Holders(b) = {}
    BY <1>4, <1>5, <1>6, <1>7, <1>8, <1>10, <1>11, <1>12
  <2> QED
    BY <1>12, <2>1, FS_EmptySet
<1>13. CASE blk[b] # Free
  <2>2. \/ I # {} /\ O = {} /\ T = {} /\ P = {}
        \/ I = {} /\ O # {} /\ T = {} /\ P = {}
        \/ I = {} /\ O = {} /\ T # {} /\ P = {}
        \/ I = {} /\ O = {} /\ T = {} /\ P # {}
    BY <1>5, <1>6, <1>7, <1>8, <1>9, <1>10, <1>11, <1>13
  <2>3. Holders(b) = I \/ Holders(b) = O \/ Holders(b) = T \/ Holders(b) = P
    BY <1>4, <2>2
  <2>4. Holders(b) # {} /\ \A x \in Holders(b) : \A y \in Holders(b) : x = y
    BY <1>4, <1>5, <1>6, <1>7, <1>8, <2>2, <2>3
  <2>1. \E x : Holders(b) = {x}
    BY <2>4
  <2> QED
    BY <1>13, <2>1, FS_Singleton
<1> QED
  BY <1>12, <1>13

\* No block is lost, freed twice or kept by two: etheriq, etheroq, txstart, the
\* interrupt handler, close and reset leave each block in use in one place.
THEOREM OneOwner == Spec => []BlocksHaveOneOwner
<1>1. IInv => BlocksHaveOneOwner
  BY OneHolder DEF BlocksHaveOneOwner
<1> QED
  BY <1>1, Invariance, PTL

\* Ordered says place by place what OutputInOrder says of whole sequences.
LEMMA InOrder == IInv => OutputInOrder
<1> SUFFICES ASSUME IInv PROVE OutputInOrder
  OBVIOUS
<1>1. PICK k \in 0..Ntd : RingInv(k) /\ OrderInv(k)
  BY DEF IInv, Ordered
<1>2. /\ queued \in Seq(1..MaxPackets) /\ left \in Seq(1..MaxPackets) /\ oq \in Seq(Block)
      /\ Len(left) \in Nat /\ Len(oq) \in Nat /\ k \in Nat
  BY TypesAre, DriverAssumption DEF IInv, MuxTypes, ChipTypes
<1>3. PICK o : o = Outstanding
  OBVIOUS
<1>4. o \in Seq(1..MaxPackets) /\ Len(o) = k /\ \A i \in 1..k : o[i] = queued[Len(left) + i]
  BY <1>1, <1>3, OutstandingSeq DEF IInv
<1>5. PICK r : r = [i \in DOMAIN oq |-> blk[oq[i]].n]
  OBVIOUS
<1>6. r \in Seq(1..MaxPackets) /\ Len(r) = Len(oq) /\ \A i \in 1..Len(oq) : r[i] = blk[oq[i]].n
  <2>1. DOMAIN oq = 1..Len(oq)
    BY <1>2
  <2>2. \A i \in 1..Len(oq) : blk[oq[i]].n \in 1..MaxPackets
    BY BlocksAre, PacketsAre DEF IInv
  <2>3. r \in [1..Len(oq) -> 1..MaxPackets]
    BY <1>5, <2>1, <2>2
  <2> QED
    BY <1>2, <1>5, <2>1, <2>3, FunIsSeq
<1>7. PICK a : a = left \o o
  OBVIOUS
<1>8. /\ a \in Seq(1..MaxPackets) /\ Len(a) = Len(left) + k
      /\ \A i \in 1..(Len(left) + k) : a[i] = IF i <= Len(left) THEN left[i] ELSE o[i - Len(left)]
  BY <1>2, <1>4, <1>7, ConcatProperties
<1>9. PICK z : z = a \o r
  OBVIOUS
<1>10. /\ z \in Seq(1..MaxPackets) /\ Len(z) = Len(left) + k + Len(oq)
       /\ \A i \in 1..(Len(left) + k + Len(oq)) : z[i] = IF i <= Len(left) + k THEN a[i] ELSE r[i - (Len(left) + k)]
  <2>1. /\ a \o r \in Seq(1..MaxPackets) /\ Len(a \o r) = Len(a) + Len(r)
        /\ \A i \in 1..(Len(a) + Len(r)) : (a \o r)[i] = IF i <= Len(a) THEN a[i] ELSE r[i - Len(a)]
    <3>1. a \in Seq(1..MaxPackets) /\ r \in Seq(1..MaxPackets)
      BY <1>6, <1>8
    <3> QED
      BY <3>1, ConcatProperties
  <2> QED
    BY <1>6, <1>8, <1>9, <2>1
<1>11. /\ Len(queued) = Len(left) + k + Len(oq)
       /\ \A i \in 1..Len(left) : queued[i] = left[i]
       /\ \A i \in 1..Len(oq) : queued[Len(left) + k + i] = blk[oq[i]].n
  BY <1>1 DEF OrderInv
<1>12. ASSUME NEW i \in 1..Len(queued) PROVE queued[i] = z[i]
  <2>0. i \in 1..(Len(left) + k + Len(oq))
    BY <1>11
  <2>1. CASE i <= Len(left)
    <3>1. i \in 1..Len(left) /\ i \in 1..(Len(left) + k) /\ i <= Len(left) + k
      BY <1>2, <2>0, <2>1
    <3>2. z[i] = a[i] /\ a[i] = left[i]
      BY <1>8, <1>10, <2>0, <3>1
    <3> QED
      BY <1>11, <3>1, <3>2
  <2>2. CASE ~(i <= Len(left)) /\ i <= Len(left) + k
    <3>1. i \in 1..(Len(left) + k) /\ i - Len(left) \in 1..k /\ Len(left) + (i - Len(left)) = i
      BY <1>2, <2>0, <2>2
    <3>2. z[i] = a[i] /\ a[i] = o[i - Len(left)]
      BY <1>8, <1>10, <2>0, <2>2, <3>1
    <3> QED
      BY <1>4, <3>1, <3>2
  <2>3. CASE ~(i <= Len(left) + k)
    <3>1. i - (Len(left) + k) \in 1..Len(oq) /\ Len(left) + k + (i - (Len(left) + k)) = i
      BY <1>2, <2>0, <2>3
    <3>2. z[i] = r[i - (Len(left) + k)]
      BY <1>10, <2>0, <2>3
    <3> QED
      BY <1>6, <1>11, <3>1, <3>2
  <2> QED
    BY <1>2, <2>0, <2>1, <2>2, <2>3
<1>13. queued = z
  <2>1. Len(queued) = Len(z)
    BY <1>10, <1>11
  <2> QED
    BY <1>2, <1>10, <1>12, <2>1, SeqEqual
<1> QED
  BY <1>3, <1>5, <1>7, <1>9, <1>13 DEF OutputInOrder

\* Packets leave in the order in which they were queued, whatever the turns of
\* chip, interrupt handler and transmit, and whatever a reset drops.
THEOREM OutputOrder == Spec => []OutputInOrder
BY InOrder, Invariance, PTL

-------------------------------------------------------------------------------
(* What connections hear: PacketHub                                         *)

FreeIn(m)         == {x \in Block : m.blk[x] = Free}
Wanted(p, fw)     == {c \in Conn : Wants(c, p, fw)}
Upto(k, p, fw)    == (1..k) \cap Wanted(p, fw)
Whole(A)          == {c \in A : ~conns[c].headersonly}

\* u is m with p given to those in H.
HeardBy(u, m, H, p) == \A d \in Conn : u.heard[d] = IF d \in H THEN Append(m.heard[d], p) ELSE m.heard[d]

NoRoom(m, c)    == Full(m, c) \/ Cardinality(FreeIn(m)) < NConn
AllNoRoom(m, A) == \A c \in A : NoRoom(m, c)

\* The queues of those whose turn is still to come.
Waiting(u, m, k) == \A d \in Conn : d > k \/ d = u.fx => u.inq[d] = m.inq[d]

\* After k turns: those in A have missed p, fx is to get the block.
LoopInv(u, m, k, p, fw, A) ==
  /\ A \subseteq Upto(k, p, fw) /\ AllNoRoom(m, A)
  /\ u.fx = 0 \/ (fw /\ u.fx \in Upto(k, p, fw) \ A /\ u.fx \in Whole(Conn))
  /\ HeardBy(u, m, Upto(k, p, fw) \ (A \cup {u.fx}), p)
  /\ u.soverflows = m.soverflows + Cardinality(Whole(A))
  /\ Waiting(u, m, k)
  /\ Cardinality(FreeIn(u)) + k >= Cardinality(FreeIn(m))

LEMMA FreeCount ==
  ASSUME NEW m
  PROVE  IsFiniteSet(FreeIn(m)) /\ Cardinality(FreeIn(m)) \in Nat
<1>1. IsFiniteSet(Block)
  BY EtherAssumption, FS_Interval DEF Block
<1>2. FreeIn(m) \in SUBSET Block
  BY DEF FreeIn
<1> QED
  BY <1>1, <1>2, FS_Subset, FS_CardinalityType

LEMMA WholeCount ==
  ASSUME NEW A \in SUBSET Conn, NEW c \in Conn \ A
  PROVE  /\ Cardinality(Whole(A)) \in Nat
         /\ c \in Whole(Conn) => Cardinality(Whole(A \cup {c})) = Cardinality(Whole(A)) + 1
         /\ c \notin Whole(Conn) => Cardinality(Whole(A \cup {c})) = Cardinality(Whole(A))
<1>1. IsFiniteSet(Conn)
  BY EtherAssumption, FS_Interval DEF Conn
<1>2. Whole(A) \in SUBSET Conn /\ c \notin Whole(A)
  BY DEF Whole
<1>3. IsFiniteSet(Whole(A)) /\ Cardinality(Whole(A)) \in Nat
  BY <1>1, <1>2, FS_Subset, FS_CardinalityType
<1>4. c \in Whole(Conn) => Whole(A \cup {c}) = Whole(A) \cup {c}
  BY DEF Whole
<1>5. c \notin Whole(Conn) => Whole(A \cup {c}) = Whole(A)
  BY DEF Whole
<1>6. Cardinality(Whole(A) \cup {c}) = Cardinality(Whole(A)) + 1
  BY <1>2, <1>3, FS_AddElement
<1> QED
  BY <1>3, <1>4, <1>5, <1>6

LEMMA NextUpto ==
  ASSUME NEW k \in Nat, k + 1 \in Conn, NEW p, NEW fw
  PROVE  /\ k + 1 \in Wanted(p, fw) => Upto(k + 1, p, fw) = Upto(k, p, fw) \cup {k + 1}
         /\ k + 1 \notin Wanted(p, fw) => Upto(k + 1, p, fw) = Upto(k, p, fw)
         /\ k + 1 \notin Upto(k, p, fw) /\ Upto(k, p, fw) \subseteq Conn /\ 0 \notin Conn
BY DEF Upto, Wanted, Conn

\* The connection whose turn it is misses the packet.
LEMMA DeafTurn ==
  ASSUME NEW m \in Mem, NEW u \in Mem, NEW v, NEW k \in Nat, k + 1 \in Conn, NEW p, NEW fw, NEW A,
         LoopInv(u, m, k, p, fw, A), k + 1 \in Wanted(p, fw), NoRoom(m, k + 1),
         v.fx = u.fx, v.heard = u.heard, v.inq = u.inq, FreeIn(v) = FreeIn(u),
         v.soverflows = IF k + 1 \in Whole(Conn) THEN u.soverflows + 1 ELSE u.soverflows
  PROVE  LoopInv(v, m, k + 1, p, fw, A \cup {k + 1})
<1>1. /\ Upto(k + 1, p, fw) = Upto(k, p, fw) \cup {k + 1} /\ k + 1 \notin Upto(k, p, fw)
      /\ Upto(k, p, fw) \subseteq Conn
  BY NextUpto
<1>2. A \subseteq Upto(k, p, fw) /\ AllNoRoom(m, A) /\ A \in SUBSET Conn /\ k + 1 \in Conn \ A
  BY <1>1 DEF LoopInv
<1>3. A \cup {k + 1} \subseteq Upto(k + 1, p, fw) /\ AllNoRoom(m, A \cup {k + 1})
  BY <1>1, <1>2 DEF AllNoRoom
<1>4. v.fx = 0 \/ (fw /\ v.fx \in Upto(k + 1, p, fw) \ (A \cup {k + 1}) /\ v.fx \in Whole(Conn))
  BY <1>1 DEF LoopInv
<1>5. Upto(k + 1, p, fw) \ (A \cup {k + 1} \cup {v.fx}) = Upto(k, p, fw) \ (A \cup {u.fx})
  BY <1>1
<1>6. HeardBy(v, m, Upto(k + 1, p, fw) \ (A \cup {k + 1} \cup {v.fx}), p)
  BY <1>5 DEF LoopInv, HeardBy
<1>7. v.soverflows = m.soverflows + Cardinality(Whole(A \cup {k + 1}))
  <2>1. m.soverflows \in Nat /\ u.soverflows = m.soverflows + Cardinality(Whole(A))
    BY DEF LoopInv, Mem
  <2> QED
    BY <1>2, <2>1, WholeCount
<1>8. Waiting(v, m, k + 1)
  BY DEF LoopInv, Waiting, Conn
<1>9. Cardinality(FreeIn(v)) + (k + 1) >= Cardinality(FreeIn(m))
  BY FreeCount DEF LoopInv
<1> QED
  BY <1>3, <1>4, <1>6, <1>7, <1>8, <1>9 DEF LoopInv

\* It gets the packet in a block that was free.
LEMMA HearTurn ==
  ASSUME NEW m \in Mem, NEW u \in Mem, NEW v, NEW k \in Nat, k + 1 \in Conn, NEW p, NEW fw, NEW A,
         LoopInv(u, m, k, p, fw, A), k + 1 \in Wanted(p, fw), NEW b,
         v.fx = u.fx, OneHears(v, u, k + 1, p), InqKept(v, u, k + 1), FreeIn(v) = FreeIn(u) \ {b},
         v.soverflows = u.soverflows
  PROVE  LoopInv(v, m, k + 1, p, fw, A)
<1>1. /\ Upto(k + 1, p, fw) = Upto(k, p, fw) \cup {k + 1} /\ k + 1 \notin Upto(k, p, fw)
      /\ Upto(k, p, fw) \subseteq Conn /\ 0 \notin Conn
  BY NextUpto
<1>2. A \subseteq Upto(k, p, fw) /\ AllNoRoom(m, A)
  BY DEF LoopInv
<1>3. k + 1 # u.fx /\ (v.fx = 0 \/ (fw /\ v.fx \in Upto(k + 1, p, fw) \ A /\ v.fx \in Whole(Conn)))
  BY <1>1 DEF LoopInv
<1>4. HeardBy(v, m, Upto(k + 1, p, fw) \ (A \cup {v.fx}), p)
  <2>1. HeardBy(u, m, Upto(k, p, fw) \ (A \cup {u.fx}), p)
    BY DEF LoopInv
  <2>2. Upto(k + 1, p, fw) \ (A \cup {v.fx}) = (Upto(k, p, fw) \ (A \cup {u.fx})) \cup {k + 1}
    BY <1>1, <1>2, <1>3
  <2>3. k + 1 \notin Upto(k, p, fw) \ (A \cup {u.fx})
    BY <1>1
  <2> DEFINE H == Upto(k, p, fw) \ (A \cup {u.fx})
  <2> HIDE DEF H
  <2>4. HeardBy(v, m, H \cup {k + 1}, p)
    BY <2>1, <2>3 DEF HeardBy, OneHears, H
  <2> QED
    BY <2>2, <2>4 DEF H
<1>5. Waiting(v, m, k + 1)
  BY <1>3 DEF LoopInv, Waiting, InqKept, Conn
<1>6. Cardinality(FreeIn(v)) + (k + 1) >= Cardinality(FreeIn(m))
  <2>1. Cardinality(FreeIn(v)) >= Cardinality(FreeIn(u)) - 1
    BY FreeCount, FS_RemoveElement
  <2>2. Cardinality(FreeIn(u)) + k >= Cardinality(FreeIn(m))
    BY DEF LoopInv
  <2>3. Cardinality(FreeIn(u)) \in Nat /\ Cardinality(FreeIn(v)) \in Nat /\ Cardinality(FreeIn(m)) \in Nat
    BY FreeCount
  <2> QED
    BY <2>1, <2>2, <2>3
<1> QED
  BY <1>1, <1>2, <1>3, <1>4, <1>5, <1>6 DEF LoopInv

\* It does not want it, or is the first of a packet from the wire.
LEMMA OtherTurn ==
  ASSUME NEW m \in Mem, NEW u \in Mem, NEW v, NEW k \in Nat, k + 1 \in Conn, NEW p, NEW fw, NEW A,
         LoopInv(u, m, k, p, fw, A),
         \/ k + 1 \notin Wanted(p, fw) /\ v = u
         \/ /\ k + 1 \in Wanted(p, fw) /\ k + 1 \in Whole(Conn) /\ fw /\ u.fx = 0 /\ v.fx = k + 1
            /\ v.heard = u.heard /\ v.inq = u.inq /\ v.blk = u.blk /\ v.soverflows = u.soverflows
  PROVE  LoopInv(v, m, k + 1, p, fw, A)
<1>1. Cardinality(FreeIn(v)) + (k + 1) >= Cardinality(FreeIn(m))
  <2>1. FreeIn(v) = FreeIn(u)
    BY DEF FreeIn
  <2> QED
    BY <2>1, FreeCount DEF LoopInv
<1>2. k + 1 \notin Upto(k, p, fw) /\ 0 \notin Conn /\ Upto(k, p, fw) \subseteq Conn
  BY NextUpto
<1>3. CASE k + 1 \notin Wanted(p, fw) /\ v = u
  <2>1. Upto(k + 1, p, fw) = Upto(k, p, fw)
    BY <1>3, NextUpto
  <2>2. Waiting(v, m, k + 1)
    BY <1>3 DEF LoopInv, Waiting, Conn
  <2> QED
    BY <1>1, <1>3, <2>1, <2>2 DEF LoopInv
<1>4. CASE /\ k + 1 \in Wanted(p, fw) /\ k + 1 \in Whole(Conn) /\ fw /\ u.fx = 0 /\ v.fx = k + 1
           /\ v.heard = u.heard /\ v.inq = u.inq /\ v.blk = u.blk /\ v.soverflows = u.soverflows
  <2>0. k + 1 \in Wanted(p, fw)
    BY <1>4
  <2>1. Upto(k + 1, p, fw) = Upto(k, p, fw) \cup {k + 1}
    BY <2>0, NextUpto
  <2>2. Upto(k + 1, p, fw) \ (A \cup {v.fx}) = Upto(k, p, fw) \ (A \cup {u.fx})
    BY <1>2, <1>4, <2>1
  <2>3. HeardBy(v, m, Upto(k + 1, p, fw) \ (A \cup {v.fx}), p)
    BY <1>4, <2>2 DEF LoopInv, HeardBy
  <2>4. Waiting(v, m, k + 1)
    BY <1>4 DEF LoopInv, Waiting, Conn
  <2>5. A \subseteq Upto(k + 1, p, fw) /\ v.fx \in Upto(k + 1, p, fw) \ A
    BY <1>2, <1>4, <2>1 DEF LoopInv
  <2> QED
    BY <1>1, <1>4, <2>3, <2>4, <2>5 DEF LoopInv
<1> QED
  BY <1>3, <1>4

LEMMA Misses ==
  ASSUME NEW m \in Mem, NEW u \in Mem, NEW k \in Nat, k + 1 \in Conn, NEW p, NEW fw, NEW A,
         LoopInv(u, m, k, p, fw, A), Full(u, k + 1) \/ iallocb(u) = NoBlock
  PROVE  NoRoom(m, k + 1)
<1>1. CASE Full(u, k + 1)
  <2>1. u.inq[k + 1] = m.inq[k + 1]
    BY DEF LoopInv, Waiting
  <2> QED
    BY <1>1, <2>1 DEF Full, NoRoom
<1>2. CASE iallocb(u) = NoBlock
  <2>1. \A b \in Block : u.blk[b] # Free
    BY <1>2, AllocIs
  <2>2. Cardinality(FreeIn(u)) = 0
    BY <2>1, FS_EmptySet DEF FreeIn
  <2>3. Cardinality(FreeIn(u)) + k >= Cardinality(FreeIn(m))
    BY DEF LoopInv
  <2>4. Cardinality(FreeIn(m)) \in Nat /\ NConn \in Nat /\ k + 1 <= NConn
    BY FreeCount, EtherAssumption DEF Conn
  <2> QED
    BY <2>2, <2>3, <2>4 DEF NoRoom
<1> QED
  BY <1>1, <1>2

LEMMA PutTurn ==
  ASSUME NEW u \in Mem, Short(u), NEW R, Given(u, R), NEW c \in Conn, ~Full(u, c),
         NEW b \in Block, u.blk[b] = Free, NEW p \in Packet, NEW v, v = Put(u, c, b, p)
  PROVE  /\ v.fx = u.fx /\ v.soverflows = u.soverflows /\ FreeIn(v) = FreeIn(u) \ {b}
         /\ OneHears(v, u, c, p) /\ InqKept(v, u, c)
<1>0. b \in R \/ u.blk[b] = Free
  OBVIOUS
<1>1. /\ v \in Mem /\ Short(v) /\ Given(v, R \ {b}) /\ v.fx = u.fx /\ v.soverflows = u.soverflows
      /\ BlkKept(v, u, b)
      /\ OneHears(v, u, c, p)
      /\ InqKept(v, u, c)
  BY <1>0, PutMem
<1>2. v.blk[b] = p /\ p # Free
  BY PacketsAre DEF Put, Mem
<1> QED
  BY <1>1, <1>2 DEF FreeIn, BlkKept

\* A turn of the loop.
LEMMA GiveHears ==
  ASSUME NEW m \in Mem, NEW u \in Mem, Short(u), NEW R, Given(u, R), NEW k \in Nat, k + 1 \in Conn,
         NEW p \in Packet, NEW fw \in BOOLEAN, NEW A, LoopInv(u, m, k, p, fw, A),
         NEW v, v = Give(u, k + 1, p, fw)
  PROVE  \E B : LoopInv(v, m, k + 1, p, fw, B)
<1> DEFINE c == k + 1
           b == iallocb(u)
           keep == conns[c].headersonly \/ ~(fw /\ u.fx = 0)
<1>1. \/ ~Wants(c, p, fw) /\ v = u
      \/ Wants(c, p, fw) /\ conns[c].headersonly /\ (Full(u, c) \/ b = NoBlock) /\ v = u
      \/ Wants(c, p, fw) /\ ~keep /\ v = [u EXCEPT !.fx = c]
      \/ Wants(c, p, fw) /\ keep /\ ~Full(u, c) /\ b # NoBlock /\ v = Put(u, c, b, p)
      \/ /\ Wants(c, p, fw) /\ keep /\ ~conns[c].headersonly /\ Full(u, c) /\ b # NoBlock
         /\ v = [freeb(u, b) EXCEPT !.soverflows = @ + 1]
      \/ /\ Wants(c, p, fw) /\ keep /\ ~conns[c].headersonly /\ b = NoBlock
         /\ v = [u EXCEPT !.soverflows = @ + 1]
  BY GiveCases
<1>2. /\ c \in Wanted(p, fw) <=> Wants(c, p, fw)
      /\ c \in Whole(Conn) <=> ~conns[c].headersonly
  BY DEF Wanted, Whole
<1>3. c \in Conn
  OBVIOUS
<1> HIDE DEF c
<1>a. c = k + 1
  BY DEF c
<1>4. CASE ~Wants(c, p, fw) /\ v = u
  <2>1. c \notin Wanted(p, fw)
    BY <1>2, <1>4
  <2>2. LoopInv(v, m, k + 1, p, fw, A)
    BY <1>4, <1>a, <2>1, OtherTurn
  <2> QED
    BY <2>2
<1>5. CASE Wants(c, p, fw) /\ conns[c].headersonly /\ (Full(u, c) \/ b = NoBlock) /\ v = u
  <2>1. c \in Wanted(p, fw) /\ c \notin Whole(Conn)
    BY <1>2, <1>5
  <2>2. NoRoom(m, c)
    BY <1>5, <1>a, Misses
  <2>3. LoopInv(v, m, k + 1, p, fw, A \cup {k + 1})
    BY <1>5, <1>a, <2>1, <2>2, DeafTurn
  <2> QED
    BY <2>3
<1>6. CASE Wants(c, p, fw) /\ ~keep /\ v = [u EXCEPT !.fx = c]
  <2>1. c \in Wanted(p, fw) /\ c \in Whole(Conn) /\ fw /\ u.fx = 0
    BY <1>2, <1>6
  <2>2. v.fx = c /\ v.heard = u.heard /\ v.inq = u.inq /\ v.blk = u.blk /\ v.soverflows = u.soverflows
    BY <1>6 DEF Mem
  <2>3. LoopInv(v, m, k + 1, p, fw, A)
    BY <1>a, <2>1, <2>2, OtherTurn
  <2> QED
    BY <2>3
<1>7. CASE Wants(c, p, fw) /\ keep /\ ~Full(u, c) /\ b # NoBlock /\ v = Put(u, c, b, p)
  <2>1. b \in Block /\ u.blk[b] = Free
    BY <1>7, AllocIs
  <2> HIDE DEF b, keep
  <2>2. ~Full(u, c) /\ v = Put(u, c, b, p)
    BY <1>7
  <2>3. /\ v.fx = u.fx /\ v.soverflows = u.soverflows /\ FreeIn(v) = FreeIn(u) \ {b}
        /\ OneHears(v, u, c, p) /\ InqKept(v, u, c)
    BY <1>3, <2>1, <2>2, PutTurn
  <2>5. c \in Wanted(p, fw)
    BY <1>2, <1>7
  <2>6. LoopInv(v, m, k + 1, p, fw, A)
    BY <1>a, <2>3, <2>5, HearTurn
  <2> QED
    BY <2>6
<1>8. CASE /\ Wants(c, p, fw) /\ keep /\ ~conns[c].headersonly /\ Full(u, c) /\ b # NoBlock
           /\ v = [freeb(u, b) EXCEPT !.soverflows = @ + 1]
  <2>1. b \in Block /\ u.blk[b] = Free
    BY <1>8, AllocIs
  <2>2. c \in Wanted(p, fw) /\ c \in Whole(Conn)
    BY <1>2, <1>8
  <2>3. NoRoom(m, c)
    BY <1>8, <1>a, Misses
  <2> HIDE DEF b, keep
  <2>4. /\ v.fx = u.fx /\ v.heard = u.heard /\ v.inq = u.inq /\ v.soverflows = u.soverflows + 1
        /\ v.blk = [u.blk EXCEPT ![b] = Free]
    BY <1>8 DEF freeb, Mem
  <2>5. FreeIn(v) = FreeIn(u)
    BY <2>1, <2>4 DEF FreeIn, Mem
  <2>6. LoopInv(v, m, k + 1, p, fw, A \cup {k + 1})
    BY <1>a, <2>2, <2>3, <2>4, <2>5, DeafTurn
  <2> QED
    BY <2>6
<1>9. CASE /\ Wants(c, p, fw) /\ keep /\ ~conns[c].headersonly /\ b = NoBlock
           /\ v = [u EXCEPT !.soverflows = @ + 1]
  <2>1. c \in Wanted(p, fw) /\ c \in Whole(Conn)
    BY <1>2, <1>9
  <2>2. NoRoom(m, c)
    BY <1>9, <1>a, Misses
  <2>3. /\ v.fx = u.fx /\ v.heard = u.heard /\ v.inq = u.inq /\ v.soverflows = u.soverflows + 1
        /\ v.blk = u.blk
    BY <1>9 DEF Mem
  <2>4. FreeIn(v) = FreeIn(u)
    BY <2>3 DEF FreeIn
  <2>5. LoopInv(v, m, k + 1, p, fw, A \cup {k + 1})
    BY <1>a, <2>1, <2>2, <2>3, <2>4, DeafTurn
  <2> QED
    BY <2>5
<1> HIDE DEF b, keep
<1> QED
  BY <1>1, <1>4, <1>5, <1>6, <1>7, <1>8, <1>9

LEMMA LoopStart ==
  ASSUME NEW m \in Mem, m.fx = 0, NEW p, NEW fw
  PROVE  LoopInv(m, m, 0, p, fw, {})
<1>1. Upto(0, p, fw) = {} /\ Whole({}) = {}
  BY DEF Upto, Whole
<1>2. m.soverflows = m.soverflows + Cardinality(Whole({}))
  <2>1. Cardinality(Whole({})) = 0 /\ m.soverflows \in Nat
    BY <1>1, FS_EmptySet DEF Mem
  <2> QED
    BY <2>1
<1>3. AllNoRoom(m, {}) /\ Waiting(m, m, 0) /\ HeardBy(m, m, {}, p)
  BY DEF AllNoRoom, Waiting, HeardBy
<1>4. Cardinality(FreeIn(m)) + 0 >= Cardinality(FreeIn(m))
  BY FreeCount
<1>5. Upto(0, p, fw) \ ({} \cup {m.fx}) = {} /\ {} \subseteq Upto(0, p, fw)
  BY <1>1
<1>6. HeardBy(m, m, Upto(0, p, fw) \ ({} \cup {m.fx}), p)
  BY <1>3, <1>5
<1>7. m.fx = 0 /\ {} \subseteq Upto(0, p, fw)
  BY <1>5
<1> QED
  BY <1>2, <1>3, <1>4, <1>5, <1>6, <1>7 DEF LoopInv

\* The loop.
LEMMA LoopHears ==
  ASSUME NEW m \in Mem, Short(m), NEW R, Given(m, R), m.fx = 0, NEW p \in Packet, NEW fw \in BOOLEAN
  PROVE  /\ Loop(m, p, fw) \in Mem /\ Short(Loop(m, p, fw)) /\ Given(Loop(m, p, fw), R)
         /\ \E A : LoopInv(Loop(m, p, fw), m, NConn, p, fw, A)
<1>1. PICK g : /\ g[0] = m /\ \A k \in 1..NConn : g[k] = Give(g[k - 1], k, p, fw)
               /\ g[NConn] = Loop(m, p, fw)
  BY FoldGive
<1> DEFINE Good(u) == u \in Mem /\ Short(u) /\ Given(u, R)
           Heard(k) == \E A : LoopInv(g[k], m, k, p, fw, A)
           S == {k \in Nat : k <= NConn => Good(g[k]) /\ Heard(k)}
<1>0. NConn \in Nat
  BY EtherAssumption
<1>2. 0 \in S
  <2>1. Good(g[0])
    BY <1>1
  <2>2. LoopInv(m, m, 0, p, fw, {})
    BY LoopStart
  <2>3. Heard(0)
    BY <1>1, <2>2
  <2> HIDE DEF Good, Heard
  <2> QED
    BY <2>1, <2>3
<1>3. ASSUME NEW k \in Nat, k \in S PROVE k + 1 \in S
  <2> SUFFICES ASSUME k + 1 <= NConn PROVE Good(g[k + 1]) /\ Heard(k + 1)
    OBVIOUS
  <2>1. k + 1 \in Conn /\ k + 1 \in 1..NConn /\ (k + 1) - 1 = k /\ k <= NConn
    BY <1>0 DEF Conn
  <2>2. Good(g[k]) /\ Heard(k)
    BY <1>3, <2>1
  <2>3. g[k + 1] = Give(g[k], k + 1, p, fw)
    BY <1>1, <2>1
  <2>4. PICK u : u = g[k]
    OBVIOUS
  <2>5. PICK v : v = g[k + 1]
    OBVIOUS
  <2>6. PICK A : LoopInv(u, m, k, p, fw, A)
    BY <2>2, <2>4
  <2>7. u \in Mem /\ Short(u) /\ Given(u, R) /\ v = Give(u, k + 1, p, fw)
    BY <2>2, <2>3, <2>4, <2>5
  <2>8. v \in Mem /\ Short(v) /\ Given(v, R)
    BY <2>1, <2>7, GiveMem
  <2>9. \E B : LoopInv(v, m, k + 1, p, fw, B)
    BY <2>1, <2>6, <2>7, GiveHears
  <2> QED
    BY <2>5, <2>8, <2>9
<1> HIDE DEF S
<1>4. NConn \in S
  BY <1>0, <1>2, <1>3, Induction
<1> QED
  BY <1>0, <1>1, <1>4 DEF S

Dropped(p) == multi(p) /\ p.dst # "bcast" /\ ~Prom /\ ~activemulti(p)

\* Of those that a packet is for, the ones in A have missed it.
GivenTo(s, m, p, fw, A) ==
  /\ A \subseteq Hub!Listeners(p, fw) /\ AllNoRoom(m, A)
  /\ HeardBy(s, m, Hub!Listeners(p, fw) \ A, p)
  /\ s.soverflows = m.soverflows + Cardinality(Whole(A))

LEMMA WantedAre ==
  ASSUME NEW p, NEW fw
  PROVE  /\ ~Dropped(p) => Wanted(p, fw) = Hub!Listeners(p, fw)
         /\ Dropped(p) => Hub!Listeners(p, fw) = {}
         /\ Prom <=> Hub!Prom
<1>1. Prom <=> Hub!Prom
  BY DEF Prom, Hub!Prom, Hub!Listening
<1>2. \A c \in Conn : Hub!Meant(c, p) <=> /\ conns[c].type \in {p.type, "any"}
                                          /\ \/ p.dst \in {"me", "bcast", "group"} \/ conns[c].prom
                                             \/ p.dst = "strange" /\ Prom
  BY <1>1 DEF Hub!Meant
<1>3. \A c : c \in Hub!Listeners(p, fw) <=> /\ c \in Conn /\ conns[c] # Closed /\ Hub!Meant(c, p)
                                            /\ ~(conns[c].bridge /\ ~fw /\ p.src # "me")
  BY DEF Hub!Listeners, Hub!Listening
<1>4. ASSUME Dropped(p) PROVE Hub!Listeners(p, fw) = {}
  <2>1. p.dst = "strange" /\ ~Prom
    BY <1>4 DEF Dropped, multi, activemulti
  <2>2. \A c \in Conn : ~(conns[c] # Closed /\ conns[c].prom)
    BY <2>1 DEF Prom
  <2> QED
    BY <1>2, <1>3, <2>1, <2>2
<1>5. ASSUME ~Dropped(p) PROVE \A c : c \in Wanted(p, fw) <=> c \in Hub!Listeners(p, fw)
  <2>1. p.dst = "strange" => Prom
    BY <1>5 DEF Dropped, multi, activemulti
  <2> QED
    BY <1>2, <1>3, <2>1 DEF Wanted, Wants, multi
<1> QED
  BY <1>1, <1>4, <1>5

\* etheriq as a whole.
LEMMA EtheriqHears ==
  ASSUME NEW m \in Mem, Short(m), NEW R, Given(m, R), m.fx = 0, NEW b \in Block, b \in R,
         NEW p \in Packet, NEW fw \in BOOLEAN, NEW s, s = etheriq(m, b, p, fw)
  PROVE  \E A : GivenTo(s, m, p, fw, A)
<1>1. PICK f : f = Loop(m, p, fw)
  OBVIOUS
<1>2. f \in Mem /\ Short(f) /\ Given(f, R) /\ \E A : LoopInv(f, m, NConn, p, fw, A)
  BY <1>1, LoopHears
<1>3. PICK A : LoopInv(f, m, NConn, p, fw, A)
  BY <1>2
<1>4. s = IF Dropped(p) THEN (IF fw THEN freeb(m, b) ELSE m)
          ELSE IF f.fx # 0 THEN qpass(f, f.fx, b, p) ELSE IF fw THEN freeb(f, b) ELSE f
  BY <1>1 DEF etheriq, Dropped
<1>5. Upto(NConn, p, fw) = Wanted(p, fw) /\ 0 \notin Wanted(p, fw) /\ Wanted(p, fw) \in SUBSET Conn
  BY DEF Upto, Wanted, Conn
<1>6. CASE Dropped(p)
  <2>1. s.heard = m.heard /\ s.soverflows = m.soverflows
    BY <1>4, <1>6 DEF freeb, Mem
  <2>2. Hub!Listeners(p, fw) = {}
    BY <1>6, WantedAre
  <2>3. s.soverflows = m.soverflows + Cardinality(Whole({}))
    <3>1. Whole({}) = {} /\ m.soverflows \in Nat
      BY DEF Whole, Mem
    <3>2. Cardinality(Whole({})) = 0
      BY <3>1, FS_EmptySet
    <3> QED
      BY <2>1, <3>1, <3>2
  <2>4. HeardBy(s, m, Hub!Listeners(p, fw) \ {}, p) /\ AllNoRoom(m, {})
    BY <2>1, <2>2 DEF HeardBy, AllNoRoom
  <2>5. GivenTo(s, m, p, fw, {})
    BY <2>2, <2>3, <2>4 DEF GivenTo
  <2> QED
    BY <2>5
<1>7. CASE ~Dropped(p) /\ f.fx = 0
  <2>1. s.heard = f.heard /\ s.soverflows = f.soverflows
    BY <1>2, <1>4, <1>7 DEF freeb, Mem
  <2>2. Hub!Listeners(p, fw) = Wanted(p, fw)
    BY <1>7, WantedAre
  <2>3. Wanted(p, fw) \ (A \cup {f.fx}) = Wanted(p, fw) \ A
    BY <1>5, <1>7
  <2>4. HeardBy(f, m, Wanted(p, fw) \ A, p) /\ A \subseteq Wanted(p, fw) /\ AllNoRoom(m, A)
        /\ f.soverflows = m.soverflows + Cardinality(Whole(A))
    BY <1>3, <1>5, <2>3 DEF LoopInv
  <2>5. HeardBy(s, m, Wanted(p, fw) \ A, p)
    BY <2>1, <2>4 DEF HeardBy
  <2>6. GivenTo(s, m, p, fw, A)
    BY <2>1, <2>2, <2>4, <2>5 DEF GivenTo
  <2> QED
    BY <2>6
<1>8. CASE ~Dropped(p) /\ f.fx # 0
  <2>1. PICK c : c = f.fx
    OBVIOUS
  <2>2. /\ c \in Wanted(p, fw) \ A /\ c \in Whole(Conn) /\ A \subseteq Wanted(p, fw) /\ AllNoRoom(m, A)
        /\ HeardBy(f, m, Wanted(p, fw) \ (A \cup {c}), p)
        /\ f.soverflows = m.soverflows + Cardinality(Whole(A)) /\ Waiting(f, m, NConn)
    BY <1>3, <1>5, <1>8, <2>1 DEF LoopInv
  <2>3. c \in Conn /\ c \in Conn \ A /\ A \in SUBSET Conn /\ s = qpass(f, c, b, p)
    BY <1>4, <1>5, <1>8, <2>1, <2>2
  <2>4. /\ Full(f, c) => s.heard = f.heard /\ s.soverflows = f.soverflows + 1
        /\ ~Full(f, c) => s.soverflows = f.soverflows /\ OneHears(s, f, c, p)
    <3>1. f \in Mem /\ Short(f) /\ Given(f, R) /\ c \in Conn
      BY <1>2, <2>3
    <3>0. b \in R \/ f.blk[b] = Free
      OBVIOUS
    <3>2. LET q == qpass(f, c, b, p) IN
          /\ q \in Mem /\ Short(q) /\ Given(q, R \ {b}) /\ q.fx = f.fx
          /\ BlkKept(q, f, b)
          /\ Full(f, c) => q.heard = f.heard /\ q.inq = f.inq /\ q.soverflows = f.soverflows + 1
          /\ InqKept(q, f, c)
          /\ ~Full(f, c) =>
               /\ q.soverflows = f.soverflows
               /\ OneHears(q, f, c, p)
      BY <3>0, <3>1, PassMem
    <3> QED
      BY <2>3, <3>2
  <2>5. Hub!Listeners(p, fw) = Wanted(p, fw)
    BY <1>8, WantedAre
  <2>6. m.soverflows \in Nat
    BY DEF Mem
  <2>7. CASE Full(f, c)
    <3>1. f.inq[c] = m.inq[c]
      BY <2>1, <2>2, <2>3 DEF Waiting
    <3>2. AllNoRoom(m, A \cup {c})
      BY <2>2, <2>7, <3>1 DEF AllNoRoom, NoRoom, Full
    <3>3. HeardBy(s, m, Wanted(p, fw) \ (A \cup {c}), p)
      BY <2>2, <2>4, <2>7 DEF HeardBy
    <3>4. s.soverflows = m.soverflows + Cardinality(Whole(A \cup {c}))
      BY <2>2, <2>3, <2>4, <2>6, <2>7, WholeCount
    <3>5. GivenTo(s, m, p, fw, A \cup {c})
      BY <2>2, <2>5, <3>2, <3>3, <3>4 DEF GivenTo
    <3> QED
      BY <3>5
  <2>8. CASE ~Full(f, c)
    <3>1. Wanted(p, fw) \ A = (Wanted(p, fw) \ (A \cup {c})) \cup {c} /\ c \notin Wanted(p, fw) \ (A \cup {c})
      BY <2>2
    <3>2. PICK H : H = Wanted(p, fw) \ (A \cup {c})
      OBVIOUS
    <3>3. HeardBy(f, m, H, p) /\ c \notin H /\ OneHears(s, f, c, p)
      BY <2>2, <2>4, <2>8, <3>1, <3>2
    <3>4. HeardBy(s, m, H \cup {c}, p)
      BY <3>3 DEF HeardBy, OneHears
    <3>5. HeardBy(s, m, Wanted(p, fw) \ A, p)
      BY <3>1, <3>2, <3>4
    <3>6. GivenTo(s, m, p, fw, A)
      BY <2>2, <2>4, <2>5, <2>8, <3>5 DEF GivenTo
    <3> QED
      BY <3>6
  <2> QED
    BY <2>7, <2>8
<1> QED
  BY <1>6, <1>7, <1>8

FreeNow == {b \in Block : blk[b] = Free}

LEMMA HearStep ==
  ASSUME NEW m \in Mem, NEW s \in Mem, NEW p \in Packet, NEW fw \in BOOLEAN, NEW A, GivenTo(s, m, p, fw, A),
         m.heard = heard, m.inq = inq, m.soverflows = soverflows,
         heard' = s.heard, soverflows' = s.soverflows, inpackets' = inpackets + 1,
         Cardinality(FreeNow) <= Cardinality(FreeIn(m)) + 1
  PROVE  Hub!Hear(p, fw)
<1>1. /\ A \subseteq Hub!Listeners(p, fw) /\ AllNoRoom(m, A)
      /\ HeardBy(s, m, Hub!Listeners(p, fw) \ A, p)
      /\ s.soverflows = m.soverflows + Cardinality(Whole(A))
  BY DEF GivenTo
<1>2. Hub!Listeners(p, fw) \subseteq Conn
  BY DEF Hub!Listeners, Hub!Listening
<1>3. ASSUME NEW c \in A
      PROVE  c \notin {d \in Conn : Len(inq[d]) < InLimit /\ Cardinality(FreeNow) > NConn}
  <2>1. c \in Conn /\ NoRoom(m, c)
    BY <1>1, <1>2 DEF AllNoRoom
  <2>2. Cardinality(FreeIn(m)) \in Nat /\ NConn \in Nat /\ InLimit \in Nat
    BY FreeCount, EtherAssumption
  <2>3. IsFiniteSet(FreeNow) /\ Cardinality(FreeNow) \in Nat
    <3>1. IsFiniteSet(Block) /\ FreeNow \in SUBSET Block
      BY EtherAssumption, FS_Interval DEF Block, FreeNow
    <3> QED
      BY <3>1, FS_Subset, FS_CardinalityType
  <2>4. inq[c] \in Seq(Block)
    BY <2>1 DEF Mem
  <2>5. Len(inq[c]) \in Nat
    BY <2>4
  <2>6. CASE Full(m, c)
    BY <2>2, <2>5, <2>6 DEF Full
  <2>7. CASE Cardinality(FreeIn(m)) < NConn
    BY <2>2, <2>3, <2>7
  <2> QED
    BY <2>1, <2>6, <2>7 DEF NoRoom
<1> DEFINE room == {d \in Conn : Len(inq[d]) < InLimit /\ Cardinality(FreeNow) > NConn}
<1>4. A \in SUBSET (Hub!Listeners(p, fw) \ room)
  BY <1>1, <1>3
<1>5. heard' = [c \in Conn |-> IF c \in Hub!Listeners(p, fw) \ A THEN Append(heard[c], p) ELSE heard[c]]
  <2>1. s.heard \in [Conn -> Seq(Packet)]
    BY DEF Mem
  <2>2. \A c \in Conn : s.heard[c] = IF c \in Hub!Listeners(p, fw) \ A THEN Append(heard[c], p) ELSE heard[c]
    BY <1>1 DEF HeardBy
  <2> QED
    BY <2>1, <2>2
<1>6. soverflows' = soverflows + Cardinality({c \in A : ~conns[c].headersonly})
  BY <1>1 DEF Whole
<1>7. room = {d \in Conn : Len(inq[d]) < InLimit /\ Cardinality({b \in Block : blk[b] = Free}) > NConn}
  BY DEF FreeNow
<1> HIDE DEF room
<1>8. PICK L : L = Hub!Listeners(p, fw)
  OBVIOUS
<1>9. \E deaf \in SUBSET (L \ room) :
        /\ heard' = [c \in Conn |-> IF c \in L \ deaf THEN Append(heard[c], p) ELSE heard[c]]
        /\ soverflows' = soverflows + Cardinality({c \in deaf : ~conns[c].headersonly})
  <2>1. A \in SUBSET (L \ room)
    BY <1>4, <1>8
  <2>2. heard' = [c \in Conn |-> IF c \in L \ A THEN Append(heard[c], p) ELSE heard[c]]
    BY <1>5, <1>8
  <2> QED
    BY <1>6, <2>1, <2>2
<1>10. inpackets' = inpackets + 1
  OBVIOUS
<1>11. \A S : Hub!Cardinality(S) = Cardinality(S)
  BY DEF Hub!Cardinality, Cardinality, Hub!IsFiniteSet, IsFiniteSet
<1> QED
  BY <1>7, <1>8, <1>9, <1>10, <1>11 DEF Hub!Hear

LEMMA Quiet ==
  ASSUME UNCHANGED <<conns, heard, soverflows, inpackets, outpackets>>
  PROVE  Hub!Next
BY DEF Hub!Next, Hub!RoomChanges

\* Freeing a block gives nobody anything to hear.
LEMMA FreeQuiet ==
  ASSUME NEW b, Become(freeb(Counted, b))
  PROVE  UNCHANGED <<heard, soverflows>>
BY DEF Become, freeb, Counted

LEMMA FeedHub ==
  ASSUME Types, OwnInv, NEW w \in Proc, EtherFeed(w)
  PROVE  Hub!Next
<1> DEFINE b == wblk[w]
           p == blk[b]
<1>1. /\ wpc[w] = "feed" /\ outpackets' = outpackets + 1
      /\ IF p.dst \in {"me", "bcast"} \/ Prom
         THEN Become(etheriq(Counted, b, p, FALSE)) /\ inpackets' = inpackets + 1
         ELSE UNCHANGED <<memory, inpackets>>
      /\ UNCHANGED conns
  BY DEF EtherFeed, setup
<1>2. b \in Block /\ b \in Elsewhere /\ p \in Packet
  <2>1. wblk[w] # NoBlock
    BY <1>1 DEF OwnInv, Apart
  <2> QED
    BY <2>1, BlocksAre
<1> HIDE DEF b, p
<1>3. Hub!Send(p)
  <2>1. Prom <=> Hub!Prom
    BY WantedAre
  <2>2. CASE ~(p.dst \in {"me", "bcast"} \/ Prom)
    BY <1>1, <2>1, <2>2 DEF Hub!Send, Hub!Returns, memory
  <2>3. CASE p.dst \in {"me", "bcast"} \/ Prom
    <3>1. PICK m : m = Counted
      OBVIOUS
    <3>2. /\ m \in Mem /\ Short(m) /\ Given(m, Elsewhere) /\ m.fx = 0
          /\ m.blk = blk /\ m.inq = inq /\ m.heard = heard /\ m.soverflows = soverflows
      BY <3>1, CountedMem DEF OwnInv
    <3>3. PICK s : s = etheriq(m, b, p, FALSE)
      OBVIOUS
    <3>4. s \in Mem
      BY <1>2, <3>2, <3>3, EtheriqMem
    <3>5. PICK A : GivenTo(s, m, p, FALSE, A)
      BY <1>2, <3>2, <3>3, EtheriqHears
    <3>6. heard' = s.heard /\ soverflows' = s.soverflows /\ inpackets' = inpackets + 1
      BY <1>1, <2>3, <3>1, <3>3 DEF Become
    <3>7. Cardinality(FreeNow) <= Cardinality(FreeIn(m)) + 1
      <4>1. FreeNow = FreeIn(m)
        BY <3>2 DEF FreeNow, FreeIn
      <4> QED
        BY <4>1, FreeCount
    <3>8. Hub!Hear(p, FALSE)
      BY <1>2, <3>2, <3>4, <3>5, <3>6, <3>7, HearStep
    <3> QED
      BY <1>1, <2>1, <2>3, <3>8 DEF Hub!Send, Hub!Returns
  <2> QED
    BY <2>2, <2>3
<1> QED
  BY <1>2, <1>3 DEF Hub!Next

LEMMA ReceiveHub ==
  ASSUME Types, OwnInv, IntrRx
  PROVE  Hub!Next
<1> DEFINE b == iallocb(Counted)
           p == Head(rx).p
           Handed == /\ Become(etheriq([Counted EXCEPT !.blk[b] = p], b, p, TRUE)) /\ inpackets' = inpackets + 1
                     /\ UNCHANGED <<setup, output, outpackets, procs, made>>
<1>1. /\ rx # <<>>
      /\ UNCHANGED mux \/ (b # NoBlock /\ Handed)
  BY DEF IntrRx
<1>2. p \in Packet
  <2>1. PICK F : F = [ok : BOOLEAN, p : Packet]
    OBVIOUS
  <2>2. rx \in Seq(F) /\ rx # <<>>
    BY <1>1, <2>1 DEF Types
  <2>3. PICK h : h = Head(rx)
    OBVIOUS
  <2>4. h \in F
    <3> HIDE DEF b, p, Handed
    <3> QED
      BY <2>2, <2>3
  <2> QED
    BY <2>1, <2>3, <2>4
<1>3. CASE UNCHANGED mux
  <2>1. UNCHANGED <<conns, heard, soverflows, inpackets, outpackets>>
    BY <1>3 DEF mux, setup, memory, counts
  <2> QED
    BY <2>1, Quiet
<1>4. CASE b # NoBlock /\ Handed
  <2>1. PICK c : c = Counted
    OBVIOUS
  <2>2. /\ c \in Mem /\ Short(c) /\ Given(c, Elsewhere) /\ c.fx = 0
        /\ c.blk = blk /\ c.inq = inq /\ c.heard = heard /\ c.soverflows = soverflows
    BY <2>1, CountedMem DEF OwnInv
  <2>3. b \in Block /\ c.blk[b] = Free
    BY <1>4, <2>1, <2>2, AllocIs DEF b
  <2>4. PICK m : m = [c EXCEPT !.blk[b] = p]
    OBVIOUS
  <2> HIDE DEF b, p
  <2>5. PICK R : R = Elsewhere
    OBVIOUS
  <2>6. /\ m \in Mem /\ Short(m) /\ Given(m, R \cup {b}) /\ m.fx = c.fx /\ m.inq = c.inq
        /\ BlkKept(m, c, b) /\ BlkSet(m, c, b, p)
    <3>1. Taken(m, c, b, p)
      BY <2>4 DEF Taken
    <3>2. Given(c, R) /\ c \in Mem /\ Short(c)
      BY <2>2, <2>5
    <3> QED
      BY <1>2, <2>3, <3>1, <3>2, TakeMem
  <2>7. m.heard = c.heard /\ m.soverflows = c.soverflows
    BY <2>2, <2>4 DEF Mem
  <2>8. PICK s : s = etheriq(m, b, p, TRUE)
    OBVIOUS
  <2>9. b \in R \cup {b} /\ m.fx = 0
    BY <2>2, <2>6
  <2>10. PICK Q : Q = R \cup {b}
    OBVIOUS
  <2>11. Given(m, Q) /\ b \in Q
    BY <2>6, <2>9, <2>10
  <2>12. s \in Mem
    BY <1>2, <2>3, <2>6, <2>8, <2>9, <2>11, EtheriqMem
  <2>13. PICK A : GivenTo(s, m, p, TRUE, A)
    BY <1>2, <2>3, <2>6, <2>8, <2>9, <2>11, EtheriqHears
  <2>14. /\ heard' = s.heard /\ soverflows' = s.soverflows /\ inpackets' = inpackets + 1
         /\ UNCHANGED <<conns, outpackets>>
    BY <1>4, <2>1, <2>4, <2>8 DEF Become, setup, b, p
  <2>15. Cardinality(FreeNow) <= Cardinality(FreeIn(m)) + 1
    <3>1. m.blk[b] # Free
      BY <1>2, <2>3, <2>6, PacketsAre DEF BlkSet, Mem
    <3>2. FreeIn(m) = FreeNow \ {b}
      BY <2>2, <2>6, <3>1 DEF FreeIn, FreeNow, BlkKept
    <3>3. IsFiniteSet(FreeIn(m)) /\ Cardinality(FreeIn(m)) \in Nat
      BY FreeCount
    <3>4. FreeNow = FreeIn(m) \cup {b}
      BY <2>2, <2>3, <3>2 DEF FreeNow
    <3> QED
      BY <3>3, <3>4, FS_AddElement
  <2>16. Hub!Hear(p, TRUE)
    BY <1>2, <2>2, <2>6, <2>7, <2>12, <2>13, <2>14, <2>15, HearStep
  <2> QED
    BY <1>2, <2>14, <2>16 DEF Hub!Next, Hub!Receive
<1> QED
  BY <1>1, <1>3, <1>4

Still == UNCHANGED <<conns, heard, soverflows, inpackets, outpackets>>

\* What processes do besides EtherFeed.
LEMMA ProcessHub ==
  ASSUME Types, OwnInv, MuxNext
  PROVE  Hub!Next
<1>1. ASSUME NEW w \in Proc, EtherFeed(w)
      PROVE  Hub!Next
  BY <1>1, FeedHub
<1>2. ASSUME NEW w \in Proc, EtherReject(w) \/ EtherFree(w) \/ EtherFlow(w) \/ EtherInterrupted(w)
      PROVE  Hub!Next
  <2>1. UNCHANGED <<heard, soverflows>>
    BY <1>2, FreeQuiet DEF EtherReject, EtherFree, EtherFlow, EtherInterrupted, memory
  <2>2. UNCHANGED <<conns, inpackets, outpackets>>
    BY <1>2 DEF EtherReject, EtherFree, EtherFlow, EtherInterrupted, setup, counts
  <2> QED
    BY <2>1, <2>2, Quiet
<1>3. ASSUME NEW w \in Proc, EtherQueue(w)
      PROVE  Hub!Next
  <2>1. UNCHANGED <<heard, soverflows>>
    BY <1>3, FreeQuiet DEF EtherQueue, memory
  <2>2. UNCHANGED <<conns, inpackets, outpackets>>
    BY <1>3 DEF EtherQueue, setup, counts
  <2> QED
    BY <2>1, <2>2, Quiet
<1>4. ASSUME NEW w \in Proc, NEW f \in Frame, EtherWrite(w, f)
      PROVE  Hub!Next
  <2>1. UNCHANGED <<conns, heard, soverflows, inpackets, outpackets>>
    BY <1>4 DEF EtherWrite, setup, counts
  <2> QED
    BY <2>1, Quiet
<1>5. ASSUME NEW c \in Conn, EtherRead(c)
      PROVE  Hub!Next
  <2>1. UNCHANGED <<conns, heard, soverflows, inpackets, outpackets>>
    BY <1>5 DEF EtherRead, setup, counts
  <2> QED
    BY <2>1, Quiet
<1>6. ASSUME NEW c \in Conn, EtherClose(c)
      PROVE  Hub!Next
  <2>1. Hub!Reconfigure(c, Closed)
    BY <1>6 DEF EtherClose, Hub!Reconfigure, counts
  <2> QED
    BY <2>1 DEF Hub!Next
<1>7. ASSUME NEW c \in Conn, NEW cfg \in Config, EtherOpen(c, cfg)
      PROVE  Hub!Next
  <2>1. Hub!Reconfigure(c, cfg)
    BY <1>7 DEF EtherOpen, Hub!Reconfigure, counts
  <2> QED
    BY <2>1 DEF Hub!Next
<1>8. ASSUME NEW on \in BOOLEAN, Nonblocking(on)
      PROVE  Hub!Next
  <2>1. UNCHANGED <<conns, heard, soverflows, inpackets, outpackets>>
    BY <1>8 DEF Nonblocking, memory, counts
  <2> QED
    BY <2>1, Quiet
<1> QED
  BY <1>1, <1>2, <1>3, <1>4, <1>5, <1>6, <1>7, <1>8 DEF MuxNext, etheroq

LEMMA StartQuiet ==
  ASSUME rtl8139txstart
  PROVE  UNCHANGED <<conns, heard, soverflows, inpackets, outpackets>>
BY DEF rtl8139txstart, setup, counts

LEMMA DriverHub ==
  ASSUME Types, OwnInv, rtl8139interrupt \/ \E w \in Proc : rtl8139transmit(w)
  PROVE  Hub!Next
<1>1. CASE IntrRx
  BY <1>1, ReceiveHub
<1>2. CASE IntrReap
  <2>1. UNCHANGED <<heard, soverflows>>
    BY <1>2, FreeQuiet DEF IntrReap, memory
  <2>2. UNCHANGED <<conns, inpackets, outpackets>>
    BY <1>2 DEF IntrReap, setup, counts
  <2> QED
    BY <2>1, <2>2, Quiet
<1>3. CASE IntrRefill \/ \E w \in Proc : rtl8139transmit(w)
  BY <1>3, StartQuiet, Quiet DEF IntrRefill, rtl8139transmit
<1>4. CASE IntrRead \/ IntrAck \/ IntrRxEnd \/ IntrEnd
  <2>1. UNCHANGED mux
    BY <1>4 DEF IntrRead, IntrAck, IntrRxEnd, IntrEnd
  <2> QED
    BY <2>1, Quiet DEF mux, setup, memory, counts
<1>5. CASE IntrReset
  BY <1>5, Quiet DEF IntrReset, setup, counts
<1> QED
  BY <1>1, <1>2, <1>3, <1>4, <1>5 DEF rtl8139interrupt

\* Every step gives one packet to those who can hear it, opens or closes a
\* connection, or leaves what connections have heard as it was.
LEMMA HubStep == IInv /\ [Next]_vars => Hub!Next
<1> SUFFICES ASSUME IInv, [Next]_vars PROVE Hub!Next
  OBVIOUS
<1>1. CASE \E w \in Proc : Process(rtl8139transmit(w))
  BY <1>1, DriverHub DEF Process, IInv
<1>2. CASE Process(MuxNext /\ UNCHANGED driver)
  BY <1>2, ProcessHub DEF Process, IInv
<1>3. CASE rtl8139interrupt
  BY <1>3, DriverHub DEF IInv
<1>4. CASE BusError \/ \E ok \in BOOLEAN : ChipSends(ok)
  <2>1. UNCHANGED mux
    BY <1>4 DEF BusError, ChipSends
  <2> QED
    BY <2>1, Quiet DEF mux, setup, memory, counts
<1>5. CASE \E ok \in BOOLEAN : \E f \in load.arrives : ChipReceives(f, ok)
  BY <1>5, Quiet DEF ChipReceives, setup, memory, counts
<1>6. CASE UNCHANGED vars
  BY <1>6, Quiet DEF vars, mux, setup, memory, counts
<1> QED
  BY <1>1, <1>2, <1>3, <1>4, <1>5, <1>6 DEF Next

LEMMA HubInit == Init => Hub!Init
<1> SUFFICES ASSUME Init PROVE Hub!Init
  OBVIOUS
<1>1. conns \in [Conn -> Config \cup {Closed}]
  BY LoadAssumption DEF Init, MuxInit
<1>2. {c \in Conn : Len(inq[c]) < InLimit /\ Cardinality({b \in Block : blk[b] = Free}) > NConn} \in SUBSET Conn
  OBVIOUS
<1> QED
  BY <1>1, <1>2 DEF Init, MuxInit, Hub!Init

\* The multiplexer and its driver implement PacketHub: a packet is heard once, in
\* order, by everyone it is for who has room, and one who has none is counted.
THEOREM HubRefinement == Spec => EveryoneHears
BY HubInit, HubStep, Invariance, PTL DEF Spec, EveryoneHears, Hub!Spec
===============================================================================
