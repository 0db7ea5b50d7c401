-------------------------- MODULE PageAlloc_proofs --------------------------
(* Proofs about PageAlloc, for any number of processes and pages.          *)
EXTENDS PageAlloc, SequenceTheorems, FiniteSetTheorems, TLAPS

(* Removing position i of the sequence f.                                  *)
LEMMA Unchain ==
  ASSUME NEW S, NEW f \in Seq(S), NEW i \in 1 .. Len(f),
         NEW h, h = RemoveAt(f, i), NEW e, e = f[i], IsInjective(f)
  PROVE  /\ h \in Seq(S)
         /\ IsInjective(h)
         /\ \A p : p \in Range(h) <=> p # e /\ p \in Range(f)
<1> DEFINE a == SubSeq(f, 1, i - 1)
           b == SubSeq(f, i + 1, Len(f))
           g == a \o b
<1>0. h = g /\ \A j, k \in DOMAIN f : f[j] = f[k] => j = k
  BY DEF IsInjective, RemoveAt
<1>1. DOMAIN f = 1 .. Len(f) /\ Len(f) \in Nat /\ \A j \in 1 .. Len(f) : f[j] \in S
  BY LenProperties
<1>2. /\ a \in Seq(S) /\ Len(a) = i - 1
      /\ \A j \in 1 .. i - 1 : a[j] = f[j]
  BY <1>1, SubSeqProperties
<1>3. /\ b \in Seq(S) /\ Len(b) = Len(f) - i
      /\ \A j \in 1 .. Len(f) - i : b[j] = f[j + i]
  <2>1. \A j \in i + 1 .. Len(f) : f[j] \in S
    BY <1>1
  <2>2. /\ b \in Seq(S)
        /\ Len(b) = IF i + 1 <= Len(f) THEN Len(f) - (i + 1) + 1 ELSE 0
        /\ \A j \in 1 .. Len(f) - (i + 1) + 1 : b[j] = f[i + 1 + j - 1]
    BY <1>1, <2>1, SubSeqProperties
  <2> HIDE DEF b
  <2>3. \A j \in 1 .. Len(f) - i : i + 1 + j - 1 = j + i /\ j \in 1 .. Len(f) - (i + 1) + 1
    BY <1>1
  <2>4. Len(b) = Len(f) - i
    <3> DEFINE n == Len(f)
    <3>1. n \in Nat /\ i \in 1 .. n
      BY <1>1
    <3>2. Len(b) = IF i + 1 <= n THEN n - (i + 1) + 1 ELSE 0
      BY <2>2
    <3> HIDE DEF n
    <3>3. Len(b) = n - i
      BY <3>1, <3>2
    <3> QED BY <3>3 DEF n
  <2>5. \A j \in 1 .. Len(f) - i : b[j] = f[j + i]
    BY <2>2, <2>3
  <2> QED BY <2>2, <2>4, <2>5
<1> HIDE DEF a, b, g
<1>4. /\ g \in Seq(S) /\ Len(g) = Len(f) - 1
      /\ \A j \in 1 .. Len(f) - 1 :
           g[j] = IF j <= i - 1 THEN a[j] ELSE b[j - (i - 1)]
  <2>2. (i - 1) + (Len(f) - i) = Len(f) - 1
    BY <1>1
  <2>3. /\ g \in Seq(S) /\ Len(g) = Len(a) + Len(b)
        /\ \A j \in 1 .. Len(a) + Len(b) :
             g[j] = IF j <= Len(a) THEN a[j] ELSE b[j - Len(a)]
    BY <1>2, <1>3, ConcatProperties DEF g
  <2>4. Len(a) = i - 1 /\ Len(a) + Len(b) = Len(f) - 1
    BY <2>2, <1>2, <1>3
  <2> QED BY <2>3, <2>4
<1>5. DOMAIN g = 1 .. Len(f) - 1
  BY <1>4, LenProperties
<1>6. \A j \in 1 .. Len(f) - 1 : g[j] = IF j < i THEN f[j] ELSE f[j + 1]
  <2> TAKE j \in 1 .. Len(f) - 1
  <2>1. CASE j < i
    <3>1. j \in 1 .. i - 1 /\ j <= i - 1
      BY <2>1, <1>1
    <3> QED BY <2>1, <3>1, <1>2, <1>4
  <2>2. CASE ~ (j < i)
    <3>1. j - (i - 1) \in 1 .. Len(f) - i /\ (j - (i - 1)) + i = j + 1 /\ ~ (j <= i - 1)
      BY <2>2, <1>1
    <3>2. g[j] = b[j - (i - 1)]
      BY <3>1, <1>4
    <3>3. b[j - (i - 1)] = f[j + 1]
      BY <3>1, <1>3
    <3> QED BY <2>2, <3>2, <3>3
  <2> QED BY <2>1, <2>2
<1> DEFINE n == Len(f)
<1>7. /\ n \in Nat /\ i \in 1 .. n /\ DOMAIN g = 1 .. n - 1 /\ DOMAIN f = 1 .. n
      /\ \A j, k \in 1 .. n : f[j] = f[k] => j = k
      /\ \A j \in 1 .. n - 1 : g[j] = IF j < i THEN f[j] ELSE f[j + 1]
  BY <1>0, <1>1, <1>5, <1>6
<1> HIDE DEF n
<1>8. ASSUME NEW j \in 1 .. n - 1, NEW k \in 1 .. n - 1, g[j] = g[k]
      PROVE  j = k
  <2> DEFINE up(m) == IF m < i THEN m ELSE m + 1
  <2>1. up(j) \in 1 .. n /\ up(k) \in 1 .. n
    BY <1>7
  <2>2. g[j] = f[up(j)] /\ g[k] = f[up(k)]
    BY <1>7
  <2>3. up(j) = up(k)
    BY <1>7, <1>8, <2>1, <2>2
  <2> QED BY <2>3, <1>7
<1>9. ASSUME NEW j \in 1 .. n - 1
      PROVE  g[j] # f[i] /\ \E k \in 1 .. n : f[k] = g[j]
  <2>1. CASE j < i
    BY <2>1, <1>7
  <2>2. CASE ~ (j < i)
    <3>1. j + 1 \in 1 .. n /\ j + 1 # i /\ g[j] = f[j + 1]
      BY <2>2, <1>7
    <3> QED BY <3>1, <1>7
  <2> QED BY <2>1, <2>2
<1>10. ASSUME NEW j \in 1 .. n, f[j] # f[i]
       PROVE  \E k \in 1 .. n - 1 : g[k] = f[j]
  <2>1. CASE j < i
    BY <2>1, <1>7
  <2>2. CASE j > i
    <3>1. j - 1 \in 1 .. n - 1 /\ ~ (j - 1 < i) /\ (j - 1) + 1 = j
      BY <2>2, <1>7
    <3>2. g[j - 1] = f[j]
      BY <3>1, <1>7
    <3> QED BY <3>1, <3>2
  <2>3. j # i
    BY <1>10
  <2> QED BY <2>1, <2>2, <2>3, <1>7
<1>11. /\ \A j, k \in DOMAIN g : g[j] = g[k] => j = k
       /\ \A p : (\E j \in DOMAIN g : g[j] = p)
                   <=> p # f[i] /\ \E j \in DOMAIN f : f[j] = p
  <2>1. \A j, k \in 1 .. n - 1 : g[j] = g[k] => j = k
    BY <1>8
  <2>2. ASSUME NEW p, NEW j \in 1 .. n - 1, g[j] = p
        PROVE  p # f[i] /\ \E k \in 1 .. n : f[k] = p
    BY <2>2, <1>9, Zenon
  <2>3. ASSUME NEW p, p # f[i], NEW j \in 1 .. n, f[j] = p
        PROVE  \E k \in 1 .. n - 1 : g[k] = p
    BY <2>3, <1>10, Zenon
  <2> QED BY <1>7, <2>1, <2>2, <2>3, Zenon
<1>12. IsInjective(g)
  BY <1>11 DEF IsInjective
<1>13. /\ \A p : p \in Range(g) <=> \E j \in DOMAIN g : g[j] = p
       /\ \A p : p \in Range(f) <=> \E j \in DOMAIN f : f[j] = p
  BY DEF Range
<1> QED BY <1>0, <1>4, <1>11, <1>12, <1>13

(* Adding the entry q at the head.                                         *)
LEMMA ChainHead ==
  ASSUME NEW S, NEW f \in Seq(S), NEW q \in S, NEW h, h = <<q>> \o f,
         IsInjective(f),
         q \notin Range(f)
  PROVE  /\ h \in Seq(S)
         /\ IsInjective(h)
         /\ \A p : p \in Range(h) <=> p = q \/ p \in Range(f)
<1> DEFINE g == <<q>> \o f
<1>0. /\ h = g /\ \A j, k \in DOMAIN f : f[j] = f[k] => j = k
      /\ ~ \E j \in DOMAIN f : f[j] = q
  BY DEF IsInjective, Range
<1>1. DOMAIN f = 1 .. Len(f) /\ Len(f) \in Nat
  BY LenProperties
<1>2. <<q>> \in Seq(S) /\ Len(<<q>>) = 1 /\ <<q>>[1] = q
  OBVIOUS
<1>3. /\ g \in Seq(S) /\ Len(g) = 1 + Len(f)
      /\ \A j \in 1 .. 1 + Len(f) : g[j] = IF j <= 1 THEN <<q>>[j] ELSE f[j - 1]
  BY <1>2, ConcatProperties
<1> HIDE DEF g
<1>4. DOMAIN g = 1 .. Len(f) + 1
  BY <1>1, <1>3, LenProperties
<1>5. g[1] = q
  BY <1>1, <1>2, <1>3
<1>6. \A j \in 1 .. Len(f) : g[j + 1] = f[j]
  <2> TAKE j \in 1 .. Len(f)
  <2>1. j + 1 \in 1 .. 1 + Len(f) /\ ~ (j + 1 <= 1) /\ (j + 1) - 1 = j
    BY <1>1
  <2> QED BY <2>1, <1>3
<1> DEFINE n == Len(f)
<1>7. /\ n \in Nat /\ DOMAIN f = 1 .. n /\ DOMAIN g = 1 .. n + 1
      /\ g[1] = q /\ \A j \in 1 .. n : g[j + 1] = f[j]
      /\ \A j, k \in 1 .. n : f[j] = f[k] => j = k
      /\ \A j \in 1 .. n : f[j] # q
  BY <1>0, <1>1, <1>4, <1>5, <1>6
<1> HIDE DEF n
<1>8. \A j \in 1 .. n + 1 : j # 1 => j - 1 \in 1 .. n /\ g[j] = f[j - 1]
  <2> TAKE j \in 1 .. n + 1
  <2> HAVE j # 1
  <2>1. j - 1 \in 1 .. n /\ (j - 1) + 1 = j
    BY <1>7
  <2> QED BY <2>1, <1>7
<1>9. ASSUME NEW j \in 1 .. n + 1, NEW k \in 1 .. n + 1, g[j] = g[k]
      PROVE  j = k
  <2>1. CASE j # 1 /\ k # 1
    <3>1. j - 1 \in 1 .. n /\ k - 1 \in 1 .. n /\ f[j - 1] = f[k - 1]
      BY <2>1, <1>8, <1>9
    <3>2. j - 1 = k - 1
      BY <3>1, <1>7, Zenon
    <3> QED BY <3>2, <1>7
  <2>2. CASE j = 1 \/ k = 1
    BY <2>2, <1>7, <1>8, <1>9
  <2> QED BY <2>1, <2>2
<1>10. 1 \in 1 .. n + 1 /\ \A j \in 1 .. n : j + 1 \in 1 .. n + 1
  BY <1>7
<1>11. /\ \A j, k \in DOMAIN g : g[j] = g[k] => j = k
       /\ \A p : (\E j \in DOMAIN g : g[j] = p)
                   <=> p = q \/ \E j \in DOMAIN f : f[j] = p
  <2>1. \A j, k \in 1 .. n + 1 : g[j] = g[k] => j = k
    BY <1>9
  <2>2. ASSUME NEW p, NEW j \in 1 .. n + 1, g[j] = p
        PROVE  p = q \/ \E k \in 1 .. n : f[k] = p
    BY <2>2, <1>7, <1>8, Zenon
  <2>3. ASSUME NEW p, p = q \/ \E j \in 1 .. n : f[j] = p
        PROVE  \E j \in 1 .. n + 1 : g[j] = p
    BY <2>3, <1>7, <1>10, Zenon
  <2> QED BY <1>7, <2>1, <2>2, <2>3, Zenon
<1>12. IsInjective(g)
  BY <1>11 DEF IsInjective
<1>13. /\ \A p : p \in Range(g) <=> \E j \in DOMAIN g : g[j] = p
       /\ \A p : p \in Range(f) <=> \E j \in DOMAIN f : f[j] = p
  BY DEF Range
<1> QED BY <1>0, <1>3, <1>11, <1>12, <1>13

(* Adding the entry q at the tail.                                         *)
LEMMA ChainTail ==
  ASSUME NEW S, NEW f \in Seq(S), NEW q \in S, NEW h, h = Append(f, q),
         IsInjective(f),
         q \notin Range(f)
  PROVE  /\ h \in Seq(S)
         /\ IsInjective(h)
         /\ \A p : p \in Range(h) <=> p = q \/ p \in Range(f)
<1> DEFINE g == Append(f, q)
<1>0. /\ h = g /\ \A j, k \in DOMAIN f : f[j] = f[k] => j = k
      /\ ~ \E j \in DOMAIN f : f[j] = q
  BY DEF IsInjective, Range
<1>1. DOMAIN f = 1 .. Len(f) /\ Len(f) \in Nat
  BY LenProperties
<1>2. /\ g \in Seq(S) /\ Len(g) = Len(f) + 1
      /\ \A j \in 1 .. Len(f) : g[j] = f[j]
      /\ g[Len(f) + 1] = q
  BY AppendProperties
<1> HIDE DEF g
<1>3. DOMAIN g = 1 .. Len(f) + 1
  BY <1>1, <1>2, LenProperties
<1>4. /\ Len(f) + 1 \in DOMAIN g
      /\ \A j \in DOMAIN g : j # Len(f) + 1 => j \in DOMAIN f
      /\ \A j \in DOMAIN f : j \in DOMAIN g /\ j # Len(f) + 1
  BY <1>1, <1>3
<1>5. /\ \A j, k \in DOMAIN g : g[j] = g[k] => j = k
      /\ \A p : (\E j \in DOMAIN g : g[j] = p)
                  <=> p = q \/ \E j \in DOMAIN f : f[j] = p
  BY <1>0, <1>1, <1>2, <1>4
<1> QED BY <1>0, <1>2, <1>5 DEF IsInjective, Range

(* One more and one less holder of a page.                                 *)
LEMMA HoldAdd ==
  ASSUME NEW h \in [Holders -> Pages \cup {NoPage}], NEW x \in Holders,
         h[x] = NoPage, NEW p \in Pages
  PROVE  \A q \in Pages :
           Cardinality({y \in Holders : [h EXCEPT ![x] = p][y] = q}) =
             Cardinality({y \in Holders : h[y] = q}) + (IF q = p THEN 1 ELSE 0)
<1> TAKE q \in Pages
<1> DEFINE A == {y \in Holders : h[y] = q}
           B == {y \in Holders : [h EXCEPT ![x] = p][y] = q}
<1>1. IsFiniteSet(Holders)
  BY PageAllocAssumption, FS_Union DEF Holders
<1>2. IsFiniteSet(A) /\ Cardinality(A) \in Nat
  BY <1>1, FS_Subset, FS_CardinalityType
<1>3. x \notin A
  BY PageAllocAssumption
<1>4. CASE q = p
  <2>1. B = A \cup {x}
    BY <1>4
  <2> QED BY <2>1, <1>2, <1>3, <1>4, FS_AddElement
<1>5. CASE q # p
  <2>1. B = A
    BY <1>5, PageAllocAssumption
  <2> QED BY <2>1, <1>2, <1>5
<1> QED BY <1>4, <1>5

LEMMA HoldDrop ==
  ASSUME NEW h \in [Holders -> Pages \cup {NoPage}], NEW x \in Holders,
         NEW p \in Pages, h[x] = p
  PROVE  \A q \in Pages :
           Cardinality({y \in Holders : [h EXCEPT ![x] = NoPage][y] = q}) =
             Cardinality({y \in Holders : h[y] = q}) - (IF q = p THEN 1 ELSE 0)
<1> DEFINE g == [h EXCEPT ![x] = NoPage]
<1>1. g \in [Holders -> Pages \cup {NoPage}] /\ g[x] = NoPage
  OBVIOUS
<1>2. [g EXCEPT ![x] = p] = h
  OBVIOUS
<1> HIDE DEF g
<1>3. \A q \in Pages :
        Cardinality({y \in Holders : h[y] = q}) =
          Cardinality({y \in Holders : g[y] = q}) + (IF q = p THEN 1 ELSE 0)
  BY <1>1, <1>2, HoldAdd
<1>4. \A q \in Pages : Cardinality({y \in Holders : g[y] = q}) \in Nat
  BY PageAllocAssumption, FS_Union, FS_Subset, FS_CardinalityType DEF Holders
<1>5. \A q \in Pages :
        Cardinality({y \in Holders : g[y] = q}) =
          Cardinality({y \in Holders : h[y] = q}) - (IF q = p THEN 1 ELSE 0)
  BY <1>3, <1>4
<1> QED BY <1>5 DEF g
-----------------------------------------------------------------------------
(* The inductive invariant.                                                *)

(* A process that is past taking a lock has it.                            *)
LockInv ==
  \A t \in Procs :
    /\ pc[t] \in {"new_pg", "put_pg", "aux_pg", "look_pg", "dup_np"} =>
         palloc = t
    /\ pc[t] \in {"dup", "dup_np", "dup_cache", "dup_done"} =>
         plock[pg[t]] = t
    /\ pc[t] = "dup_cache" => plock[np[t]] = t

(* A process works on the entry of a segment it has locked, and knows what *)
(* is in the entry.                                                        *)
SlotInv ==
  \A t \in Procs :
    /\ pc[t] \in {"look", "look_lock", "look_pg"} =>
         /\ slot[t] \in Slots /\ seglock[slot[t]] = t
         /\ holds[slot[t]] = NoPage /\ want[t] \in Names
    /\ pc[t] \in {"dup", "dup_relock", "dup_np", "dup_cache", "dup_done"} =>
         /\ slot[t] \in Slots /\ seglock[slot[t]] = t
         /\ pg[t] \in Pages /\ holds[slot[t]] = pg[t]
    /\ pc[t] \in {"put", "put_pg"} =>
         /\ slot[t] \in Slots \cup {t} /\ holds[slot[t]] \in Pages
         /\ slot[t] \in Slots => seglock[slot[t]] = t
         /\ pc[t] = "put_pg" => pg[t] = holds[slot[t]]
    /\ pc[t] \in {"new", "new_pg"} =>
         /\ slot[t] \in Slots
         /\ seglock[slot[t]] = t => holds[slot[t]] = NoPage
    /\ pc[t] \in {"new_wait", "new_sleep"} =>
         slot[t] = NoSlot \/ (slot[t] \in Slots /\ seglock[slot[t]] # t)
    /\ pc[t] = "pio" => slot[t] \in Slots

(* Outside its table entries a process holds a page only while it reads    *)
(* into it, when nobody else refers to it, or is about to free it.         *)
OwnInv ==
  \A t \in Procs :
    /\ holds[t] # NoPage =>
         pc[t] = "pio" \/ (pc[t] \in {"put", "put_pg"} /\ slot[t] = t)
    /\ pc[t] = "pio" =>
         holds[t] \in Pages /\ name[holds[t]] = NoName /\ ref[holds[t]] = 1

(* A page picked from the free list is as its list or its lock keeps it.   *)
PickInv ==
  \A t \in Procs :
    /\ pc[t] \in {"new_pg", "aux_pg"} =>
         pg[t] \in Pages /\ ~IsFree(pg[t]) /\ ref[pg[t]] = 0
    /\ pc[t] \in {"look_lock", "look_pg"} => pg[t] \in Pages
    /\ pc[t] = "dup_np" => np[t] \in Pages /\ IsFree(np[t])
    /\ pc[t] = "dup_cache" =>
         np[t] \in Pages /\ ref[np[t]] = 0 /\ name[np[t]] = NoName

(* Once duppage has seen that p is not of a notext image, it stays so.     *)
TextInv ==
  \A t \in Procs :
    /\ pc[t] = "idle" => retries[t] = 0
    /\ pc[t] \in {"dup", "dup_relock"} /\ retries[t] > 0 =>
         name[pg[t]] \notin NoText
    /\ pc[t] \in {"dup_np", "dup_cache", "dup_done"} =>
         name[pg[t]] \notin NoText

(* WritableIsPrivate, holder by holder.                                    *)
WritableInv ==
  \A s \in writable :
    /\ holds[s] \in Pages
    /\ \/ /\ name[holds[s]] = NoName
          /\ \A x \in Holders : holds[x] = holds[s] => x = s
       \/ name[holds[s]] \in NoText

IndInv ==
  /\ TypeOK /\ OnlyContentionPanics /\ RefExact /\ FreeIsUnused /\ WritableInv
  /\ LockInv /\ SlotInv /\ OwnInv /\ PickInv /\ TextInv
-----------------------------------------------------------------------------
(* What the actions on the free list do to the set of free pages.          *)

LEMMA FreeUnchain ==
  ASSUME freelist \in Seq(Pages), IsInjective(freelist),
         NEW i \in 1 .. freecount, pageunchain(i)
  PROVE  /\ freelist' \in Seq(Pages) /\ IsInjective(freelist')
         /\ freelist[i] \in Pages /\ IsFree(freelist[i])
         /\ \A p : IsFree(p)' <=> p # freelist[i] /\ IsFree(p)
<1>1. freelist[i] \in Pages /\ freelist[i] \in Range(freelist)
  BY LenProperties DEF Range, freecount
<1>2. /\ i \in 1 .. Len(freelist)
      /\ freelist' = RemoveAt(freelist, i)
  BY DEF pageunchain, freecount
<1> DEFINE e == freelist[i]
<1>3. e = freelist[i]
  OBVIOUS
<1> HIDE DEF e
<1>4. /\ freelist' \in Seq(Pages) /\ IsInjective(freelist')
      /\ \A p : p \in Range(freelist') <=> p # e /\ p \in Range(freelist)
  BY <1>2, <1>3, Unchain
<1> QED BY <1>1, <1>3, <1>4 DEF IsFree

LEMMA FreeTake ==
  ASSUME freelist \in Seq(Pages), IsInjective(freelist), freecount > 0, pageunchain(1)
  PROVE  /\ freelist' \in Seq(Pages) /\ IsInjective(freelist')
         /\ Head(freelist) \in Pages /\ IsFree(Head(freelist))
         /\ \A p : IsFree(p)' <=> p # Head(freelist) /\ IsFree(p)
<1>1. 1 \in 1 .. freecount /\ freelist[1] = Head(freelist)
  BY LenProperties, HeadTailProperties DEF freecount
<1> QED BY <1>1, FreeUnchain

LEMMA FreeTail ==
  ASSUME freelist \in Seq(Pages), IsInjective(freelist),
         NEW q \in Pages, ~IsFree(q), pagechaintail(q)
  PROVE  /\ freelist' \in Seq(Pages) /\ IsInjective(freelist')
         /\ \A p : IsFree(p)' <=> p = q \/ IsFree(p)
<1>1. freelist' = Append(freelist, q) /\ q \notin Range(freelist)
  BY DEF IsFree, pagechaintail
<1>2. /\ freelist' \in Seq(Pages) /\ IsInjective(freelist')
      /\ \A p : p \in Range(freelist') <=> p = q \/ p \in Range(freelist)
  BY <1>1, ChainTail
<1> QED BY <1>2 DEF IsFree

LEMMA FreeHead ==
  ASSUME freelist \in Seq(Pages), IsInjective(freelist),
         NEW q \in Pages, ~IsFree(q), pagechainhead(q)
  PROVE  /\ freelist' \in Seq(Pages) /\ IsInjective(freelist')
         /\ \A p : IsFree(p)' <=> p = q \/ IsFree(p)
<1>1. freelist' = <<q>> \o freelist /\ q \notin Range(freelist)
  BY DEF IsFree, pagechainhead
<1>2. /\ freelist' \in Seq(Pages) /\ IsInjective(freelist')
      /\ \A p : p \in Range(freelist') <=> p = q \/ p \in Range(freelist)
  BY <1>1, ChainHead
<1> QED BY <1>2 DEF IsFree

(* duppage moves the first page to the end.                                *)
LEMMA FreeRotate ==
  ASSUME freelist \in Seq(Pages), IsInjective(freelist), freecount > 0,
         freelist' = Append(RemoveAt(freelist, 1), Head(freelist))
  PROVE  /\ freelist' \in Seq(Pages) /\ IsInjective(freelist')
         /\ Head(freelist) \in Pages /\ IsFree(Head(freelist))
         /\ \A p : IsFree(p)' <=> IsFree(p)
<1>1. 1 \in 1 .. freecount /\ freelist[1] = Head(freelist)
  BY LenProperties, HeadTailProperties DEF freecount
<1>2. Head(freelist) \in Range(freelist) /\ Head(freelist) \in Pages
  BY <1>1, LenProperties DEF Range, freecount
<1> DEFINE g == RemoveAt(freelist, 1)
           q == Head(freelist)
<1>3. /\ 1 \in 1 .. Len(freelist) /\ q = freelist[1]
      /\ freelist' = Append(g, q) /\ g = RemoveAt(freelist, 1)
  BY <1>1 DEF freecount
<1> HIDE DEF g, q
<1>4. /\ g \in Seq(Pages) /\ IsInjective(g)
      /\ \A p : p \in Range(g) <=> p # q /\ p \in Range(freelist)
  BY <1>3, Unchain
<1>5. q \in Pages /\ q \notin Range(g) /\ freelist' = Append(g, q)
  BY <1>2, <1>3, <1>4 DEF q
<1>6. /\ freelist' \in Seq(Pages) /\ IsInjective(freelist')
      /\ \A p : p \in Range(freelist') <=> p = q \/ p \in Range(g)
  BY <1>4, <1>5, ChainTail
<1>7. \A p : p \in Range(freelist') <=> p \in Range(freelist)
  BY <1>2, <1>4, <1>6 DEF q
<1> QED BY <1>2, <1>6, <1>7 DEF IsFree
-----------------------------------------------------------------------------
(* Type correctness.                                                       *)
LEMMA LimitStep ==
  ASSUME TypeOK, NEW t \in Procs, Step(t) \/ Call(t)
  PROVE  dupretries' \in Nat
<1> USE PageAllocAssumption DEF TypeOK
<1>1. CASE DupGiveUp(t)
  BY <1>1 DEF DupGiveUp
<1>2. CASE \/ NewTake(t) \/ NewMustWait(t) \/ NewQlock(t) \/ NewWake(t)
           \/ NewPage(t) \/ PutTake(t) \/ PutPage(t) \/ AuxPage(t)
  BY <1>2 DEF NewTake, NewMustWait, NewQlock, NewWake, NewPage, PutTake,
     PutPage, AuxPage
<1>3. CASE \/ LookMiss(t) \/ LookTake(t) \/ LookStale(t) \/ LookPage(t)
           \/ Cachepage(t) \/ PioLost(t) \/ \E f \in Pages : LookHit(t, f)
  BY <1>3 DEF LookMiss, LookTake, LookStale, LookPage, Cachepage, PioLost,
     LookHit
<1>4. CASE \/ DupNothing(t) \/ DupBusy(t) \/ DupRelock(t) \/ DupNoMemory(t)
           \/ DupTake(t) \/ DupLockNp(t) \/ DupCache(t) \/ DupDone(t)
  BY <1>4 DEF DupNothing, DupBusy, DupRelock, DupNoMemory, DupTake, DupLockNp,
     DupCache, DupDone
<1>5. CASE Call(t)
  BY <1>5 DEF Call, AuxTake, NewStart, FreePte, WriteFault, LookStart, PteCpy,
     Enter
<1> QED BY <1>1, <1>2, <1>3, <1>4, <1>5 DEF Step

LEMMA TypeStep ==
  ASSUME IndInv, NEW t \in Procs, Step(t) \/ Call(t)
  PROVE  TypeOK'
<1> USE PageAllocAssumption DEF TypeOK
<1>t. TypeOK /\ IsInjective(freelist) /\ HighWater > 0
  BY DEF IndInv, FreeIsUnused
<1>s. SlotInv /\ PickInv
  BY DEF IndInv
<1>d. dupretries' \in Nat
  BY <1>t, LimitStep
<1> USE <1>d
<1>1. CASE NewTake(t)
  <2>1. freelist' \in Seq(Pages) /\ Head(freelist) \in Pages
    BY <1>1, <1>t, FreeTake DEF NewTake, CanAllocate, freecount
  <2> QED BY <1>1, <2>1, <1>t
     DEF NewTake, Goto, CanAllocate, Holders, PCs
<1>2. CASE NewMustWait(t)
  BY <1>2, <1>t
     DEF NewMustWait, Goto, SegUnlock, CanAllocate, pages, Holders, PCs
<1>3. CASE NewQlock(t)
  BY <1>3, <1>t
     DEF NewQlock, Goto, pages, Holders, PCs
<1>4. CASE NewWake(t)
  <2>1. freelist' = freelist
    BY <1>4 DEF NewWake, Return, Goto, pages, Holders, PCs
  <2>2. /\ palloc' \in Procs \cup {NoProc}
        /\ pwait' \in Procs \cup {NoProc}
        /\ plock' \in [Pages -> Procs \cup {NoProc}]
        /\ seglock' \in [Slots -> Procs \cup {NoProc}]
        /\ freelist' \in Seq(Pages)
        /\ ref' \in [Pages -> Nat]
        /\ name' \in [Pages -> Names \cup {NoName}]
        /\ holds' \in [Holders -> Pages \cup {NoPage}]
        /\ writable' \in SUBSET Slots
    BY <1>4, <2>1, <1>t, <1>s
       DEF NewWake, Return, Goto, pages, Holders, PCs, SlotInv, PickInv
  <2>3. /\ pc' \in [Procs -> PCs]
        /\ pg' \in [Procs -> Pages \cup {NoPage}]
        /\ np' \in [Procs -> Pages \cup {NoPage}]
        /\ slot' \in [Procs -> Holders \cup {NoSlot}]
        /\ want' \in [Procs -> Names \cup {NoName}]
        /\ retries' \in [Procs -> Nat]
    <3>1. CASE slot[t] = NoSlot
      <4>1. Return(t)
        BY <1>4, <3>1 DEF NewWake
      <4> QED BY <1>t, <4>1 DEF Return, PCs
    <3>2. CASE slot[t] # NoSlot
      BY <1>4, <1>t, <3>2 DEF NewWake, Goto, PCs
    <3> QED BY <3>1, <3>2
  <2>4. panicked' \in BOOLEAN
    BY <1>4, <1>t, Zenon DEF NewWake, Return, Goto, pages, Holders, PCs
  <2> QED BY <2>2, <2>3, <2>4
<1>5. CASE NewPage(t)
  <2>1. freelist' = freelist
    BY <1>5 DEF NewPage, Return, Goto, SegUnlock, uncachepage, Holders, PCs
  <2>2. /\ palloc' \in Procs \cup {NoProc}
        /\ pwait' \in Procs \cup {NoProc}
        /\ plock' \in [Pages -> Procs \cup {NoProc}]
        /\ seglock' \in [Slots -> Procs \cup {NoProc}]
        /\ freelist' \in Seq(Pages)
        /\ ref' \in [Pages -> Nat]
        /\ name' \in [Pages -> Names \cup {NoName}]
        /\ holds' \in [Holders -> Pages \cup {NoPage}]
        /\ writable' \in SUBSET Slots
    BY <1>5, <2>1, <1>t, <1>s
       DEF NewPage, Return, Goto, SegUnlock, uncachepage, Holders, PCs,
           SlotInv, PickInv
  <2>3. /\ pc' \in [Procs -> PCs]
        /\ pg' \in [Procs -> Pages \cup {NoPage}]
        /\ np' \in [Procs -> Pages \cup {NoPage}]
        /\ slot' \in [Procs -> Holders \cup {NoSlot}]
        /\ want' \in [Procs -> Names \cup {NoName}]
        /\ retries' \in [Procs -> Nat]
    <3>1. CASE Return(t)
      BY <1>5, <1>t, <3>1 DEF Return, PCs
    <3>2. CASE Goto(t, "pio") /\ UNCHANGED <<pg, np, slot, want, retries>>
      BY <1>5, <1>t, <3>2 DEF Goto, PCs
    <3> QED BY <1>5, <3>1, <3>2 DEF NewPage
  <2>4. panicked' \in BOOLEAN
    BY <1>5, <1>t, Zenon
       DEF NewPage, Return, Goto, SegUnlock, uncachepage, Holders, PCs
  <2> QED BY <2>2, <2>3, <2>4
<1>6. CASE PutTake(t)
  BY <1>6, <1>t, <1>s
     DEF PutTake, Goto, pages, Holders, PCs, SlotInv
<1>7. CASE PutPage(t)
  <2>0. pg[t] \in Pages /\ (ref[pg[t]] = 1 => ~IsFree(pg[t]))
    BY <1>7, <1>s DEF PutPage, SlotInv, IndInv, FreeIsUnused
  <2>1. freelist' \in Seq(Pages)
    <3>1. CASE ref[pg[t]] # 1
      BY <1>7, <1>t, <3>1 DEF PutPage
    <3>2. CASE ref[pg[t]] = 1 /\ pagechaintail(pg[t])
      BY <1>t, <2>0, <3>2, FreeTail
    <3>3. CASE ref[pg[t]] = 1 /\ pagechainhead(pg[t])
      BY <1>t, <2>0, <3>3, FreeHead
    <3> QED BY <1>7, <3>1, <3>2, <3>3 DEF PutPage
  <2>2. /\ palloc' \in Procs \cup {NoProc}
        /\ pwait' \in Procs \cup {NoProc}
        /\ plock' \in [Pages -> Procs \cup {NoProc}]
        /\ seglock' \in [Slots -> Procs \cup {NoProc}]
        /\ freelist' \in Seq(Pages)
        /\ ref' \in [Pages -> Nat]
        /\ name' \in [Pages -> Names \cup {NoName}]
        /\ holds' \in [Holders -> Pages \cup {NoPage}]
        /\ writable' \in SUBSET Slots
    BY <1>7, <2>1, <1>t, <1>s
       DEF PutPage, Return, SegUnlock, Holders, PCs, SlotInv, PickInv
  <2>3. /\ pc' \in [Procs -> PCs]
        /\ pg' \in [Procs -> Pages \cup {NoPage}]
        /\ np' \in [Procs -> Pages \cup {NoPage}]
        /\ slot' \in [Procs -> Holders \cup {NoSlot}]
        /\ want' \in [Procs -> Names \cup {NoName}]
        /\ retries' \in [Procs -> Nat]
    BY <1>7, <1>t, <1>s
       DEF PutPage, Return, SegUnlock, Holders, PCs, SlotInv, PickInv
  <2>4. panicked' \in BOOLEAN
    BY <1>7, <1>t, Zenon DEF PutPage, Return, SegUnlock, Holders, PCs
  <2> QED BY <2>2, <2>3, <2>4
<1>8. CASE AuxPage(t)
  <2>1. freelist' = freelist
    BY <1>8 DEF AuxPage, Goto, uncachepage, Holders, PCs
  <2>2. /\ palloc' \in Procs \cup {NoProc}
        /\ pwait' \in Procs \cup {NoProc}
        /\ plock' \in [Pages -> Procs \cup {NoProc}]
        /\ seglock' \in [Slots -> Procs \cup {NoProc}]
        /\ freelist' \in Seq(Pages)
        /\ ref' \in [Pages -> Nat]
        /\ name' \in [Pages -> Names \cup {NoName}]
        /\ holds' \in [Holders -> Pages \cup {NoPage}]
        /\ writable' \in SUBSET Slots
    BY <1>8, <2>1, <1>t, <1>s
       DEF AuxPage, Goto, uncachepage, Holders, PCs, SlotInv, PickInv
  <2>3. /\ pc' \in [Procs -> PCs]
        /\ pg' \in [Procs -> Pages \cup {NoPage}]
        /\ np' \in [Procs -> Pages \cup {NoPage}]
        /\ slot' \in [Procs -> Holders \cup {NoSlot}]
        /\ want' \in [Procs -> Names \cup {NoName}]
        /\ retries' \in [Procs -> Nat]
    BY <1>8, <1>t, <1>s
       DEF AuxPage, Goto, uncachepage, Holders, PCs, SlotInv, PickInv
  <2>4. panicked' \in BOOLEAN
    BY <1>8, <1>t, Zenon DEF AuxPage, Goto, uncachepage, Holders, PCs
  <2> QED BY <2>2, <2>3, <2>4
<1>9. CASE LookMiss(t)
  BY <1>9, <1>t
     DEF LookMiss, Goto, SegUnlock, pages, Holders, PCs
<1>10. CASE LookTake(t)
  BY <1>10, <1>t
     DEF LookTake, Goto, pages, Holders, PCs
<1>11. CASE LookStale(t)
  BY <1>11, <1>t
     DEF LookStale, Goto, SegUnlock, pages, Holders, PCs
<1>12. CASE LookPage(t)
  <2>1. freelist' \in Seq(Pages)
    BY <1>12, <1>t, FreeUnchain, LenProperties DEF LookPage, freecount
  <2>2. /\ palloc' \in Procs \cup {NoProc}
        /\ pwait' \in Procs \cup {NoProc}
        /\ plock' \in [Pages -> Procs \cup {NoProc}]
        /\ seglock' \in [Slots -> Procs \cup {NoProc}]
        /\ freelist' \in Seq(Pages)
        /\ ref' \in [Pages -> Nat]
        /\ name' \in [Pages -> Names \cup {NoName}]
        /\ holds' \in [Holders -> Pages \cup {NoPage}]
        /\ writable' \in SUBSET Slots
    BY <1>12, <2>1, <1>t, <1>s
       DEF LookPage, Return, SegUnlock, Holders, PCs, SlotInv, PickInv
  <2>3. /\ pc' \in [Procs -> PCs]
        /\ pg' \in [Procs -> Pages \cup {NoPage}]
        /\ np' \in [Procs -> Pages \cup {NoPage}]
        /\ slot' \in [Procs -> Holders \cup {NoSlot}]
        /\ want' \in [Procs -> Names \cup {NoName}]
        /\ retries' \in [Procs -> Nat]
    BY <1>12, <1>t, <1>s
       DEF LookPage, Return, SegUnlock, Holders, PCs, SlotInv, PickInv
  <2>4. panicked' \in BOOLEAN
    BY <1>12, <1>t, Zenon DEF LookPage, Return, SegUnlock, Holders, PCs
  <2> QED BY <2>2, <2>3, <2>4
<1>13. CASE Cachepage(t)
  <2>1. freelist' = freelist
    BY <1>13 DEF Cachepage, Return, locks, Holders, PCs
  <2>0. holds' \in [Holders -> Pages \cup {NoPage}]
    <3>1. slot[t] \in Holders /\ t \in Holders /\ holds[t] \in Pages \cup {NoPage}
      BY <1>13, <1>t, <1>s DEF Cachepage, Holders, SlotInv
    <3>2. holds' = [[holds EXCEPT ![slot[t]] = holds[t]] EXCEPT ![t] = NoPage]
      BY <1>13 DEF Cachepage
    <3> QED BY <1>t, <3>1, <3>2
  <2>5. name' \in [Pages -> Names \cup {NoName}]
    <3>1. name' = [name EXCEPT ![holds[t]] = want[t]] /\ want[t] \in Names \cup {NoName}
      BY <1>13, <1>t DEF Cachepage
    <3> QED BY <1>t, <3>1
  <2>2. /\ palloc' \in Procs \cup {NoProc}
        /\ pwait' \in Procs \cup {NoProc}
        /\ plock' \in [Pages -> Procs \cup {NoProc}]
        /\ seglock' \in [Slots -> Procs \cup {NoProc}]
        /\ freelist' \in Seq(Pages)
        /\ ref' \in [Pages -> Nat]
        /\ writable' \in SUBSET Slots
    BY <1>13, <2>1, <1>t, <1>s
       DEF Cachepage, Return, locks, Holders, PCs, SlotInv, PickInv
  <2>3. /\ pc' \in [Procs -> PCs]
        /\ pg' \in [Procs -> Pages \cup {NoPage}]
        /\ np' \in [Procs -> Pages \cup {NoPage}]
        /\ slot' \in [Procs -> Holders \cup {NoSlot}]
        /\ want' \in [Procs -> Names \cup {NoName}]
        /\ retries' \in [Procs -> Nat]
    BY <1>13, <1>t, <1>s
       DEF Cachepage, Return, locks, Holders, PCs, SlotInv, PickInv
  <2>4. panicked' \in BOOLEAN
    BY <1>13, <1>t, Zenon DEF Cachepage, Return, locks, Holders, PCs
  <2> QED BY <2>0, <2>5, <2>2, <2>3, <2>4
<1>14. CASE PioLost(t)
  BY <1>14, <1>t, <1>s
     DEF PioLost, Goto, locks, pages, Holders, PCs
<1>15. CASE DupGiveUp(t)
  BY <1>15, <1>t, <1>s
     DEF DupGiveUp, DupReturn, Return, SegUnlock, uncachepage, Holders, PCs,
          SlotInv
<1>16. CASE DupNothing(t)
  BY <1>16, <1>t, <1>s
     DEF DupNothing, DupReturn, Return, SegUnlock, Holders, PCs, SlotInv
<1>17. CASE DupBusy(t)
  <2>1. freelist' = freelist
    BY <1>17 DEF DupBusy, Goto, pages, Holders, PCs
  <2>2. /\ palloc' \in Procs \cup {NoProc}
        /\ pwait' \in Procs \cup {NoProc}
        /\ plock' \in [Pages -> Procs \cup {NoProc}]
        /\ seglock' \in [Slots -> Procs \cup {NoProc}]
        /\ freelist' \in Seq(Pages)
        /\ ref' \in [Pages -> Nat]
        /\ name' \in [Pages -> Names \cup {NoName}]
        /\ holds' \in [Holders -> Pages \cup {NoPage}]
        /\ writable' \in SUBSET Slots
    BY <1>17, <2>1, <1>t, <1>s
       DEF DupBusy, Goto, pages, Holders, PCs, SlotInv, PickInv
  <2>3. /\ pc' \in [Procs -> PCs]
        /\ pg' \in [Procs -> Pages \cup {NoPage}]
        /\ np' \in [Procs -> Pages \cup {NoPage}]
        /\ slot' \in [Procs -> Holders \cup {NoSlot}]
        /\ want' \in [Procs -> Names \cup {NoName}]
        /\ retries' \in [Procs -> Nat]
    BY <1>17, <1>t, <1>s
       DEF DupBusy, Goto, pages, Holders, PCs, SlotInv, PickInv
  <2>4. panicked' \in BOOLEAN
    BY <1>17, <1>t, Zenon DEF DupBusy, Goto, pages, Holders, PCs
  <2> QED BY <2>2, <2>3, <2>4
<1>18. CASE DupRelock(t)
  BY <1>18, <1>t
     DEF DupRelock, Goto, pages, Holders, PCs
<1>19. CASE DupNoMemory(t)
  BY <1>19, <1>t, <1>s
     DEF DupNoMemory, DupReturn, Return, SegUnlock, uncachepage, Holders, PCs,
          SlotInv
<1>20. CASE DupTake(t)
  <2>1. freelist' \in Seq(Pages) /\ Head(freelist) \in Pages
    BY <1>20, <1>t, FreeRotate DEF DupTake, freecount
  <2> QED BY <1>20, <2>1, <1>t
     DEF DupTake, Goto, Holders, PCs
<1>21. CASE DupLockNp(t)
  BY <1>21, <1>t
     DEF DupLockNp, Goto, uncachepage, Holders, PCs
<1>22. CASE DupCache(t)
  <2>1. freelist' = freelist
    BY <1>22 DEF DupCache, Goto, Holders, PCs
  <2>2. /\ palloc' \in Procs \cup {NoProc}
        /\ pwait' \in Procs \cup {NoProc}
        /\ plock' \in [Pages -> Procs \cup {NoProc}]
        /\ seglock' \in [Slots -> Procs \cup {NoProc}]
        /\ freelist' \in Seq(Pages)
        /\ ref' \in [Pages -> Nat]
        /\ name' \in [Pages -> Names \cup {NoName}]
        /\ holds' \in [Holders -> Pages \cup {NoPage}]
        /\ writable' \in SUBSET Slots
    BY <1>22, <2>1, <1>t, <1>s
       DEF DupCache, Goto, Holders, PCs, SlotInv, PickInv
  <2>3. /\ pc' \in [Procs -> PCs]
        /\ pg' \in [Procs -> Pages \cup {NoPage}]
        /\ np' \in [Procs -> Pages \cup {NoPage}]
        /\ slot' \in [Procs -> Holders \cup {NoSlot}]
        /\ want' \in [Procs -> Names \cup {NoName}]
        /\ retries' \in [Procs -> Nat]
    BY <1>22, <1>t, <1>s DEF DupCache, Goto, Holders, PCs, SlotInv, PickInv
  <2>4. panicked' \in BOOLEAN
    BY <1>22, <1>t, Zenon DEF DupCache, Goto, Holders, PCs
  <2> QED BY <2>2, <2>3, <2>4
<1>23. CASE DupDone(t)
  BY <1>23, <1>t, <1>s
     DEF DupDone, DupReturn, Return, SegUnlock, uncachepage, Holders, PCs,
          SlotInv
<1>24. CASE AuxTake(t)
  <2>1. freelist' \in Seq(Pages) /\ Head(freelist) \in Pages
    BY <1>24, <1>t, FreeTake DEF AuxTake, CanAllocate, freecount
  <2> QED BY <1>24, <2>1, <1>t
     DEF AuxTake, Goto, Holders, PCs
<1>25. ASSUME NEW f \in Pages, LookHit(t, f)
      PROVE  TypeOK'
  BY <1>25, <1>t
     DEF LookHit, Goto, locks, pages, Holders, PCs
<1>26. ASSUME NEW s \in Slots, NewStart(t, s)
      PROVE  TypeOK'
  BY <1>26, <1>t
     DEF NewStart, Enter, Goto, pages, Holders, PCs
<1>27. ASSUME NEW s \in Slots, FreePte(t, s)
      PROVE  TypeOK'
  BY <1>27, <1>t
     DEF FreePte, Enter, Goto, pages, Holders, PCs
<1>28. ASSUME NEW s \in Slots, WriteFault(t, s)
      PROVE  TypeOK'
  <2>1. CASE name[holds[s]] # NoName
    <3>1. holds[s] \in Pages
      BY <1>28, <1>t DEF WriteFault, Holders
    <3>4. /\ plock' = [plock EXCEPT ![holds[s]] = t]
          /\ seglock' = [seglock EXCEPT ![s] = t]
          /\ slot' = [slot EXCEPT ![t] = s]
          /\ pg' = [pg EXCEPT ![t] = holds[s]]
          /\ pc' = [pc EXCEPT ![t] = "dup"]
      BY <1>28, <2>1 DEF WriteFault, Goto
    <3>2. plock' \in [Pages -> Procs \cup {NoProc}] /\ seglock' \in [Slots -> Procs \cup {NoProc}]
      BY <1>t, <3>4
    <3>3. /\ slot' \in [Procs -> Holders \cup {NoSlot}]
          /\ pg' \in [Procs -> Pages \cup {NoPage}] /\ pc' \in [Procs -> PCs]
      BY <1>t, <3>1, <3>4 DEF Holders, PCs
    <3> QED BY <1>28, <1>t, <2>1, <3>2, <3>3 DEF WriteFault
  <2>2. CASE name[holds[s]] = NoName
    BY <1>28, <1>t, <2>2 DEF WriteFault, Goto, Holders, PCs
  <2> QED BY <2>1, <2>2
<1>29. ASSUME NEW s \in Slots, NEW n \in Names, LookStart(t, s, n)
      PROVE  TypeOK'
  BY <1>29, <1>t
     DEF LookStart, Enter, Goto, pages, Holders, PCs
<1>30. ASSUME NEW s \in Slots, NEW d \in Slots, PteCpy(t, s, d)
      PROVE  TypeOK'
  BY <1>30, <1>t
     DEF PteCpy, locks, locals, Holders, PCs
<1> QED BY <1>1, <1>2, <1>3, <1>4, <1>5, <1>6, <1>7, <1>8, <1>9, <1>10,
  <1>11, <1>12, <1>13, <1>14, <1>15, <1>16, <1>17, <1>18, <1>19, <1>20,
  <1>21, <1>22, <1>23, <1>24, <1>25, <1>26, <1>27, <1>28, <1>29, <1>30 DEF
  Step, Call

-----------------------------------------------------------------------------
(* The reference counts.                                                   *)

LEMMA Held ==
  ASSUME TypeOK, RefExact, NEW x \in Holders, holds[x] \in Pages
  PROVE  /\ ref[holds[x]] > 0
         /\ ref[holds[x]] = 1 =>
              \A y \in Holders : holds[y] = holds[x] => y = x
<1> DEFINE H == HoldersOf(holds[x])
<1>1. IsFiniteSet(H)
  BY PageAllocAssumption, FS_Union, FS_Subset DEF Holders, HoldersOf
<1>2. x \in H /\ ref[holds[x]] = Cardinality(H)
  BY DEF HoldersOf, RefExact
<1>3. Cardinality(H) \in Nat /\ Cardinality(H) # 0
  BY <1>1, <1>2, FS_CardinalityType, FS_EmptySet
<1>4. ASSUME Cardinality(H) = 1, NEW y \in Holders, holds[y] = holds[x]
      PROVE  y = x
  <2>1. y \in H
    BY <1>4 DEF HoldersOf
  <2>2. PICK e : H = {e}
    BY <1>1, <1>4, FS_Singleton
  <2> QED BY <1>2, <2>1, <2>2
<1> QED BY <1>2, <1>3, <1>4

LEMMA CountUp ==
  ASSUME TypeOK, RefExact, NEW x \in Holders, NEW p \in Pages,
         holds[x] = NoPage, holds' = [holds EXCEPT ![x] = p],
         ref' = [ref EXCEPT ![p] = @ + 1]
  PROVE  RefExact'
<1>1. holds \in [Holders -> Pages \cup {NoPage}] /\ ref \in [Pages -> Nat]
  BY DEF TypeOK
<1>2. \A q \in Pages : ref[q] = Cardinality({y \in Holders : holds[y] = q})
  BY DEF RefExact, HoldersOf
<1>3. \A q \in Pages : Cardinality({y \in Holders : holds'[y] = q}) =
        Cardinality({y \in Holders : holds[y] = q}) + (IF q = p THEN 1 ELSE 0)
  BY <1>1, HoldAdd
<1>4. \A q \in Pages : ref'[q] = ref[q] + (IF q = p THEN 1 ELSE 0)
  BY <1>1
<1>5. \A q \in Pages : ref'[q] = Cardinality({y \in Holders : holds'[y] = q})
  BY <1>2, <1>3, <1>4
<1> QED BY <1>5 DEF RefExact, HoldersOf

LEMMA RefStep ==
  ASSUME IndInv, NEW t \in Procs, Step(t) \/ Call(t)
  PROVE  RefExact'
<1>i. TypeOK /\ RefExact /\ SlotInv /\ OwnInv /\ PickInv
  BY DEF IndInv
<1>r. UNCHANGED <<ref, holds>> => RefExact'
  BY <1>i DEF RefExact, HoldersOf
<1>1. CASE NewTake(t)
  BY <1>1, <1>i, <1>r DEF NewTake, Goto, CanAllocate
<1>2. CASE NewMustWait(t)
  BY <1>2, <1>i, <1>r DEF NewMustWait, Goto, SegUnlock, CanAllocate, pages
<1>3. CASE NewQlock(t)
  BY <1>3, <1>i, <1>r DEF NewQlock, Goto, pages
<1>4. CASE NewWake(t)
  BY <1>4, <1>i, <1>r DEF NewWake, Return, Goto, pages
<1>5. CASE NewPage(t)
  <2> DEFINE dest == IF seglock[slot[t]] = t THEN slot[t] ELSE t
  <2>1. dest \in Holders /\ pg[t] \in Pages /\ holds[dest] = NoPage
    BY <1>5, <1>i DEF NewPage, SlotInv, OwnInv, PickInv, Holders
  <2> QED BY <1>5, <1>i, <2>1, CountUp DEF NewPage
<1>6. CASE PutTake(t)
  BY <1>6, <1>i, <1>r DEF PutTake, Goto, pages
<1>7. CASE PutPage(t)
  <2> DEFINE x == slot[t]
             p == pg[t]
  <2>1. x \in Holders /\ p \in Pages /\ holds[x] = p /\ ref[p] > 0
    BY <1>7, <1>i, Held DEF PutPage, SlotInv, Holders
  <2>2. /\ holds' = [holds EXCEPT ![x] = NoPage]
        /\ ref' = [ref EXCEPT ![p] = IF ref[p] > 0 THEN ref[p] - 1 ELSE ref[p]]
        /\ holds \in [Holders -> Pages \cup {NoPage}] /\ ref \in [Pages -> Nat]
    BY <1>7, <1>i DEF PutPage, TypeOK
  <2>7. ref' = [ref EXCEPT ![p] = ref[p] - 1]
    BY <2>1, <2>2
  <2> HIDE DEF x, p
  <2>3. \A q \in Pages : ref'[q] = ref[q] - (IF q = p THEN 1 ELSE 0)
    BY <2>1, <2>2, <2>7
  <2>4. \A q \in Pages : ref[q] = Cardinality({y \in Holders : holds[y] = q})
    BY <1>i DEF RefExact, HoldersOf
  <2>5. \A q \in Pages : Cardinality({y \in Holders : holds'[y] = q}) =
          Cardinality({y \in Holders : holds[y] = q}) - (IF q = p THEN 1 ELSE 0)
    BY <2>1, <2>2, HoldDrop
  <2>6. \A q \in Pages : ref'[q] = Cardinality({y \in Holders : holds'[y] = q})
    <3> TAKE q \in Pages
    <3> DEFINE a == Cardinality({y \in Holders : holds[y] = q})
               b == Cardinality({y \in Holders : holds'[y] = q})
    <3>1. /\ ref'[q] = ref[q] - (IF q = p THEN 1 ELSE 0) /\ ref[q] = a
          /\ b = a - (IF q = p THEN 1 ELSE 0)
      BY <2>3, <2>4, <2>5
    <3> HIDE DEF a, b
    <3>2. ref'[q] = b
      BY <3>1
    <3> QED BY <3>2 DEF b
  <2> QED BY <2>6 DEF RefExact, HoldersOf
<1>8. CASE AuxPage(t)
  <2>1. t \in Holders /\ pg[t] \in Pages /\ holds[t] = NoPage
    BY <1>8, <1>i DEF AuxPage, OwnInv, PickInv, Holders
  <2> QED BY <1>8, <1>i, <2>1, CountUp DEF AuxPage
<1>9. CASE LookMiss(t)
  BY <1>9, <1>i, <1>r DEF LookMiss, Goto, SegUnlock, pages
<1>10. CASE LookTake(t)
  BY <1>10, <1>i, <1>r DEF LookTake, Goto, pages
<1>11. CASE LookStale(t)
  BY <1>11, <1>i, <1>r DEF LookStale, Goto, SegUnlock, pages
<1>12. CASE LookPage(t)
  <2>1. slot[t] \in Holders /\ pg[t] \in Pages /\ holds[slot[t]] = NoPage
    BY <1>12, <1>i DEF LookPage, SlotInv, PickInv, Holders
  <2> QED BY <1>12, <1>i, <2>1, CountUp DEF LookPage
<1>13. CASE Cachepage(t)
  <2> DEFINE p == holds[t]
             h == [holds EXCEPT ![t] = NoPage]
  <2>1. /\ slot[t] \in Holders /\ t \in Holders /\ slot[t] # t
        /\ p \in Pages /\ holds[slot[t]] = NoPage
    BY <1>13, <1>i, PageAllocAssumption DEF Cachepage, SlotInv, OwnInv, Holders
  <2>2. holds \in [Holders -> Pages \cup {NoPage}]
    BY <1>i DEF TypeOK
  <2>3. h \in [Holders -> Pages \cup {NoPage}] /\ h[slot[t]] = NoPage
    BY <2>1, <2>2
  <2>4. holds' = [h EXCEPT ![slot[t]] = p] /\ ref' = ref
    BY <1>13, <2>1, <2>2 DEF Cachepage
  <2>5. \A q \in Pages : Cardinality({y \in Holders : h[y] = q}) =
          Cardinality({y \in Holders : holds[y] = q}) - (IF q = p THEN 1 ELSE 0)
    BY <2>1, <2>2, HoldDrop
  <2> HIDE DEF h
  <2>6. \A q \in Pages : Cardinality({y \in Holders : holds'[y] = q}) =
          Cardinality({y \in Holders : h[y] = q}) + (IF q = p THEN 1 ELSE 0)
    BY <2>1, <2>3, <2>4, HoldAdd
  <2>7. \A q \in Pages : ref[q] = Cardinality({y \in Holders : holds[y] = q})
                         /\ ref[q] \in Nat
    BY <1>i DEF RefExact, HoldersOf, TypeOK
  <2>8. \A q \in Pages : ref'[q] = Cardinality({y \in Holders : holds'[y] = q})
    <3> TAKE q \in Pages
    <3> DEFINE a == Cardinality({y \in Holders : holds[y] = q})
               b == Cardinality({y \in Holders : h[y] = q})
               c == Cardinality({y \in Holders : holds'[y] = q})
               k == IF q = p THEN 1 ELSE 0
    <3>1. ref'[q] = a /\ a \in Nat /\ b = a - k /\ c = b + k /\ k \in Nat
      BY <2>4, <2>5, <2>6, <2>7
    <3> HIDE DEF a, b, c, k
    <3>2. ref'[q] = c
      BY <3>1
    <3> QED BY <3>2 DEF c
  <2> QED BY <2>8 DEF RefExact, HoldersOf
<1>14. CASE PioLost(t)
  BY <1>14, <1>i, <1>r DEF PioLost, Goto, locks, pages
<1>15. CASE DupGiveUp(t)
  BY <1>15, <1>i, <1>r DEF DupGiveUp, DupReturn, Return, SegUnlock, uncachepage
<1>16. CASE DupNothing(t)
  BY <1>16, <1>i, <1>r DEF DupNothing, DupReturn, Return, SegUnlock
<1>17. CASE DupBusy(t)
  BY <1>17, <1>i, <1>r DEF DupBusy, Goto, pages
<1>18. CASE DupRelock(t)
  BY <1>18, <1>i, <1>r DEF DupRelock, Goto, pages
<1>19. CASE DupNoMemory(t)
  BY <1>19, <1>i, <1>r
     DEF DupNoMemory, DupReturn, Return, SegUnlock, uncachepage
<1>20. CASE DupTake(t)
  BY <1>20, <1>i, <1>r DEF DupTake, Goto
<1>21. CASE DupLockNp(t)
  BY <1>21, <1>i, <1>r DEF DupLockNp, Goto, uncachepage
<1>22. CASE DupCache(t)
  BY <1>22, <1>i, <1>r DEF DupCache, Goto
<1>23. CASE DupDone(t)
  BY <1>23, <1>i, <1>r DEF DupDone, DupReturn, Return, SegUnlock, uncachepage
<1>24. CASE AuxTake(t)
  BY <1>24, <1>i, <1>r DEF AuxTake, Goto
<1>25. ASSUME NEW f \in Pages, LookHit(t, f)
      PROVE  RefExact'
  BY <1>25, <1>i, <1>r DEF LookHit, Goto, locks, pages
<1>26. ASSUME NEW s \in Slots, NewStart(t, s)
      PROVE  RefExact'
  BY <1>26, <1>i, <1>r DEF NewStart, Enter, Goto, pages
<1>27. ASSUME NEW s \in Slots, FreePte(t, s)
      PROVE  RefExact'
  BY <1>27, <1>i, <1>r DEF FreePte, Enter, Goto, pages
<1>28. ASSUME NEW s \in Slots, WriteFault(t, s)
      PROVE  RefExact'
  BY <1>28, <1>i, <1>r DEF WriteFault, Goto
<1>29. ASSUME NEW s \in Slots, NEW n \in Names, LookStart(t, s, n)
      PROVE  RefExact'
  BY <1>29, <1>i, <1>r DEF LookStart, Enter, Goto, pages
<1>30. ASSUME NEW s \in Slots, NEW d \in Slots, PteCpy(t, s, d)
      PROVE  RefExact'
  <2>1. d \in Holders /\ holds[s] \in Pages /\ holds[d] = NoPage
    BY <1>30, <1>i DEF PteCpy, TypeOK, Holders
  <2> QED BY <1>30, <1>i, <2>1, CountUp DEF PteCpy
<1> QED BY <1>1, <1>2, <1>3, <1>4, <1>5, <1>6, <1>7, <1>8, <1>9, <1>10,
  <1>11, <1>12, <1>13, <1>14, <1>15, <1>16, <1>17, <1>18, <1>19, <1>20,
  <1>21, <1>22, <1>23, <1>24, <1>25, <1>26, <1>27, <1>28, <1>29, <1>30 DEF
  Step, Call

-----------------------------------------------------------------------------
(* The consistency checks.  As long as the kernel has not panicked, no step*)
(* but DupPanic makes it.                                                  *)
LEMMA PanicStep ==
  ASSUME IndInv, ~panicked, NEW t \in Procs, Step(t) \/ Call(t)
  PROVE  ~panicked'
<1>i. ~panicked /\ TypeOK /\ RefExact /\ SlotInv /\ OwnInv /\ PickInv
  BY DEF IndInv
<1>1. CASE NewTake(t)
  BY <1>1, <1>i DEF NewTake, Goto, CanAllocate
<1>2. CASE NewMustWait(t)
  BY <1>2, <1>i DEF NewMustWait, Goto, SegUnlock, CanAllocate, pages
<1>3. CASE NewQlock(t)
  BY <1>3, <1>i DEF NewQlock, Goto, pages
<1>4. CASE NewWake(t)
  BY <1>4, <1>i DEF NewWake, Return, Goto, pages
<1>5. CASE NewPage(t)
  BY <1>5, <1>i DEF NewPage, PickInv
<1>6. CASE PutTake(t)
  BY <1>6, <1>i DEF PutTake, Goto, pages
<1>7. CASE PutPage(t)
  <2>1. slot[t] \in Holders /\ holds[slot[t]] \in Pages /\ pg[t] = holds[slot[t]]
    BY <1>7, <1>i DEF PutPage, SlotInv, Holders
  <2>2. ref[pg[t]] # 0
    BY <1>i, <2>1, Held
  <2> QED BY <1>7, <1>i, <2>2 DEF PutPage
<1>8. CASE AuxPage(t)
  BY <1>8, <1>i DEF AuxPage, PickInv
<1>9. CASE LookMiss(t)
  BY <1>9, <1>i DEF LookMiss, Goto, SegUnlock, pages
<1>10. CASE LookTake(t)
  BY <1>10, <1>i DEF LookTake, Goto, pages
<1>11. CASE LookStale(t)
  BY <1>11, <1>i DEF LookStale, Goto, SegUnlock, pages
<1>12. CASE LookPage(t)
  BY <1>12, <1>i DEF LookPage, Return, SegUnlock
<1>13. CASE Cachepage(t)
  BY <1>13, <1>i DEF Cachepage, OwnInv
<1>14. CASE PioLost(t)
  BY <1>14, <1>i DEF PioLost, Goto, locks, pages
<1>15. CASE DupGiveUp(t)
  BY <1>15, <1>i
     DEF DupGiveUp, DupReturn, Return, SegUnlock, uncachepage
<1>16. CASE DupNothing(t)
  BY <1>16, <1>i DEF DupNothing, DupReturn, Return, SegUnlock
<1>17. CASE DupBusy(t)
  BY <1>17, <1>i DEF DupBusy, Goto, pages
<1>18. CASE DupRelock(t)
  BY <1>18, <1>i DEF DupRelock, Goto, pages
<1>19. CASE DupNoMemory(t)
  BY <1>19, <1>i
     DEF DupNoMemory, DupReturn, Return, SegUnlock, uncachepage
<1>20. CASE DupTake(t)
  BY <1>20, <1>i DEF DupTake, Goto
<1>21. CASE DupLockNp(t)
  BY <1>21, <1>i DEF DupLockNp, Goto, uncachepage
<1>22. CASE DupCache(t)
  BY <1>22, <1>i DEF DupCache, PickInv
<1>23. CASE DupDone(t)
  BY <1>23, <1>i
     DEF DupDone, DupReturn, Return, SegUnlock, uncachepage
<1>24. CASE AuxTake(t)
  BY <1>24, <1>i DEF AuxTake, Goto
<1>25. ASSUME NEW f \in Pages, LookHit(t, f)
      PROVE  ~panicked'
  BY <1>25, <1>i DEF LookHit, Goto, locks, pages
<1>26. ASSUME NEW s \in Slots, NewStart(t, s)
      PROVE  ~panicked'
  BY <1>26, <1>i DEF NewStart, Enter, Goto, pages
<1>27. ASSUME NEW s \in Slots, FreePte(t, s)
      PROVE  ~panicked'
  BY <1>27, <1>i DEF FreePte, Enter, Goto, pages
<1>28. ASSUME NEW s \in Slots, WriteFault(t, s)
      PROVE  ~panicked'
  BY <1>28, <1>i DEF WriteFault, Goto
<1>29. ASSUME NEW s \in Slots, NEW n \in Names, LookStart(t, s, n)
      PROVE  ~panicked'
  BY <1>29, <1>i DEF LookStart, Enter, Goto, pages
<1>30. ASSUME NEW s \in Slots, NEW d \in Slots, PteCpy(t, s, d)
      PROVE  ~panicked'
  BY <1>30, <1>i DEF PteCpy, locks, locals
<1> QED BY <1>1, <1>2, <1>3, <1>4, <1>5, <1>6, <1>7, <1>8, <1>9, <1>10,
  <1>11, <1>12, <1>13, <1>14, <1>15, <1>16, <1>17, <1>18, <1>19, <1>20,
  <1>21, <1>22, <1>23, <1>24, <1>25, <1>26, <1>27, <1>28, <1>29, <1>30 DEF
  Step, Call

-----------------------------------------------------------------------------
(* The locks.                                                              *)
LEMMA LockStep ==
  ASSUME IndInv, NEW t \in Procs, Step(t) \/ Call(t)
  PROVE  LockInv'
<1>i. LockInv /\ TypeOK /\ RefExact /\ SlotInv /\ PickInv
  BY DEF IndInv
<1>1. CASE NewTake(t)
  BY <1>1, <1>i, PageAllocAssumption
     DEF NewTake, Goto, CanAllocate, LockInv, TypeOK
<1>2. CASE NewMustWait(t)
  BY <1>2, <1>i
     DEF NewMustWait, Goto, SegUnlock, CanAllocate, pages, LockInv, TypeOK
<1>3. CASE NewQlock(t)
  BY <1>3, <1>i DEF NewQlock, Goto, pages, LockInv, TypeOK
<1>4. CASE NewWake(t)
  BY <1>4, <1>i DEF NewWake, Return, Goto, pages, LockInv, TypeOK
<1>5. CASE NewPage(t)
  <2>1. /\ palloc' = NoProc /\ plock' = plock /\ np' \in [Procs -> Pages \cup {NoPage}]
        /\ pc' = [pc EXCEPT ![t] = "idle"] \/ pc' = [pc EXCEPT ![t] = "pio"]
        /\ \A u \in Procs : u # t => pg'[u] = pg[u] /\ np'[u] = np[u]
    BY <1>5, <1>i DEF NewPage, Return, Goto, SegUnlock, uncachepage, TypeOK
  <2>2. palloc = t
    BY <1>5, <1>i DEF NewPage, LockInv
  <2>3. pc \in [Procs -> PCs] /\ palloc' # palloc
    BY <1>i, <2>1, <2>2, PageAllocAssumption DEF TypeOK
  <2>4. \A u \in Procs : u # t => pc'[u] = pc[u]
    BY <2>1, <2>3
  <2>5. pc'[t] \in {"idle", "pio"}
    BY <2>1, <2>3
  <2> QED BY <2>1, <2>2, <2>4, <2>5, <1>i, PageAllocAssumption
     DEF LockInv, TypeOK
<1>6. CASE PutTake(t)
  BY <1>6, <1>i, PageAllocAssumption DEF PutTake, Goto, pages, LockInv, TypeOK
<1>7. CASE PutPage(t)
  BY <1>7, <1>i DEF PutPage, Return, SegUnlock, LockInv, TypeOK
<1>8. CASE AuxPage(t)
  BY <1>8, <1>i DEF AuxPage, Goto, uncachepage, LockInv, TypeOK
<1>9. CASE LookMiss(t)
  BY <1>9, <1>i DEF LookMiss, Goto, SegUnlock, pages, LockInv, TypeOK
<1>10. CASE LookTake(t)
  BY <1>10, <1>i, PageAllocAssumption
     DEF LookTake, Goto, pages, LockInv, TypeOK
<1>11. CASE LookStale(t)
  BY <1>11, <1>i DEF LookStale, Goto, SegUnlock, pages, LockInv, TypeOK
<1>12. CASE LookPage(t)
  BY <1>12, <1>i DEF LookPage, Return, SegUnlock, LockInv, TypeOK
<1>13. CASE Cachepage(t)
  BY <1>13, <1>i DEF Cachepage, Return, locks, LockInv, TypeOK
<1>14. CASE PioLost(t)
  BY <1>14, <1>i DEF PioLost, Goto, locks, pages, LockInv, TypeOK
<1>15. CASE DupGiveUp(t)
  BY <1>15, <1>i
     DEF DupGiveUp, DupReturn, Return, SegUnlock, uncachepage, LockInv, TypeOK
<1>16. CASE DupNothing(t)
  BY <1>16, <1>i DEF DupNothing, DupReturn, Return, SegUnlock, LockInv, TypeOK
<1>17. CASE DupBusy(t)
  BY <1>17, <1>i DEF DupBusy, Goto, pages, LockInv, TypeOK
<1>18. CASE DupRelock(t)
  <2>1. /\ pc' = [pc EXCEPT ![t] = "dup"] /\ plock' = [plock EXCEPT ![pg[t]] = t]
        /\ plock[pg[t]] = NoProc /\ np' = np
        /\ \A u \in Procs : u # t => pg'[u] = pg[u]
        /\ pg[t] \in Pages
    BY <1>18, <1>i DEF DupRelock, Goto, pages, TypeOK, SlotInv, PickInv
  <2>2. /\ pg'[t] = pg[t] /\ palloc' = palloc
    BY <1>18 DEF DupRelock, Goto, pages
  <2>3. \A u \in Procs :
          /\ pc[u] \in {"dup", "dup_np", "dup_cache", "dup_done"} =>
               pg[u] \in Pages /\ plock[pg[u]] = u
          /\ pc[u] = "dup_cache" => np[u] \in Pages /\ plock[np[u]] = u
          /\ pc[u] \in {"new_pg", "put_pg", "aux_pg", "look_pg", "dup_np"} => palloc = u
    BY <1>i DEF SlotInv, PickInv, LockInv
  <2>4. plock \in [Pages -> Procs \cup {NoProc}] /\ pc \in [Procs -> PCs]
    BY <1>i DEF TypeOK
  <2> QED BY <2>1, <2>2, <2>3, <2>4, PageAllocAssumption DEF LockInv
<1>19. CASE DupNoMemory(t)
  BY <1>19, <1>i
     DEF DupNoMemory, DupReturn, Return, SegUnlock, uncachepage, LockInv,
         TypeOK
<1>20. CASE DupTake(t)
  BY <1>20, <1>i, PageAllocAssumption DEF DupTake, Goto, LockInv, TypeOK
<1>21. CASE DupLockNp(t)
  <2>1. /\ pc' = [pc EXCEPT ![t] = "dup_cache"] /\ plock' = [plock EXCEPT ![np[t]] = t]
        /\ plock[np[t]] = NoProc /\ np' = np
        /\ \A u \in Procs : u # t => pg'[u] = pg[u]
        /\ np[t] \in Pages
    BY <1>21, <1>i DEF DupLockNp, Goto, uncachepage, TypeOK, SlotInv, PickInv
  <2>2. pg' = pg /\ palloc' = NoProc /\ palloc = t /\ plock[pg[t]] = t
    BY <1>21, <1>i DEF DupLockNp, LockInv
  <2>3. \A u \in Procs :
          /\ pc[u] \in {"dup", "dup_np", "dup_cache", "dup_done"} =>
               pg[u] \in Pages /\ plock[pg[u]] = u
          /\ pc[u] = "dup_cache" => np[u] \in Pages /\ plock[np[u]] = u
          /\ pc[u] \in {"new_pg", "put_pg", "aux_pg", "look_pg", "dup_np"} => palloc = u
    BY <1>i DEF SlotInv, PickInv, LockInv
  <2>4. plock \in [Pages -> Procs \cup {NoProc}] /\ pc \in [Procs -> PCs]
    BY <1>i DEF TypeOK
  <2> QED BY <2>1, <2>2, <2>3, <2>4, PageAllocAssumption DEF LockInv
<1>22. CASE DupCache(t)
  <2>1. /\ slot[t] \in Holders /\ holds[slot[t]] = pg[t] /\ pg[t] \in Pages
        /\ np[t] \in Pages /\ ref[np[t]] = 0 /\ plock[np[t]] = t
    BY <1>22, <1>i DEF DupCache, SlotInv, PickInv, LockInv, Holders
  <2>2. pg[t] # np[t]
    BY <2>1, <1>i, Held
  <2> QED BY <1>22, <1>i, <2>1, <2>2 DEF DupCache, Goto, LockInv, TypeOK
<1>23. CASE DupDone(t)
  BY <1>23, <1>i
     DEF DupDone, DupReturn, Return, SegUnlock, uncachepage, LockInv, TypeOK
<1>24. CASE AuxTake(t)
  BY <1>24, <1>i, PageAllocAssumption DEF AuxTake, Goto, LockInv, TypeOK
<1>25. ASSUME NEW f \in Pages, LookHit(t, f)
      PROVE  LockInv'
  BY <1>25, <1>i DEF LookHit, Goto, locks, pages, LockInv, TypeOK
<1>26. ASSUME NEW s \in Slots, NewStart(t, s)
      PROVE  LockInv'
  BY <1>26, <1>i DEF NewStart, Enter, Goto, pages, LockInv, TypeOK
<1>27. ASSUME NEW s \in Slots, FreePte(t, s)
      PROVE  LockInv'
  BY <1>27, <1>i DEF FreePte, Enter, Goto, pages, LockInv, TypeOK
<1>28. ASSUME NEW s \in Slots, WriteFault(t, s)
      PROVE  LockInv'
  <2>0. CASE name[holds[s]] = NoName
    BY <1>28, <2>0, <1>i DEF WriteFault, LockInv
  <2>5. CASE name[holds[s]] # NoName
    <3>1. /\ pc' = [pc EXCEPT ![t] = "dup"] /\ plock' = [plock EXCEPT ![holds[s]] = t]
          /\ plock[holds[s]] = NoProc /\ np' = np
          /\ \A u \in Procs : u # t => pg'[u] = pg[u]
          /\ holds[s] \in Pages
      BY <1>28, <2>5, <1>i DEF WriteFault, Goto, TypeOK, Holders
    <3>2. pg'[t] = holds[s] /\ palloc' = palloc
      BY <1>28, <2>5, <1>i DEF WriteFault, TypeOK
    <3>3. \A u \in Procs :
            /\ pc[u] \in {"dup", "dup_np", "dup_cache", "dup_done"} =>
                 pg[u] \in Pages /\ plock[pg[u]] = u
            /\ pc[u] = "dup_cache" => np[u] \in Pages /\ plock[np[u]] = u
            /\ pc[u] \in {"new_pg", "put_pg", "aux_pg", "look_pg", "dup_np"} => palloc = u
      BY <1>i DEF SlotInv, PickInv, LockInv
    <3>4. plock \in [Pages -> Procs \cup {NoProc}] /\ pc \in [Procs -> PCs]
      BY <1>i DEF TypeOK
    <3> QED BY <3>1, <3>2, <3>3, <3>4, PageAllocAssumption DEF LockInv
  <2> QED BY <2>0, <2>5
<1>29. ASSUME NEW s \in Slots, NEW n \in Names, LookStart(t, s, n)
      PROVE  LockInv'
  BY <1>29, <1>i DEF LookStart, Enter, Goto, pages, LockInv, TypeOK
<1>30. ASSUME NEW s \in Slots, NEW d \in Slots, PteCpy(t, s, d)
      PROVE  LockInv'
  BY <1>30, <1>i DEF PteCpy, locks, locals, LockInv, TypeOK
<1> QED BY <1>1, <1>2, <1>3, <1>4, <1>5, <1>6, <1>7, <1>8, <1>9, <1>10,
  <1>11, <1>12, <1>13, <1>14, <1>15, <1>16, <1>17, <1>18, <1>19, <1>20,
  <1>21, <1>22, <1>23, <1>24, <1>25, <1>26, <1>27, <1>28, <1>29, <1>30 DEF
  Step, Call

-----------------------------------------------------------------------------
(* The free list.                                                          *)
LEMMA FreeStep ==
  ASSUME IndInv, NEW t \in Procs, Step(t) \/ Call(t)
  PROVE  FreeIsUnused'
<1>f. FreeIsUnused
  BY DEF IndInv
<1>i. /\ TypeOK /\ RefExact /\ SlotInv /\ PickInv
      /\ freelist \in Seq(Pages) /\ IsInjective(freelist)
      /\ HighWater \in Nat \ {0}
  BY PageAllocAssumption DEF IndInv, TypeOK, FreeIsUnused
<1>1. CASE NewTake(t)
  <2>1. /\ IsInjective(freelist') /\ Head(freelist) \in Pages
        /\ \A p : IsFree(p)' <=> p # Head(freelist) /\ IsFree(p)
    BY <1>1, <1>i, FreeTake DEF NewTake, CanAllocate, freecount
  <2>2. /\ ref' = ref /\ pg' = [pg EXCEPT ![t] = Head(freelist)]
        /\ pc' = [pc EXCEPT ![t] = "new_pg"] /\ pc[t] \notin {"new_pg", "aux_pg"}
    BY <1>1 DEF NewTake, Goto
  <2>3. \A u \in Procs : u # t => pc'[u] = pc[u] /\ pg'[u] = pg[u]
    BY <2>2, <1>i DEF TypeOK
  <2>4. pc'[t] = "new_pg" /\ pg'[t] = Head(freelist)
    BY <2>2, <1>i DEF TypeOK
  <2> QED BY <2>1, <2>2, <2>3, <2>4, <1>f DEF FreeIsUnused
<1>2. CASE NewMustWait(t)
  <2>1. UNCHANGED <<freelist, ref>> /\ pc[t] \notin {"new_pg", "aux_pg"}
    BY <1>2 DEF NewMustWait, Goto, SegUnlock, CanAllocate, pages
  <2>2. \A u \in Procs : u # t => pc'[u] = pc[u] /\ pg'[u] = pg[u]
    BY <1>2, <1>i DEF NewMustWait, Goto, SegUnlock, CanAllocate, pages, TypeOK
  <2> QED BY <2>1, <2>2, <1>f DEF FreeIsUnused, IsFree
<1>3. CASE NewQlock(t)
  <2>1. UNCHANGED <<freelist, ref>> /\ pc[t] \notin {"new_pg", "aux_pg"}
    BY <1>3 DEF NewQlock, Goto, pages
  <2>2. \A u \in Procs : u # t => pc'[u] = pc[u] /\ pg'[u] = pg[u]
    BY <1>3, <1>i DEF NewQlock, Goto, pages, TypeOK
  <2> QED BY <2>1, <2>2, <1>f DEF FreeIsUnused, IsFree
<1>4. CASE NewWake(t)
  <2>1. UNCHANGED <<freelist, ref>> /\ pc[t] \notin {"new_pg", "aux_pg"}
    BY <1>4 DEF NewWake, Return, Goto, pages
  <2>2. \A u \in Procs : u # t => pc'[u] = pc[u] /\ pg'[u] = pg[u]
    BY <1>4, <1>i DEF NewWake, Return, Goto, pages, TypeOK
  <2> QED BY <2>1, <2>2, <1>f DEF FreeIsUnused, IsFree
<1>5. CASE NewPage(t)
  <2>1. /\ pg[t] \in Pages /\ ~IsFree(pg[t]) /\ freelist' = freelist
        /\ ref' = [ref EXCEPT ![pg[t]] = ref[pg[t]] + 1]
    BY <1>5, <1>i DEF NewPage, PickInv
  <2>2. \A u \in Procs : u # t => pc'[u] = pc[u] /\ pg'[u] = pg[u]
    BY <1>5, <1>i DEF NewPage, Return, Goto, SegUnlock, uncachepage, TypeOK
  <2>3. /\ ref'[pg[t]] # 0
        /\ \A p \in Pages : p # pg[t] => ref'[p] = ref[p]
    BY <2>1, <1>i DEF TypeOK
  <2>4. \A p : IsFree(p)' <=> IsFree(p)
    BY <2>1 DEF IsFree
  <2> QED BY <2>1, <2>2, <2>3, <2>4, <1>f DEF FreeIsUnused
<1>6. CASE PutTake(t)
  <2>1. UNCHANGED <<freelist, ref>> /\ pc[t] \notin {"new_pg", "aux_pg"}
    BY <1>6 DEF PutTake, Goto, pages
  <2>2. \A u \in Procs : u # t => pc'[u] = pc[u] /\ pg'[u] = pg[u]
    BY <1>6, <1>i DEF PutTake, Goto, pages, TypeOK
  <2> QED BY <2>1, <2>2, <1>f DEF FreeIsUnused, IsFree
<1>7. CASE PutPage(t)
  <2> DEFINE p == pg[t]
  <2>1. slot[t] \in Holders /\ p \in Pages /\ holds[slot[t]] = p
    BY <1>7, <1>i DEF PutPage, SlotInv, Holders
  <2>2. ref[p] > 0 /\ pc[t] = "put_pg"
    BY <1>7, <2>1, <1>i, Held DEF PutPage
  <2>3. ~IsFree(p)
    BY <2>1, <2>2, <1>f DEF FreeIsUnused
  <2>4. ref' = [ref EXCEPT ![p] = IF ref[p] > 0 THEN ref[p] - 1 ELSE ref[p]]
    BY <1>7 DEF PutPage
  <2>5. ref'[p] = ref[p] - 1 /\ \A q \in Pages : q # p => ref'[q] = ref[q]
    BY <2>1, <2>2, <2>4, <1>i DEF TypeOK
  <2>6. \A u \in Procs : u # t => pc'[u] = pc[u] /\ pg'[u] = pg[u]
    BY <1>7, <1>i DEF PutPage, Return, TypeOK
  <2>7. CASE ref[p] # 1
    <3>1. freelist' = freelist /\ ref'[p] # 0
      BY <1>7, <2>7, <2>1, <2>2, <2>5, <1>i DEF PutPage, TypeOK
    <3> QED BY <3>1, <2>2, <2>3, <2>5, <2>6, <1>f DEF FreeIsUnused, IsFree
  <2>8. CASE ref[p] = 1
    <3>1. pagechaintail(p) \/ pagechainhead(p)
      BY <1>7, <2>8 DEF PutPage
    <3>2. IsInjective(freelist') /\ \A q : IsFree(q)' <=> q = p \/ IsFree(q)
      BY <3>1, <2>1, <2>3, <1>i, FreeTail, FreeHead
    <3>3. ref'[p] = 0
      BY <2>5, <2>8
    <3> QED BY <3>2, <3>3, <2>2, <2>5, <2>6, <1>f DEF FreeIsUnused
  <2> QED BY <2>7, <2>8
<1>8. CASE AuxPage(t)
  <2>1. /\ pg[t] \in Pages /\ ~IsFree(pg[t]) /\ freelist' = freelist
        /\ ref' = [ref EXCEPT ![pg[t]] = ref[pg[t]] + 1]
    BY <1>8, <1>i DEF AuxPage, PickInv
  <2>2. \A u \in Procs : u # t => pc'[u] = pc[u] /\ pg'[u] = pg[u]
    BY <1>8, <1>i DEF AuxPage, Goto, uncachepage, TypeOK
  <2>3. /\ ref'[pg[t]] # 0
        /\ \A p \in Pages : p # pg[t] => ref'[p] = ref[p]
    BY <2>1, <1>i DEF TypeOK
  <2>4. \A p : IsFree(p)' <=> IsFree(p)
    BY <2>1 DEF IsFree
  <2> QED BY <2>1, <2>2, <2>3, <2>4, <1>f DEF FreeIsUnused
<1>9. CASE LookMiss(t)
  <2>1. UNCHANGED <<freelist, ref>> /\ pc[t] \notin {"new_pg", "aux_pg"}
    BY <1>9 DEF LookMiss, Goto, SegUnlock, pages
  <2>2. \A u \in Procs : u # t => pc'[u] = pc[u] /\ pg'[u] = pg[u]
    BY <1>9, <1>i DEF LookMiss, Goto, SegUnlock, pages, TypeOK
  <2> QED BY <2>1, <2>2, <1>f DEF FreeIsUnused, IsFree
<1>10. CASE LookTake(t)
  <2>1. UNCHANGED <<freelist, ref>> /\ pc[t] \notin {"new_pg", "aux_pg"}
    BY <1>10 DEF LookTake, Goto, pages
  <2>2. \A u \in Procs : u # t => pc'[u] = pc[u] /\ pg'[u] = pg[u]
    BY <1>10, <1>i DEF LookTake, Goto, pages, TypeOK
  <2> QED BY <2>1, <2>2, <1>f DEF FreeIsUnused, IsFree
<1>11. CASE LookStale(t)
  <2>1. UNCHANGED <<freelist, ref>> /\ pc[t] \notin {"new_pg", "aux_pg"}
    BY <1>11 DEF LookStale, Goto, SegUnlock, pages
  <2>2. \A u \in Procs : u # t => pc'[u] = pc[u] /\ pg'[u] = pg[u]
    BY <1>11, <1>i DEF LookStale, Goto, SegUnlock, pages, TypeOK
  <2> QED BY <2>1, <2>2, <1>f DEF FreeIsUnused, IsFree
<1>12. CASE LookPage(t)
  <2>1. /\ pg[t] \in Pages /\ ref' = [ref EXCEPT ![pg[t]] = ref[pg[t]] + 1]
        /\ pc[t] = "look_pg"
    BY <1>12, <1>i DEF LookPage, PickInv
  <2>2. \A u \in Procs : u # t => pc'[u] = pc[u] /\ pg'[u] = pg[u]
    BY <1>12, <1>i DEF LookPage, Return, SegUnlock, TypeOK
  <2>3. /\ ref'[pg[t]] # 0
        /\ \A p \in Pages : p # pg[t] => ref'[p] = ref[p]
    BY <2>1, <1>i DEF TypeOK
  <2>4. /\ IsInjective(freelist')
        /\ \A p \in Pages : IsFree(p)' <=> p # pg[t] /\ IsFree(p)
    <3>1. CASE ref[pg[t]] = 0
      <4>1. PICK i \in DOMAIN freelist : freelist[i] = pg[t] /\ pageunchain(i)
        BY <1>12, <3>1 DEF LookPage
      <4>2. i \in 1 .. freecount
        BY <4>1, <1>i, LenProperties DEF freecount
      <4>3. /\ IsInjective(freelist')
            /\ \A p : IsFree(p)' <=> p # freelist[i] /\ IsFree(p)
        BY <4>1, <4>2, <1>i, FreeUnchain
      <4> QED BY <4>1, <4>3
    <3>2. CASE ref[pg[t]] # 0
      <4>1. freelist' = freelist /\ ~IsFree(pg[t])
        BY <1>12, <3>2, <2>1, <1>f DEF LookPage, FreeIsUnused
      <4> QED BY <4>1, <1>i DEF IsFree
    <3> QED BY <3>1, <3>2
  <2> QED BY <2>1, <2>2, <2>3, <2>4, <1>f DEF FreeIsUnused
<1>13. CASE Cachepage(t)
  <2>1. UNCHANGED <<freelist, ref>> /\ pc[t] \notin {"new_pg", "aux_pg"}
    BY <1>13 DEF Cachepage, Return, locks
  <2>2. \A u \in Procs : u # t => pc'[u] = pc[u] /\ pg'[u] = pg[u]
    BY <1>13, <1>i DEF Cachepage, Return, locks, TypeOK
  <2> QED BY <2>1, <2>2, <1>f DEF FreeIsUnused, IsFree
<1>14. CASE PioLost(t)
  <2>1. UNCHANGED <<freelist, ref>> /\ pc[t] \notin {"new_pg", "aux_pg"}
    BY <1>14 DEF PioLost, Goto, locks, pages
  <2>2. \A u \in Procs : u # t => pc'[u] = pc[u] /\ pg'[u] = pg[u]
    BY <1>14, <1>i DEF PioLost, Goto, locks, pages, TypeOK
  <2> QED BY <2>1, <2>2, <1>f DEF FreeIsUnused, IsFree
<1>15. CASE DupGiveUp(t)
  <2>1. UNCHANGED <<freelist, ref>> /\ pc[t] \notin {"new_pg", "aux_pg"}
    BY <1>15 DEF DupGiveUp, DupReturn, Return, SegUnlock, uncachepage
  <2>2. \A u \in Procs : u # t => pc'[u] = pc[u] /\ pg'[u] = pg[u]
    BY <1>15, <1>i
       DEF DupGiveUp, DupReturn, Return, SegUnlock, uncachepage, TypeOK
  <2> QED BY <2>1, <2>2, <1>f DEF FreeIsUnused, IsFree
<1>16. CASE DupNothing(t)
  <2>1. UNCHANGED <<freelist, ref>> /\ pc[t] \notin {"new_pg", "aux_pg"}
    BY <1>16 DEF DupNothing, DupReturn, Return, SegUnlock
  <2>2. \A u \in Procs : u # t => pc'[u] = pc[u] /\ pg'[u] = pg[u]
    BY <1>16, <1>i DEF DupNothing, DupReturn, Return, SegUnlock, TypeOK
  <2> QED BY <2>1, <2>2, <1>f DEF FreeIsUnused, IsFree
<1>17. CASE DupBusy(t)
  <2>1. UNCHANGED <<freelist, ref>> /\ pc[t] \notin {"new_pg", "aux_pg"}
    BY <1>17 DEF DupBusy, Goto, pages
  <2>2. \A u \in Procs : u # t => pc'[u] = pc[u] /\ pg'[u] = pg[u]
    BY <1>17, <1>i DEF DupBusy, Goto, pages, TypeOK
  <2> QED BY <2>1, <2>2, <1>f DEF FreeIsUnused, IsFree
<1>18. CASE DupRelock(t)
  <2>1. UNCHANGED <<freelist, ref>> /\ pc[t] \notin {"new_pg", "aux_pg"}
    BY <1>18 DEF DupRelock, Goto, pages
  <2>2. \A u \in Procs : u # t => pc'[u] = pc[u] /\ pg'[u] = pg[u]
    BY <1>18, <1>i DEF DupRelock, Goto, pages, TypeOK
  <2> QED BY <2>1, <2>2, <1>f DEF FreeIsUnused, IsFree
<1>19. CASE DupNoMemory(t)
  <2>1. UNCHANGED <<freelist, ref>> /\ pc[t] \notin {"new_pg", "aux_pg"}
    BY <1>19 DEF DupNoMemory, DupReturn, Return, SegUnlock, uncachepage
  <2>2. \A u \in Procs : u # t => pc'[u] = pc[u] /\ pg'[u] = pg[u]
    BY <1>19, <1>i
       DEF DupNoMemory, DupReturn, Return, SegUnlock, uncachepage, TypeOK
  <2> QED BY <2>1, <2>2, <1>f DEF FreeIsUnused, IsFree
<1>20. CASE DupTake(t)
  <2>1. IsInjective(freelist') /\ \A p : IsFree(p)' <=> IsFree(p)
    BY <1>20, <1>i, FreeRotate DEF DupTake, freecount
  <2>2. ref' = ref /\ pg' = pg /\ pc[t] \notin {"new_pg", "aux_pg"}
    BY <1>20 DEF DupTake
  <2>3. \A u \in Procs : u # t => pc'[u] = pc[u]
    BY <1>20, <1>i DEF DupTake, Goto, TypeOK
  <2> QED BY <2>1, <2>2, <2>3, <1>f DEF FreeIsUnused
<1>21. CASE DupLockNp(t)
  <2>1. UNCHANGED <<freelist, ref>> /\ pc[t] \notin {"new_pg", "aux_pg"}
    BY <1>21 DEF DupLockNp, Goto, uncachepage
  <2>2. \A u \in Procs : u # t => pc'[u] = pc[u] /\ pg'[u] = pg[u]
    BY <1>21, <1>i DEF DupLockNp, Goto, uncachepage, TypeOK
  <2> QED BY <2>1, <2>2, <1>f DEF FreeIsUnused, IsFree
<1>22. CASE DupCache(t)
  <2>1. UNCHANGED <<freelist, ref>> /\ pc[t] \notin {"new_pg", "aux_pg"}
    BY <1>22 DEF DupCache, Goto
  <2>2. \A u \in Procs : u # t => pc'[u] = pc[u] /\ pg'[u] = pg[u]
    BY <1>22, <1>i DEF DupCache, Goto, TypeOK
  <2> QED BY <2>1, <2>2, <1>f DEF FreeIsUnused, IsFree
<1>23. CASE DupDone(t)
  <2>1. UNCHANGED <<freelist, ref>> /\ pc[t] \notin {"new_pg", "aux_pg"}
    BY <1>23 DEF DupDone, DupReturn, Return, SegUnlock, uncachepage
  <2>2. \A u \in Procs : u # t => pc'[u] = pc[u] /\ pg'[u] = pg[u]
    BY <1>23, <1>i
       DEF DupDone, DupReturn, Return, SegUnlock, uncachepage, TypeOK
  <2> QED BY <2>1, <2>2, <1>f DEF FreeIsUnused, IsFree
<1>24. CASE AuxTake(t)
  <2>1. /\ IsInjective(freelist') /\ Head(freelist) \in Pages
        /\ \A p : IsFree(p)' <=> p # Head(freelist) /\ IsFree(p)
    BY <1>24, <1>i, FreeTake DEF AuxTake, CanAllocate, freecount
  <2>2. /\ ref' = ref /\ pg' = [pg EXCEPT ![t] = Head(freelist)]
        /\ pc' = [pc EXCEPT ![t] = "aux_pg"] /\ pc[t] \notin {"new_pg", "aux_pg"}
    BY <1>24 DEF AuxTake, Goto
  <2>3. \A u \in Procs : u # t => pc'[u] = pc[u] /\ pg'[u] = pg[u]
    BY <2>2, <1>i DEF TypeOK
  <2>4. pc'[t] = "aux_pg" /\ pg'[t] = Head(freelist)
    BY <2>2, <1>i DEF TypeOK
  <2> QED BY <2>1, <2>2, <2>3, <2>4, <1>f DEF FreeIsUnused
<1>25. ASSUME NEW f \in Pages, LookHit(t, f)
      PROVE  FreeIsUnused'
  <2>1. UNCHANGED <<freelist, ref>> /\ pc[t] \notin {"new_pg", "aux_pg"}
    BY <1>25 DEF LookHit, Goto, locks, pages
  <2>2. \A u \in Procs : u # t => pc'[u] = pc[u] /\ pg'[u] = pg[u]
    BY <1>25, <1>i DEF LookHit, Goto, locks, pages, TypeOK
  <2> QED BY <2>1, <2>2, <1>f DEF FreeIsUnused, IsFree
<1>26. ASSUME NEW s \in Slots, NewStart(t, s)
      PROVE  FreeIsUnused'
  <2>1. UNCHANGED <<freelist, ref>> /\ pc[t] \notin {"new_pg", "aux_pg"}
    BY <1>26 DEF NewStart, Enter, Goto, pages
  <2>2. \A u \in Procs : u # t => pc'[u] = pc[u] /\ pg'[u] = pg[u]
    BY <1>26, <1>i DEF NewStart, Enter, Goto, pages, TypeOK
  <2> QED BY <2>1, <2>2, <1>f DEF FreeIsUnused, IsFree
<1>27. ASSUME NEW s \in Slots, FreePte(t, s)
      PROVE  FreeIsUnused'
  <2>1. UNCHANGED <<freelist, ref>> /\ pc[t] \notin {"new_pg", "aux_pg"}
    BY <1>27 DEF FreePte, Enter, Goto, pages
  <2>2. \A u \in Procs : u # t => pc'[u] = pc[u] /\ pg'[u] = pg[u]
    BY <1>27, <1>i DEF FreePte, Enter, Goto, pages, TypeOK
  <2> QED BY <2>1, <2>2, <1>f DEF FreeIsUnused, IsFree
<1>28. ASSUME NEW s \in Slots, WriteFault(t, s)
      PROVE  FreeIsUnused'
  <2>1. UNCHANGED <<freelist, ref>> /\ pc[t] \notin {"new_pg", "aux_pg"}
    BY <1>28 DEF WriteFault, Goto
  <2>2. \A u \in Procs : u # t => pc'[u] = pc[u] /\ pg'[u] = pg[u]
    BY <1>28, <1>i DEF WriteFault, Goto, TypeOK
  <2> QED BY <2>1, <2>2, <1>f DEF FreeIsUnused, IsFree
<1>29. ASSUME NEW s \in Slots, NEW n \in Names, LookStart(t, s, n)
      PROVE  FreeIsUnused'
  <2>1. UNCHANGED <<freelist, ref>> /\ pc[t] \notin {"new_pg", "aux_pg"}
    BY <1>29 DEF LookStart, Enter, Goto, pages
  <2>2. \A u \in Procs : u # t => pc'[u] = pc[u] /\ pg'[u] = pg[u]
    BY <1>29, <1>i DEF LookStart, Enter, Goto, pages, TypeOK
  <2> QED BY <2>1, <2>2, <1>f DEF FreeIsUnused, IsFree
<1>30. ASSUME NEW s \in Slots, NEW d \in Slots, PteCpy(t, s, d)
      PROVE  FreeIsUnused'
  <2>1. holds[s] \in Pages /\ s \in Holders
    BY <1>30, <1>i DEF PteCpy, TypeOK, Holders
  <2>2. ref[holds[s]] > 0
    BY <2>1, <1>i, Held
  <2>3. /\ ref' = [ref EXCEPT ![holds[s]] = ref[holds[s]] + 1]
        /\ UNCHANGED <<freelist, pc, pg>>
    BY <1>30 DEF PteCpy, locals
  <2>4. \A p \in Pages : ref'[p] = 0 <=> ref[p] = 0
    BY <2>1, <2>2, <2>3, <1>i DEF TypeOK
  <2> QED BY <2>3, <2>4, <1>f DEF FreeIsUnused, IsFree
<1> QED BY <1>1, <1>2, <1>3, <1>4, <1>5, <1>6, <1>7, <1>8, <1>9, <1>10,
  <1>11, <1>12, <1>13, <1>14, <1>15, <1>16, <1>17, <1>18, <1>19, <1>20,
  <1>21, <1>22, <1>23, <1>24, <1>25, <1>26, <1>27, <1>28, <1>29, <1>30 DEF
  Step, Call

-----------------------------------------------------------------------------
(* The pages picked from the free list.                                    *)

LEMMA PickFrom ==
  ASSUME PickInv, NEW t \in Procs,
         \A u \in Procs : u # t =>
           /\ pc'[u] = pc[u] /\ pg'[u] = pg[u] /\ np'[u] = np[u]
           /\ \/ UNCHANGED <<freelist, ref>>
              \/ pc[u] \notin {"new_pg", "aux_pg", "dup_np"}
           /\ pc[u] = "dup_cache" => ref'[np[u]] = 0 /\ name'[np[u]] = NoName,
         pc'[t] \in {"new_pg", "aux_pg"} =>
           pg'[t] \in Pages /\ ~IsFree(pg[t])' /\ ref'[pg'[t]] = 0,
         pc'[t] \in {"look_lock", "look_pg"} => pg'[t] \in Pages,
         pc'[t] = "dup_np" => np'[t] \in Pages /\ IsFree(np[t])',
         pc'[t] = "dup_cache" =>
           np'[t] \in Pages /\ ref'[np'[t]] = 0 /\ name'[np'[t]] = NoName
  PROVE  PickInv'
BY DEF PickInv, IsFree

LEMMA PickStep ==
  ASSUME IndInv, NEW t \in Procs, Step(t) \/ Call(t)
  PROVE  PickInv'
<1>i. /\ TypeOK /\ RefExact /\ FreeIsUnused
      /\ LockInv /\ SlotInv /\ OwnInv /\ PickInv
      /\ freelist \in Seq(Pages) /\ IsInjective(freelist)
      /\ HighWater \in Nat \ {0} /\ NoProc \notin Procs /\ NoPage \notin Pages
  BY PageAllocAssumption DEF IndInv, TypeOK, FreeIsUnused
<1>1. CASE NewTake(t)
  <2>1. /\ Head(freelist) \in Pages /\ IsFree(Head(freelist))
        /\ \A p : IsFree(p)' <=> p # Head(freelist) /\ IsFree(p)
    BY <1>1, <1>i, FreeTake DEF NewTake, CanAllocate, freecount
  <2>6. /\ pc'[t] = "new_pg" /\ pg'[t] = Head(freelist) /\ ref' = ref
        /\ ~IsFree(pg[t])' /\ ref[Head(freelist)] = 0
    BY <1>1, <2>1, <1>i DEF NewTake, Goto, CanAllocate, TypeOK, FreeIsUnused
  <2>7. \A u \in Procs : u # t /\ pc[u] = "dup_cache" =>
          ref'[np[u]] = 0 /\ name'[np[u]] = NoName
    BY <1>1, <1>i DEF NewTake, PickInv
  <2>8. \A u \in Procs : u # t => pc[u] \notin {"new_pg", "aux_pg", "dup_np"}
    BY <1>1, <1>i DEF NewTake, LockInv
  <2>9. \A u \in Procs : u # t => pc'[u] = pc[u] /\ pg'[u] = pg[u] /\ np'[u] = np[u]
    BY <1>1, <1>i DEF NewTake, Goto, CanAllocate, TypeOK
  <2> QED BY <1>i, <2>1, <2>6, <2>7, <2>8, <2>9, PickFrom
<1>2. CASE NewMustWait(t)
  BY <1>2, <1>i
     DEF NewMustWait, Goto, SegUnlock, CanAllocate, pages, IsFree, PickInv,
         TypeOK
<1>3. CASE NewQlock(t)
  BY <1>3, <1>i DEF NewQlock, Goto, pages, IsFree, PickInv, TypeOK
<1>4. CASE NewWake(t)
  <2>1. UNCHANGED <<freelist, ref, name>> /\ pc'[t] \in {"idle", "new"}
    BY <1>4, <1>i DEF NewWake, Return, Goto, pages, TypeOK
  <2>9. \A u \in Procs : u # t => pc'[u] = pc[u] /\ pg'[u] = pg[u] /\ np'[u] = np[u]
    BY <1>4, <1>i DEF NewWake, Return, Goto, pages, TypeOK
  <2> QED BY <1>i, <2>1, <2>9, PickFrom DEF PickInv
<1>5. CASE NewPage(t)
  <2>1. plock[pg[t]] = NoProc /\ pg[t] \in Pages /\ pc'[t] \in {"idle", "pio", "put"}
    BY <1>5, <1>i
       DEF NewPage, Return, Goto, SegUnlock, uncachepage, TypeOK, PickInv
  <2>2. \A u \in Procs : pc[u] = "dup_cache" => np[u] \in Pages /\ np[u] # pg[t]
    BY <2>1, <1>i DEF LockInv, PickInv
  <2>7. \A u \in Procs : u # t /\ pc[u] = "dup_cache" =>
          ref'[np[u]] = 0 /\ name'[np[u]] = NoName
    BY <1>5, <2>1, <2>2, <1>i DEF NewPage, uncachepage, PickInv, TypeOK
  <2>8. \A u \in Procs : u # t => pc[u] \notin {"new_pg", "aux_pg", "dup_np"}
    BY <1>5, <1>i DEF NewPage, LockInv
  <2>9. \A u \in Procs : u # t => pc'[u] = pc[u] /\ pg'[u] = pg[u] /\ np'[u] = np[u]
    BY <1>5, <1>i DEF NewPage, Return, Goto, SegUnlock, uncachepage, TypeOK
  <2> QED BY <1>i, <2>1, <2>7, <2>8, <2>9, PickFrom
<1>6. CASE PutTake(t)
  BY <1>6, <1>i DEF PutTake, Goto, pages, IsFree, PickInv, TypeOK
<1>7. CASE PutPage(t)
  <2>1. plock[pg[t]] = NoProc /\ pg[t] \in Pages /\ pc'[t] \in {"idle", "pio", "put"}
    BY <1>7, <1>i DEF PutPage, Return, SegUnlock, TypeOK, SlotInv
  <2>2. \A u \in Procs : pc[u] = "dup_cache" => np[u] \in Pages /\ np[u] # pg[t]
    BY <2>1, <1>i DEF LockInv, PickInv
  <2>7. \A u \in Procs : u # t /\ pc[u] = "dup_cache" =>
          ref'[np[u]] = 0 /\ name'[np[u]] = NoName
    BY <1>7, <2>1, <2>2, <1>i DEF PutPage, uncachepage, PickInv, TypeOK
  <2>8. \A u \in Procs : u # t => pc[u] \notin {"new_pg", "aux_pg", "dup_np"}
    BY <1>7, <1>i DEF PutPage, LockInv
  <2>9. \A u \in Procs : u # t => pc'[u] = pc[u] /\ pg'[u] = pg[u] /\ np'[u] = np[u]
    BY <1>7, <1>i DEF PutPage, Return, SegUnlock, TypeOK
  <2> QED BY <1>i, <2>1, <2>7, <2>8, <2>9, PickFrom
<1>8. CASE AuxPage(t)
  <2>1. plock[pg[t]] = NoProc /\ pg[t] \in Pages /\ pc'[t] \in {"idle", "pio", "put"}
    BY <1>8, <1>i DEF AuxPage, Goto, uncachepage, TypeOK, PickInv
  <2>2. \A u \in Procs : pc[u] = "dup_cache" => np[u] \in Pages /\ np[u] # pg[t]
    BY <2>1, <1>i DEF LockInv, PickInv
  <2>7. \A u \in Procs : u # t /\ pc[u] = "dup_cache" =>
          ref'[np[u]] = 0 /\ name'[np[u]] = NoName
    BY <1>8, <2>1, <2>2, <1>i DEF AuxPage, uncachepage, PickInv, TypeOK
  <2>8. \A u \in Procs : u # t => pc[u] \notin {"new_pg", "aux_pg", "dup_np"}
    BY <1>8, <1>i DEF AuxPage, LockInv
  <2>9. \A u \in Procs : u # t => pc'[u] = pc[u] /\ pg'[u] = pg[u] /\ np'[u] = np[u]
    BY <1>8, <1>i DEF AuxPage, Goto, uncachepage, TypeOK
  <2> QED BY <1>i, <2>1, <2>7, <2>8, <2>9, PickFrom
<1>9. CASE LookMiss(t)
  BY <1>9, <1>i DEF LookMiss, Goto, SegUnlock, pages, IsFree, PickInv, TypeOK
<1>10. CASE LookTake(t)
  BY <1>10, <1>i DEF LookTake, Goto, pages, IsFree, PickInv, TypeOK
<1>11. CASE LookStale(t)
  BY <1>11, <1>i DEF LookStale, Goto, SegUnlock, pages, IsFree, PickInv, TypeOK
<1>12. CASE LookPage(t)
  <2>1. plock[pg[t]] = NoProc /\ pg[t] \in Pages /\ pc'[t] \in {"idle", "pio", "put"}
    BY <1>12, <1>i DEF LookPage, Return, SegUnlock, TypeOK, PickInv
  <2>2. \A u \in Procs : pc[u] = "dup_cache" => np[u] \in Pages /\ np[u] # pg[t]
    BY <2>1, <1>i DEF LockInv, PickInv
  <2>7. \A u \in Procs : u # t /\ pc[u] = "dup_cache" =>
          ref'[np[u]] = 0 /\ name'[np[u]] = NoName
    BY <1>12, <2>1, <2>2, <1>i DEF LookPage, uncachepage, PickInv, TypeOK
  <2>8. \A u \in Procs : u # t => pc[u] \notin {"new_pg", "aux_pg", "dup_np"}
    BY <1>12, <1>i DEF LookPage, LockInv
  <2>9. \A u \in Procs : u # t => pc'[u] = pc[u] /\ pg'[u] = pg[u] /\ np'[u] = np[u]
    BY <1>12, <1>i DEF LookPage, Return, SegUnlock, TypeOK
  <2> QED BY <1>i, <2>1, <2>7, <2>8, <2>9, PickFrom
<1>13. CASE Cachepage(t)
  <2>1. holds[t] \in Pages /\ ref[holds[t]] = 1 /\ UNCHANGED <<freelist, ref>>
    BY <1>13, <1>i DEF Cachepage, OwnInv
  <2>2. name' = [name EXCEPT ![holds[t]] = want[t]] /\ pc'[t] = "idle"
    BY <1>13, <1>i DEF Cachepage, Return, TypeOK
  <2>7. \A u \in Procs : u # t /\ pc[u] = "dup_cache" =>
          ref'[np[u]] = 0 /\ name'[np[u]] = NoName
    BY <2>1, <2>2, <1>i DEF PickInv, TypeOK
  <2>9. \A u \in Procs : u # t => pc'[u] = pc[u] /\ pg'[u] = pg[u] /\ np'[u] = np[u]
    BY <1>13, <1>i DEF Cachepage, Return, locks, TypeOK
  <2> QED BY <1>i, <2>1, <2>2, <2>7, <2>9, PickFrom
<1>14. CASE PioLost(t)
  BY <1>14, <1>i DEF PioLost, Goto, locks, pages, IsFree, PickInv, TypeOK
<1>15. CASE DupGiveUp(t)
  BY <1>15, <1>i
     DEF DupGiveUp, DupReturn, Return, SegUnlock, uncachepage, IsFree,
         PickInv, TypeOK
<1>16. CASE DupNothing(t)
  BY <1>16, <1>i
     DEF DupNothing, DupReturn, Return, SegUnlock, IsFree, PickInv, TypeOK
<1>17. CASE DupBusy(t)
  BY <1>17, <1>i DEF DupBusy, Goto, pages, IsFree, PickInv, TypeOK
<1>18. CASE DupRelock(t)
  BY <1>18, <1>i DEF DupRelock, Goto, pages, IsFree, PickInv, TypeOK
<1>19. CASE DupNoMemory(t)
  BY <1>19, <1>i
     DEF DupNoMemory, DupReturn, Return, SegUnlock, uncachepage, IsFree,
         PickInv, TypeOK
<1>20. CASE DupTake(t)
  <2>1. /\ Head(freelist) \in Pages /\ IsFree(Head(freelist))
        /\ \A p : IsFree(p)' <=> IsFree(p)
    BY <1>20, <1>i, FreeRotate DEF DupTake, freecount
  <2>6. pc'[t] = "dup_np" /\ np'[t] = Head(freelist)
    BY <1>20, <2>1, <1>i DEF DupTake, Goto, TypeOK
  <2>5. IsFree(np[t])'
    BY <2>1, <2>6
  <2>7. \A u \in Procs : u # t /\ pc[u] = "dup_cache" =>
          ref'[np[u]] = 0 /\ name'[np[u]] = NoName
    BY <1>20, <1>i DEF DupTake, PickInv
  <2>8. \A u \in Procs : u # t => pc[u] \notin {"new_pg", "aux_pg", "dup_np"}
    BY <1>20, <1>i DEF DupTake, LockInv
  <2>9. \A u \in Procs : u # t => pc'[u] = pc[u] /\ pg'[u] = pg[u] /\ np'[u] = np[u]
    BY <1>20, <1>i DEF DupTake, Goto, TypeOK
  <2> QED BY <1>i, <2>1, <2>5, <2>6, <2>7, <2>8, <2>9, PickFrom
<1>21. CASE DupLockNp(t)
  <2>1. np[t] \in Pages /\ IsFree(np[t]) /\ ref[np[t]] = 0
    BY <1>21, <1>i DEF DupLockNp, PickInv, FreeIsUnused
  <2>2. /\ name' = [name EXCEPT ![np[t]] = NoName] /\ ref' = ref
        /\ pc'[t] = "dup_cache" /\ np' = np
    BY <1>21, <1>i DEF DupLockNp, Goto, uncachepage, TypeOK
  <2>7. \A u \in Procs : u # t /\ pc[u] = "dup_cache" =>
          ref'[np[u]] = 0 /\ name'[np[u]] = NoName
    BY <2>1, <2>2, <1>i DEF PickInv, TypeOK
  <2>8. \A u \in Procs : u # t => pc[u] \notin {"new_pg", "aux_pg", "dup_np"}
    BY <1>21, <1>i DEF DupLockNp, LockInv
  <2>9. \A u \in Procs : u # t => pc'[u] = pc[u] /\ pg'[u] = pg[u] /\ np'[u] = np[u]
    BY <1>21, <1>i DEF DupLockNp, Goto, uncachepage, TypeOK
  <2>6. np'[t] \in Pages /\ ref'[np'[t]] = 0 /\ name'[np'[t]] = NoName
    BY <2>1, <2>2, <1>i DEF TypeOK
  <2> QED BY <1>i, <2>2, <2>6, <2>7, <2>8, <2>9, PickFrom
<1>22. CASE DupCache(t)
  <2>1. np[t] \in Pages /\ plock[np[t]] = t
    BY <1>22, <1>i DEF DupCache, PickInv, LockInv
  <2>2. /\ name' = [name EXCEPT ![np[t]] = name[pg[t]]] /\ UNCHANGED <<freelist, ref>>
        /\ pc'[t] = "dup_done"
    BY <1>22, <1>i DEF DupCache, Goto, TypeOK
  <2>3. \A u \in Procs : u # t /\ pc[u] = "dup_cache" => np[u] \in Pages /\ np[u] # np[t]
    BY <2>1, <1>i DEF LockInv, PickInv
  <2>7. \A u \in Procs : u # t /\ pc[u] = "dup_cache" =>
          ref'[np[u]] = 0 /\ name'[np[u]] = NoName
    BY <2>1, <2>2, <2>3, <1>i DEF PickInv, TypeOK
  <2>9. \A u \in Procs : u # t => pc'[u] = pc[u] /\ pg'[u] = pg[u] /\ np'[u] = np[u]
    BY <1>22, <1>i DEF DupCache, Goto, TypeOK
  <2> QED BY <1>i, <2>2, <2>7, <2>9, PickFrom
<1>23. CASE DupDone(t)
  BY <1>23, <1>i
     DEF DupDone, DupReturn, Return, SegUnlock, uncachepage, IsFree, PickInv,
         TypeOK
<1>24. CASE AuxTake(t)
  <2>1. /\ Head(freelist) \in Pages /\ IsFree(Head(freelist))
        /\ \A p : IsFree(p)' <=> p # Head(freelist) /\ IsFree(p)
    BY <1>24, <1>i, FreeTake DEF AuxTake, CanAllocate, freecount
  <2>6. /\ pc'[t] = "aux_pg" /\ pg'[t] = Head(freelist) /\ ref' = ref
        /\ ~IsFree(pg[t])' /\ ref[Head(freelist)] = 0
    BY <1>24, <2>1, <1>i DEF AuxTake, Goto, TypeOK, FreeIsUnused
  <2>7. \A u \in Procs : u # t /\ pc[u] = "dup_cache" =>
          ref'[np[u]] = 0 /\ name'[np[u]] = NoName
    BY <1>24, <1>i DEF AuxTake, PickInv
  <2>8. \A u \in Procs : u # t => pc[u] \notin {"new_pg", "aux_pg", "dup_np"}
    BY <1>24, <1>i DEF AuxTake, LockInv
  <2>9. \A u \in Procs : u # t => pc'[u] = pc[u] /\ pg'[u] = pg[u] /\ np'[u] = np[u]
    BY <1>24, <1>i DEF AuxTake, Goto, TypeOK
  <2> QED BY <1>i, <2>1, <2>6, <2>7, <2>8, <2>9, PickFrom
<1>25. ASSUME NEW f \in Pages, LookHit(t, f)
      PROVE  PickInv'
  BY <1>25, <1>i DEF LookHit, Goto, locks, pages, IsFree, PickInv, TypeOK
<1>26. ASSUME NEW s \in Slots, NewStart(t, s)
      PROVE  PickInv'
  BY <1>26, <1>i DEF NewStart, Enter, Goto, pages, IsFree, PickInv, TypeOK
<1>27. ASSUME NEW s \in Slots, FreePte(t, s)
      PROVE  PickInv'
  BY <1>27, <1>i DEF FreePte, Enter, Goto, pages, IsFree, PickInv, TypeOK
<1>28. ASSUME NEW s \in Slots, WriteFault(t, s)
      PROVE  PickInv'
  BY <1>28, <1>i DEF WriteFault, Goto, IsFree, PickInv, TypeOK
<1>29. ASSUME NEW s \in Slots, NEW n \in Names, LookStart(t, s, n)
      PROVE  PickInv'
  BY <1>29, <1>i DEF LookStart, Enter, Goto, pages, IsFree, PickInv, TypeOK
<1>30. ASSUME NEW s \in Slots, NEW d \in Slots, PteCpy(t, s, d)
      PROVE  PickInv'
  <2>1. holds[s] \in Pages /\ s \in Holders
    BY <1>30, <1>i DEF PteCpy, TypeOK, Holders
  <2>2. ref[holds[s]] > 0
    BY <2>1, <1>i, Held
  <2>3. /\ ref' = [ref EXCEPT ![holds[s]] = ref[holds[s]] + 1]
        /\ UNCHANGED <<freelist, name, pc, pg, np>>
    BY <1>30 DEF PteCpy, locals
  <2>4. \A p \in Pages : ref'[p] = 0 <=> ref[p] = 0
    BY <2>1, <2>2, <2>3, <1>i DEF TypeOK
  <2> QED BY <2>3, <2>4, <1>i DEF PickInv, IsFree
<1> QED BY <1>1, <1>2, <1>3, <1>4, <1>5, <1>6, <1>7, <1>8, <1>9, <1>10,
  <1>11, <1>12, <1>13, <1>14, <1>15, <1>16, <1>17, <1>18, <1>19, <1>20,
  <1>21, <1>22, <1>23, <1>24, <1>25, <1>26, <1>27, <1>28, <1>29, <1>30 DEF
  Step, Call

-----------------------------------------------------------------------------
(* The entries the processes work on.                                      *)

LEMMA SlotFrom ==
  ASSUME SlotInv, NEW t \in Procs,
         \A u \in Procs : u # t =>
           /\ pc'[u] = pc[u] /\ slot'[u] = slot[u]
           /\ want'[u] = want[u] /\ pg'[u] = pg[u]
           /\ holds'[u] = holds[u]
           /\ \A s \in Slots : seglock'[s] = u <=> seglock[s] = u
           /\ \A s \in Slots : seglock[s] = u => holds'[s] = holds[s],
         pc'[t] \in {"look", "look_lock", "look_pg"} =>
           /\ slot'[t] \in Slots /\ seglock'[slot'[t]] = t
           /\ holds'[slot'[t]] = NoPage /\ want'[t] \in Names,
         pc'[t] \in {"dup", "dup_relock", "dup_np", "dup_cache", "dup_done"} =>
           /\ slot'[t] \in Slots /\ seglock'[slot'[t]] = t
           /\ pg'[t] \in Pages /\ holds'[slot'[t]] = pg'[t],
         pc'[t] \in {"put", "put_pg"} =>
           /\ slot'[t] \in Slots \cup {t} /\ holds'[slot'[t]] \in Pages
           /\ slot'[t] \in Slots => seglock'[slot'[t]] = t
           /\ pc'[t] = "put_pg" => pg'[t] = holds'[slot'[t]],
         pc'[t] \in {"new", "new_pg"} =>
           /\ slot'[t] \in Slots
           /\ seglock'[slot'[t]] = t => holds'[slot'[t]] = NoPage,
         pc'[t] \in {"new_wait", "new_sleep"} =>
           slot'[t] = NoSlot \/ (slot'[t] \in Slots /\ seglock'[slot'[t]] # t),
         pc'[t] = "pio" => slot'[t] \in Slots
  PROVE  SlotInv'
<1> SUFFICES ASSUME NEW u \in Procs, u # t
             PROVE  SlotInv!(u)'
  BY DEF SlotInv
<1> QED BY DEF SlotInv

LEMMA SlotStep ==
  ASSUME IndInv, NEW t \in Procs, Step(t) \/ Call(t)
  PROVE  SlotInv'
<1>i. /\ TypeOK /\ RefExact /\ LockInv /\ SlotInv /\ OwnInv /\ PickInv
      /\ NoProc \notin Procs /\ NoPage \notin Pages /\ NoSlot \notin Holders
      /\ Procs \cap Slots = {}
  BY PageAllocAssumption DEF IndInv, Holders
<1>1. CASE NewTake(t)
  <2>8. \A u \in Procs : u # t =>
          /\ pc'[u] = pc[u] /\ slot'[u] = slot[u]
          /\ want'[u] = want[u] /\ pg'[u] = pg[u]
    BY <1>1, <1>i DEF NewTake, Goto, CanAllocate, TypeOK
  <2>9. \A u \in Procs : u # t =>
          /\ holds'[u] = holds[u]
          /\ \A s \in Slots : seglock'[s] = u <=> seglock[s] = u
          /\ \A s \in Slots : seglock[s] = u => holds'[s] = holds[s]
    BY <1>1, <1>i DEF NewTake, Goto, CanAllocate, TypeOK, Holders, SlotInv
  <2> QED BY <1>1, <1>i, <2>8, <2>9, SlotFrom
     DEF NewTake, Goto, CanAllocate, TypeOK, SlotInv
<1>2. CASE NewMustWait(t)
  <2>8. \A u \in Procs : u # t =>
          /\ pc'[u] = pc[u] /\ slot'[u] = slot[u]
          /\ want'[u] = want[u] /\ pg'[u] = pg[u]
    BY <1>2, <1>i DEF NewMustWait, Goto, SegUnlock, CanAllocate, pages, TypeOK
  <2>9. \A u \in Procs : u # t =>
          /\ holds'[u] = holds[u]
          /\ \A s \in Slots : seglock'[s] = u <=> seglock[s] = u
          /\ \A s \in Slots : seglock[s] = u => holds'[s] = holds[s]
    BY <1>2, <1>i
       DEF NewMustWait, Goto, SegUnlock, CanAllocate, pages, TypeOK, Holders,
           SlotInv
  <2> QED BY <1>2, <1>i, <2>8, <2>9, SlotFrom
     DEF NewMustWait, Goto, SegUnlock, CanAllocate, pages, TypeOK, SlotInv
<1>3. CASE NewQlock(t)
  <2>8. \A u \in Procs : u # t =>
          /\ pc'[u] = pc[u] /\ slot'[u] = slot[u]
          /\ want'[u] = want[u] /\ pg'[u] = pg[u]
    BY <1>3, <1>i DEF NewQlock, Goto, pages, TypeOK
  <2>9. \A u \in Procs : u # t =>
          /\ holds'[u] = holds[u]
          /\ \A s \in Slots : seglock'[s] = u <=> seglock[s] = u
          /\ \A s \in Slots : seglock[s] = u => holds'[s] = holds[s]
    BY <1>3, <1>i DEF NewQlock, Goto, pages, TypeOK, Holders, SlotInv
  <2> QED BY <1>3, <1>i, <2>8, <2>9, SlotFrom
     DEF NewQlock, Goto, pages, TypeOK, SlotInv
<1>4. CASE NewWake(t)
  <2>8. \A u \in Procs : u # t =>
          /\ pc'[u] = pc[u] /\ slot'[u] = slot[u]
          /\ want'[u] = want[u] /\ pg'[u] = pg[u]
    BY <1>4, <1>i DEF NewWake, Return, Goto, pages, TypeOK
  <2>9. \A u \in Procs : u # t =>
          /\ holds'[u] = holds[u]
          /\ \A s \in Slots : seglock'[s] = u <=> seglock[s] = u
          /\ \A s \in Slots : seglock[s] = u => holds'[s] = holds[s]
    BY <1>4, <1>i DEF NewWake, Return, Goto, pages, TypeOK, Holders, SlotInv
  <2> QED BY <1>4, <1>i, <2>8, <2>9, SlotFrom
     DEF NewWake, Return, Goto, pages, TypeOK, SlotInv
<1>5. CASE NewPage(t)
  <2>8. \A u \in Procs : u # t =>
          /\ pc'[u] = pc[u] /\ slot'[u] = slot[u]
          /\ want'[u] = want[u] /\ pg'[u] = pg[u]
    BY <1>5, <1>i DEF NewPage, Return, Goto, SegUnlock, uncachepage, TypeOK
  <2>9. \A u \in Procs : u # t =>
          /\ holds'[u] = holds[u]
          /\ \A s \in Slots : seglock'[s] = u <=> seglock[s] = u
          /\ \A s \in Slots : seglock[s] = u => holds'[s] = holds[s]
    BY <1>5, <1>i
       DEF NewPage, Return, Goto, SegUnlock, uncachepage, TypeOK, Holders,
           SlotInv
  <2> QED BY <1>5, <1>i, <2>8, <2>9, SlotFrom
     DEF NewPage, Return, Goto, SegUnlock, uncachepage, TypeOK, SlotInv
<1>6. CASE PutTake(t)
  <2>8. \A u \in Procs : u # t =>
          /\ pc'[u] = pc[u] /\ slot'[u] = slot[u]
          /\ want'[u] = want[u] /\ pg'[u] = pg[u]
    BY <1>6, <1>i DEF PutTake, Goto, pages, TypeOK
  <2>9. \A u \in Procs : u # t =>
          /\ holds'[u] = holds[u]
          /\ \A s \in Slots : seglock'[s] = u <=> seglock[s] = u
          /\ \A s \in Slots : seglock[s] = u => holds'[s] = holds[s]
    BY <1>6, <1>i DEF PutTake, Goto, pages, TypeOK, Holders, SlotInv
  <2> QED BY <1>6, <1>i, <2>8, <2>9, SlotFrom
     DEF PutTake, Goto, pages, TypeOK, SlotInv
<1>7. CASE PutPage(t)
  <2>8. \A u \in Procs : u # t =>
          /\ pc'[u] = pc[u] /\ slot'[u] = slot[u]
          /\ want'[u] = want[u] /\ pg'[u] = pg[u]
    BY <1>7, <1>i DEF PutPage, Return, SegUnlock, TypeOK
  <2>9. \A u \in Procs : u # t =>
          /\ holds'[u] = holds[u]
          /\ \A s \in Slots : seglock'[s] = u <=> seglock[s] = u
          /\ \A s \in Slots : seglock[s] = u => holds'[s] = holds[s]
    BY <1>7, <1>i DEF PutPage, Return, SegUnlock, TypeOK, Holders, SlotInv
  <2> QED BY <1>7, <1>i, <2>8, <2>9, SlotFrom
     DEF PutPage, Return, SegUnlock, TypeOK, SlotInv
<1>8. CASE AuxPage(t)
  <2>8. \A u \in Procs : u # t =>
          /\ pc'[u] = pc[u] /\ slot'[u] = slot[u]
          /\ want'[u] = want[u] /\ pg'[u] = pg[u]
    BY <1>8, <1>i DEF AuxPage, Goto, uncachepage, TypeOK
  <2>9. \A u \in Procs : u # t =>
          /\ holds'[u] = holds[u]
          /\ \A s \in Slots : seglock'[s] = u <=> seglock[s] = u
          /\ \A s \in Slots : seglock[s] = u => holds'[s] = holds[s]
    BY <1>8, <1>i DEF AuxPage, Goto, uncachepage, TypeOK, Holders, SlotInv
  <2>1. pg[t] \in Pages /\ t \in Holders /\ t \notin Slots
    BY <1>8, <1>i DEF AuxPage, PickInv, Holders
  <2>2. /\ holds' = [holds EXCEPT ![t] = pg[t]] /\ pc'[t] = "put" /\ slot'[t] = t
    BY <1>8, <1>i DEF AuxPage, Goto, TypeOK
  <2>3. holds'[t] \in Pages
    BY <2>1, <2>2, <1>i DEF TypeOK
  <2> QED BY <1>i, <2>1, <2>2, <2>3, <2>8, <2>9, SlotFrom
<1>9. CASE LookMiss(t)
  <2>8. \A u \in Procs : u # t =>
          /\ pc'[u] = pc[u] /\ slot'[u] = slot[u]
          /\ want'[u] = want[u] /\ pg'[u] = pg[u]
    BY <1>9, <1>i DEF LookMiss, Goto, SegUnlock, pages, TypeOK
  <2>9. \A u \in Procs : u # t =>
          /\ holds'[u] = holds[u]
          /\ \A s \in Slots : seglock'[s] = u <=> seglock[s] = u
          /\ \A s \in Slots : seglock[s] = u => holds'[s] = holds[s]
    BY <1>9, <1>i
       DEF LookMiss, Goto, SegUnlock, pages, TypeOK, Holders, SlotInv
  <2> QED BY <1>9, <1>i, <2>8, <2>9, SlotFrom
     DEF LookMiss, Goto, SegUnlock, pages, TypeOK, SlotInv
<1>10. CASE LookTake(t)
  <2>8. \A u \in Procs : u # t =>
          /\ pc'[u] = pc[u] /\ slot'[u] = slot[u]
          /\ want'[u] = want[u] /\ pg'[u] = pg[u]
    BY <1>10, <1>i DEF LookTake, Goto, pages, TypeOK
  <2>9. \A u \in Procs : u # t =>
          /\ holds'[u] = holds[u]
          /\ \A s \in Slots : seglock'[s] = u <=> seglock[s] = u
          /\ \A s \in Slots : seglock[s] = u => holds'[s] = holds[s]
    BY <1>10, <1>i DEF LookTake, Goto, pages, TypeOK, Holders, SlotInv
  <2> QED BY <1>10, <1>i, <2>8, <2>9, SlotFrom
     DEF LookTake, Goto, pages, TypeOK, SlotInv
<1>11. CASE LookStale(t)
  <2>8. \A u \in Procs : u # t =>
          /\ pc'[u] = pc[u] /\ slot'[u] = slot[u]
          /\ want'[u] = want[u] /\ pg'[u] = pg[u]
    BY <1>11, <1>i DEF LookStale, Goto, SegUnlock, pages, TypeOK
  <2>9. \A u \in Procs : u # t =>
          /\ holds'[u] = holds[u]
          /\ \A s \in Slots : seglock'[s] = u <=> seglock[s] = u
          /\ \A s \in Slots : seglock[s] = u => holds'[s] = holds[s]
    BY <1>11, <1>i
       DEF LookStale, Goto, SegUnlock, pages, TypeOK, Holders, SlotInv
  <2> QED BY <1>11, <1>i, <2>8, <2>9, SlotFrom
     DEF LookStale, Goto, SegUnlock, pages, TypeOK, SlotInv
<1>12. CASE LookPage(t)
  <2>8. \A u \in Procs : u # t =>
          /\ pc'[u] = pc[u] /\ slot'[u] = slot[u]
          /\ want'[u] = want[u] /\ pg'[u] = pg[u]
    BY <1>12, <1>i DEF LookPage, Return, SegUnlock, TypeOK
  <2>9. \A u \in Procs : u # t =>
          /\ holds'[u] = holds[u]
          /\ \A s \in Slots : seglock'[s] = u <=> seglock[s] = u
          /\ \A s \in Slots : seglock[s] = u => holds'[s] = holds[s]
    BY <1>12, <1>i DEF LookPage, Return, SegUnlock, TypeOK, Holders, SlotInv
  <2> QED BY <1>12, <1>i, <2>8, <2>9, SlotFrom
     DEF LookPage, Return, SegUnlock, TypeOK, SlotInv
<1>13. CASE Cachepage(t)
  <2>8. \A u \in Procs : u # t =>
          /\ pc'[u] = pc[u] /\ slot'[u] = slot[u]
          /\ want'[u] = want[u] /\ pg'[u] = pg[u]
    BY <1>13, <1>i DEF Cachepage, Return, locks, TypeOK
  <2>1. /\ holds' = [holds EXCEPT ![slot[t]] = holds[t], ![t] = NoPage]
        /\ seglock[slot[t]] = NoProc /\ slot[t] \in Slots /\ seglock' = seglock
    BY <1>13, <1>i DEF Cachepage, locks, SlotInv
  <2>2. \A x \in Holders : x # t /\ x # slot[t] => holds'[x] = holds[x]
    BY <2>1, <1>i DEF TypeOK
  <2>3. pc'[t] = "idle"
    BY <1>13, <1>i DEF Cachepage, Return, TypeOK
  <2>9. \A u \in Procs : u # t =>
          /\ holds'[u] = holds[u]
          /\ \A s \in Slots : seglock'[s] = u <=> seglock[s] = u
          /\ \A s \in Slots : seglock[s] = u => holds'[s] = holds[s]
    BY <2>1, <2>2, <1>i DEF Holders
  <2> QED BY <1>i, <2>3, <2>8, <2>9, SlotFrom
<1>14. CASE PioLost(t)
  <2>8. \A u \in Procs : u # t =>
          /\ pc'[u] = pc[u] /\ slot'[u] = slot[u]
          /\ want'[u] = want[u] /\ pg'[u] = pg[u]
    BY <1>14, <1>i DEF PioLost, Goto, locks, pages, TypeOK
  <2>9. \A u \in Procs : u # t =>
          /\ holds'[u] = holds[u]
          /\ \A s \in Slots : seglock'[s] = u <=> seglock[s] = u
          /\ \A s \in Slots : seglock[s] = u => holds'[s] = holds[s]
    BY <1>14, <1>i DEF PioLost, Goto, locks, pages, TypeOK, Holders, SlotInv
  <2>1. holds'[t] \in Pages /\ pc'[t] = "put" /\ slot'[t] = t /\ t \notin Slots
    BY <1>14, <1>i DEF PioLost, Goto, locks, pages, OwnInv, TypeOK
  <2> QED BY <1>i, <2>1, <2>8, <2>9, SlotFrom
<1>15. CASE DupGiveUp(t)
  <2>8. \A u \in Procs : u # t =>
          /\ pc'[u] = pc[u] /\ slot'[u] = slot[u]
          /\ want'[u] = want[u] /\ pg'[u] = pg[u]
    BY <1>15, <1>i
       DEF DupGiveUp, DupReturn, Return, SegUnlock, uncachepage, TypeOK
  <2>9. \A u \in Procs : u # t =>
          /\ holds'[u] = holds[u]
          /\ \A s \in Slots : seglock'[s] = u <=> seglock[s] = u
          /\ \A s \in Slots : seglock[s] = u => holds'[s] = holds[s]
    BY <1>15, <1>i
       DEF DupGiveUp, DupReturn, Return, SegUnlock, uncachepage, TypeOK,
           Holders, SlotInv
  <2> QED BY <1>15, <1>i, <2>8, <2>9, SlotFrom
     DEF DupGiveUp, DupReturn, Return, SegUnlock, uncachepage, TypeOK, SlotInv
<1>16. CASE DupNothing(t)
  <2>8. \A u \in Procs : u # t =>
          /\ pc'[u] = pc[u] /\ slot'[u] = slot[u]
          /\ want'[u] = want[u] /\ pg'[u] = pg[u]
    BY <1>16, <1>i DEF DupNothing, DupReturn, Return, SegUnlock, TypeOK
  <2>9. \A u \in Procs : u # t =>
          /\ holds'[u] = holds[u]
          /\ \A s \in Slots : seglock'[s] = u <=> seglock[s] = u
          /\ \A s \in Slots : seglock[s] = u => holds'[s] = holds[s]
    BY <1>16, <1>i
       DEF DupNothing, DupReturn, Return, SegUnlock, TypeOK, Holders, SlotInv
  <2> QED BY <1>16, <1>i, <2>8, <2>9, SlotFrom
     DEF DupNothing, DupReturn, Return, SegUnlock, TypeOK, SlotInv
<1>17. CASE DupBusy(t)
  <2>8. \A u \in Procs : u # t =>
          /\ pc'[u] = pc[u] /\ slot'[u] = slot[u]
          /\ want'[u] = want[u] /\ pg'[u] = pg[u]
    BY <1>17, <1>i DEF DupBusy, Goto, pages, TypeOK
  <2>9. \A u \in Procs : u # t =>
          /\ holds'[u] = holds[u]
          /\ \A s \in Slots : seglock'[s] = u <=> seglock[s] = u
          /\ \A s \in Slots : seglock[s] = u => holds'[s] = holds[s]
    BY <1>17, <1>i DEF DupBusy, Goto, pages, TypeOK, Holders, SlotInv
  <2> QED BY <1>17, <1>i, <2>8, <2>9, SlotFrom
     DEF DupBusy, Goto, pages, TypeOK, SlotInv
<1>18. CASE DupRelock(t)
  <2>8. \A u \in Procs : u # t =>
          /\ pc'[u] = pc[u] /\ slot'[u] = slot[u]
          /\ want'[u] = want[u] /\ pg'[u] = pg[u]
    BY <1>18, <1>i DEF DupRelock, Goto, pages, TypeOK
  <2>9. \A u \in Procs : u # t =>
          /\ holds'[u] = holds[u]
          /\ \A s \in Slots : seglock'[s] = u <=> seglock[s] = u
          /\ \A s \in Slots : seglock[s] = u => holds'[s] = holds[s]
    BY <1>18, <1>i DEF DupRelock, Goto, pages, TypeOK, Holders, SlotInv
  <2> QED BY <1>18, <1>i, <2>8, <2>9, SlotFrom
     DEF DupRelock, Goto, pages, TypeOK, SlotInv
<1>19. CASE DupNoMemory(t)
  <2>8. \A u \in Procs : u # t =>
          /\ pc'[u] = pc[u] /\ slot'[u] = slot[u]
          /\ want'[u] = want[u] /\ pg'[u] = pg[u]
    BY <1>19, <1>i
       DEF DupNoMemory, DupReturn, Return, SegUnlock, uncachepage, TypeOK
  <2>9. \A u \in Procs : u # t =>
          /\ holds'[u] = holds[u]
          /\ \A s \in Slots : seglock'[s] = u <=> seglock[s] = u
          /\ \A s \in Slots : seglock[s] = u => holds'[s] = holds[s]
    BY <1>19, <1>i
       DEF DupNoMemory, DupReturn, Return, SegUnlock, uncachepage, TypeOK,
           Holders, SlotInv
  <2> QED BY <1>19, <1>i, <2>8, <2>9, SlotFrom
     DEF DupNoMemory, DupReturn, Return, SegUnlock, uncachepage, TypeOK,
         SlotInv
<1>20. CASE DupTake(t)
  <2>8. \A u \in Procs : u # t =>
          /\ pc'[u] = pc[u] /\ slot'[u] = slot[u]
          /\ want'[u] = want[u] /\ pg'[u] = pg[u]
    BY <1>20, <1>i DEF DupTake, Goto, TypeOK
  <2>9. \A u \in Procs : u # t =>
          /\ holds'[u] = holds[u]
          /\ \A s \in Slots : seglock'[s] = u <=> seglock[s] = u
          /\ \A s \in Slots : seglock[s] = u => holds'[s] = holds[s]
    BY <1>20, <1>i DEF DupTake, Goto, TypeOK, Holders, SlotInv
  <2> QED BY <1>20, <1>i, <2>8, <2>9, SlotFrom
     DEF DupTake, Goto, TypeOK, SlotInv
<1>21. CASE DupLockNp(t)
  <2>8. \A u \in Procs : u # t =>
          /\ pc'[u] = pc[u] /\ slot'[u] = slot[u]
          /\ want'[u] = want[u] /\ pg'[u] = pg[u]
    BY <1>21, <1>i DEF DupLockNp, Goto, uncachepage, TypeOK
  <2>9. \A u \in Procs : u # t =>
          /\ holds'[u] = holds[u]
          /\ \A s \in Slots : seglock'[s] = u <=> seglock[s] = u
          /\ \A s \in Slots : seglock[s] = u => holds'[s] = holds[s]
    BY <1>21, <1>i DEF DupLockNp, Goto, uncachepage, TypeOK, Holders, SlotInv
  <2> QED BY <1>21, <1>i, <2>8, <2>9, SlotFrom
     DEF DupLockNp, Goto, uncachepage, TypeOK, SlotInv
<1>22. CASE DupCache(t)
  <2>8. \A u \in Procs : u # t =>
          /\ pc'[u] = pc[u] /\ slot'[u] = slot[u]
          /\ want'[u] = want[u] /\ pg'[u] = pg[u]
    BY <1>22, <1>i DEF DupCache, Goto, TypeOK
  <2>9. \A u \in Procs : u # t =>
          /\ holds'[u] = holds[u]
          /\ \A s \in Slots : seglock'[s] = u <=> seglock[s] = u
          /\ \A s \in Slots : seglock[s] = u => holds'[s] = holds[s]
    BY <1>22, <1>i DEF DupCache, Goto, TypeOK, Holders, SlotInv
  <2> QED BY <1>22, <1>i, <2>8, <2>9, SlotFrom
     DEF DupCache, Goto, TypeOK, SlotInv
<1>23. CASE DupDone(t)
  <2>8. \A u \in Procs : u # t =>
          /\ pc'[u] = pc[u] /\ slot'[u] = slot[u]
          /\ want'[u] = want[u] /\ pg'[u] = pg[u]
    BY <1>23, <1>i
       DEF DupDone, DupReturn, Return, SegUnlock, uncachepage, TypeOK
  <2>9. \A u \in Procs : u # t =>
          /\ holds'[u] = holds[u]
          /\ \A s \in Slots : seglock'[s] = u <=> seglock[s] = u
          /\ \A s \in Slots : seglock[s] = u => holds'[s] = holds[s]
    BY <1>23, <1>i
       DEF DupDone, DupReturn, Return, SegUnlock, uncachepage, TypeOK,
           Holders, SlotInv
  <2> QED BY <1>23, <1>i, <2>8, <2>9, SlotFrom
     DEF DupDone, DupReturn, Return, SegUnlock, uncachepage, TypeOK, SlotInv
<1>24. CASE AuxTake(t)
  <2>8. \A u \in Procs : u # t =>
          /\ pc'[u] = pc[u] /\ slot'[u] = slot[u]
          /\ want'[u] = want[u] /\ pg'[u] = pg[u]
    BY <1>24, <1>i DEF AuxTake, Goto, TypeOK
  <2>9. \A u \in Procs : u # t =>
          /\ holds'[u] = holds[u]
          /\ \A s \in Slots : seglock'[s] = u <=> seglock[s] = u
          /\ \A s \in Slots : seglock[s] = u => holds'[s] = holds[s]
    BY <1>24, <1>i DEF AuxTake, Goto, TypeOK, Holders, SlotInv
  <2> QED BY <1>24, <1>i, <2>8, <2>9, SlotFrom
     DEF AuxTake, Goto, TypeOK, SlotInv
<1>25. ASSUME NEW f \in Pages, LookHit(t, f)
      PROVE  SlotInv'
  <2>8. \A u \in Procs : u # t =>
          /\ pc'[u] = pc[u] /\ slot'[u] = slot[u]
          /\ want'[u] = want[u] /\ pg'[u] = pg[u]
    BY <1>25, <1>i DEF LookHit, Goto, locks, pages, TypeOK
  <2>9. \A u \in Procs : u # t =>
          /\ holds'[u] = holds[u]
          /\ \A x \in Slots : seglock'[x] = u <=> seglock[x] = u
          /\ \A x \in Slots : seglock[x] = u => holds'[x] = holds[x]
    BY <1>25, <1>i DEF LookHit, Goto, locks, pages, TypeOK, Holders, SlotInv
  <2> QED BY <1>25, <1>i, <2>8, <2>9, SlotFrom
     DEF LookHit, Goto, locks, pages, TypeOK, SlotInv
<1>26. ASSUME NEW s \in Slots, NewStart(t, s)
      PROVE  SlotInv'
  <2>8. \A u \in Procs : u # t =>
          /\ pc'[u] = pc[u] /\ slot'[u] = slot[u]
          /\ want'[u] = want[u] /\ pg'[u] = pg[u]
    BY <1>26, <1>i DEF NewStart, Enter, Goto, pages, TypeOK
  <2>9. \A u \in Procs : u # t =>
          /\ holds'[u] = holds[u]
          /\ \A x \in Slots : seglock'[x] = u <=> seglock[x] = u
          /\ \A x \in Slots : seglock[x] = u => holds'[x] = holds[x]
    BY <1>26, <1>i DEF NewStart, Enter, Goto, pages, TypeOK, Holders, SlotInv
  <2> QED BY <1>26, <1>i, <2>8, <2>9, SlotFrom
     DEF NewStart, Enter, Goto, pages, TypeOK, SlotInv
<1>27. ASSUME NEW s \in Slots, FreePte(t, s)
      PROVE  SlotInv'
  <2>8. \A u \in Procs : u # t =>
          /\ pc'[u] = pc[u] /\ slot'[u] = slot[u]
          /\ want'[u] = want[u] /\ pg'[u] = pg[u]
    BY <1>27, <1>i DEF FreePte, Enter, Goto, pages, TypeOK
  <2>9. \A u \in Procs : u # t =>
          /\ holds'[u] = holds[u]
          /\ \A x \in Slots : seglock'[x] = u <=> seglock[x] = u
          /\ \A x \in Slots : seglock[x] = u => holds'[x] = holds[x]
    BY <1>27, <1>i DEF FreePte, Enter, Goto, pages, TypeOK, Holders, SlotInv
  <2>1. /\ holds'[s] \in Pages /\ pc'[t] = "put" /\ slot'[t] = s
        /\ seglock'[s] = t
    BY <1>27, <1>i DEF FreePte, Enter, Goto, pages, TypeOK, Holders
  <2> QED BY <1>i, <2>1, <2>8, <2>9, SlotFrom
<1>28. ASSUME NEW s \in Slots, WriteFault(t, s)
      PROVE  SlotInv'
  <2>8. \A u \in Procs : u # t =>
          /\ pc'[u] = pc[u] /\ slot'[u] = slot[u]
          /\ want'[u] = want[u] /\ pg'[u] = pg[u]
    BY <1>28, <1>i DEF WriteFault, Goto, TypeOK
  <2>9. \A u \in Procs : u # t =>
          /\ holds'[u] = holds[u]
          /\ \A x \in Slots : seglock'[x] = u <=> seglock[x] = u
          /\ \A x \in Slots : seglock[x] = u => holds'[x] = holds[x]
    BY <1>28, <1>i DEF WriteFault, Goto, TypeOK, Holders, SlotInv
  <2>1. CASE name[holds[s]] # NoName
    <3>1. /\ holds[s] \in Pages /\ holds' = holds /\ pc'[t] = "dup"
          /\ slot'[t] = s /\ seglock'[s] = t /\ pg'[t] = holds[s]
      BY <1>28, <2>1, <1>i DEF WriteFault, Goto, TypeOK, Holders
    <3> QED BY <1>i, <3>1, <2>8, <2>9, SlotFrom
  <2>2. CASE name[holds[s]] = NoName
    BY <1>28, <2>2, <1>i DEF WriteFault, SlotInv
  <2> QED BY <2>1, <2>2
<1>29. ASSUME NEW s \in Slots, NEW n \in Names, LookStart(t, s, n)
      PROVE  SlotInv'
  <2>8. \A u \in Procs : u # t =>
          /\ pc'[u] = pc[u] /\ slot'[u] = slot[u]
          /\ want'[u] = want[u] /\ pg'[u] = pg[u]
    BY <1>29, <1>i DEF LookStart, Enter, Goto, pages, TypeOK
  <2>9. \A u \in Procs : u # t =>
          /\ holds'[u] = holds[u]
          /\ \A x \in Slots : seglock'[x] = u <=> seglock[x] = u
          /\ \A x \in Slots : seglock[x] = u => holds'[x] = holds[x]
    BY <1>29, <1>i DEF LookStart, Enter, Goto, pages, TypeOK, Holders, SlotInv
  <2> QED BY <1>29, <1>i, <2>8, <2>9, SlotFrom
     DEF LookStart, Enter, Goto, pages, TypeOK, SlotInv
<1>30. ASSUME NEW s \in Slots, NEW d \in Slots, PteCpy(t, s, d)
      PROVE  SlotInv'
  <2>8. \A u \in Procs : u # t =>
          /\ pc'[u] = pc[u] /\ slot'[u] = slot[u]
          /\ want'[u] = want[u] /\ pg'[u] = pg[u]
    BY <1>30, <1>i DEF PteCpy, locks, locals, TypeOK
  <2>9. \A u \in Procs : u # t =>
          /\ holds'[u] = holds[u]
          /\ \A x \in Slots : seglock'[x] = u <=> seglock[x] = u
          /\ \A x \in Slots : seglock[x] = u => holds'[x] = holds[x]
    BY <1>30, <1>i DEF PteCpy, locks, locals, TypeOK, Holders, SlotInv
  <2> QED BY <1>30, <1>i, <2>8, <2>9, SlotFrom
     DEF PteCpy, locks, locals, TypeOK, SlotInv
<1> QED BY <1>1, <1>2, <1>3, <1>4, <1>5, <1>6, <1>7, <1>8, <1>9, <1>10,
  <1>11, <1>12, <1>13, <1>14, <1>15, <1>16, <1>17, <1>18, <1>19, <1>20,
  <1>21, <1>22, <1>23, <1>24, <1>25, <1>26, <1>27, <1>28, <1>29, <1>30 DEF
  Step, Call

-----------------------------------------------------------------------------
(* The pages the processes themselves refer to.                            *)

LEMMA OwnFrom ==
  ASSUME OwnInv, NEW t \in Procs,
         \A u \in Procs : u # t =>
           /\ pc'[u] = pc[u] /\ slot'[u] = slot[u] /\ holds'[u] = holds[u]
           /\ pc[u] = "pio" => name'[holds[u]] = NoName /\ ref'[holds[u]] = 1,
         holds'[t] # NoPage =>
           pc'[t] = "pio" \/ (pc'[t] \in {"put", "put_pg"} /\ slot'[t] = t),
         pc'[t] = "pio" =>
           /\ holds'[t] \in Pages
           /\ name'[holds'[t]] = NoName /\ ref'[holds'[t]] = 1
  PROVE  OwnInv'
BY DEF OwnInv

LEMMA OwnStep ==
  ASSUME IndInv, NEW t \in Procs, Step(t) \/ Call(t)
  PROVE  OwnInv'
<1>i. /\ TypeOK /\ RefExact /\ LockInv /\ SlotInv /\ OwnInv /\ PickInv
      /\ NoProc \notin Procs /\ NoPage \notin Pages /\ NoSlot \notin Holders
      /\ NoName \notin Names /\ Procs \cap Slots = {}
  BY PageAllocAssumption DEF IndInv, TypeOK, Holders
<1>p. \A u \in Procs : pc[u] = "pio" =>
        /\ holds[u] \in Pages /\ name[holds[u]] = NoName /\ ref[holds[u]] = 1
        /\ \A x \in Holders : holds[x] = holds[u] => x = u
  BY <1>i, Held DEF OwnInv, Holders
<1>1. CASE NewTake(t)
  <2>7. \A u \in Procs : u # t /\ pc[u] = "pio" =>
          name'[holds[u]] = NoName /\ ref'[holds[u]] = 1
    BY <1>1, <1>i, <1>p DEF NewTake, Goto, CanAllocate, TypeOK
  <2>8. \A u \in Procs : u # t =>
          pc'[u] = pc[u] /\ slot'[u] = slot[u] /\ holds'[u] = holds[u]
    BY <1>1, <1>i DEF NewTake, Goto, CanAllocate, TypeOK, Holders, SlotInv
  <2> QED BY <1>1, <1>i, <2>7, <2>8, OwnFrom
     DEF NewTake, Goto, CanAllocate, TypeOK, Holders, OwnInv
<1>2. CASE NewMustWait(t)
  <2>7. \A u \in Procs : u # t /\ pc[u] = "pio" =>
          name'[holds[u]] = NoName /\ ref'[holds[u]] = 1
    BY <1>2, <1>i, <1>p
       DEF NewMustWait, Goto, SegUnlock, CanAllocate, pages, TypeOK
  <2>8. \A u \in Procs : u # t =>
          pc'[u] = pc[u] /\ slot'[u] = slot[u] /\ holds'[u] = holds[u]
    BY <1>2, <1>i
       DEF NewMustWait, Goto, SegUnlock, CanAllocate, pages, TypeOK, Holders,
           SlotInv
  <2> QED BY <1>2, <1>i, <2>7, <2>8, OwnFrom
     DEF NewMustWait, Goto, SegUnlock, CanAllocate, pages, TypeOK, Holders,
         OwnInv
<1>3. CASE NewQlock(t)
  <2>7. \A u \in Procs : u # t /\ pc[u] = "pio" =>
          name'[holds[u]] = NoName /\ ref'[holds[u]] = 1
    BY <1>3, <1>i, <1>p DEF NewQlock, Goto, pages, TypeOK
  <2>8. \A u \in Procs : u # t =>
          pc'[u] = pc[u] /\ slot'[u] = slot[u] /\ holds'[u] = holds[u]
    BY <1>3, <1>i DEF NewQlock, Goto, pages, TypeOK, Holders, SlotInv
  <2> QED BY <1>3, <1>i, <2>7, <2>8, OwnFrom
     DEF NewQlock, Goto, pages, TypeOK, Holders, OwnInv
<1>4. CASE NewWake(t)
  <2>7. \A u \in Procs : u # t /\ pc[u] = "pio" =>
          name'[holds[u]] = NoName /\ ref'[holds[u]] = 1
    BY <1>4, <1>i, <1>p DEF NewWake, Return, Goto, pages, TypeOK
  <2>8. \A u \in Procs : u # t =>
          pc'[u] = pc[u] /\ slot'[u] = slot[u] /\ holds'[u] = holds[u]
    BY <1>4, <1>i DEF NewWake, Return, Goto, pages, TypeOK, Holders, SlotInv
  <2>1. pc'[t] \in {"idle", "new"} /\ holds'[t] = NoPage
    BY <1>4, <1>i DEF NewWake, Return, Goto, pages, TypeOK, OwnInv
  <2> QED BY <1>i, <2>1, <2>7, <2>8, OwnFrom
<1>5. CASE NewPage(t)
  <2>1. /\ pg[t] \in Pages /\ ref[pg[t]] = 0
        /\ ref' = [ref EXCEPT ![pg[t]] = ref[pg[t]] + 1]
        /\ name' = [name EXCEPT ![pg[t]] = NoName]
    BY <1>5, <1>i DEF NewPage, Return, Goto, SegUnlock, uncachepage, PickInv
  <2>7. \A u \in Procs : u # t /\ pc[u] = "pio" =>
          name'[holds[u]] = NoName /\ ref'[holds[u]] = 1
    BY <2>1, <1>i, <1>p DEF TypeOK
  <2>8. \A u \in Procs : u # t =>
          pc'[u] = pc[u] /\ slot'[u] = slot[u] /\ holds'[u] = holds[u]
    BY <1>5, <1>i
       DEF NewPage, Return, Goto, SegUnlock, uncachepage, TypeOK, Holders,
           SlotInv
  <2>2. ref'[pg[t]] = 1 /\ name'[pg[t]] = NoName /\ holds[t] = NoPage
    <3>1. ref'[pg[t]] = 1 /\ name'[pg[t]] = NoName
      BY <2>1, <1>i DEF TypeOK
    <3>2. holds[t] = NoPage
      BY <1>5, <1>i DEF NewPage, OwnInv
    <3> QED BY <3>1, <3>2
  <2>3. CASE seglock[slot[t]] = t
    <3>1. slot[t] \in Slots /\ slot[t] # t
      BY <1>5, <1>i DEF NewPage, SlotInv
    <3>2. holds' = [holds EXCEPT ![slot[t]] = pg[t]]
      BY <1>5, <2>3 DEF NewPage
    <3>3. pc' = [pc EXCEPT ![t] = "idle"]
      BY <1>5, <2>3, <3>1 DEF NewPage, Return
    <3>4. pc'[t] = "idle" /\ holds'[t] = NoPage
      BY <2>2, <3>1, <3>2, <3>3, <1>i DEF TypeOK, Holders
    <3> QED BY <1>i, <3>4, <2>7, <2>8, OwnFrom
  <2>4. CASE seglock[slot[t]] # t
    <3>1. holds' = [holds EXCEPT ![t] = pg[t]] /\ pc' = [pc EXCEPT ![t] = "pio"]
      BY <1>5, <2>4 DEF NewPage, Goto
    <3>2. holds'[t] = pg[t] /\ pc'[t] = "pio"
      BY <3>1, <1>i DEF TypeOK, Holders
    <3> QED BY <1>i, <2>1, <2>2, <3>2, <2>7, <2>8, OwnFrom
  <2> QED BY <2>3, <2>4
<1>6. CASE PutTake(t)
  <2>7. \A u \in Procs : u # t /\ pc[u] = "pio" =>
          name'[holds[u]] = NoName /\ ref'[holds[u]] = 1
    BY <1>6, <1>i, <1>p DEF PutTake, Goto, pages, TypeOK
  <2>8. \A u \in Procs : u # t =>
          pc'[u] = pc[u] /\ slot'[u] = slot[u] /\ holds'[u] = holds[u]
    BY <1>6, <1>i DEF PutTake, Goto, pages, TypeOK, Holders, SlotInv
  <2> QED BY <1>6, <1>i, <2>7, <2>8, OwnFrom
     DEF PutTake, Goto, pages, TypeOK, Holders, OwnInv
<1>7. CASE PutPage(t)
  <2>1. /\ slot[t] \in Slots \cup {t} /\ pg[t] = holds[slot[t]] /\ name' = name
        /\ ref' = [ref EXCEPT ![pg[t]] = IF ref[pg[t]] > 0 THEN ref[pg[t]] - 1 ELSE ref[pg[t]]]
    BY <1>7, <1>i DEF PutPage, SlotInv
  <2>2. \A u \in Procs : u # t /\ pc[u] = "pio" => holds[u] # pg[t]
    BY <2>1, <1>i, <1>p DEF Holders
  <2>7. \A u \in Procs : u # t /\ pc[u] = "pio" =>
          name'[holds[u]] = NoName /\ ref'[holds[u]] = 1
    BY <2>1, <2>2, <1>i, <1>p DEF TypeOK
  <2>8. \A u \in Procs : u # t =>
          pc'[u] = pc[u] /\ slot'[u] = slot[u] /\ holds'[u] = holds[u]
    BY <1>7, <1>i DEF PutPage, Return, SegUnlock, TypeOK, Holders, SlotInv
  <2> QED BY <1>7, <1>i, <2>7, <2>8, OwnFrom
     DEF PutPage, Return, SegUnlock, TypeOK, Holders, OwnInv
<1>8. CASE AuxPage(t)
  <2>1. /\ pg[t] \in Pages /\ ref[pg[t]] = 0
        /\ ref' = [ref EXCEPT ![pg[t]] = ref[pg[t]] + 1]
        /\ name' = [name EXCEPT ![pg[t]] = NoName]
    BY <1>8, <1>i DEF AuxPage, Goto, uncachepage, PickInv
  <2>7. \A u \in Procs : u # t /\ pc[u] = "pio" =>
          name'[holds[u]] = NoName /\ ref'[holds[u]] = 1
    BY <2>1, <1>i, <1>p DEF TypeOK
  <2>8. \A u \in Procs : u # t =>
          pc'[u] = pc[u] /\ slot'[u] = slot[u] /\ holds'[u] = holds[u]
    BY <1>8, <1>i DEF AuxPage, Goto, uncachepage, TypeOK, Holders, SlotInv
  <2> QED BY <1>8, <1>i, <2>7, <2>8, OwnFrom
     DEF AuxPage, Goto, uncachepage, TypeOK, Holders, OwnInv
<1>9. CASE LookMiss(t)
  <2>7. \A u \in Procs : u # t /\ pc[u] = "pio" =>
          name'[holds[u]] = NoName /\ ref'[holds[u]] = 1
    BY <1>9, <1>i, <1>p DEF LookMiss, Goto, SegUnlock, pages, TypeOK
  <2>8. \A u \in Procs : u # t =>
          pc'[u] = pc[u] /\ slot'[u] = slot[u] /\ holds'[u] = holds[u]
    BY <1>9, <1>i
       DEF LookMiss, Goto, SegUnlock, pages, TypeOK, Holders, SlotInv
  <2> QED BY <1>9, <1>i, <2>7, <2>8, OwnFrom
     DEF LookMiss, Goto, SegUnlock, pages, TypeOK, Holders, OwnInv
<1>10. CASE LookTake(t)
  <2>7. \A u \in Procs : u # t /\ pc[u] = "pio" =>
          name'[holds[u]] = NoName /\ ref'[holds[u]] = 1
    BY <1>10, <1>i, <1>p DEF LookTake, Goto, pages, TypeOK
  <2>8. \A u \in Procs : u # t =>
          pc'[u] = pc[u] /\ slot'[u] = slot[u] /\ holds'[u] = holds[u]
    BY <1>10, <1>i DEF LookTake, Goto, pages, TypeOK, Holders, SlotInv
  <2> QED BY <1>10, <1>i, <2>7, <2>8, OwnFrom
     DEF LookTake, Goto, pages, TypeOK, Holders, OwnInv
<1>11. CASE LookStale(t)
  <2>7. \A u \in Procs : u # t /\ pc[u] = "pio" =>
          name'[holds[u]] = NoName /\ ref'[holds[u]] = 1
    BY <1>11, <1>i, <1>p DEF LookStale, Goto, SegUnlock, pages, TypeOK
  <2>8. \A u \in Procs : u # t =>
          pc'[u] = pc[u] /\ slot'[u] = slot[u] /\ holds'[u] = holds[u]
    BY <1>11, <1>i
       DEF LookStale, Goto, SegUnlock, pages, TypeOK, Holders, SlotInv
  <2> QED BY <1>11, <1>i, <2>7, <2>8, OwnFrom
     DEF LookStale, Goto, SegUnlock, pages, TypeOK, Holders, OwnInv
<1>12. CASE LookPage(t)
  <2>1. /\ pg[t] \in Pages /\ name[pg[t]] # NoName /\ name' = name
        /\ ref' = [ref EXCEPT ![pg[t]] = ref[pg[t]] + 1]
    BY <1>12, <1>i DEF LookPage, PickInv, SlotInv
  <2>7. \A u \in Procs : u # t /\ pc[u] = "pio" =>
          name'[holds[u]] = NoName /\ ref'[holds[u]] = 1
    BY <2>1, <1>i, <1>p DEF TypeOK
  <2>8. \A u \in Procs : u # t =>
          pc'[u] = pc[u] /\ slot'[u] = slot[u] /\ holds'[u] = holds[u]
    BY <1>12, <1>i DEF LookPage, Return, SegUnlock, TypeOK, Holders, SlotInv
  <2>2. /\ holds' = [holds EXCEPT ![slot[t]] = pg[t]] /\ slot[t] # t
        /\ holds[t] = NoPage /\ pc'[t] = "idle"
    BY <1>12, <1>i DEF LookPage, Return, SlotInv, OwnInv, TypeOK
  <2>3. holds'[t] = NoPage
    BY <2>2, <1>i DEF TypeOK, Holders
  <2> QED BY <1>i, <2>2, <2>3, <2>7, <2>8, OwnFrom
<1>13. CASE Cachepage(t)
  <2>1. /\ holds' = [holds EXCEPT ![slot[t]] = holds[t], ![t] = NoPage]
        /\ name' = [name EXCEPT ![holds[t]] = want[t]] /\ ref' = ref
        /\ slot[t] \in Slots /\ pc[t] = "pio"
    BY <1>13, <1>i DEF Cachepage, SlotInv
  <2>2. \A u \in Procs : u # t /\ pc[u] = "pio" => holds[u] # holds[t]
    BY <2>1, <1>i, <1>p DEF Holders
  <2>7. \A u \in Procs : u # t /\ pc[u] = "pio" =>
          name'[holds[u]] = NoName /\ ref'[holds[u]] = 1
    BY <2>1, <2>2, <1>i, <1>p DEF TypeOK
  <2>3. \A u \in Procs : u # t => holds'[u] = holds[u]
    BY <2>1, <1>i DEF TypeOK, Holders
  <2>4. \A u \in Procs : u # t => pc'[u] = pc[u] /\ slot'[u] = slot[u]
    BY <1>13, <1>i DEF Cachepage, Return, TypeOK
  <2>5. pc'[t] = "idle" /\ holds'[t] = NoPage
    BY <1>13, <2>1, <1>i DEF Cachepage, Return, TypeOK, Holders
  <2> QED BY <1>i, <2>3, <2>4, <2>5, <2>7, OwnFrom
<1>14. CASE PioLost(t)
  <2>7. \A u \in Procs : u # t /\ pc[u] = "pio" =>
          name'[holds[u]] = NoName /\ ref'[holds[u]] = 1
    BY <1>14, <1>i, <1>p DEF PioLost, Goto, locks, pages, TypeOK
  <2>8. \A u \in Procs : u # t =>
          pc'[u] = pc[u] /\ slot'[u] = slot[u] /\ holds'[u] = holds[u]
    BY <1>14, <1>i DEF PioLost, Goto, locks, pages, TypeOK, Holders, SlotInv
  <2> QED BY <1>14, <1>i, <2>7, <2>8, OwnFrom
     DEF PioLost, Goto, locks, pages, TypeOK, Holders, OwnInv
<1>15. CASE DupGiveUp(t)
  <2>7. \A u \in Procs : u # t /\ pc[u] = "pio" =>
          name'[holds[u]] = NoName /\ ref'[holds[u]] = 1
    BY <1>15, <1>i, <1>p
       DEF DupGiveUp, DupReturn, Return, SegUnlock, uncachepage, TypeOK
  <2>8. \A u \in Procs : u # t =>
          pc'[u] = pc[u] /\ slot'[u] = slot[u] /\ holds'[u] = holds[u]
    BY <1>15, <1>i
       DEF DupGiveUp, DupReturn, Return, SegUnlock, uncachepage, TypeOK,
           Holders, SlotInv
  <2> QED BY <1>15, <1>i, <2>7, <2>8, OwnFrom
     DEF DupGiveUp, DupReturn, Return, SegUnlock, uncachepage, TypeOK,
         Holders, OwnInv
<1>16. CASE DupNothing(t)
  <2>7. \A u \in Procs : u # t /\ pc[u] = "pio" =>
          name'[holds[u]] = NoName /\ ref'[holds[u]] = 1
    BY <1>16, <1>i, <1>p DEF DupNothing, DupReturn, Return, SegUnlock, TypeOK
  <2>8. \A u \in Procs : u # t =>
          pc'[u] = pc[u] /\ slot'[u] = slot[u] /\ holds'[u] = holds[u]
    BY <1>16, <1>i
       DEF DupNothing, DupReturn, Return, SegUnlock, TypeOK, Holders, SlotInv
  <2> QED BY <1>16, <1>i, <2>7, <2>8, OwnFrom
     DEF DupNothing, DupReturn, Return, SegUnlock, TypeOK, Holders, OwnInv
<1>17. CASE DupBusy(t)
  <2>7. \A u \in Procs : u # t /\ pc[u] = "pio" =>
          name'[holds[u]] = NoName /\ ref'[holds[u]] = 1
    BY <1>17, <1>i, <1>p DEF DupBusy, Goto, pages, TypeOK
  <2>8. \A u \in Procs : u # t =>
          pc'[u] = pc[u] /\ slot'[u] = slot[u] /\ holds'[u] = holds[u]
    BY <1>17, <1>i DEF DupBusy, Goto, pages, TypeOK, Holders, SlotInv
  <2> QED BY <1>17, <1>i, <2>7, <2>8, OwnFrom
     DEF DupBusy, Goto, pages, TypeOK, Holders, OwnInv
<1>18. CASE DupRelock(t)
  <2>7. \A u \in Procs : u # t /\ pc[u] = "pio" =>
          name'[holds[u]] = NoName /\ ref'[holds[u]] = 1
    BY <1>18, <1>i, <1>p DEF DupRelock, Goto, pages, TypeOK
  <2>8. \A u \in Procs : u # t =>
          pc'[u] = pc[u] /\ slot'[u] = slot[u] /\ holds'[u] = holds[u]
    BY <1>18, <1>i DEF DupRelock, Goto, pages, TypeOK, Holders, SlotInv
  <2> QED BY <1>18, <1>i, <2>7, <2>8, OwnFrom
     DEF DupRelock, Goto, pages, TypeOK, Holders, OwnInv
<1>19. CASE DupNoMemory(t)
  <2>7. \A u \in Procs : u # t /\ pc[u] = "pio" =>
          name'[holds[u]] = NoName /\ ref'[holds[u]] = 1
    BY <1>19, <1>i, <1>p
       DEF DupNoMemory, DupReturn, Return, SegUnlock, uncachepage, TypeOK
  <2>8. \A u \in Procs : u # t =>
          pc'[u] = pc[u] /\ slot'[u] = slot[u] /\ holds'[u] = holds[u]
    BY <1>19, <1>i
       DEF DupNoMemory, DupReturn, Return, SegUnlock, uncachepage, TypeOK,
           Holders, SlotInv
  <2> QED BY <1>19, <1>i, <2>7, <2>8, OwnFrom
     DEF DupNoMemory, DupReturn, Return, SegUnlock, uncachepage, TypeOK,
         Holders, OwnInv
<1>20. CASE DupTake(t)
  <2>7. \A u \in Procs : u # t /\ pc[u] = "pio" =>
          name'[holds[u]] = NoName /\ ref'[holds[u]] = 1
    BY <1>20, <1>i, <1>p DEF DupTake, Goto, TypeOK
  <2>8. \A u \in Procs : u # t =>
          pc'[u] = pc[u] /\ slot'[u] = slot[u] /\ holds'[u] = holds[u]
    BY <1>20, <1>i DEF DupTake, Goto, TypeOK, Holders, SlotInv
  <2> QED BY <1>20, <1>i, <2>7, <2>8, OwnFrom
     DEF DupTake, Goto, TypeOK, Holders, OwnInv
<1>21. CASE DupLockNp(t)
  <2>7. \A u \in Procs : u # t /\ pc[u] = "pio" =>
          name'[holds[u]] = NoName /\ ref'[holds[u]] = 1
    BY <1>21, <1>i, <1>p DEF DupLockNp, Goto, uncachepage, TypeOK
  <2>8. \A u \in Procs : u # t =>
          pc'[u] = pc[u] /\ slot'[u] = slot[u] /\ holds'[u] = holds[u]
    BY <1>21, <1>i DEF DupLockNp, Goto, uncachepage, TypeOK, Holders, SlotInv
  <2> QED BY <1>21, <1>i, <2>7, <2>8, OwnFrom
     DEF DupLockNp, Goto, uncachepage, TypeOK, Holders, OwnInv
<1>22. CASE DupCache(t)
  <2>1. /\ np[t] \in Pages /\ ref[np[t]] = 0 /\ ref' = ref
        /\ name' = [name EXCEPT ![np[t]] = name[pg[t]]]
    BY <1>22, <1>i DEF DupCache, PickInv
  <2>7. \A u \in Procs : u # t /\ pc[u] = "pio" =>
          name'[holds[u]] = NoName /\ ref'[holds[u]] = 1
    BY <2>1, <1>i, <1>p DEF TypeOK
  <2>8. \A u \in Procs : u # t =>
          pc'[u] = pc[u] /\ slot'[u] = slot[u] /\ holds'[u] = holds[u]
    BY <1>22, <1>i DEF DupCache, Goto, TypeOK, Holders, SlotInv
  <2> QED BY <1>22, <1>i, <2>7, <2>8, OwnFrom
     DEF DupCache, Goto, TypeOK, Holders, OwnInv
<1>23. CASE DupDone(t)
  <2>7. \A u \in Procs : u # t /\ pc[u] = "pio" =>
          name'[holds[u]] = NoName /\ ref'[holds[u]] = 1
    BY <1>23, <1>i, <1>p
       DEF DupDone, DupReturn, Return, SegUnlock, uncachepage, TypeOK
  <2>8. \A u \in Procs : u # t =>
          pc'[u] = pc[u] /\ slot'[u] = slot[u] /\ holds'[u] = holds[u]
    BY <1>23, <1>i
       DEF DupDone, DupReturn, Return, SegUnlock, uncachepage, TypeOK,
           Holders, SlotInv
  <2> QED BY <1>23, <1>i, <2>7, <2>8, OwnFrom
     DEF DupDone, DupReturn, Return, SegUnlock, uncachepage, TypeOK, Holders,
         OwnInv
<1>24. CASE AuxTake(t)
  <2>7. \A u \in Procs : u # t /\ pc[u] = "pio" =>
          name'[holds[u]] = NoName /\ ref'[holds[u]] = 1
    BY <1>24, <1>i, <1>p DEF AuxTake, Goto, TypeOK
  <2>8. \A u \in Procs : u # t =>
          pc'[u] = pc[u] /\ slot'[u] = slot[u] /\ holds'[u] = holds[u]
    BY <1>24, <1>i DEF AuxTake, Goto, TypeOK, Holders, SlotInv
  <2> QED BY <1>24, <1>i, <2>7, <2>8, OwnFrom
     DEF AuxTake, Goto, TypeOK, Holders, OwnInv
<1>25. ASSUME NEW f \in Pages, LookHit(t, f)
      PROVE  OwnInv'
  <2>7. \A u \in Procs : u # t /\ pc[u] = "pio" =>
          name'[holds[u]] = NoName /\ ref'[holds[u]] = 1
    BY <1>25, <1>i, <1>p DEF LookHit, Goto, locks, pages, TypeOK
  <2>8. \A u \in Procs : u # t =>
          pc'[u] = pc[u] /\ slot'[u] = slot[u] /\ holds'[u] = holds[u]
    BY <1>25, <1>i DEF LookHit, Goto, locks, pages, TypeOK, Holders, SlotInv
  <2> QED BY <1>25, <1>i, <2>7, <2>8, OwnFrom
     DEF LookHit, Goto, locks, pages, TypeOK, Holders, OwnInv
<1>26. ASSUME NEW s \in Slots, NewStart(t, s)
      PROVE  OwnInv'
  <2>7. \A u \in Procs : u # t /\ pc[u] = "pio" =>
          name'[holds[u]] = NoName /\ ref'[holds[u]] = 1
    BY <1>26, <1>i, <1>p DEF NewStart, Enter, Goto, pages, TypeOK
  <2>8. \A u \in Procs : u # t =>
          pc'[u] = pc[u] /\ slot'[u] = slot[u] /\ holds'[u] = holds[u]
    BY <1>26, <1>i DEF NewStart, Enter, Goto, pages, TypeOK, Holders, SlotInv
  <2> QED BY <1>26, <1>i, <2>7, <2>8, OwnFrom
     DEF NewStart, Enter, Goto, pages, TypeOK, Holders, OwnInv
<1>27. ASSUME NEW s \in Slots, FreePte(t, s)
      PROVE  OwnInv'
  <2>7. \A u \in Procs : u # t /\ pc[u] = "pio" =>
          name'[holds[u]] = NoName /\ ref'[holds[u]] = 1
    BY <1>27, <1>i, <1>p DEF FreePte, Enter, Goto, pages, TypeOK
  <2>8. \A u \in Procs : u # t =>
          pc'[u] = pc[u] /\ slot'[u] = slot[u] /\ holds'[u] = holds[u]
    BY <1>27, <1>i DEF FreePte, Enter, Goto, pages, TypeOK, Holders, SlotInv
  <2> QED BY <1>27, <1>i, <2>7, <2>8, OwnFrom
     DEF FreePte, Enter, Goto, pages, TypeOK, Holders, OwnInv
<1>28. ASSUME NEW s \in Slots, WriteFault(t, s)
      PROVE  OwnInv'
  <2>7. \A u \in Procs : u # t /\ pc[u] = "pio" =>
          name'[holds[u]] = NoName /\ ref'[holds[u]] = 1
    BY <1>28, <1>i, <1>p DEF WriteFault, Goto, TypeOK
  <2>8. \A u \in Procs : u # t =>
          pc'[u] = pc[u] /\ slot'[u] = slot[u] /\ holds'[u] = holds[u]
    BY <1>28, <1>i DEF WriteFault, Goto, TypeOK, Holders, SlotInv
  <2> QED BY <1>28, <1>i, <2>7, <2>8, OwnFrom
     DEF WriteFault, Goto, TypeOK, Holders, OwnInv
<1>29. ASSUME NEW s \in Slots, NEW n \in Names, LookStart(t, s, n)
      PROVE  OwnInv'
  <2>7. \A u \in Procs : u # t /\ pc[u] = "pio" =>
          name'[holds[u]] = NoName /\ ref'[holds[u]] = 1
    BY <1>29, <1>i, <1>p DEF LookStart, Enter, Goto, pages, TypeOK
  <2>8. \A u \in Procs : u # t =>
          pc'[u] = pc[u] /\ slot'[u] = slot[u] /\ holds'[u] = holds[u]
    BY <1>29, <1>i DEF LookStart, Enter, Goto, pages, TypeOK, Holders, SlotInv
  <2> QED BY <1>29, <1>i, <2>7, <2>8, OwnFrom
     DEF LookStart, Enter, Goto, pages, TypeOK, Holders, OwnInv
<1>30. ASSUME NEW s \in Slots, NEW d \in Slots, PteCpy(t, s, d)
      PROVE  OwnInv'
  <2>1. /\ holds[s] \in Pages /\ s \in Holders /\ s \notin Procs /\ name' = name
        /\ ref' = [ref EXCEPT ![holds[s]] = ref[holds[s]] + 1]
    BY <1>30, <1>i DEF PteCpy, TypeOK, Holders
  <2>2. \A u \in Procs : pc[u] = "pio" => holds[u] # holds[s]
    BY <2>1, <1>p
  <2>7. \A u \in Procs : u # t /\ pc[u] = "pio" =>
          name'[holds[u]] = NoName /\ ref'[holds[u]] = 1
    BY <2>1, <2>2, <1>i, <1>p DEF TypeOK
  <2>8. \A u \in Procs : u # t =>
          pc'[u] = pc[u] /\ slot'[u] = slot[u] /\ holds'[u] = holds[u]
    BY <1>30, <1>i DEF PteCpy, locks, locals, TypeOK, Holders, SlotInv
  <2> QED BY <1>30, <1>i, <2>7, <2>8, OwnFrom
     DEF PteCpy, locks, locals, TypeOK, Holders, OwnInv
<1> QED BY <1>1, <1>2, <1>3, <1>4, <1>5, <1>6, <1>7, <1>8, <1>9, <1>10,
  <1>11, <1>12, <1>13, <1>14, <1>15, <1>16, <1>17, <1>18, <1>19, <1>20,
  <1>21, <1>22, <1>23, <1>24, <1>25, <1>26, <1>27, <1>28, <1>29, <1>30 DEF
  Step, Call

-----------------------------------------------------------------------------
(* Writable mappings.                                                      *)

LEMMA TextFrom ==
  ASSUME TextInv, NEW t \in Procs,
         \A u \in Procs : u # t =>
           pc'[u] = pc[u] /\ pg'[u] = pg[u] /\ retries'[u] = retries[u],
         \A u \in Procs :
           pc[u] \in {"dup", "dup_relock", "dup_np", "dup_cache", "dup_done"} =>
             (name[pg[u]] \notin NoText => name'[pg[u]] \notin NoText),
         pc'[t] = "idle" => retries'[t] = 0,
         pc'[t] \in {"dup", "dup_relock"} /\ retries'[t] > 0 =>
           name'[pg'[t]] \notin NoText,
         pc'[t] \in {"dup_np", "dup_cache", "dup_done"} =>
           name'[pg'[t]] \notin NoText
  PROVE  TextInv'
BY DEF TextInv

LEMMA TextStep ==
  ASSUME IndInv, NEW t \in Procs, Step(t) \/ Call(t)
  PROVE  TextInv'
<1>i. /\ TypeOK /\ RefExact /\ LockInv /\ SlotInv /\ OwnInv /\ PickInv
      /\ TextInv /\ WritableInv
      /\ NoProc \notin Procs /\ NoPage \notin Pages /\ NoSlot \notin Holders
      /\ NoName \notin Names /\ NoText \subseteq Names
      /\ Procs \cap Slots = {} /\ dupretries \in Nat
  BY PageAllocAssumption DEF IndInv, TypeOK, Holders
<1>p. \A x \in Holders : holds[x] \in Pages =>
        /\ ref[holds[x]] # 0
        /\ ref[holds[x]] = 1 => \A y \in Holders : holds[y] = holds[x] => y = x
  BY <1>i, Held
<1>1. CASE NewTake(t)
  <2>8. \A u \in Procs : u # t =>
          pc'[u] = pc[u] /\ pg'[u] = pg[u] /\ retries'[u] = retries[u]
    BY <1>1, <1>i DEF NewTake, Goto, CanAllocate, TypeOK
  <2>7. \A u \in Procs :
          pc[u] \in {"dup", "dup_relock", "dup_np", "dup_cache", "dup_done"} =>
            (name[pg[u]] \notin NoText => name'[pg[u]] \notin NoText)
    BY <1>1, <1>i DEF NewTake, Goto, CanAllocate, TypeOK, SlotInv
  <2> QED BY <1>1, <1>i, <2>7, <2>8, TextFrom
     DEF NewTake, Goto, CanAllocate, TypeOK, TextInv
<1>2. CASE NewMustWait(t)
  <2>8. \A u \in Procs : u # t =>
          pc'[u] = pc[u] /\ pg'[u] = pg[u] /\ retries'[u] = retries[u]
    BY <1>2, <1>i DEF NewMustWait, Goto, SegUnlock, CanAllocate, pages, TypeOK
  <2>7. \A u \in Procs :
          pc[u] \in {"dup", "dup_relock", "dup_np", "dup_cache", "dup_done"} =>
            (name[pg[u]] \notin NoText => name'[pg[u]] \notin NoText)
    BY <1>2, <1>i
       DEF NewMustWait, Goto, SegUnlock, CanAllocate, pages, TypeOK, SlotInv
  <2> QED BY <1>2, <1>i, <2>7, <2>8, TextFrom
     DEF NewMustWait, Goto, SegUnlock, CanAllocate, pages, TypeOK, TextInv
<1>3. CASE NewQlock(t)
  <2>8. \A u \in Procs : u # t =>
          pc'[u] = pc[u] /\ pg'[u] = pg[u] /\ retries'[u] = retries[u]
    BY <1>3, <1>i DEF NewQlock, Goto, pages, TypeOK
  <2>7. \A u \in Procs :
          pc[u] \in {"dup", "dup_relock", "dup_np", "dup_cache", "dup_done"} =>
            (name[pg[u]] \notin NoText => name'[pg[u]] \notin NoText)
    BY <1>3, <1>i DEF NewQlock, Goto, pages, TypeOK, SlotInv
  <2> QED BY <1>3, <1>i, <2>7, <2>8, TextFrom
     DEF NewQlock, Goto, pages, TypeOK, TextInv
<1>4. CASE NewWake(t)
  <2>8. \A u \in Procs : u # t =>
          pc'[u] = pc[u] /\ pg'[u] = pg[u] /\ retries'[u] = retries[u]
    BY <1>4, <1>i DEF NewWake, Return, Goto, pages, TypeOK
  <2>7. \A u \in Procs :
          pc[u] \in {"dup", "dup_relock", "dup_np", "dup_cache", "dup_done"} =>
            (name[pg[u]] \notin NoText => name'[pg[u]] \notin NoText)
    BY <1>4, <1>i DEF NewWake, Return, Goto, pages, TypeOK, SlotInv
  <2> QED BY <1>4, <1>i, <2>7, <2>8, TextFrom
     DEF NewWake, Return, Goto, pages, TypeOK, TextInv
<1>5. CASE NewPage(t)
  <2>8. \A u \in Procs : u # t =>
          pc'[u] = pc[u] /\ pg'[u] = pg[u] /\ retries'[u] = retries[u]
    BY <1>5, <1>i DEF NewPage, Return, Goto, SegUnlock, uncachepage, TypeOK
  <2>7. \A u \in Procs :
          pc[u] \in {"dup", "dup_relock", "dup_np", "dup_cache", "dup_done"} =>
            (name[pg[u]] \notin NoText => name'[pg[u]] \notin NoText)
    BY <1>5, <1>i
       DEF NewPage, Return, Goto, SegUnlock, uncachepage, TypeOK, SlotInv
  <2> QED BY <1>5, <1>i, <2>7, <2>8, TextFrom
     DEF NewPage, Return, Goto, SegUnlock, uncachepage, TypeOK, TextInv
<1>6. CASE PutTake(t)
  <2>8. \A u \in Procs : u # t =>
          pc'[u] = pc[u] /\ pg'[u] = pg[u] /\ retries'[u] = retries[u]
    BY <1>6, <1>i DEF PutTake, Goto, pages, TypeOK
  <2>7. \A u \in Procs :
          pc[u] \in {"dup", "dup_relock", "dup_np", "dup_cache", "dup_done"} =>
            (name[pg[u]] \notin NoText => name'[pg[u]] \notin NoText)
    BY <1>6, <1>i DEF PutTake, Goto, pages, TypeOK, SlotInv
  <2> QED BY <1>6, <1>i, <2>7, <2>8, TextFrom
     DEF PutTake, Goto, pages, TypeOK, TextInv
<1>7. CASE PutPage(t)
  <2>8. \A u \in Procs : u # t =>
          pc'[u] = pc[u] /\ pg'[u] = pg[u] /\ retries'[u] = retries[u]
    BY <1>7, <1>i DEF PutPage, Return, SegUnlock, TypeOK
  <2>7. \A u \in Procs :
          pc[u] \in {"dup", "dup_relock", "dup_np", "dup_cache", "dup_done"} =>
            (name[pg[u]] \notin NoText => name'[pg[u]] \notin NoText)
    BY <1>7, <1>i DEF PutPage, Return, SegUnlock, TypeOK, SlotInv
  <2> QED BY <1>7, <1>i, <2>7, <2>8, TextFrom
     DEF PutPage, Return, SegUnlock, TypeOK, TextInv
<1>8. CASE AuxPage(t)
  <2>8. \A u \in Procs : u # t =>
          pc'[u] = pc[u] /\ pg'[u] = pg[u] /\ retries'[u] = retries[u]
    BY <1>8, <1>i DEF AuxPage, Goto, uncachepage, TypeOK
  <2>7. \A u \in Procs :
          pc[u] \in {"dup", "dup_relock", "dup_np", "dup_cache", "dup_done"} =>
            (name[pg[u]] \notin NoText => name'[pg[u]] \notin NoText)
    BY <1>8, <1>i DEF AuxPage, Goto, uncachepage, TypeOK, SlotInv
  <2> QED BY <1>8, <1>i, <2>7, <2>8, TextFrom
     DEF AuxPage, Goto, uncachepage, TypeOK, TextInv
<1>9. CASE LookMiss(t)
  <2>8. \A u \in Procs : u # t =>
          pc'[u] = pc[u] /\ pg'[u] = pg[u] /\ retries'[u] = retries[u]
    BY <1>9, <1>i DEF LookMiss, Goto, SegUnlock, pages, TypeOK
  <2>7. \A u \in Procs :
          pc[u] \in {"dup", "dup_relock", "dup_np", "dup_cache", "dup_done"} =>
            (name[pg[u]] \notin NoText => name'[pg[u]] \notin NoText)
    BY <1>9, <1>i DEF LookMiss, Goto, SegUnlock, pages, TypeOK, SlotInv
  <2> QED BY <1>9, <1>i, <2>7, <2>8, TextFrom
     DEF LookMiss, Goto, SegUnlock, pages, TypeOK, TextInv
<1>10. CASE LookTake(t)
  <2>8. \A u \in Procs : u # t =>
          pc'[u] = pc[u] /\ pg'[u] = pg[u] /\ retries'[u] = retries[u]
    BY <1>10, <1>i DEF LookTake, Goto, pages, TypeOK
  <2>7. \A u \in Procs :
          pc[u] \in {"dup", "dup_relock", "dup_np", "dup_cache", "dup_done"} =>
            (name[pg[u]] \notin NoText => name'[pg[u]] \notin NoText)
    BY <1>10, <1>i DEF LookTake, Goto, pages, TypeOK, SlotInv
  <2> QED BY <1>10, <1>i, <2>7, <2>8, TextFrom
     DEF LookTake, Goto, pages, TypeOK, TextInv
<1>11. CASE LookStale(t)
  <2>8. \A u \in Procs : u # t =>
          pc'[u] = pc[u] /\ pg'[u] = pg[u] /\ retries'[u] = retries[u]
    BY <1>11, <1>i DEF LookStale, Goto, SegUnlock, pages, TypeOK
  <2>7. \A u \in Procs :
          pc[u] \in {"dup", "dup_relock", "dup_np", "dup_cache", "dup_done"} =>
            (name[pg[u]] \notin NoText => name'[pg[u]] \notin NoText)
    BY <1>11, <1>i DEF LookStale, Goto, SegUnlock, pages, TypeOK, SlotInv
  <2> QED BY <1>11, <1>i, <2>7, <2>8, TextFrom
     DEF LookStale, Goto, SegUnlock, pages, TypeOK, TextInv
<1>12. CASE LookPage(t)
  <2>8. \A u \in Procs : u # t =>
          pc'[u] = pc[u] /\ pg'[u] = pg[u] /\ retries'[u] = retries[u]
    BY <1>12, <1>i DEF LookPage, Return, SegUnlock, TypeOK
  <2>7. \A u \in Procs :
          pc[u] \in {"dup", "dup_relock", "dup_np", "dup_cache", "dup_done"} =>
            (name[pg[u]] \notin NoText => name'[pg[u]] \notin NoText)
    BY <1>12, <1>i DEF LookPage, Return, SegUnlock, TypeOK, SlotInv
  <2> QED BY <1>12, <1>i, <2>7, <2>8, TextFrom
     DEF LookPage, Return, SegUnlock, TypeOK, TextInv
<1>13. CASE Cachepage(t)
  <2>8. \A u \in Procs : u # t =>
          pc'[u] = pc[u] /\ pg'[u] = pg[u] /\ retries'[u] = retries[u]
    BY <1>13, <1>i DEF Cachepage, Return, locks, TypeOK
  <2>1. /\ name' = [name EXCEPT ![holds[t]] = want[t]]
        /\ holds[t] \in Pages /\ ref[holds[t]] = 1
    BY <1>13, <1>i DEF Cachepage, OwnInv
  <2>3. \A u \in Procs :
          pc[u] \in {"dup", "dup_relock", "dup_np", "dup_cache", "dup_done"} =>
            pg[u] \in Pages /\ pg[u] # holds[t]
    BY <2>1, <1>i, <1>p DEF SlotInv, Holders
  <2>7. \A u \in Procs :
          pc[u] \in {"dup", "dup_relock", "dup_np", "dup_cache", "dup_done"} =>
            (name[pg[u]] \notin NoText => name'[pg[u]] \notin NoText)
    BY <2>1, <2>3, <1>i DEF TypeOK
  <2>2. pc'[t] = "idle" /\ retries'[t] = 0
    BY <1>13, <1>i DEF Cachepage, Return, TypeOK
  <2> QED BY <1>i, <2>2, <2>7, <2>8, TextFrom
<1>14. CASE PioLost(t)
  <2>8. \A u \in Procs : u # t =>
          pc'[u] = pc[u] /\ pg'[u] = pg[u] /\ retries'[u] = retries[u]
    BY <1>14, <1>i DEF PioLost, Goto, locks, pages, TypeOK
  <2>7. \A u \in Procs :
          pc[u] \in {"dup", "dup_relock", "dup_np", "dup_cache", "dup_done"} =>
            (name[pg[u]] \notin NoText => name'[pg[u]] \notin NoText)
    BY <1>14, <1>i DEF PioLost, Goto, locks, pages, TypeOK, SlotInv
  <2> QED BY <1>14, <1>i, <2>7, <2>8, TextFrom
     DEF PioLost, Goto, locks, pages, TypeOK, TextInv
<1>15. CASE DupGiveUp(t)
  <2>8. \A u \in Procs : u # t =>
          pc'[u] = pc[u] /\ pg'[u] = pg[u] /\ retries'[u] = retries[u]
    BY <1>15, <1>i
       DEF DupGiveUp, DupReturn, Return, SegUnlock, uncachepage, TypeOK
  <2>7. \A u \in Procs :
          pc[u] \in {"dup", "dup_relock", "dup_np", "dup_cache", "dup_done"} =>
            (name[pg[u]] \notin NoText => name'[pg[u]] \notin NoText)
    BY <1>15, <1>i
       DEF DupGiveUp, DupReturn, Return, SegUnlock, uncachepage, TypeOK,
           SlotInv
  <2> QED BY <1>15, <1>i, <2>7, <2>8, TextFrom
     DEF DupGiveUp, DupReturn, Return, SegUnlock, uncachepage, TypeOK, TextInv
<1>16. CASE DupNothing(t)
  <2>8. \A u \in Procs : u # t =>
          pc'[u] = pc[u] /\ pg'[u] = pg[u] /\ retries'[u] = retries[u]
    BY <1>16, <1>i DEF DupNothing, DupReturn, Return, SegUnlock, TypeOK
  <2>7. \A u \in Procs :
          pc[u] \in {"dup", "dup_relock", "dup_np", "dup_cache", "dup_done"} =>
            (name[pg[u]] \notin NoText => name'[pg[u]] \notin NoText)
    BY <1>16, <1>i
       DEF DupNothing, DupReturn, Return, SegUnlock, TypeOK, SlotInv
  <2> QED BY <1>16, <1>i, <2>7, <2>8, TextFrom
     DEF DupNothing, DupReturn, Return, SegUnlock, TypeOK, TextInv
<1>17. CASE DupBusy(t)
  <2>8. \A u \in Procs : u # t =>
          pc'[u] = pc[u] /\ pg'[u] = pg[u] /\ retries'[u] = retries[u]
    BY <1>17, <1>i DEF DupBusy, Goto, pages, TypeOK
  <2>7. \A u \in Procs :
          pc[u] \in {"dup", "dup_relock", "dup_np", "dup_cache", "dup_done"} =>
            (name[pg[u]] \notin NoText => name'[pg[u]] \notin NoText)
    BY <1>17, <1>i DEF DupBusy, Goto, pages, TypeOK, SlotInv
  <2> QED BY <1>17, <1>i, <2>7, <2>8, TextFrom
     DEF DupBusy, Goto, pages, TypeOK, TextInv
<1>18. CASE DupRelock(t)
  <2>8. \A u \in Procs : u # t =>
          pc'[u] = pc[u] /\ pg'[u] = pg[u] /\ retries'[u] = retries[u]
    BY <1>18, <1>i DEF DupRelock, Goto, pages, TypeOK
  <2>7. \A u \in Procs :
          pc[u] \in {"dup", "dup_relock", "dup_np", "dup_cache", "dup_done"} =>
            (name[pg[u]] \notin NoText => name'[pg[u]] \notin NoText)
    BY <1>18, <1>i DEF DupRelock, Goto, pages, TypeOK, SlotInv
  <2> QED BY <1>18, <1>i, <2>7, <2>8, TextFrom
     DEF DupRelock, Goto, pages, TypeOK, TextInv
<1>19. CASE DupNoMemory(t)
  <2>8. \A u \in Procs : u # t =>
          pc'[u] = pc[u] /\ pg'[u] = pg[u] /\ retries'[u] = retries[u]
    BY <1>19, <1>i
       DEF DupNoMemory, DupReturn, Return, SegUnlock, uncachepage, TypeOK
  <2>7. \A u \in Procs :
          pc[u] \in {"dup", "dup_relock", "dup_np", "dup_cache", "dup_done"} =>
            (name[pg[u]] \notin NoText => name'[pg[u]] \notin NoText)
    BY <1>19, <1>i
       DEF DupNoMemory, DupReturn, Return, SegUnlock, uncachepage, TypeOK,
           SlotInv
  <2> QED BY <1>19, <1>i, <2>7, <2>8, TextFrom
     DEF DupNoMemory, DupReturn, Return, SegUnlock, uncachepage, TypeOK,
         TextInv
<1>20. CASE DupTake(t)
  <2>8. \A u \in Procs : u # t =>
          pc'[u] = pc[u] /\ pg'[u] = pg[u] /\ retries'[u] = retries[u]
    BY <1>20, <1>i DEF DupTake, Goto, TypeOK
  <2>7. \A u \in Procs :
          pc[u] \in {"dup", "dup_relock", "dup_np", "dup_cache", "dup_done"} =>
            (name[pg[u]] \notin NoText => name'[pg[u]] \notin NoText)
    BY <1>20, <1>i DEF DupTake, Goto, TypeOK, SlotInv
  <2> QED BY <1>20, <1>i, <2>7, <2>8, TextFrom
     DEF DupTake, Goto, TypeOK, TextInv
<1>21. CASE DupLockNp(t)
  <2>8. \A u \in Procs : u # t =>
          pc'[u] = pc[u] /\ pg'[u] = pg[u] /\ retries'[u] = retries[u]
    BY <1>21, <1>i DEF DupLockNp, Goto, uncachepage, TypeOK
  <2>7. \A u \in Procs :
          pc[u] \in {"dup", "dup_relock", "dup_np", "dup_cache", "dup_done"} =>
            (name[pg[u]] \notin NoText => name'[pg[u]] \notin NoText)
    BY <1>21, <1>i DEF DupLockNp, Goto, uncachepage, TypeOK, SlotInv
  <2> QED BY <1>21, <1>i, <2>7, <2>8, TextFrom
     DEF DupLockNp, Goto, uncachepage, TypeOK, TextInv
<1>22. CASE DupCache(t)
  <2>8. \A u \in Procs : u # t =>
          pc'[u] = pc[u] /\ pg'[u] = pg[u] /\ retries'[u] = retries[u]
    BY <1>22, <1>i DEF DupCache, Goto, TypeOK
  <2>1. /\ name' = [name EXCEPT ![np[t]] = name[pg[t]]]
        /\ np[t] \in Pages /\ ref[np[t]] = 0
    BY <1>22, <1>i DEF DupCache, PickInv
  <2>3. \A u \in Procs :
          pc[u] \in {"dup", "dup_relock", "dup_np", "dup_cache", "dup_done"} =>
            pg[u] \in Pages /\ pg[u] # np[t]
    BY <2>1, <1>i, <1>p DEF SlotInv, Holders
  <2>7. \A u \in Procs :
          pc[u] \in {"dup", "dup_relock", "dup_np", "dup_cache", "dup_done"} =>
            (name[pg[u]] \notin NoText => name'[pg[u]] \notin NoText)
    BY <2>1, <2>3, <1>i DEF TypeOK
  <2> QED BY <1>22, <1>i, <2>7, <2>8, TextFrom
     DEF DupCache, Goto, TypeOK, TextInv
<1>23. CASE DupDone(t)
  <2>8. \A u \in Procs : u # t =>
          pc'[u] = pc[u] /\ pg'[u] = pg[u] /\ retries'[u] = retries[u]
    BY <1>23, <1>i
       DEF DupDone, DupReturn, Return, SegUnlock, uncachepage, TypeOK
  <2>7. \A u \in Procs :
          pc[u] \in {"dup", "dup_relock", "dup_np", "dup_cache", "dup_done"} =>
            (name[pg[u]] \notin NoText => name'[pg[u]] \notin NoText)
    BY <1>23, <1>i
       DEF DupDone, DupReturn, Return, SegUnlock, uncachepage, TypeOK, SlotInv
  <2> QED BY <1>23, <1>i, <2>7, <2>8, TextFrom
     DEF DupDone, DupReturn, Return, SegUnlock, uncachepage, TypeOK, TextInv
<1>24. CASE AuxTake(t)
  <2>8. \A u \in Procs : u # t =>
          pc'[u] = pc[u] /\ pg'[u] = pg[u] /\ retries'[u] = retries[u]
    BY <1>24, <1>i DEF AuxTake, Goto, TypeOK
  <2>7. \A u \in Procs :
          pc[u] \in {"dup", "dup_relock", "dup_np", "dup_cache", "dup_done"} =>
            (name[pg[u]] \notin NoText => name'[pg[u]] \notin NoText)
    BY <1>24, <1>i DEF AuxTake, Goto, TypeOK, SlotInv
  <2> QED BY <1>24, <1>i, <2>7, <2>8, TextFrom
     DEF AuxTake, Goto, TypeOK, TextInv
<1>25. ASSUME NEW f \in Pages, LookHit(t, f)
      PROVE  TextInv'
  <2>8. \A u \in Procs : u # t =>
          pc'[u] = pc[u] /\ pg'[u] = pg[u] /\ retries'[u] = retries[u]
    BY <1>25, <1>i DEF LookHit, Goto, locks, pages, TypeOK
  <2>7. \A u \in Procs :
          pc[u] \in {"dup", "dup_relock", "dup_np", "dup_cache", "dup_done"} =>
            (name[pg[u]] \notin NoText => name'[pg[u]] \notin NoText)
    BY <1>25, <1>i DEF LookHit, Goto, locks, pages, TypeOK, SlotInv
  <2> QED BY <1>25, <1>i, <2>7, <2>8, TextFrom
     DEF LookHit, Goto, locks, pages, TypeOK, TextInv
<1>26. ASSUME NEW s \in Slots, NewStart(t, s)
      PROVE  TextInv'
  <2>8. \A u \in Procs : u # t =>
          pc'[u] = pc[u] /\ pg'[u] = pg[u] /\ retries'[u] = retries[u]
    BY <1>26, <1>i DEF NewStart, Enter, Goto, pages, TypeOK
  <2>7. \A u \in Procs :
          pc[u] \in {"dup", "dup_relock", "dup_np", "dup_cache", "dup_done"} =>
            (name[pg[u]] \notin NoText => name'[pg[u]] \notin NoText)
    BY <1>26, <1>i DEF NewStart, Enter, Goto, pages, TypeOK, SlotInv
  <2> QED BY <1>26, <1>i, <2>7, <2>8, TextFrom
     DEF NewStart, Enter, Goto, pages, TypeOK, TextInv
<1>27. ASSUME NEW s \in Slots, FreePte(t, s)
      PROVE  TextInv'
  <2>8. \A u \in Procs : u # t =>
          pc'[u] = pc[u] /\ pg'[u] = pg[u] /\ retries'[u] = retries[u]
    BY <1>27, <1>i DEF FreePte, Enter, Goto, pages, TypeOK
  <2>7. \A u \in Procs :
          pc[u] \in {"dup", "dup_relock", "dup_np", "dup_cache", "dup_done"} =>
            (name[pg[u]] \notin NoText => name'[pg[u]] \notin NoText)
    BY <1>27, <1>i DEF FreePte, Enter, Goto, pages, TypeOK, SlotInv
  <2> QED BY <1>27, <1>i, <2>7, <2>8, TextFrom
     DEF FreePte, Enter, Goto, pages, TypeOK, TextInv
<1>28. ASSUME NEW s \in Slots, WriteFault(t, s)
      PROVE  TextInv'
  <2>8. \A u \in Procs : u # t =>
          pc'[u] = pc[u] /\ pg'[u] = pg[u] /\ retries'[u] = retries[u]
    BY <1>28, <1>i DEF WriteFault, Goto, TypeOK
  <2>7. \A u \in Procs :
          pc[u] \in {"dup", "dup_relock", "dup_np", "dup_cache", "dup_done"} =>
            (name[pg[u]] \notin NoText => name'[pg[u]] \notin NoText)
    BY <1>28, <1>i DEF WriteFault, Goto, TypeOK, SlotInv
  <2> QED BY <1>28, <1>i, <2>7, <2>8, TextFrom
     DEF WriteFault, Goto, TypeOK, TextInv
<1>29. ASSUME NEW s \in Slots, NEW n \in Names, LookStart(t, s, n)
      PROVE  TextInv'
  <2>8. \A u \in Procs : u # t =>
          pc'[u] = pc[u] /\ pg'[u] = pg[u] /\ retries'[u] = retries[u]
    BY <1>29, <1>i DEF LookStart, Enter, Goto, pages, TypeOK
  <2>7. \A u \in Procs :
          pc[u] \in {"dup", "dup_relock", "dup_np", "dup_cache", "dup_done"} =>
            (name[pg[u]] \notin NoText => name'[pg[u]] \notin NoText)
    BY <1>29, <1>i DEF LookStart, Enter, Goto, pages, TypeOK, SlotInv
  <2> QED BY <1>29, <1>i, <2>7, <2>8, TextFrom
     DEF LookStart, Enter, Goto, pages, TypeOK, TextInv
<1>30. ASSUME NEW s \in Slots, NEW d \in Slots, PteCpy(t, s, d)
      PROVE  TextInv'
  <2>8. \A u \in Procs : u # t =>
          pc'[u] = pc[u] /\ pg'[u] = pg[u] /\ retries'[u] = retries[u]
    BY <1>30, <1>i DEF PteCpy, locks, locals, TypeOK
  <2>7. \A u \in Procs :
          pc[u] \in {"dup", "dup_relock", "dup_np", "dup_cache", "dup_done"} =>
            (name[pg[u]] \notin NoText => name'[pg[u]] \notin NoText)
    BY <1>30, <1>i DEF PteCpy, locks, locals, TypeOK, SlotInv
  <2> QED BY <1>30, <1>i, <2>7, <2>8, TextFrom
     DEF PteCpy, locks, locals, TypeOK, TextInv
<1> QED BY <1>1, <1>2, <1>3, <1>4, <1>5, <1>6, <1>7, <1>8, <1>9, <1>10,
  <1>11, <1>12, <1>13, <1>14, <1>15, <1>16, <1>17, <1>18, <1>19, <1>20,
  <1>21, <1>22, <1>23, <1>24, <1>25, <1>26, <1>27, <1>28, <1>29, <1>30 DEF
  Step, Call

LEMMA WritableStep ==
  ASSUME IndInv, NEW t \in Procs, Step(t) \/ Call(t)
  PROVE  WritableInv'
<1>i. /\ TypeOK /\ RefExact /\ FreeIsUnused /\ LockInv /\ SlotInv /\ OwnInv /\ PickInv
      /\ TextInv /\ WritableInv
      /\ NoProc \notin Procs /\ NoPage \notin Pages /\ NoSlot \notin Holders
      /\ NoName \notin Names /\ NoText \subseteq Names
      /\ Procs \cap Slots = {} /\ dupretries \in Nat
  BY PageAllocAssumption DEF IndInv, TypeOK, Holders
<1>p. \A x \in Holders : holds[x] \in Pages =>
        /\ ref[holds[x]] # 0
        /\ ref[holds[x]] = 1 => \A y \in Holders : holds[y] = holds[x] => y = x
  BY <1>i, Held
<1>1. CASE NewTake(t)
  <2>1. UNCHANGED <<name, holds, writable>>
    BY <1>1 DEF NewTake, Goto, CanAllocate
  <2> QED BY <2>1, <1>i DEF WritableInv
<1>2. CASE NewMustWait(t)
  <2>1. UNCHANGED <<name, holds, writable>>
    BY <1>2 DEF NewMustWait, Goto, SegUnlock, CanAllocate, pages
  <2> QED BY <2>1, <1>i DEF WritableInv
<1>3. CASE NewQlock(t)
  <2>1. UNCHANGED <<name, holds, writable>>
    BY <1>3 DEF NewQlock, Goto, pages
  <2> QED BY <2>1, <1>i DEF WritableInv
<1>4. CASE NewWake(t)
  <2>1. UNCHANGED <<name, holds, writable>>
    BY <1>4 DEF NewWake, Return, Goto, pages
  <2> QED BY <2>1, <1>i DEF WritableInv
<1>5. CASE NewPage(t)
  <2>1. /\ pg[t] \in Pages /\ ref[pg[t]] = 0
        /\ name' = [name EXCEPT ![pg[t]] = NoName]
    BY <1>5, <1>i DEF NewPage, Return, Goto, SegUnlock, uncachepage, PickInv
  <2>2. \A x \in Holders : holds[x] # pg[t]
    BY <2>1, <1>p
  <2> DEFINE dest == IF seglock[slot[t]] = t THEN slot[t] ELSE t
  <2>3. /\ dest \in Holders /\ holds[dest] = NoPage
        /\ holds' = [holds EXCEPT ![dest] = pg[t]]
        /\ writable' \subseteq writable \cup {dest}
    BY <1>5, <1>i DEF NewPage, SlotInv, OwnInv, Holders
  <2> HIDE DEF dest
  <2>4. \A x \in Holders : holds'[x] = IF x = dest THEN pg[t] ELSE holds[x]
    BY <2>3, <1>i DEF TypeOK
  <2>5. \A p \in Pages : name'[p] = IF p = pg[t] THEN NoName ELSE name[p]
    BY <2>1, <1>i DEF TypeOK
  <2>6. writable \subseteq Holders /\ dest \notin writable
    BY <2>3, <1>i DEF TypeOK, WritableInv, Holders
  <2> QED BY <2>1, <2>2, <2>3, <2>4, <2>5, <2>6, <1>i DEF WritableInv
<1>6. CASE PutTake(t)
  <2>1. UNCHANGED <<name, holds, writable>>
    BY <1>6 DEF PutTake, Goto, pages
  <2> QED BY <2>1, <1>i DEF WritableInv
<1>7. CASE PutPage(t)
  <2>1. /\ holds' = [holds EXCEPT ![slot[t]] = NoPage] /\ slot[t] \in Holders
        /\ writable' = writable \ {slot[t]} /\ name' = name
    BY <1>7, <1>i DEF PutPage, SlotInv, Holders
  <2>2. \A x \in Holders : holds'[x] = IF x = slot[t] THEN NoPage ELSE holds[x]
    BY <2>1, <1>i DEF TypeOK
  <2>3. writable \subseteq Holders
    BY <1>i DEF TypeOK, Holders
  <2> QED BY <2>1, <2>2, <2>3, <1>i DEF WritableInv
<1>8. CASE AuxPage(t)
  <2>1. /\ pg[t] \in Pages /\ ref[pg[t]] = 0
        /\ name' = [name EXCEPT ![pg[t]] = NoName]
    BY <1>8, <1>i DEF AuxPage, Goto, uncachepage, PickInv
  <2>2. \A x \in Holders : holds[x] # pg[t]
    BY <2>1, <1>p
  <2>3. /\ t \in Holders /\ holds[t] = NoPage /\ holds' = [holds EXCEPT ![t] = pg[t]]
        /\ writable' = writable
    BY <1>8, <1>i DEF AuxPage, OwnInv, Holders
  <2>4. \A x \in Holders : holds'[x] = IF x = t THEN pg[t] ELSE holds[x]
    BY <2>3, <1>i DEF TypeOK
  <2>5. \A p \in Pages : name'[p] = IF p = pg[t] THEN NoName ELSE name[p]
    BY <2>1, <1>i DEF TypeOK
  <2>6. writable \subseteq Holders /\ t \notin writable
    BY <2>3, <1>i DEF TypeOK, WritableInv, Holders
  <2> QED BY <2>1, <2>2, <2>3, <2>4, <2>5, <2>6, <1>i DEF WritableInv
<1>9. CASE LookMiss(t)
  <2>1. UNCHANGED <<name, holds, writable>>
    BY <1>9 DEF LookMiss, Goto, SegUnlock, pages
  <2> QED BY <2>1, <1>i DEF WritableInv
<1>10. CASE LookTake(t)
  <2>1. UNCHANGED <<name, holds, writable>>
    BY <1>10 DEF LookTake, Goto, pages
  <2> QED BY <2>1, <1>i DEF WritableInv
<1>11. CASE LookStale(t)
  <2>1. UNCHANGED <<name, holds, writable>>
    BY <1>11 DEF LookStale, Goto, SegUnlock, pages
  <2> QED BY <2>1, <1>i DEF WritableInv
<1>12. CASE LookPage(t)
  <2>1. /\ holds' = [holds EXCEPT ![slot[t]] = pg[t]] /\ slot[t] \in Holders
        /\ writable' = writable /\ name' = name /\ holds[slot[t]] = NoPage
        /\ name[pg[t]] # NoName
    BY <1>12, <1>i DEF LookPage, SlotInv, Holders
  <2>2. \A x \in Holders : holds'[x] = IF x = slot[t] THEN pg[t] ELSE holds[x]
    BY <2>1, <1>i DEF TypeOK
  <2>3. writable \subseteq Holders /\ slot[t] \notin writable
    BY <2>1, <1>i DEF TypeOK, WritableInv, Holders
  <2> QED BY <2>1, <2>2, <2>3, <1>i DEF WritableInv
<1>13. CASE Cachepage(t)
  <2>1. /\ holds' = [holds EXCEPT ![slot[t]] = holds[t], ![t] = NoPage]
        /\ slot[t] \in Slots /\ holds[slot[t]] = NoPage /\ writable' = writable
        /\ name' = [name EXCEPT ![holds[t]] = want[t]]
        /\ holds[t] \in Pages /\ ref[holds[t]] = 1 /\ t \in Holders
    BY <1>13, <1>i DEF Cachepage, SlotInv, OwnInv, Holders
  <2>2. \A x \in Holders : x # slot[t] => 
          holds'[x] = holds[x] \/ (x = t /\ holds'[x] = NoPage)
    BY <2>1, <1>i DEF TypeOK, Holders
  <2>3. \A x \in Holders : x # t => holds[x] # holds[t]
    BY <2>1, <1>p
  <2>4. writable \subseteq Slots /\ slot[t] \notin writable /\ t \notin writable
    BY <2>1, <1>i DEF TypeOK, WritableInv
  <2>5. holds'[slot[t]] = holds[t]
    BY <2>1, <1>i DEF TypeOK, Holders
  <2>6. \A p \in Pages : p # holds[t] => name'[p] = name[p]
    BY <2>1, <1>i DEF TypeOK
  <2>7. \A s \in writable : s \in Holders /\ holds'[s] = holds[s] /\ holds[s] # holds[t]
    BY <2>2, <2>3, <2>4 DEF Holders
  <2>8. \A s \in writable : holds[s] \in Pages
    BY <1>i DEF WritableInv
  <2>9. ASSUME NEW s \in writable, NEW x \in Holders, holds'[x] = holds[s]
        PROVE  holds[x] = holds[s]
    BY <2>1, <2>2, <2>5, <2>7, <2>8, <2>9, <1>i
  <2>10. ASSUME NEW s \in writable
         PROVE  /\ holds'[s] \in Pages
                /\ \/ /\ name'[holds'[s]] = NoName
                      /\ \A x \in Holders : holds'[x] = holds'[s] => x = s
                   \/ name'[holds'[s]] \in NoText
    <3>1. holds'[s] = holds[s] /\ holds[s] \in Pages /\ name'[holds[s]] = name[holds[s]]
      BY <2>6, <2>7, <2>8
    <3>2. CASE name[holds[s]] \in NoText
      BY <3>1, <3>2
    <3>3. CASE /\ name[holds[s]] = NoName
               /\ \A x \in Holders : holds[x] = holds[s] => x = s
      BY <3>1, <3>3, <2>9
    <3> QED BY <3>2, <3>3, <1>i DEF WritableInv
  <2> QED BY <2>1, <2>10 DEF WritableInv
<1>14. CASE PioLost(t)
  <2>1. UNCHANGED <<name, holds, writable>>
    BY <1>14 DEF PioLost, Goto, locks, pages
  <2> QED BY <2>1, <1>i DEF WritableInv
<1>15. CASE DupGiveUp(t)
  <2>1. /\ slot[t] \in Holders /\ pg[t] \in Pages /\ holds[slot[t]] = pg[t]
        /\ name[pg[t]] \notin NoText
    BY <1>15, <1>i DEF DupGiveUp, SlotInv, TextInv, Holders, TypeOK
  <2>2. /\ name' = [name EXCEPT ![pg[t]] = NoName] /\ holds' = holds
        /\ writable' = IF ref[pg[t]] = 1 THEN writable \cup {slot[t]} ELSE writable
    BY <1>15 DEF DupGiveUp, uncachepage, DupReturn
  <2>3. \A p \in Pages : name'[p] = IF p = pg[t] THEN NoName ELSE name[p]
    BY <2>1, <2>2, <1>i DEF TypeOK
  <2> QED BY <2>1, <2>2, <2>3, <1>p, <1>i DEF WritableInv
<1>16. CASE DupNothing(t)
  <2>1. /\ slot[t] \in Holders /\ pg[t] \in Pages /\ holds[slot[t]] = pg[t]
        /\ ref[pg[t]] = 0 \/ name[pg[t]] = NoName \/ name[pg[t]] \in NoText
    BY <1>16, <1>i DEF DupNothing, SlotInv, Holders
  <2>2. /\ name' = name /\ holds' = holds
        /\ writable' = IF ref[pg[t]] = 1 THEN writable \cup {slot[t]} ELSE writable
    BY <1>16 DEF DupNothing, DupReturn
  <2> QED BY <2>1, <2>2, <1>p, <1>i DEF WritableInv
<1>17. CASE DupBusy(t)
  <2>1. UNCHANGED <<name, holds, writable>>
    BY <1>17 DEF DupBusy, Goto, pages
  <2> QED BY <2>1, <1>i DEF WritableInv
<1>18. CASE DupRelock(t)
  <2>1. UNCHANGED <<name, holds, writable>>
    BY <1>18 DEF DupRelock, Goto, pages
  <2> QED BY <2>1, <1>i DEF WritableInv
<1>19. CASE DupNoMemory(t)
  <2>1. /\ slot[t] \in Holders /\ pg[t] \in Pages /\ holds[slot[t]] = pg[t]
        /\ name[pg[t]] \notin NoText
    BY <1>19, <1>i DEF DupNoMemory, SlotInv, TextInv, Holders, TypeOK
  <2>2. /\ name' = [name EXCEPT ![pg[t]] = NoName] /\ holds' = holds
        /\ writable' = IF ref[pg[t]] = 1 THEN writable \cup {slot[t]} ELSE writable
    BY <1>19 DEF DupNoMemory, uncachepage, DupReturn
  <2>3. \A p \in Pages : name'[p] = IF p = pg[t] THEN NoName ELSE name[p]
    BY <2>1, <2>2, <1>i DEF TypeOK
  <2> QED BY <2>1, <2>2, <2>3, <1>p, <1>i DEF WritableInv
<1>20. CASE DupTake(t)
  <2>1. UNCHANGED <<name, holds, writable>>
    BY <1>20 DEF DupTake, Goto
  <2> QED BY <2>1, <1>i DEF WritableInv
<1>21. CASE DupLockNp(t)
  <2>1. np[t] \in Pages /\ ref[np[t]] = 0
    BY <1>21, <1>i DEF DupLockNp, PickInv, FreeIsUnused
  <2>2. \A x \in Holders : holds[x] # np[t]
    BY <2>1, <1>p
  <2>3. /\ holds' = holds /\ writable' = writable
        /\ \A p \in Pages : p # np[t] => name'[p] = name[p]
    BY <1>21, <2>1, <1>i DEF DupLockNp, uncachepage, TypeOK
  <2>4. writable \subseteq Holders
    BY <1>i DEF TypeOK, Holders
  <2> QED BY <2>2, <2>3, <2>4, <1>i DEF WritableInv
<1>22. CASE DupCache(t)
  <2>1. np[t] \in Pages /\ ref[np[t]] = 0
    BY <1>22, <1>i DEF DupCache, PickInv, FreeIsUnused
  <2>2. \A x \in Holders : holds[x] # np[t]
    BY <2>1, <1>p
  <2>3. /\ holds' = holds /\ writable' = writable
        /\ \A p \in Pages : p # np[t] => name'[p] = name[p]
    BY <1>22, <2>1, <1>i DEF DupCache, uncachepage, TypeOK
  <2>4. writable \subseteq Holders
    BY <1>i DEF TypeOK, Holders
  <2> QED BY <2>2, <2>3, <2>4, <1>i DEF WritableInv
<1>23. CASE DupDone(t)
  <2>1. /\ slot[t] \in Holders /\ pg[t] \in Pages /\ holds[slot[t]] = pg[t]
        /\ name[pg[t]] \notin NoText
    BY <1>23, <1>i DEF DupDone, SlotInv, TextInv, Holders, TypeOK
  <2>2. /\ name' = [name EXCEPT ![pg[t]] = NoName] /\ holds' = holds
        /\ writable' = IF ref[pg[t]] = 1 THEN writable \cup {slot[t]} ELSE writable
    BY <1>23 DEF DupDone, uncachepage, DupReturn
  <2>3. \A p \in Pages : name'[p] = IF p = pg[t] THEN NoName ELSE name[p]
    BY <2>1, <2>2, <1>i DEF TypeOK
  <2> QED BY <2>1, <2>2, <2>3, <1>p, <1>i DEF WritableInv
<1>24. CASE AuxTake(t)
  <2>1. UNCHANGED <<name, holds, writable>>
    BY <1>24 DEF AuxTake, Goto
  <2> QED BY <2>1, <1>i DEF WritableInv
<1>25. ASSUME NEW f \in Pages, LookHit(t, f)
      PROVE  WritableInv'
  <2>1. UNCHANGED <<name, holds, writable>>
    BY <1>25 DEF LookHit, Goto, locks, pages
  <2> QED BY <2>1, <1>i DEF WritableInv
<1>26. ASSUME NEW s \in Slots, NewStart(t, s)
      PROVE  WritableInv'
  <2>1. UNCHANGED <<name, holds, writable>>
    BY <1>26 DEF NewStart, Enter, Goto, pages
  <2> QED BY <2>1, <1>i DEF WritableInv
<1>27. ASSUME NEW s \in Slots, FreePte(t, s)
      PROVE  WritableInv'
  <2>1. UNCHANGED <<name, holds, writable>>
    BY <1>27 DEF FreePte, Enter, Goto, pages
  <2> QED BY <2>1, <1>i DEF WritableInv
<1>28. ASSUME NEW s \in Slots, WriteFault(t, s)
      PROVE  WritableInv'
  <2>1. holds' = holds /\ name' = name
    BY <1>28 DEF WriteFault
  <2>2. CASE name[holds[s]] # NoName
    BY <1>28, <2>1, <2>2, <1>i DEF WriteFault, WritableInv
  <2>3. CASE name[holds[s]] = NoName
    <3>1. /\ writable' = writable \cup {s} /\ ref[holds[s]] = 1
          /\ holds[s] \in Pages /\ s \in Holders
      BY <1>28, <2>3, <1>i DEF WriteFault, TypeOK, Holders
    <3> QED BY <2>1, <2>3, <3>1, <1>p, <1>i DEF WritableInv
  <2> QED BY <2>2, <2>3
<1>29. ASSUME NEW s \in Slots, NEW n \in Names, LookStart(t, s, n)
      PROVE  WritableInv'
  <2>1. UNCHANGED <<name, holds, writable>>
    BY <1>29 DEF LookStart, Enter, Goto, pages
  <2> QED BY <2>1, <1>i DEF WritableInv
<1>30. ASSUME NEW s \in Slots, NEW d \in Slots, PteCpy(t, s, d)
      PROVE  WritableInv'
  <2>1. /\ holds' = [holds EXCEPT ![d] = holds[s]] /\ holds[s] \in Pages
        /\ writable' = writable \ {s, d} /\ name' = name
        /\ s \in Holders /\ d \in Holders
    BY <1>30, <1>i DEF PteCpy, TypeOK, Holders
  <2>2. \A x \in Holders : holds'[x] = IF x = d THEN holds[s] ELSE holds[x]
    BY <2>1, <1>i DEF TypeOK
  <2>3. writable \subseteq Holders
    BY <1>i DEF TypeOK, Holders
  <2> QED BY <2>1, <2>2, <2>3, <1>i DEF WritableInv
<1> QED BY <1>1, <1>2, <1>3, <1>4, <1>5, <1>6, <1>7, <1>8, <1>9, <1>10,
  <1>11, <1>12, <1>13, <1>14, <1>15, <1>16, <1>17, <1>18, <1>19, <1>20,
  <1>21, <1>22, <1>23, <1>24, <1>25, <1>26, <1>27, <1>28, <1>29, <1>30 DEF
  Step, Call

-----------------------------------------------------------------------------
(* The invariant.                                                          *)

LEMMA InitInv == Init => IndInv
<1> SUFFICES ASSUME Init PROVE IndInv
  OBVIOUS
<1>1. Cardinality(Pages) \in Nat
  BY PageAllocAssumption, FS_CardinalityType
<1>2. freelist \in Seq(Pages)
  <2>1. freelist \in [1 .. Cardinality(Pages) -> Pages]
    BY DEF Init
  <2> QED BY <1>1, <2>1
<1>3. TypeOK
  BY <1>2, PageAllocAssumption
     DEF Init, TypeOK, PCs, Holders
<1>4. RefExact
  <2>1. \A p \in Pages : HoldersOf(p) = {}
    BY PageAllocAssumption DEF Init, HoldersOf
  <2> QED BY <2>1, FS_EmptySet DEF Init, RefExact
<1>5. FreeIsUnused
  BY DEF Init, FreeIsUnused, IsFree
<1>6. OnlyContentionPanics /\ WritableInv /\ LockInv /\ SlotInv /\ PickInv
  BY DEF Init, OnlyContentionPanics, WritableInv, LockInv, SlotInv, PickInv
<1>7. OwnInv /\ TextInv
  BY DEF Init, OwnInv, TextInv, Holders
<1> QED BY <1>3, <1>4, <1>5, <1>6, <1>7 DEF IndInv

LEMMA StepInv == IndInv /\ [Next]_vars => IndInv'
<1>1. ASSUME IndInv, ~panicked, NEW t \in Procs, Step(t) \/ Call(t)
      PROVE  IndInv'
  <2>1. TypeOK' /\ OnlyContentionPanics' /\ RefExact' /\ FreeIsUnused'
    BY <1>1, TypeStep, PanicStep, RefStep, FreeStep DEF OnlyContentionPanics
  <2>2. WritableInv' /\ LockInv' /\ SlotInv' /\ OwnInv' /\ PickInv' /\ TextInv'
    BY <1>1, WritableStep, LockStep, SlotStep, OwnStep, PickStep, TextStep
  <2> QED BY <2>1, <2>2 DEF IndInv
<1>2. ASSUME IndInv, UNCHANGED vars
      PROVE  IndInv'
  BY <1>2 DEF vars, locks, pages, locals, IndInv, TypeOK, OnlyContentionPanics, RefExact,
     HoldersOf, FreeIsUnused, IsFree, WritableInv, LockInv, SlotInv, OwnInv,
     PickInv, TextInv
<1>3. ASSUME IndInv, NEW t \in Procs, DupPanic(t)
      PROVE  IndInv'
  <2>1. dupretries' > DupLimit /\ dupretries' \in Nat /\ panicked'
    BY <1>3, PageAllocAssumption DEF DupPanic, IndInv, TypeOK
  <2>2. UNCHANGED <<locks, pages, locals>>
    BY <1>3 DEF DupPanic
  <2>3. TypeOK' /\ OnlyContentionPanics'
    BY <1>3, <2>1, <2>2
       DEF DupPanic, locks, pages, locals, IndInv, TypeOK, OnlyContentionPanics
  <2>4. RefExact' /\ FreeIsUnused' /\ WritableInv' /\ LockInv'
    BY <1>3, <2>2 DEF locks, pages, locals, IndInv, RefExact, HoldersOf,
       FreeIsUnused, IsFree, WritableInv, LockInv
  <2>5. SlotInv' /\ OwnInv' /\ PickInv' /\ TextInv'
    BY <1>3, <2>2 DEF locks, pages, locals, IndInv, SlotInv, OwnInv, PickInv,
       IsFree, TextInv
  <2> QED BY <2>3, <2>4, <2>5 DEF IndInv
<1> QED BY <1>1, <1>2, <1>3 DEF Next, Exited

THEOREM Invariance == Spec => []IndInv
BY InitInv, StepInv, PTL DEF Spec

(* Every variable of the page allocator has its type, however many         *)
(* processes, pages and table entries there are.                           *)
THEOREM TypeCorrect == Spec => []TypeOK
<1>1. IndInv => TypeOK
  BY DEF IndInv
<1> QED BY <1>1, Invariance, PTL

(* The checks of newpage, putpage, auxpage and cachepage never panic,      *)
(* whatever duppage, lookpage and ptecpy do meanwhile: the race the comment*)
(* in duppage fears, between the two page locks, does no harm.  Only       *)
(* duppage panics, once its retry limit has grown past DupLimit.           *)
THEOREM ChecksNeverFire == Spec => []OnlyContentionPanics
<1>1. IndInv => OnlyContentionPanics
  BY DEF IndInv
<1> QED BY <1>1, Invariance, PTL

(* Page.ref is the number of references to the page, in every state.       *)
THEOREM CountsAreExact == Spec => []RefExact
<1>1. IndInv => RefExact
  BY DEF IndInv
<1> QED BY <1>1, Invariance, PTL

(* No page is on the free list twice or while it is in use, none is lost.  *)
THEOREM FreeListIsRight == Spec => []FreeIsUnused
<1>1. IndInv => FreeIsUnused
  BY DEF IndInv
<1> QED BY <1>1, Invariance, PTL

(* A page that fixfault maps for writing in place after duppage is private *)
(* to its table entry and out of the reach of lookpage.                    *)
THEOREM WritesArePrivate == Spec => []WritableIsPrivate
<1>1. IndInv => WritableIsPrivate
  <2> SUFFICES ASSUME IndInv, NEW s \in writable
               PROVE  /\ holds[s] # NoPage
                      /\ \/ name[holds[s]] = NoName /\ HoldersOf(holds[s]) = {s}
                         \/ name[holds[s]] \in NoText
    BY DEF WritableIsPrivate
  <2>1. holds[s] \in Pages /\ s \in Holders
    BY DEF IndInv, WritableInv, TypeOK, Holders
  <2>2. CASE name[holds[s]] \in NoText
    BY <2>1, <2>2, PageAllocAssumption
  <2>3. CASE /\ name[holds[s]] = NoName
             /\ \A x \in Holders : holds[x] = holds[s] => x = s
    <3>1. HoldersOf(holds[s]) = {s}
      BY <2>1, <2>3 DEF HoldersOf
    <3> QED BY <2>1, <2>3, <3>1, PageAllocAssumption
  <2> QED BY <2>2, <2>3 DEF IndInv, WritableInv
<1> QED BY <1>1, Invariance, PTL

-----------------------------------------------------------------------------
(* Every lock is held for one of the reasons the code takes it for.        *)
PallocPCs == {"new_pg", "put_pg", "aux_pg", "look_pg", "dup_np"}
PlockPCs == {"dup", "dup_np", "dup_cache", "dup_done"}
SegPCs == PCs \ {"idle", "new_wait", "new_sleep", "pio", "aux_pg"}

PallocOwner == palloc # NoProc => pc[palloc] \in PallocPCs

PlockOwner ==
  \A p \in Pages : plock[p] # NoProc =>
    \/ pc[plock[p]] \in PlockPCs /\ pg[plock[p]] = p
    \/ pc[plock[p]] = "dup_cache" /\ np[plock[p]] = p

PwaitOwner == pwait # NoProc => pc[pwait] = "new_sleep"

SegOwner == \A s \in Slots : seglock[s] # NoProc => pc[seglock[s]] \in SegPCs

(* A step of one process leaves the locals of the others alone.            *)
LEMMA OthersStay ==
  ASSUME TypeOK, NEW t \in Procs, Step(t) \/ Call(t), NEW u \in Procs, u # t
  PROVE  pc'[u] = pc[u] /\ pg'[u] = pg[u] /\ np'[u] = np[u]
<1>1. CASE NewTake(t) \/ NewMustWait(t) \/ NewQlock(t)
  BY <1>1 DEF NewTake, NewMustWait, NewQlock, Goto, TypeOK
<1>2. CASE NewWake(t) \/ NewPage(t) \/ PutPage(t)
  BY <1>2 DEF NewWake, NewPage, PutPage, Goto, Return, TypeOK
<1>3. CASE PutTake(t) \/ AuxPage(t) \/ LookMiss(t) \/ LookTake(t) \/ LookStale(t)
  BY <1>3 DEF PutTake, AuxPage, LookMiss, LookTake, LookStale, Goto, TypeOK
<1>4. CASE LookPage(t) \/ Cachepage(t) \/ PioLost(t)
  BY <1>4 DEF LookPage, Cachepage, PioLost, Goto, Return, TypeOK
<1>5. CASE DupGiveUp(t) \/ DupNothing(t) \/ DupNoMemory(t) \/ DupDone(t)
  BY <1>5 DEF DupGiveUp, DupNothing, DupNoMemory, DupDone, DupReturn, Return, TypeOK
<1>6. CASE DupBusy(t) \/ DupRelock(t) \/ DupTake(t) \/ DupLockNp(t) \/ DupCache(t)
  BY <1>6 DEF DupBusy, DupRelock, DupTake, DupLockNp, DupCache, Goto, TypeOK
<1>7. CASE AuxTake(t) \/ \E f \in Pages : LookHit(t, f)
  BY <1>7 DEF AuxTake, LookHit, Goto, TypeOK
<1>8. ASSUME NEW s \in Slots, NewStart(t, s) \/ FreePte(t, s) \/ \E n \in Names : LookStart(t, s, n)
      PROVE  pc'[u] = pc[u] /\ pg'[u] = pg[u] /\ np'[u] = np[u]
  BY <1>8 DEF NewStart, FreePte, LookStart, Enter, Goto, TypeOK
<1>9. ASSUME NEW s \in Slots, WriteFault(t, s) \/ \E d \in Slots : PteCpy(t, s, d)
      PROVE  pc'[u] = pc[u] /\ pg'[u] = pg[u] /\ np'[u] = np[u]
  BY <1>9 DEF WriteFault, PteCpy, locals, Goto, TypeOK
<1> QED
  BY <1>1, <1>2, <1>3, <1>4, <1>5, <1>6, <1>7, <1>8, <1>9 DEF Step, Call

(* lock(&palloc) is held from its acquisition to the next lock.            *)
LEMMA PallocOwnerStep ==
  ASSUME TypeOK, PallocOwner, NEW t \in Procs, Step(t) \/ Call(t)
  PROVE  PallocOwner'
<1>1. ASSUME palloc' = t, pc'[t] \in PallocPCs PROVE PallocOwner'
  BY <1>1 DEF PallocOwner
<1>2. ASSUME palloc' = NoProc PROVE PallocOwner'
  BY <1>2 DEF PallocOwner
<1>3. ASSUME palloc' = palloc, pc[t] \notin PallocPCs PROVE PallocOwner'
  <2>1. CASE palloc = NoProc
    BY <1>3, <2>1 DEF PallocOwner
  <2>2. CASE palloc # NoProc
    <3>1. palloc \in Procs /\ palloc # t
      BY <1>3, <2>2 DEF PallocOwner, TypeOK
    <3> QED
      BY <1>3, <2>2, <3>1, OthersStay DEF PallocOwner
  <2> QED
    BY <2>1, <2>2
<1>4. CASE NewTake(t) \/ PutTake(t) \/ AuxTake(t) \/ LookTake(t) \/ DupTake(t)
  <2>1. palloc' = t /\ pc'[t] \in PallocPCs
    BY <1>4 DEF NewTake, PutTake, AuxTake, LookTake, DupTake, Goto, PallocPCs, TypeOK
  <2> QED
    BY <1>1, <2>1
<1>5. CASE NewPage(t) \/ PutPage(t) \/ AuxPage(t) \/ LookStale(t) \/ LookPage(t) \/ DupLockNp(t)
  <2>1. palloc' = NoProc
    BY <1>5 DEF NewPage, PutPage, AuxPage, LookStale, LookPage, DupLockNp
  <2> QED
    BY <1>2, <2>1
<1>6. CASE NewMustWait(t) \/ NewQlock(t) \/ NewWake(t) \/ LookMiss(t) \/ Cachepage(t) \/ PioLost(t)
  <2>1. palloc' = palloc /\ pc[t] \notin PallocPCs
    BY <1>6 DEF NewMustWait, NewQlock, NewWake, LookMiss, Cachepage, PioLost, locks, PallocPCs
  <2> QED
    BY <1>3, <2>1
<1>7. CASE DupGiveUp(t) \/ DupNothing(t) \/ DupBusy(t) \/ DupRelock(t) \/ DupNoMemory(t)
           \/ DupCache(t) \/ DupDone(t)
  <2>1. palloc' = palloc /\ pc[t] \notin PallocPCs
    BY <1>7 DEF DupGiveUp, DupNothing, DupBusy, DupRelock, DupNoMemory, DupCache, DupDone,
                DupReturn, PallocPCs
  <2> QED
    BY <1>3, <2>1
<1>8. CASE \E f \in Pages : LookHit(t, f)
  BY <1>3, <1>8 DEF LookHit, locks, PallocPCs
<1>9. ASSUME NEW s \in Slots,
             \/ NewStart(t, s) \/ FreePte(t, s) \/ WriteFault(t, s)
             \/ \E n \in Names : LookStart(t, s, n)
             \/ \E d \in Slots : PteCpy(t, s, d)
      PROVE  PallocOwner'
  <2>1. palloc' = palloc /\ pc[t] \notin PallocPCs
    BY <1>9 DEF NewStart, FreePte, WriteFault, LookStart, PteCpy, Enter, locks, PallocPCs
  <2> QED
    BY <1>3, <2>1
<1> QED
  BY <1>4, <1>5, <1>6, <1>7, <1>8, <1>9 DEF Step, Call

(* The sleepers for memory queue for the one that waits with a timeout.    *)
LEMMA PwaitOwnerStep ==
  ASSUME TypeOK, PwaitOwner, NEW t \in Procs, Step(t) \/ Call(t)
  PROVE  PwaitOwner'
<1>1. ASSUME pwait' = t, pc'[t] = "new_sleep" PROVE PwaitOwner'
  BY <1>1 DEF PwaitOwner
<1>2. ASSUME pwait' = NoProc PROVE PwaitOwner'
  BY <1>2 DEF PwaitOwner
<1>3. ASSUME pwait' = pwait, pc[t] # "new_sleep" PROVE PwaitOwner'
  <2>1. CASE pwait = NoProc
    BY <1>3, <2>1 DEF PwaitOwner
  <2>2. CASE pwait # NoProc
    <3>1. pwait \in Procs /\ pwait # t
      BY <1>3, <2>2 DEF PwaitOwner, TypeOK
    <3> QED
      BY <1>3, <2>2, <3>1, OthersStay DEF PwaitOwner
  <2> QED
    BY <2>1, <2>2
<1>4. CASE NewQlock(t)
  BY <1>1, <1>4 DEF NewQlock, Goto, TypeOK
<1>5. CASE NewWake(t)
  BY <1>2, <1>5 DEF NewWake
<1>6. CASE NewTake(t) \/ NewMustWait(t) \/ NewPage(t) \/ PutTake(t) \/ PutPage(t) \/ AuxPage(t)
           \/ AuxTake(t)
  <2>1. pwait' = pwait /\ pc[t] # "new_sleep"
    BY <1>6 DEF NewTake, NewMustWait, NewPage, PutTake, PutPage, AuxPage, AuxTake
  <2> QED
    BY <1>3, <2>1
<1>7. CASE LookMiss(t) \/ LookTake(t) \/ LookStale(t) \/ LookPage(t) \/ Cachepage(t) \/ PioLost(t)
           \/ \E f \in Pages : LookHit(t, f)
  <2>1. pwait' = pwait /\ pc[t] # "new_sleep"
    BY <1>7 DEF LookMiss, LookTake, LookStale, LookPage, Cachepage, PioLost, LookHit, locks
  <2> QED
    BY <1>3, <2>1
<1>8. CASE DupGiveUp(t) \/ DupNothing(t) \/ DupBusy(t) \/ DupRelock(t) \/ DupNoMemory(t)
           \/ DupTake(t) \/ DupLockNp(t) \/ DupCache(t) \/ DupDone(t)
  <2>1. pwait' = pwait /\ pc[t] # "new_sleep"
    BY <1>8 DEF DupGiveUp, DupNothing, DupBusy, DupRelock, DupNoMemory, DupTake, DupLockNp,
                DupCache, DupDone, DupReturn
  <2> QED
    BY <1>3, <2>1
<1>9. ASSUME NEW s \in Slots,
             \/ NewStart(t, s) \/ FreePte(t, s) \/ WriteFault(t, s)
             \/ \E n \in Names : LookStart(t, s, n)
             \/ \E d \in Slots : PteCpy(t, s, d)
      PROVE  PwaitOwner'
  <2>1. pwait' = pwait /\ pc[t] # "new_sleep"
    BY <1>9 DEF NewStart, FreePte, WriteFault, LookStart, PteCpy, Enter, locks
  <2> QED
    BY <1>3, <2>1
<1> QED
  BY <1>4, <1>5, <1>6, <1>7, <1>8, <1>9 DEF Step, Call

(* A segment is let go of before its process sleeps or reads a block.      *)
LEMMA SegOwnerStep ==
  ASSUME TypeOK, SegOwner, NEW t \in Procs, Step(t) \/ Call(t)
  PROVE  SegOwner'
<1>0. \A u \in Procs : u # t => pc'[u] = pc[u]
  BY OthersStay
<1>1. ASSUME pc'[t] \in SegPCs,
             \A s \in Slots : seglock'[s] \in {seglock[s], t, NoProc}
      PROVE  SegOwner'
  BY <1>0, <1>1 DEF SegOwner, TypeOK
<1>2. ASSUME \A s \in Slots : seglock'[s] # t /\ seglock'[s] \in {seglock[s], NoProc}
      PROVE  SegOwner'
  BY <1>0, <1>2 DEF SegOwner, TypeOK
<1>3. ASSUME SegUnlock(t) PROVE SegOwner'
  BY <1>2, <1>3, PageAllocAssumption DEF SegUnlock, TypeOK
<1>4. ASSUME seglock' = seglock, pc[t] \notin SegPCs PROVE SegOwner'
  BY <1>2, <1>4, PageAllocAssumption DEF SegOwner
<1>5. ASSUME seglock' = seglock, pc'[t] \in SegPCs PROVE SegOwner'
  BY <1>1, <1>5
<1>6. CASE NewMustWait(t) \/ NewPage(t) \/ PutPage(t) \/ LookMiss(t) \/ LookStale(t) \/ LookPage(t)
           \/ DupGiveUp(t) \/ DupNothing(t) \/ DupNoMemory(t) \/ DupDone(t)
  <2>1. SegUnlock(t)
    BY <1>6 DEF NewMustWait, NewPage, PutPage, LookMiss, LookStale, LookPage,
                DupGiveUp, DupNothing, DupNoMemory, DupDone, DupReturn
  <2> QED
    BY <1>3, <2>1
<1>7. CASE NewQlock(t) \/ NewWake(t) \/ AuxTake(t) \/ AuxPage(t) \/ Cachepage(t) \/ PioLost(t)
  <2>1. seglock' = seglock /\ pc[t] \notin SegPCs
    BY <1>7 DEF NewQlock, NewWake, AuxTake, AuxPage, Cachepage, PioLost, locks, SegPCs
  <2> QED
    BY <1>4, <2>1
<1>8. CASE NewTake(t) \/ PutTake(t) \/ LookTake(t) \/ \E f \in Pages : LookHit(t, f)
  <2>1. seglock' = seglock /\ pc'[t] \in SegPCs
    BY <1>8 DEF NewTake, PutTake, LookTake, LookHit, Goto, locks, SegPCs, PCs, TypeOK
  <2> QED
    BY <1>5, <2>1
<1>9. CASE DupBusy(t) \/ DupRelock(t) \/ DupTake(t) \/ DupLockNp(t) \/ DupCache(t)
  <2>1. seglock' = seglock /\ pc'[t] \in SegPCs
    BY <1>9 DEF DupBusy, DupRelock, DupTake, DupLockNp, DupCache, Goto, SegPCs, PCs, TypeOK
  <2> QED
    BY <1>5, <2>1
<1>10. ASSUME NEW s \in Slots, NewStart(t, s) \/ FreePte(t, s) \/ \E n \in Names : LookStart(t, s, n)
       PROVE  SegOwner'
  <2>1. seglock' = [seglock EXCEPT ![s] = t] /\ pc'[t] \in SegPCs
    BY <1>10 DEF NewStart, FreePte, LookStart, Enter, Goto, SegPCs, PCs, TypeOK
  <2> QED
    BY <1>1, <2>1 DEF TypeOK
<1>11. ASSUME NEW s \in Slots, WriteFault(t, s) PROVE SegOwner'
  <2>1. \/ seglock' = seglock /\ pc[t] = "idle"
        \/ seglock' = [seglock EXCEPT ![s] = t] /\ pc'[t] \in SegPCs
    BY <1>11 DEF WriteFault, Goto, SegPCs, PCs, TypeOK
  <2>2. CASE seglock' = seglock /\ pc[t] = "idle"
    BY <1>4, <2>2 DEF SegPCs
  <2>3. CASE seglock' = [seglock EXCEPT ![s] = t] /\ pc'[t] \in SegPCs
    BY <1>1, <2>3 DEF TypeOK
  <2> QED
    BY <2>1, <2>2, <2>3
<1>12. ASSUME NEW s \in Slots, NEW d \in Slots, PteCpy(t, s, d) PROVE SegOwner'
  BY <1>4, <1>12 DEF PteCpy, locks, SegPCs
<1> QED
  BY <1>6, <1>7, <1>8, <1>9, <1>10, <1>11, <1>12 DEF Step, Call

(* A page is locked by duppage alone: its caller's page, and a free page   *)
(* for as long as it takes the caller's place in the cache.                *)
LEMMA PlockOwnerStep ==
  ASSUME TypeOK, PlockOwner, SlotInv, PickInv, NEW t \in Procs, Step(t) \/ Call(t)
  PROVE  PlockOwner'
<1>0. \A u \in Procs : u # t => pc'[u] = pc[u] /\ pg'[u] = pg[u] /\ np'[u] = np[u]
  BY OthersStay
<1>1. ASSUME plock' = plock, pc[t] \notin PlockPCs PROVE PlockOwner'
  <2> SUFFICES ASSUME NEW p \in Pages, plock[p] # NoProc
               PROVE  \/ pc'[plock[p]] \in PlockPCs /\ pg'[plock[p]] = p
                      \/ pc'[plock[p]] = "dup_cache" /\ np'[plock[p]] = p
    BY <1>1 DEF PlockOwner
  <2>1. \/ pc[plock[p]] \in PlockPCs /\ pg[plock[p]] = p
        \/ pc[plock[p]] = "dup_cache" /\ np[plock[p]] = p
    BY DEF PlockOwner
  <2>2. plock[p] \in Procs /\ plock[p] # t
    BY <1>1, <2>1 DEF PlockPCs, TypeOK
  <2> QED
    BY <1>0, <2>1, <2>2
<1>2. CASE NewTake(t) \/ NewMustWait(t) \/ NewQlock(t) \/ NewWake(t) \/ NewPage(t)
           \/ PutTake(t) \/ PutPage(t) \/ AuxPage(t) \/ AuxTake(t)
  <2>1. plock' = plock /\ pc[t] \notin PlockPCs
    BY <1>2 DEF NewTake, NewMustWait, NewQlock, NewWake, NewPage, PutTake, PutPage, AuxPage,
                AuxTake, PlockPCs
  <2> QED
    BY <1>1, <2>1
<1>3. CASE LookMiss(t) \/ LookTake(t) \/ LookStale(t) \/ LookPage(t) \/ Cachepage(t) \/ PioLost(t)
           \/ \E f \in Pages : LookHit(t, f)
  <2>1. plock' = plock /\ pc[t] \notin PlockPCs
    BY <1>3 DEF LookMiss, LookTake, LookStale, LookPage, Cachepage, PioLost, LookHit, locks,
                PlockPCs
  <2> QED
    BY <1>1, <2>1
<1>4. ASSUME NEW s \in Slots,
             \/ NewStart(t, s) \/ FreePte(t, s)
             \/ \E n \in Names : LookStart(t, s, n)
             \/ \E d \in Slots : PteCpy(t, s, d)
      PROVE  PlockOwner'
  <2>1. plock' = plock /\ pc[t] \notin PlockPCs
    BY <1>4 DEF NewStart, FreePte, LookStart, PteCpy, Enter, locks, PlockPCs
  <2> QED
    BY <1>1, <2>1
<1>5. ASSUME NEW p \in Pages, pc[t] \notin PlockPCs, plock' = [plock EXCEPT ![p] = t],
             pc'[t] = "dup", pg'[t] = p
      PROVE  PlockOwner'
  <2> SUFFICES ASSUME NEW q \in Pages, plock'[q] # NoProc
               PROVE  \/ pc'[plock'[q]] \in PlockPCs /\ pg'[plock'[q]] = q
                      \/ pc'[plock'[q]] = "dup_cache" /\ np'[plock'[q]] = q
    BY DEF PlockOwner
  <2>1. CASE q = p
    BY <1>5, <2>1 DEF PlockPCs, TypeOK
  <2>2. CASE q # p
    <3>1. plock'[q] = plock[q] /\ plock[q] \in Procs
      BY <1>5, <2>2 DEF TypeOK
    <3>2. plock[q] # t
      BY <1>5, <3>1 DEF PlockOwner, PlockPCs
    <3> QED BY <1>0, <3>1, <3>2 DEF PlockOwner
  <2> QED BY <2>1, <2>2
<1>6. ASSUME NEW s \in Slots, WriteFault(t, s) PROVE PlockOwner'
  <2>1. \/ plock' = plock /\ pc[t] \notin PlockPCs
        \/ /\ holds[s] \in Pages /\ pc[t] \notin PlockPCs
           /\ plock' = [plock EXCEPT ![holds[s]] = t]
           /\ pc'[t] = "dup" /\ pg'[t] = holds[s]
    BY <1>6 DEF WriteFault, Goto, PlockPCs, Holders, TypeOK
  <2> QED
    BY <1>1, <1>5, <2>1
<1>7. CASE DupRelock(t)
  <2>1. /\ pg[t] \in Pages /\ pc[t] \notin PlockPCs
        /\ plock' = [plock EXCEPT ![pg[t]] = t]
        /\ pc'[t] = "dup" /\ pg'[t] = pg[t]
    BY <1>7 DEF DupRelock, Goto, SlotInv, PlockPCs, TypeOK
  <2> QED
    BY <1>5, <2>1
<1>8. ASSUME pc[t] \in {"dup", "dup_done"}, plock' = [plock EXCEPT ![pg[t]] = NoProc]
      PROVE  PlockOwner'
  <2>1. \A p \in Pages : plock[p] = t => p = pg[t]
    BY <1>8, PageAllocAssumption DEF PlockOwner, PlockPCs
  <2>2. pg[t] \in Pages
    BY <1>8 DEF SlotInv
  <2>3. \A p \in Pages : plock'[p] # t
    BY <1>8, <2>1, <2>2, PageAllocAssumption DEF TypeOK
  <2>4. \A p \in Pages : plock'[p] # NoProc => plock'[p] = plock[p]
    BY <1>8 DEF TypeOK
  <2> QED
    BY <1>0, <2>3, <2>4 DEF PlockOwner, TypeOK
<1>9. CASE DupGiveUp(t) \/ DupNothing(t) \/ DupNoMemory(t) \/ DupDone(t) \/ DupBusy(t)
  <2>1. pc[t] \in {"dup", "dup_done"} /\ plock' = [plock EXCEPT ![pg[t]] = NoProc]
    BY <1>9 DEF DupGiveUp, DupNothing, DupNoMemory, DupDone, DupBusy, DupReturn
  <2> QED
    BY <1>8, <2>1
<1>10. CASE DupTake(t)
  <2>1. plock' = plock /\ pc[t] = "dup" /\ pc'[t] = "dup_np" /\ pg' = pg
    BY <1>10 DEF DupTake, Goto, TypeOK
  <2> QED
    BY <1>0, <2>1 DEF PlockOwner, PlockPCs, TypeOK
<1>11. CASE DupLockNp(t)
  <2>1. /\ plock' = [plock EXCEPT ![np[t]] = t] /\ pc[t] = "dup_np" /\ pc'[t] = "dup_cache"
        /\ pg' = pg /\ np' = np
    BY <1>11 DEF DupLockNp, Goto, TypeOK
  <2> SUFFICES ASSUME NEW p \in Pages, plock'[p] # NoProc
               PROVE  \/ pc'[plock'[p]] \in PlockPCs /\ pg'[plock'[p]] = p
                      \/ pc'[plock'[p]] = "dup_cache" /\ np'[plock'[p]] = p
    BY DEF PlockOwner
  <2>2. CASE p = np[t]
    BY <2>1, <2>2 DEF TypeOK
  <2>3. CASE p # np[t]
    <3>1. plock'[p] = plock[p]
      BY <2>1, <2>3 DEF TypeOK
    <3>2. \/ pc[plock[p]] \in PlockPCs /\ pg[plock[p]] = p
          \/ pc[plock[p]] = "dup_cache" /\ np[plock[p]] = p
      BY <3>1 DEF PlockOwner
    <3>3. plock[p] \in Procs
      BY <3>1 DEF TypeOK
    <3> QED
      BY <1>0, <2>1, <3>1, <3>2, <3>3 DEF PlockPCs
  <2> QED
    BY <2>2, <2>3
<1>12. CASE DupCache(t)
  <2>1. /\ plock' = [plock EXCEPT ![np[t]] = NoProc] /\ pc[t] = "dup_cache"
        /\ pc'[t] = "dup_done" /\ pg' = pg /\ np[t] \in Pages
    BY <1>12 DEF DupCache, Goto, PickInv, TypeOK
  <2> QED
    BY <1>0, <2>1, PageAllocAssumption DEF PlockOwner, PlockPCs, TypeOK
<1> QED
  BY <1>2, <1>3, <1>4, <1>6, <1>7, <1>9, <1>10, <1>11, <1>12 DEF Step, Call

OwnerInv == PallocOwner /\ PlockOwner /\ PwaitOwner /\ SegOwner

LEMMA OwnersInvariance == Spec => []OwnerInv
<1>1. Init => OwnerInv
  BY DEF Init, OwnerInv, PallocOwner, PlockOwner, PwaitOwner, SegOwner
<1>2. ASSUME IndInv, OwnerInv, NEW t \in Procs, Step(t) \/ Call(t) PROVE OwnerInv'
  BY <1>2, PallocOwnerStep, PlockOwnerStep, PwaitOwnerStep, SegOwnerStep DEF OwnerInv, IndInv
<1>3. ASSUME OwnerInv, UNCHANGED vars PROVE OwnerInv'
  BY <1>3 DEF vars, locks, locals, OwnerInv, PallocOwner, PlockOwner, PwaitOwner, SegOwner
<1>4. ASSUME OwnerInv, NEW t \in Procs, DupPanic(t) PROVE OwnerInv'
  BY <1>4 DEF DupPanic, locks, locals, OwnerInv, PallocOwner, PlockOwner, PwaitOwner, SegOwner
<1>5. IndInv /\ OwnerInv /\ [Next]_vars => OwnerInv'
  BY <1>2, <1>3, <1>4 DEF Next, Exited
<1> QED
  BY <1>1, <1>5, Invariance, PTL DEF Spec

-----------------------------------------------------------------------------
(* The order in which waiting ends: who waits for a lock is above whoever  *)
(* has it.  duppage asks for palloc with a try and for its second page with*)
(* palloc held, so of all who wait it is the only one with a page lock.    *)
Rank(t) ==
  CASE pc[t] = "pio" -> 4
    [] pc[t] \in {"new", "put", "look_lock"} -> 3
    [] pc[t] \in {"new_pg", "put_pg", "aux_pg", "look_pg", "dup_relock"} -> 2
    [] pc[t] \in {"dup_np", "new_wait"} -> 1
    [] OTHER -> 0

LEMMA WaitsDescend ==
  ASSUME IndInv, OwnerInv, NEW t \in Procs, BlockedOn(t) \in Procs
  PROVE  Rank(BlockedOn(t)) < Rank(t)
<1> DEFINE u == BlockedOn(t)
<1>1. u \in Procs /\ u # NoProc
  BY PageAllocAssumption
<1>2. \A v \in Procs : /\ Rank(v) \in 0 .. 4
                       /\ pc[v] \in PlockPCs \ {"dup_np"} => Rank(v) = 0
                       /\ pc[v] \in PallocPCs => Rank(v) <= 2
                       /\ Rank(v) = 4 => pc[v] = "pio"
  BY DEF Rank, PlockPCs, PallocPCs
<1>3. CASE pc[t] \in {"new", "put", "look_lock"}
  <2>1. u = palloc /\ Rank(t) = 3
    BY <1>3 DEF BlockedOn, Rank
  <2>2. pc[u] \in PallocPCs
    BY <1>1, <2>1 DEF OwnerInv, PallocOwner
  <2> QED
    BY <1>1, <1>2, <2>1, <2>2
<1>4. CASE pc[t] \in {"new_pg", "put_pg", "aux_pg", "look_pg", "dup_relock"}
  <2>1. u = plock[pg[t]] /\ Rank(t) = 2
    BY <1>4 DEF BlockedOn, Rank
  <2>2. pg[t] \in Pages
    BY <1>4 DEF IndInv, SlotInv, PickInv
  <2>3. pc[u] \in PlockPCs
    BY <1>1, <2>1, <2>2 DEF OwnerInv, PlockOwner, PlockPCs
  <2>4. Rank(u) <= 1
    <3>1. CASE pc[u] = "dup_np"
      BY <3>1 DEF Rank
    <3>2. CASE pc[u] # "dup_np"
      BY <1>1, <1>2, <2>3, <3>2
    <3> QED
      BY <3>1, <3>2
  <2> QED
    BY <1>1, <1>2, <2>1, <2>4
<1>5. CASE pc[t] = "dup_np"
  <2>1. u = plock[np[t]] /\ Rank(t) = 1
    BY <1>5 DEF BlockedOn, Rank
  <2>2. np[t] \in Pages /\ IsFree(np[t]) /\ ref[np[t]] = 0
    BY <1>5 DEF IndInv, PickInv, FreeIsUnused
  <2>3. pc[u] \in PlockPCs /\ (pc[u] = "dup_np" => pg[u] = np[t])
    BY <1>1, <2>1, <2>2 DEF OwnerInv, PlockOwner, PlockPCs
  <2>4. pc[u] # "dup_np"
    <3> SUFFICES ASSUME pc[u] = "dup_np" PROVE FALSE
      OBVIOUS
    <3>1. slot[u] \in Holders /\ holds[slot[u]] = np[t]
      BY <1>1, <2>3 DEF IndInv, SlotInv, Holders
    <3>2. ref[np[t]] > 0
      BY <2>2, <3>1, Held DEF IndInv
    <3> QED
      BY <2>2, <3>2
  <2>5. Rank(u) = 0
    BY <1>1, <1>2, <2>3, <2>4
  <2> QED
    BY <2>1, <2>5
<1>6. CASE pc[t] = "new_wait"
  <2>1. u = pwait /\ Rank(t) = 1
    BY <1>6 DEF BlockedOn, Rank
  <2>2. pc[u] = "new_sleep"
    BY <1>1, <2>1 DEF OwnerInv, PwaitOwner
  <2> QED
    BY <2>1, <2>2 DEF Rank
<1>7. CASE pc[t] = "pio"
  <2>1. u = seglock[slot[t]] /\ Rank(t) = 4 /\ slot[t] \in Slots
    BY <1>7 DEF BlockedOn, Rank, IndInv, SlotInv
  <2>2. pc[u] \in SegPCs
    BY <1>1, <2>1 DEF OwnerInv, SegOwner
  <2>3. Rank(u) # 4
    BY <1>1, <1>2, <2>2 DEF SegPCs
  <2> QED
    BY <1>1, <1>2, <2>1, <2>3
<1>8. CASE pc[t] \notin {"new", "put", "look_lock", "new_pg", "put_pg", "aux_pg", "look_pg",
                         "dup_relock", "dup_np", "new_wait", "pio"}
  BY <1>1, <1>8 DEF BlockedOn
<1> QED
  BY <1>3, <1>4, <1>5, <1>6, <1>7, <1>8

(* No set of processes waits only for locks held within the set, whatever  *)
(* they call: newpage, putpage, auxpage, lookpage and the second page lock *)
(* of duppage, which is taken against the order used everywhere else.      *)
THEOREM LocksNeverCycle == Spec => []NoLockCycle
<1>1. ASSUME IndInv, OwnerInv, NEW S \in (SUBSET Procs) \ {{}},
             \A t \in S : BlockedOn(t) \in S
      PROVE  FALSE
  <2>1. \A t \in S : /\ BlockedOn(t) \in S
                     /\ Rank(BlockedOn(t)) \in 0 .. 4 /\ Rank(t) \in 0 .. 4
                     /\ Rank(BlockedOn(t)) < Rank(t)
    BY <1>1, WaitsDescend DEF Rank
  <2>2. \A t \in S : Rank(t) # 0
    BY <2>1
  <2>3. \A t \in S : Rank(t) # 1
    BY <2>1, <2>2
  <2>4. \A t \in S : Rank(t) # 2
    BY <2>1, <2>2, <2>3
  <2>5. \A t \in S : Rank(t) # 3
    BY <2>1, <2>2, <2>3, <2>4
  <2>6. \A t \in S : Rank(t) # 4
    BY <2>1, <2>2, <2>3, <2>4, <2>5
  <2> QED
    BY <2>1, <2>2, <2>3, <2>4, <2>5, <2>6
<1>2. IndInv /\ OwnerInv => NoLockCycle
  BY <1>1 DEF NoLockCycle
<1> QED
  BY <1>2, Invariance, OwnersInvariance, PTL
=============================================================================
