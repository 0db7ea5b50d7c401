------------------------------ MODULE PageAlloc ------------------------------
(***************************************************************************)
(* The page allocator and page cache of the user-mode kernel (umpage.c).   *)
(*                                                                         *)
(* Kernel processes call newpage, putpage, auxpage, duppage, lookpage and  *)
(* ptecpy concurrently.  A step of the model runs from one lock            *)
(* acquisition to the next; releases and the code between them belong to   *)
(* the acquisition before.  palloc.hashlock is held over straight-line     *)
(* code that takes no other lock (cachedel, reached only with swap         *)
(* configured, is the exception and is left out), so a hash operation is   *)
(* part of the step that performs it and the chains need no variable: a    *)
(* page is on its chain exactly when its image is set.                     *)
(*                                                                         *)
(* The data of a page is abstracted; the pair (image, daddr) that names it *)
(* in the cache is one value of Names.  NCOLOR is 1, so the first page of  *)
(* the free list always has the right colour.                              *)
(***************************************************************************)
EXTENDS Integers, SequencesExt

CONSTANTS
  Procs,        (* processes calling into the allocator                    *)
  KProcs,       (* those with up->kp set: they may use the reserve         *)
  Pages,        (* palloc.pages                                            *)
  Slots,        (* page table entries; each stands for its own segment     *)
  Names,        (* (image, daddr) pairs                                    *)
  NoText,       (* the names whose image has notext set                    *)
  HighWater,    (* swapalloc.highwater                                     *)
  DupRetries,   (* the value dupretries starts with                        *)
  DupMore,      (* what duppage adds to it each time it gives up           *)
  DupLimit,     (* the value past which it panics instead                  *)
  NoPage, NoProc, NoName, NoSlot

ASSUME PageAllocAssumption ==
  /\ IsFiniteSet(Procs) /\ IsFiniteSet(Slots) /\ IsFiniteSet(Pages)
  /\ Procs \cap Slots = {}
  /\ KProcs \subseteq Procs /\ NoText \subseteq Names
  /\ HighWater \in Nat \ {0}
  /\ DupRetries \in Nat /\ DupMore \in Nat /\ DupLimit \in Nat
  /\ NoPage \notin Pages /\ NoProc \notin Procs
  /\ NoName \notin Names /\ NoSlot \notin Slots \cup Procs

(* A page reference is held by a page table entry or, between two steps of *)
(* an operation, by a local variable of the process that runs it.          *)
Holders == Slots \cup Procs

VARIABLES
  palloc,       (* owner of lock(&palloc)                                  *)
  plock,        (* owner of each page's lock                               *)
  pwait,        (* owner of qlock(&palloc.pwait)                           *)
  seglock,      (* owner of the qlock of the segment a slot is in          *)
  freelist,     (* palloc.head .. palloc.tail; freecount is its length     *)
  ref,          (* Page.ref                                                *)
  name,         (* Page.image and Page.daddr                               *)
  holds,        (* the page each holder refers to                          *)
  writable,     (* slots the last fault left mapped for writing            *)
  pc, pg, np, slot, want, retries,   (* locals of each process's call      *)
  dupretries,   (* the retries duppage makes before it gives up            *)
  panicked      (* panic() was called: the kernel exits                    *)

locks  == <<palloc, plock, pwait, seglock>>
pages  == <<freelist, ref, name, holds, writable>>
locals == <<pc, pg, np, slot, want, retries>>
vars   == <<locks, pages, locals, dupretries, panicked>>

freecount == Len(freelist)

Init ==
  /\ palloc = NoProc /\ pwait = NoProc
  /\ plock = [p \in Pages |-> NoProc]
  /\ seglock = [s \in Slots |-> NoProc]
  /\ freelist \in [1 .. Cardinality(Pages) -> Pages]
  /\ IsInjective(freelist) /\ Range(freelist) = Pages
  /\ ref = [p \in Pages |-> 0]
  /\ name = [p \in Pages |-> NoName]
  /\ holds = [x \in Holders |-> NoPage]
  /\ writable = {}
  /\ pc = [t \in Procs |-> "idle"]
  /\ pg = [t \in Procs |-> NoPage] /\ np = [t \in Procs |-> NoPage]
  /\ slot = [t \in Procs |-> NoSlot] /\ want = [t \in Procs |-> NoName]
  /\ retries = [t \in Procs |-> 0]
  /\ dupretries = DupRetries
  /\ panicked = FALSE

-----------------------------------------------------------------------------
(* The free list.  pageunchain removes the entry at position i.            *)

IsFree(p) == p \in Range(freelist)

pageunchain(i) == freelist' = RemoveAt(freelist, i)

pagechaintail(p) == freelist' = Append(freelist, p)
pagechainhead(p) == freelist' = <<p>> \o freelist

uncachepage(p) == name' = [name EXCEPT ![p] = NoName]

(* The call of process t is over.                                          *)
Return(t) ==
  /\ pc' = [pc EXCEPT ![t] = "idle"]
  /\ pg' = [pg EXCEPT ![t] = NoPage]
  /\ np' = [np EXCEPT ![t] = NoPage]
  /\ slot' = [slot EXCEPT ![t] = NoSlot]
  /\ want' = [want EXCEPT ![t] = NoName]
  /\ retries' = [retries EXCEPT ![t] = 0]

Goto(t, l) == pc' = [pc EXCEPT ![t] = l]

(* The process lets go of the segment its slot is in.                      *)
SegUnlock(t) ==
  seglock' = [s \in Slots |-> IF seglock[s] = t THEN NoProc ELSE seglock[s]]

(* A call that works on slot s of a segment starts with the segment locked.*)
Enter(t, s, l) ==
  /\ pc[t] = "idle" /\ seglock[s] = NoProc
  /\ seglock' = [seglock EXCEPT ![s] = t]
  /\ slot' = [slot EXCEPT ![t] = s]
  /\ Goto(t, l)
  /\ UNCHANGED <<palloc, plock, pwait, pages, pg, np, retries, dupretries,
                 panicked>>

-----------------------------------------------------------------------------
(* newpage.  With a segment (zero fill) the slot's segment is locked, and  *)
(* waiting for memory loses it; without one (pio) it is not.               *)

NewStart(t, s) ==
  /\ Enter(t, s, "new")
  /\ holds[s] = NoPage
  /\ UNCHANGED want

CanAllocate(t) ==
  \/ freecount > HighWater
  \/ t \in KProcs /\ freecount > 0

NewTake(t) ==
  /\ pc[t] = "new" /\ palloc = NoProc
  /\ CanAllocate(t)
  /\ palloc' = t
  /\ pg' = [pg EXCEPT ![t] = Head(freelist)]
  /\ pageunchain(1)
  /\ Goto(t, "new_pg")
  /\ UNCHANGED <<plock, pwait, seglock, ref, name, holds, writable,
                 np, slot, want, retries, dupretries, panicked>>

NewMustWait(t) ==
  /\ pc[t] = "new" /\ palloc = NoProc
  /\ ~CanAllocate(t)
  /\ SegUnlock(t)
  /\ slot' = [slot EXCEPT ![t] = IF seglock[@] = t THEN NoSlot ELSE @]
  /\ Goto(t, "new_wait")
  /\ UNCHANGED <<palloc, plock, pwait, pages, pg, np, want, retries,
                 dupretries, panicked>>

NewQlock(t) ==
  /\ pc[t] = "new_wait" /\ pwait = NoProc
  /\ pwait' = t
  /\ Goto(t, "new_sleep")
  /\ UNCHANGED <<palloc, plock, seglock, pages, pg, np, slot, want, retries,
                 dupretries, panicked>>

(* tsleep ends because a page is there or because a second has passed.     *)
NewWake(t) ==
  /\ pc[t] = "new_sleep"
  /\ pwait' = NoProc
  /\ \/ slot[t] = NoSlot /\ Return(t)
     \/ /\ slot[t] # NoSlot
        /\ Goto(t, "new") /\ UNCHANGED <<pg, np, slot, want, retries>>
  /\ UNCHANGED <<palloc, plock, seglock, pages, dupretries, panicked>>

(* Mutant: the page is put down as mapped for writing in any case.          *)
NewPageMapped(t) ==
  LET p == pg[t]
      dest == IF seglock[slot[t]] = t THEN slot[t] ELSE t
  IN  /\ pc[t] = "new_pg" /\ plock[p] = NoProc
      /\ panicked' = (panicked \/ ref[p] # 0)
      /\ uncachepage(p)
      /\ ref' = [ref EXCEPT ![p] = @ + 1]
      /\ holds' = [holds EXCEPT ![dest] = p]
      /\ palloc' = NoProc
      /\ writable' = writable \cup {dest}
      /\ \/ /\ dest = t /\ Goto(t, "pio")
            /\ UNCHANGED <<pg, np, slot, want, retries>>
         \/ dest # t /\ Return(t)
      /\ SegUnlock(t)
      /\ UNCHANGED <<plock, pwait, freelist, dupretries>>

NewPage(t) ==
  LET p == pg[t]
      dest == IF seglock[slot[t]] = t THEN slot[t] ELSE t
  IN  /\ pc[t] = "new_pg" /\ plock[p] = NoProc
      /\ panicked' = (panicked \/ ref[p] # 0)
      /\ uncachepage(p)
      /\ ref' = [ref EXCEPT ![p] = @ + 1]
      /\ holds' = [holds EXCEPT ![dest] = p]
      /\ palloc' = NoProc
      /\ \/ /\ dest = t /\ Goto(t, "pio")
            /\ UNCHANGED <<writable, pg, np, slot, want, retries>>
         \/ /\ dest # t /\ Return(t)
            /\ writable' = writable \cup {dest}
      /\ SegUnlock(t)
      /\ UNCHANGED <<plock, pwait, freelist, dupretries>>

-----------------------------------------------------------------------------
(* putpage, called by freepte on an entry or on a page of the caller's own *)

FreePte(t, s) ==
  /\ Enter(t, s, "put")
  /\ holds[s] # NoPage
  /\ UNCHANGED want

PutTake(t) ==
  /\ pc[t] = "put" /\ palloc = NoProc
  /\ palloc' = t
  /\ pg' = [pg EXCEPT ![t] = holds[slot[t]]]
  /\ Goto(t, "put_pg")
  /\ UNCHANGED <<plock, pwait, seglock, pages, np, slot, want, retries,
                 dupretries, panicked>>

PutPage(t) ==
  LET p == pg[t]
  IN  /\ pc[t] = "put_pg" /\ plock[p] = NoProc
      /\ panicked' = (panicked \/ ref[p] = 0)
      /\ ref' = [ref EXCEPT ![p] = IF @ > 0 THEN @ - 1 ELSE @]
      /\ holds' = [holds EXCEPT ![slot[t]] = NoPage]
      /\ writable' = writable \ {slot[t]}
      /\ \/ ref[p] # 1 /\ UNCHANGED freelist
         \/ ref[p] = 1 /\ name[p] \in Names \ NoText /\ pagechaintail(p)
         \/ ref[p] = 1 /\ name[p] \notin Names \ NoText /\ pagechainhead(p)
      /\ palloc' = NoProc
      /\ SegUnlock(t)
      /\ Return(t)
      /\ UNCHANGED <<plock, pwait, name, dupretries>>

-----------------------------------------------------------------------------
(* auxpage: the caller keeps the page in a local variable and frees it.    *)

AuxTake(t) ==
  /\ pc[t] = "idle" /\ palloc = NoProc
  /\ freecount >= HighWater
  /\ palloc' = t
  /\ pg' = [pg EXCEPT ![t] = Head(freelist)]
  /\ pageunchain(1)
  /\ Goto(t, "aux_pg")
  /\ UNCHANGED <<plock, pwait, seglock, ref, name, holds, writable,
                 np, slot, want, retries, dupretries, panicked>>

AuxPage(t) ==
  LET p == pg[t]
  IN  /\ pc[t] = "aux_pg" /\ plock[p] = NoProc
      /\ panicked' = (panicked \/ ref[p] # 0)
      /\ ref' = [ref EXCEPT ![p] = @ + 1]
      /\ uncachepage(p)
      /\ holds' = [holds EXCEPT ![t] = p]
      /\ palloc' = NoProc
      /\ slot' = [slot EXCEPT ![t] = t]
      /\ Goto(t, "put")
      /\ UNCHANGED <<plock, pwait, seglock, freelist, writable,
                     pg, np, want, retries, dupretries>>

-----------------------------------------------------------------------------
(* lookpage.  The page found on the chain is locked only after hashlock    *)
(* has been dropped, so its name is checked again.                         *)

LookStart(t, s, n) ==
  /\ Enter(t, s, "look")
  /\ holds[s] = NoPage
  /\ want' = [want EXCEPT ![t] = n]

LookHit(t, f) ==
  /\ pc[t] = "look" /\ name[f] = want[t]
  /\ pg' = [pg EXCEPT ![t] = f]
  /\ Goto(t, "look_lock")
  /\ UNCHANGED <<locks, pages, np, slot, want, retries, dupretries, panicked>>

(* Nothing in the cache: the caller drops the segment lock, takes a page   *)
(* with newpage(0, 0, addr) and reads the block into it.                   *)
LookMiss(t) ==
  /\ pc[t] = "look" /\ \A f \in Pages : name[f] # want[t]
  /\ SegUnlock(t)
  /\ Goto(t, "new")
  /\ UNCHANGED <<palloc, plock, pwait, pages, pg, np, slot, want, retries,
                 dupretries, panicked>>

LookTake(t) ==
  /\ pc[t] = "look_lock" /\ palloc = NoProc
  /\ palloc' = t
  /\ Goto(t, "look_pg")
  /\ UNCHANGED <<plock, pwait, seglock, pages, pg, np, slot, want, retries,
                 dupretries, panicked>>

(* The page is no longer the one that was on the chain: return 0; the      *)
(* caller takes a new page as on a miss.                                   *)
LookStale(t) ==
  /\ pc[t] = "look_pg" /\ plock[pg[t]] = NoProc
  /\ name[pg[t]] # want[t]
  /\ palloc' = NoProc
  /\ SegUnlock(t)
  /\ Goto(t, "new")
  /\ UNCHANGED <<plock, pwait, pages, pg, np, slot, want, retries,
                 dupretries, panicked>>

(* Mutant: the page's name is not checked again under its lock.             *)
LookPageUnchecked(t) ==
  LET f == pg[t]
  IN  /\ pc[t] = "look_pg" /\ plock[f] = NoProc
      /\ ref' = [ref EXCEPT ![f] = @ + 1]
      /\ \/ /\ ref[f] = 0
            /\ \E i \in DOMAIN freelist : freelist[i] = f /\ pageunchain(i)
         \/ ref[f] # 0 /\ UNCHANGED freelist
      /\ holds' = [holds EXCEPT ![slot[t]] = f]
      /\ palloc' = NoProc
      /\ SegUnlock(t)
      /\ Return(t)
      /\ UNCHANGED <<plock, pwait, name, writable, dupretries, panicked>>

(* Mutant: a free page found in the cache stays on the free list.           *)
LookPageChained(t) ==
  LET f == pg[t]
  IN  /\ pc[t] = "look_pg" /\ plock[f] = NoProc
      /\ name[f] = want[t]
      /\ ref' = [ref EXCEPT ![f] = @ + 1]
      /\ holds' = [holds EXCEPT ![slot[t]] = f]
      /\ palloc' = NoProc
      /\ SegUnlock(t)
      /\ Return(t)
      /\ UNCHANGED <<plock, pwait, freelist, name, writable, dupretries,
                     panicked>>

LookPage(t) ==
  LET f == pg[t]
  IN  /\ pc[t] = "look_pg" /\ plock[f] = NoProc
      /\ name[f] = want[t]
      /\ ref' = [ref EXCEPT ![f] = @ + 1]
      /\ \/ /\ ref[f] = 0
            /\ \E i \in DOMAIN freelist : freelist[i] = f /\ pageunchain(i)
         \/ ref[f] # 0 /\ UNCHANGED freelist
      /\ holds' = [holds EXCEPT ![slot[t]] = f]
      /\ palloc' = NoProc
      /\ SegUnlock(t)
      /\ Return(t)
      /\ UNCHANGED <<plock, pwait, name, writable, dupretries, panicked>>

(* The caller has read the block.  With the segment locked again it enters *)
(* the page in the cache, unless another process filled the slot meanwhile.*)
Cachepage(t) ==
  LET s == slot[t]
      p == holds[t]
  IN  /\ pc[t] = "pio" /\ seglock[s] = NoProc
      /\ holds[s] = NoPage
      /\ panicked' = (panicked \/ name[p] # NoName)
      /\ name' = [name EXCEPT ![p] = want[t]]
      /\ holds' = [holds EXCEPT ![s] = p, ![t] = NoPage]
      /\ Return(t)
      /\ UNCHANGED <<locks, freelist, ref, writable, dupretries>>

PioLost(t) ==
  /\ pc[t] = "pio" /\ seglock[slot[t]] = NoProc
  /\ holds[slot[t]] # NoPage
  /\ slot' = [slot EXCEPT ![t] = t]
  /\ Goto(t, "put")
  /\ UNCHANGED <<locks, pages, pg, np, want, retries, dupretries, panicked>>

-----------------------------------------------------------------------------
(* duppage(p), called with p locked by a write fault on a slot: when p is  *)
(* the only reference to a cached page, a free page takes its place in the *)
(* cache and the caller goes on writing p.                                 *)

WriteFault(t, s) ==
  LET p == holds[s]
  IN  /\ pc[t] = "idle" /\ seglock[s] = NoProc
      /\ p # NoPage /\ plock[p] = NoProc
      /\ ref[p] = 1
      /\ \/ /\ name[p] # NoName
            /\ plock' = [plock EXCEPT ![p] = t]
            /\ seglock' = [seglock EXCEPT ![s] = t]
            /\ slot' = [slot EXCEPT ![t] = s]
            /\ pg' = [pg EXCEPT ![t] = p]
            /\ Goto(t, "dup")
            /\ UNCHANGED writable
         \/ /\ name[p] = NoName
            /\ writable' = writable \cup {s}
            /\ UNCHANGED <<plock, seglock, slot, pg, pc>>
      /\ UNCHANGED <<palloc, pwait, freelist, ref, name, holds, np, want,
                     retries, dupretries, panicked>>

(* duppage returns and the caller, still holding the lock of p, decides    *)
(* from its reference count whether p may be written in place.             *)
DupReturn(t) ==
  /\ plock' = [plock EXCEPT ![pg[t]] = NoProc]
  /\ writable' = IF ref[pg[t]] = 1 THEN writable \cup {slot[t]} ELSE writable
  /\ SegUnlock(t)
  /\ Return(t)
  /\ UNCHANGED <<palloc, pwait, freelist, ref, holds, panicked>>

(* Too many retries have gone by: the page leaves the cache and the next   *)
(* call tries longer.  No lock is held over the static; the update is one  *)
(* step here, a lost increment would only let the limit grow more slowly.  *)
DupGiveUp(t) ==
  /\ pc[t] = "dup" /\ retries[t] > dupretries
  /\ dupretries + DupMore <= DupLimit
  /\ dupretries' = dupretries + DupMore
  /\ uncachepage(pg[t])
  /\ DupReturn(t)

(* duppage has given up so often that it stops the kernel.                 *)
DupPanic(t) ==
  /\ pc[t] = "dup" /\ retries[t] > dupretries
  /\ dupretries + DupMore > DupLimit
  /\ dupretries' = dupretries + DupMore
  /\ panicked' = TRUE
  /\ UNCHANGED <<locks, pages, locals>>

DupNothing(t) ==
  LET p == pg[t]
  IN  /\ pc[t] = "dup" /\ retries[t] <= dupretries
      /\ ref[p] = 0 \/ name[p] = NoName \/ name[p] \in NoText
      /\ DupReturn(t)
      /\ UNCHANGED <<name, dupretries>>

(* Mutant: p stays locked while the lock of palloc is tried again.          *)
DupBusyHolding(t) ==
  LET p == pg[t]
  IN  /\ pc[t] = "dup" /\ retries[t] <= dupretries
      /\ ref[p] # 0 /\ name[p] # NoName /\ name[p] \notin NoText
      /\ palloc # NoProc
      /\ retries' = [retries EXCEPT ![t] = @ + 1]
      /\ Goto(t, "dup_relock")
      /\ UNCHANGED <<locks, pages, pg, np, slot, want, dupretries, panicked>>

DupBusy(t) ==
  LET p == pg[t]
  IN  /\ pc[t] = "dup" /\ retries[t] <= dupretries
      /\ ref[p] # 0 /\ name[p] # NoName /\ name[p] \notin NoText
      /\ palloc # NoProc
      /\ plock' = [plock EXCEPT ![p] = NoProc]
      /\ retries' = [retries EXCEPT ![t] = @ + 1]
      /\ Goto(t, "dup_relock")
      /\ UNCHANGED <<palloc, pwait, seglock, pages, pg, np, slot, want,
                     dupretries, panicked>>

DupRelock(t) ==
  LET p == pg[t]
  IN  /\ pc[t] = "dup_relock" /\ plock[p] = NoProc
      /\ plock' = [plock EXCEPT ![p] = t]
      /\ Goto(t, "dup")
      /\ UNCHANGED <<palloc, pwait, seglock, pages, pg, np, slot, want,
                     retries, dupretries, panicked>>

DupNoMemory(t) ==
  LET p == pg[t]
  IN  /\ pc[t] = "dup" /\ retries[t] <= dupretries
      /\ ref[p] # 0 /\ name[p] # NoName /\ name[p] \notin NoText
      /\ palloc = NoProc
      /\ freecount < HighWater
      /\ uncachepage(p)
      /\ DupReturn(t)
      /\ UNCHANGED dupretries

DupTake(t) ==
  LET p == pg[t]
  IN  /\ pc[t] = "dup" /\ retries[t] <= dupretries
      /\ ref[p] # 0 /\ name[p] # NoName /\ name[p] \notin NoText
      /\ palloc = NoProc
      /\ freecount >= HighWater
      /\ palloc' = t
      /\ np' = [np EXCEPT ![t] = Head(freelist)]
      /\ freelist' = Append(RemoveAt(freelist, 1), Head(freelist))
      /\ Goto(t, "dup_np")
      /\ UNCHANGED <<plock, pwait, seglock, ref, name, holds, writable, pg,
                     slot, want, retries, dupretries, panicked>>

(* np stays on the free list while this process holds only its page lock.  *)
(* Mutant: np keeps the name it was cached under.                           *)
DupLockNpCached(t) ==
  /\ pc[t] = "dup_np" /\ plock[np[t]] = NoProc
  /\ plock' = [plock EXCEPT ![np[t]] = t]
  /\ palloc' = NoProc
  /\ Goto(t, "dup_cache")
  /\ UNCHANGED <<pwait, seglock, freelist, ref, name, holds, writable, pg, np,
                 slot, want, retries, dupretries, panicked>>

DupLockNp(t) ==
  /\ pc[t] = "dup_np" /\ plock[np[t]] = NoProc
  /\ plock' = [plock EXCEPT ![np[t]] = t]
  /\ palloc' = NoProc
  /\ uncachepage(np[t])
  /\ Goto(t, "dup_cache")
  /\ UNCHANGED <<pwait, seglock, freelist, ref, holds, writable, pg, np, slot,
                 want, retries, dupretries, panicked>>

DupCache(t) ==
  LET n == np[t]
  IN  /\ pc[t] = "dup_cache"
      /\ panicked' = (panicked \/ name[n] # NoName)
      /\ name' = [name EXCEPT ![n] = name[pg[t]]]
      /\ plock' = [plock EXCEPT ![n] = NoProc]
      /\ Goto(t, "dup_done")
      /\ UNCHANGED <<palloc, pwait, seglock, freelist, ref, holds, writable,
                     pg, np, slot, want, retries, dupretries>>

DupDone(t) ==
  /\ pc[t] = "dup_done"
  /\ uncachepage(pg[t])
  /\ DupReturn(t)
  /\ UNCHANGED dupretries

-----------------------------------------------------------------------------
(* Mutant: the copied entry takes no reference.                             *)
PteCpyUncounted(t, s, d) ==
  /\ pc[t] = "idle" /\ seglock[s] = NoProc /\ seglock[d] = NoProc
  /\ holds[s] # NoPage /\ holds[d] = NoPage /\ plock[holds[s]] = NoProc
  /\ holds' = [holds EXCEPT ![d] = holds[s]]
  /\ writable' = writable \ {s, d}
  /\ UNCHANGED <<locks, freelist, ref, name, locals, dupretries, panicked>>

(* ptecpy: an entry of a segment is copied into an empty entry of another. *)
(* The caller flushes the mappings, so neither stays writable.             *)
PteCpy(t, s, d) ==
  LET p == holds[s]
  IN  /\ pc[t] = "idle" /\ seglock[s] = NoProc /\ seglock[d] = NoProc
      /\ p # NoPage /\ holds[d] = NoPage /\ plock[p] = NoProc
      /\ ref' = [ref EXCEPT ![p] = @ + 1]
      /\ holds' = [holds EXCEPT ![d] = p]
      /\ writable' = writable \ {s, d}
      /\ UNCHANGED <<locks, freelist, name, locals, dupretries, panicked>>

-----------------------------------------------------------------------------
Step(t) ==
  \/ NewTake(t) \/ NewMustWait(t) \/ NewQlock(t) \/ NewWake(t) \/ NewPage(t)
  \/ PutTake(t) \/ PutPage(t)
  \/ AuxPage(t)
  \/ LookMiss(t) \/ LookTake(t) \/ LookStale(t) \/ LookPage(t)
  \/ \E f \in Pages : LookHit(t, f)
  \/ Cachepage(t) \/ PioLost(t)
  \/ DupGiveUp(t) \/ DupNothing(t) \/ DupBusy(t) \/ DupRelock(t)
  \/ DupNoMemory(t) \/ DupTake(t) \/ DupLockNp(t) \/ DupCache(t) \/ DupDone(t)

Call(t) ==
  \/ AuxTake(t)
  \/ \E s \in Slots :
       \/ NewStart(t, s) \/ FreePte(t, s) \/ WriteFault(t, s)
       \/ \E n \in Names : LookStart(t, s, n)
       \/ \E d \in Slots : PteCpy(t, s, d)

(* A panic ends the process that runs the kernel.                          *)
Exited == panicked /\ UNCHANGED vars

Next ==
  \/ ~panicked /\ \E t \in Procs : Step(t) \/ Call(t) \/ DupPanic(t)
  \/ Exited

Spec == Init /\ [][Next]_vars
-----------------------------------------------------------------------------
(* Correctness.                                                            *)

PCs == {"idle", "new", "new_wait", "new_sleep", "new_pg", "pio",
        "put", "put_pg", "aux_pg", "look", "look_lock", "look_pg",
        "dup", "dup_relock", "dup_np", "dup_cache", "dup_done"}

(* Every variable has its type.                                            *)
TypeOK ==
  /\ palloc \in Procs \cup {NoProc}
  /\ pwait \in Procs \cup {NoProc}
  /\ plock \in [Pages -> Procs \cup {NoProc}]
  /\ seglock \in [Slots -> Procs \cup {NoProc}]
  /\ freelist \in Seq(Pages)
  /\ ref \in [Pages -> Nat]
  /\ name \in [Pages -> Names \cup {NoName}]
  /\ holds \in [Holders -> Pages \cup {NoPage}]
  /\ writable \in SUBSET Slots
  /\ pc \in [Procs -> PCs]
  /\ pg \in [Procs -> Pages \cup {NoPage}]
  /\ np \in [Procs -> Pages \cup {NoPage}]
  /\ slot \in [Procs -> Holders \cup {NoSlot}]
  /\ want \in [Procs -> Names \cup {NoName}]
  /\ retries \in [Procs -> Nat]
  /\ dupretries \in Nat
  /\ panicked \in BOOLEAN

(* None of the consistency checks of umpage.c fires: newpage and auxpage   *)
(* never find a reference on the page they took off the free list, putpage *)
(* never drops a reference that is not there, cachepage never meets a page *)
(* that already has an image, whatever duppage and lookpage do meanwhile.  *)
(* The one panic the allocator can reach is that of duppage itself, after  *)
(* it has given up so often that its own limit has grown past DupLimit.    *)
OnlyContentionPanics == panicked => dupretries > DupLimit

HoldersOf(p) == {x \in Holders : holds[x] = p}

(* checkpagerefs finds no mistake: the count in a page is the number of    *)
(* table entries and local variables that refer to it, at every step and   *)
(* not only on the quiescent system the comment there asks for.            *)
RefExact == \A p \in Pages : ref[p] = Cardinality(HoldersOf(p))

(* A page is on the free list once or not at all, only while nobody refers *)
(* to it, and a page nobody refers to is free or on its way to its new     *)
(* owner: none is lost and none is handed out twice.                       *)
FreeIsUnused ==
  /\ IsInjective(freelist)
  /\ \A p \in Pages : IsFree(p) => ref[p] = 0
  /\ \A p \in Pages : ref[p] = 0 /\ ~IsFree(p) =>
       \E t \in Procs : pc[t] \in {"new_pg", "aux_pg"} /\ pg[t] = p

(* What duppage is for: a page a fault left writable in place is nobody    *)
(* else's, and is not in the cache where a later lookpage, or one already  *)
(* under way, could hand it to another segment.  Only notext images (swap) *)
(* are written in place while they keep their name.                        *)
WritableIsPrivate ==
  \A s \in writable :
    /\ holds[s] # NoPage
    /\ \/ name[holds[s]] = NoName /\ HoldersOf(holds[s]) = {s}
       \/ name[holds[s]] \in NoText

(* The owner of the lock process t spins on or sleeps for, if any.         *)
BlockedOn(t) ==
  CASE pc[t] \in {"new", "put", "look_lock"} -> palloc
    [] pc[t] \in {"new_pg", "put_pg", "aux_pg", "look_pg", "dup_relock"}
         -> plock[pg[t]]
    [] pc[t] = "dup_np" -> plock[np[t]]
    [] pc[t] = "new_wait" -> pwait
    [] pc[t] = "pio" -> seglock[slot[t]]
    [] OTHER -> NoProc

(* The locks are free of deadlock: no set of processes waits only for      *)
(* locks held within the set.  duppage takes palloc and a second page lock *)
(* while it holds a page lock, against the order used everywhere else.     *)
NoLockCycle ==
  \A S \in (SUBSET Procs) \ {{}} : \E t \in S : BlockedOn(t) \notin S
=============================================================================
