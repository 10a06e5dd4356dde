----------------------------- MODULE MpsBuffPool -----------------------------
(***************************************************************************)
(* The buffer pool the two cores of the Danube share (mps_tpe_buffer.c).   *)
(*                                                                         *)
(* CPU0 owns all buffer memory.  It keeps alloc_q filled with fresh        *)
(* buffers ("top-up") and frees what it finds in free_q ("release").       *)
(* CPU1 takes buffers from alloc_q and returns buffers through free_q.     *)
(* Each queue is a circular array in uncached shared memory with one read  *)
(* and one write index; there is no lock between the cores.  On CPU0 the   *)
(* book-keeping is entered from several contexts (timer, tasklet, send)    *)
(* that exclude each other with a counter used as a try-lock; on CPU1 the  *)
(* allocation and free routines test the queue first and disable           *)
(* interrupts only around the access itself.                               *)
(*                                                                         *)
(* A step is one access to shared memory, or an interval with interrupts   *)
(* off as far as CPU1's own contexts are concerned.                        *)
(***************************************************************************)
EXTENDS Integers, FiniteSets

CONSTANTS
  Bufs,        \* the sk_buffs of CPU0's memory
  Invalid,     \* 0xEEEEEEEE, or what kmalloc left in an unused slot
  MaxAlloc,    \* alloc_q->maxcount
  MaxFree,     \* free_q->maxcount
  Thresh,      \* MPS_BOOK_KEEPING_THRESH
  Ctx0,        \* contexts on CPU0 that run the book-keeping
  Ctx1         \* contexts on CPU1 that allocate and free

ASSUME BufsAssumption == Invalid \notin Bufs
ASSUME SizeAssumption == MaxAlloc \in Nat \ {0} /\ MaxFree \in Nat \ {0}
ASSUME ThreshAssumption == Thresh \in Nat
ASSUME CtxAssumption == IsFiniteSet(Ctx0)

VARIABLES
  aBuf, aR, aW,   \* alloc_q: circular_buf, rpos, wpos
  fBuf, fR, fW,   \* free_q:  circular_buf, rpos, wpos
  owner,          \* who holds each buffer: see Owners
  dirty,          \* buffers whose sk_buff is not yet (wholly) written back
  lock,           \* mps_list_book_keep_x
  aHits, fHits,   \* alloc_hit_count, free_hit_count
  pc0, lr, lw,    \* per CPU0 context: where it is, its copies of rpos, wpos
  cnt, hand0,     \* per CPU0 context: count, mps_buf of mps_topup_q_list
  pc1, hand1,     \* per CPU1 context: where it is, m_buf or buf
  overrun         \* history: a queue was used after its test had become stale

aqVars   == <<aBuf, aR, aW>>
fqVars   == <<fBuf, fR, fW>>
hitVars  == <<aHits, fHits>>
cpu0Vars == <<pc0, lr, lw, cnt, hand0>>
cpu1Vars == <<pc1, hand1>>
vars     == <<aqVars, fqVars, owner, dirty, lock, hitVars, cpu0Vars, cpu1Vars, overrun>>

\* "heap": CPU0's allocator or network stack; "cpu0": in the hands of a
\* top-up; "cpu1": in the hands of CPU1.
Owners == {"heap", "cpu0", "alloc_q", "cpu1", "free_q"}

Slots == Bufs \cup {Invalid}

-----------------------------------------------------------------------------
(* Queue index arithmetic (mps_tpe_buffer.h). maxcount + 1 slots.          *)

\* Fault: wraps one slot too late.
NextQPosLate(pos, max) == IF pos <= max THEN pos + 1 ELSE 0

NextQPos(pos, max) == IF pos < max THEN pos + 1 ELSE 0

QCount(r, w, max) == IF r <= w THEN w - r ELSE w + 1 + max - r

\* Fault: maxcount taken for the number of slots, so the last one is used.
IsQFullLate(r, w, max) == QCount(r, w, max) > max

IsQFull(r, w, max) == NextQPos(w, max) = r

IsQEmpty(r, w) == r = w

\* The slots between the read and the write index.
Live(p, r, w) == IF r <= w THEN r <= p /\ p < w ELSE r <= p \/ p < w

-----------------------------------------------------------------------------
(* Creation of the pool                                                    *)

\* mps_queue_init, for alloc_q with a buffer in every slot but one, for free_q
\* with none.
QueuesInit ==
  /\ \E f \in [0..MaxAlloc - 1 -> Bufs] :
       /\ \A i, j \in 0..MaxAlloc - 1 : f[i] = f[j] => i = j
       /\ aBuf  = [p \in 0..MaxAlloc |-> IF p < MaxAlloc THEN f[p] ELSE Invalid]
       /\ owner = [b \in Bufs |-> IF \E i \in 0..MaxAlloc - 1 : f[i] = b
                                  THEN "alloc_q" ELSE "heap"]
  /\ aR = 0 /\ aW = MaxAlloc
  /\ fBuf = [p \in 0..MaxFree |-> Invalid]
  /\ fR = 0 /\ fW = 0

\* ifx_mps_queue_init has made both queues and flushed the buffers.
Init ==
  /\ QueuesInit
  /\ dirty = {}
  /\ lock = 1
  /\ aHits = 0 /\ fHits = 0
  /\ pc0 = [c \in Ctx0 |-> "idle"]
  /\ lr = [c \in Ctx0 |-> 0] /\ lw = [c \in Ctx0 |-> 0]
  /\ cnt = [c \in Ctx0 |-> 0] /\ hand0 = [c \in Ctx0 |-> Invalid]
  /\ pc1 = [c \in Ctx1 |-> "idle"] /\ hand1 = [c \in Ctx1 |-> Invalid]
  /\ overrun = FALSE

-----------------------------------------------------------------------------
(* CPU0: book-keeping                                                      *)

Goto0(c, from, to) == pc0[c] = from /\ pc0' = [pc0 EXCEPT ![c] = to]

\* ifx_cpu0_topup_q_lists counts the call; only every (Thresh+1)-th works.
\* (The counter only paces the work, so its increment and test are one step.)
TopupHit(c) ==
  /\ IF aHits + 1 > Thresh
       THEN aHits' = 0 /\ Goto0(c, "idle", "tryTopup")
       ELSE aHits' = aHits + 1 /\ Goto0(c, "idle", "idle")
  /\ UNCHANGED <<aqVars, fqVars, owner, dirty, lock, fHits, lr, lw, cnt, hand0,
                 cpu1Vars, overrun>>

\* ifx_cpu0_release_q_lists does the same with its own counter.
ReleaseHit(c) ==
  /\ IF fHits + 1 > Thresh
       THEN fHits' = 0 /\ Goto0(c, "idle", "tryRelease")
       ELSE fHits' = fHits + 1 /\ Goto0(c, "idle", "idle")
  /\ UNCHANGED <<aqVars, fqVars, owner, dirty, lock, aHits, lr, lw, cnt, hand0,
                 cpu1Vars, overrun>>

\* Fault: the test of the decremented counter is dropped.
TryLockBlind(c) ==
  /\ lock' = lock - 1
  /\ \/ Goto0(c, "tryTopup", "count")
     \/ Goto0(c, "tryRelease", "snap")
  /\ UNCHANGED <<aqVars, fqVars, owner, dirty, hitVars, lr, lw, cnt, hand0,
                 cpu1Vars, overrun>>

\* atomic_dec_and_test(&mps_list_book_keep_x): the section is entered only
\* if the result is zero; a loser goes to lbl_ret_ok.
TryLock(c) ==
  /\ lock' = lock - 1
  /\ \/ Goto0(c, "tryTopup", IF lock - 1 = 0 THEN "count" ELSE "unlock")
     \/ Goto0(c, "tryRelease", IF lock - 1 = 0 THEN "snap" ELSE "unlock")
  /\ UNCHANGED <<aqVars, fqVars, owner, dirty, hitVars, lr, lw, cnt, hand0,
                 cpu1Vars, overrun>>

\* lbl_ret_ok: winner and loser alike increment the counter again.  The call
\* returns, so its locals are gone.
Unlock(c) ==
  /\ Goto0(c, "unlock", "idle")
  /\ lock' = lock + 1
  /\ lr' = [lr EXCEPT ![c] = 0] /\ lw' = [lw EXCEPT ![c] = 0]
  /\ cnt' = [cnt EXCEPT ![c] = 0] /\ hand0' = [hand0 EXCEPT ![c] = Invalid]
  /\ UNCHANGED <<aqVars, fqVars, owner, dirty, hitVars, cpu1Vars, overrun>>

\* mps_topup_q_list: MPS_GET_Q_COUNT copies both indices.
TopupCount(c) ==
  /\ Goto0(c, "count", "alloc")
  /\ lw' = [lw EXCEPT ![c] = aW]
  /\ cnt' = [cnt EXCEPT ![c] = QCount(aR, aW, MaxAlloc)]
  /\ UNCHANGED <<aqVars, fqVars, owner, dirty, lock, hitVars, lr, hand0,
                 cpu1Vars, overrun>>

\* dev_alloc_skb succeeds; the new sk_buff is in CPU0's cache.
TopupAlloc(c) ==
  /\ cnt[c] < MaxAlloc
  /\ Goto0(c, "alloc", "set")
  /\ \E b \in {x \in Bufs : owner[x] = "heap"} :
       /\ owner' = [owner EXCEPT ![b] = "cpu0"]
       /\ dirty' = dirty \cup {b}
       /\ hand0' = [hand0 EXCEPT ![c] = b]
  /\ cnt' = [cnt EXCEPT ![c] = @ + 1]
  /\ UNCHANGED <<aqVars, fqVars, lock, hitVars, lr, lw, cpu1Vars, overrun>>

\* dev_alloc_skb fails: q->wpos = wpos; break.
TopupNoMem(c) ==
  /\ cnt[c] < MaxAlloc
  /\ Goto0(c, "alloc", "unlock")
  /\ aW' = lw[c]
  /\ UNCHANGED <<aBuf, aR, fqVars, owner, dirty, lock, hitVars, lr, lw, cnt, hand0,
                 cpu1Vars, overrun>>

\* MPS_SET_Q_ITEM writes the slot at q->wpos.
TopupSet(c) ==
  /\ Goto0(c, "set", "publish")
  /\ aBuf' = [aBuf EXCEPT ![aW] = hand0[c]]
  /\ UNCHANGED <<aR, aW, fqVars, owner, dirty, lock, hitVars, lr, lw, cnt, hand0,
                 cpu1Vars, overrun>>

\* wpos = MPS_NEXT_Q_POS(wpos); q->wpos = wpos.
TopupPublish(c) ==
  /\ Goto0(c, "publish", "flush")
  /\ lw' = [lw EXCEPT ![c] = NextQPos(@, MaxAlloc)]
  /\ aW' = NextQPos(lw[c], MaxAlloc)
  /\ owner' = [owner EXCEPT ![hand0[c]] = "alloc_q"]
  /\ UNCHANGED <<aBuf, aR, fqVars, dirty, lock, hitVars, lr, cnt, hand0,
                 cpu1Vars, overrun>>

\* MPS_FLUSH_MPS_BUF(mps_buf), after the buffer has been published.
TopupFlush(c) ==
  /\ Goto0(c, "flush", "alloc")
  /\ dirty' = dirty \ {hand0[c]}
  /\ UNCHANGED <<aqVars, fqVars, owner, lock, hitVars, lr, lw, cnt, hand0,
                 cpu1Vars, overrun>>

TopupDone(c) ==
  /\ cnt[c] >= MaxAlloc
  /\ Goto0(c, "alloc", "unlock")
  /\ UNCHANGED <<aqVars, fqVars, owner, dirty, lock, hitVars, lr, lw, cnt, hand0,
                 cpu1Vars, overrun>>

\* mps_queue_free: copies of both indices, the loop works on the copies.
ReleaseSnap(c) ==
  /\ Goto0(c, "snap", "free")
  /\ lw' = [lw EXCEPT ![c] = fW]
  /\ lr' = [lr EXCEPT ![c] = fR]
  /\ UNCHANGED <<aqVars, fqVars, owner, dirty, lock, hitVars, cnt, hand0,
                 cpu1Vars, overrun>>

\* (*free_fn)(q->circular_buf[rpos])
ReleaseFree(c) ==
  /\ lr[c] # lw[c]
  /\ Goto0(c, "free", "free")
  /\ owner' = [b \in Bufs |-> IF b = fBuf[lr[c]] THEN "heap" ELSE owner[b]]
  /\ lr' = [lr EXCEPT ![c] = NextQPos(@, MaxFree)]
  /\ UNCHANGED <<aqVars, fqVars, dirty, lock, hitVars, lw, cnt, hand0,
                 cpu1Vars, overrun>>

\* Fault: the read index is not written back.
ReleaseDoneNoIndex(c) ==
  /\ lr[c] = lw[c]
  /\ Goto0(c, "free", "unlock")
  /\ UNCHANGED <<aqVars, fqVars, owner, dirty, lock, hitVars, lr, lw, cnt, hand0,
                 cpu1Vars, overrun>>

\* Fault: returns without passing lbl_ret_ok.
ReleaseDoneNoUnlock(c) ==
  /\ lr[c] = lw[c]
  /\ Goto0(c, "free", "idle")
  /\ fR' = lr[c]
  /\ UNCHANGED <<aqVars, fBuf, fW, owner, dirty, lock, hitVars, lr, lw, cnt, hand0,
                 cpu1Vars, overrun>>

\* q->rpos = rpos, once, after the loop.
ReleaseDone(c) ==
  /\ lr[c] = lw[c]
  /\ Goto0(c, "free", "unlock")
  /\ fR' = lr[c]
  /\ UNCHANGED <<aqVars, fBuf, fW, owner, dirty, lock, hitVars, lr, lw, cnt, hand0,
                 cpu1Vars, overrun>>

Topup(c)   == TopupCount(c) \/ TopupAlloc(c) \/ TopupNoMem(c) \/ TopupSet(c)
                \/ TopupPublish(c) \/ TopupFlush(c) \/ TopupDone(c)
Release(c) == ReleaseSnap(c) \/ ReleaseFree(c) \/ ReleaseDone(c)
Step0(c)   == TopupHit(c) \/ ReleaseHit(c) \/ TryLock(c) \/ Unlock(c)
                \/ Topup(c) \/ Release(c)

-----------------------------------------------------------------------------
(* CPU1: allocation and free                                               *)

\* local_irq_save .. local_irq_restore: no other context of CPU1 runs.
IrqOff(c) == pc1[c] \in {"advance", "publish"}
MayRun(c) == \A d \in Ctx1 \ {c} : ~IrqOff(d)

Goto1(c, from, to) ==
  MayRun(c) /\ pc1[c] = from /\ pc1' = [pc1 EXCEPT ![c] = to]

\* mps_dequeue_head: MPS_IS_Q_EMPTY is tested with interrupts on.
AllocCheck(c) ==
  /\ ~IsQEmpty(aR, aW)
  /\ Goto1(c, "idle", "take")
  /\ UNCHANGED <<aqVars, fqVars, owner, dirty, lock, hitVars, cpu0Vars, hand1, overrun>>

\* MPS_GET_Q_ITEM, then the slot is overwritten with 0xEEEEEEEE.  Nothing
\* tests again that the queue is not empty: another context of CPU1 may have
\* emptied it since AllocCheck, which overrun notes.
AllocTake(c) ==
  /\ Goto1(c, "take", "advance")
  /\ hand1' = [hand1 EXCEPT ![c] = aBuf[aR]]
  /\ owner' = [b \in Bufs |-> IF b = aBuf[aR] THEN "cpu1" ELSE owner[b]]
  /\ aBuf' = [aBuf EXCEPT ![aR] = Invalid]
  /\ overrun' = (overrun \/ IsQEmpty(aR, aW))
  /\ UNCHANGED <<aR, aW, fqVars, dirty, lock, hitVars, cpu0Vars>>

AllocAdvance(c) ==
  /\ Goto1(c, "advance", "inv")
  /\ aR' = NextQPos(aR, MaxAlloc)
  /\ UNCHANGED <<aBuf, aW, fqVars, owner, dirty, lock, hitVars, cpu0Vars, hand1, overrun>>

\* dma_cache_inv: from here CPU1 uses what memory holds.
AllocInv(c) ==
  /\ Goto1(c, "inv", "idle")
  /\ hand1' = [hand1 EXCEPT ![c] = Invalid]
  /\ UNCHANGED <<aqVars, fqVars, owner, dirty, lock, hitVars, cpu0Vars, overrun>>

\* A buffer CPU1's drivers hold and no allocation or free is working on.
AtCpu1(b) == owner[b] = "cpu1" /\ \A d \in Ctx1 : hand1[d] # b

\* ifx_mps_fast_free_mps_buf -> mps_queue_tail: MPS_IS_Q_FULL is tested with
\* interrupts on.  If the queue is full the call returns -1 and the caller
\* keeps the buffer.
FreeCheck(c) ==
  /\ ~IsQFull(fR, fW, MaxFree)
  /\ Goto1(c, "idle", "put")
  /\ \E b \in Bufs : AtCpu1(b) /\ hand1' = [hand1 EXCEPT ![c] = b]
  /\ UNCHANGED <<aqVars, fqVars, owner, dirty, lock, hitVars, cpu0Vars, overrun>>

\* MPS_SET_Q_ITEM: nor is it tested again that the queue is not full.
FreePut(c) ==
  /\ Goto1(c, "put", "publish")
  /\ fBuf' = [fBuf EXCEPT ![fW] = hand1[c]]
  /\ overrun' = (overrun \/ IsQFull(fR, fW, MaxFree))
  /\ UNCHANGED <<aqVars, fR, fW, owner, dirty, lock, hitVars, cpu0Vars, hand1>>

FreePublish(c) ==
  /\ Goto1(c, "publish", "idle")
  /\ fW' = NextQPos(fW, MaxFree)
  /\ owner' = [b \in Bufs |-> IF b = hand1[c] THEN "free_q" ELSE owner[b]]
  /\ hand1' = [hand1 EXCEPT ![c] = Invalid]
  /\ UNCHANGED <<aqVars, fBuf, fR, dirty, lock, hitVars, cpu0Vars, overrun>>

Step1(c) == AllocCheck(c) \/ AllocTake(c) \/ AllocAdvance(c) \/ AllocInv(c)
              \/ FreeCheck(c) \/ FreePut(c) \/ FreePublish(c)

-----------------------------------------------------------------------------
(* Buffers that change hands as mailbox messages: upstream packets end in  *)
(* CPU0's network stack, downstream packets come from it.                  *)

SendUp ==
  /\ \E b \in Bufs : AtCpu1(b) /\ owner' = [owner EXCEPT ![b] = "heap"]
  /\ UNCHANGED <<aqVars, fqVars, dirty, lock, hitVars, cpu0Vars, cpu1Vars, overrun>>

SendDown ==
  /\ \E b \in Bufs : owner[b] = "heap" /\ owner' = [owner EXCEPT ![b] = "cpu1"]
  /\ UNCHANGED <<aqVars, fqVars, dirty, lock, hitVars, cpu0Vars, cpu1Vars, overrun>>

Next ==
  \/ \E c \in Ctx0 : Step0(c)
  \/ \E c \in Ctx1 : Step1(c)
  \/ SendUp
  \/ SendDown

Spec == Init /\ [][Next]_vars

\* mps_timer_handler re-arms itself with mod_timer and calls top-up and
\* release on every tick, so each is called again and again (strong, as the
\* handler is busy with the other in between); a call once begun runs to its
\* end because softirqs are not abandoned.  CPU1 completes what it began.
Fairness ==
  /\ \A c \in Ctx0 :
       /\ SF_vars(TopupHit(c)) /\ SF_vars(ReleaseHit(c))
       /\ WF_vars(TryLock(c) \/ Unlock(c) \/ Topup(c) \/ Release(c))
  /\ \A c \in Ctx1 : WF_vars(AllocTake(c) \/ AllocAdvance(c) \/ AllocInv(c)
                                \/ FreePut(c) \/ FreePublish(c))

FairSpec == Spec /\ Fairness

-----------------------------------------------------------------------------
(* Properties                                                              *)

Pc0 == {"idle", "tryTopup", "tryRelease", "count", "alloc", "set", "publish",
        "flush", "snap", "free", "unlock"}
Pc1 == {"idle", "take", "advance", "inv", "put", "publish"}

\* Both queues' indices stay inside circular_buf[maxcount + 1], whatever the
\* two cores do to them; every other variable has its type.
TypeOK ==
  /\ aBuf \in [0..MaxAlloc -> Slots] /\ aR \in 0..MaxAlloc /\ aW \in 0..MaxAlloc
  /\ fBuf \in [0..MaxFree -> Slots] /\ fR \in 0..MaxFree /\ fW \in 0..MaxFree
  /\ owner \in [Bufs -> Owners] /\ dirty \subseteq Bufs
  /\ lock \in Int /\ aHits \in 0..Thresh /\ fHits \in 0..Thresh
  /\ pc0 \in [Ctx0 -> Pc0] /\ lr \in [Ctx0 -> Nat] /\ lw \in [Ctx0 -> Nat]
  /\ cnt \in [Ctx0 -> Nat] /\ hand0 \in [Ctx0 -> Slots]
  /\ pc1 \in [Ctx1 -> Pc1] /\ hand1 \in [Ctx1 -> Slots]
  /\ overrun \in BOOLEAN

\* Inside the section that mps_list_book_keep_x protects.
InTopup(c)   == pc0[c] \in {"count", "alloc", "set", "publish", "flush"}
InRelease(c) == pc0[c] \in {"snap", "free"}
InSection(c) == InTopup(c) \/ InRelease(c)

\* The counter used as a try-lock lets one CPU0 context at a time work on the
\* lists, although losers change the counter too before they put it back.
BookKeepExclusive ==
  \A c, d \in Ctx0 : InSection(c) /\ InSection(d) => c = d

\* Slots of alloc_q CPU1 has still to take: the slot it is about to step
\* over is taken already.
AllocLive(p) ==
  Live(p, aR, aW) /\ ~(p = aR /\ \E c \in Ctx1 : pc1[c] = "advance")

\* Slots of free_q CPU0 has still to free: mps_queue_free writes rpos back
\* only after its loop.
FreeLive(p) ==
  Live(p, fR, fW) /\ \A c \in Ctx0 : pc0[c] = "free" => ~Live(p, fR, lr[c])

\* What the slots f of a queue of size max hold, where L(_) says which slots
\* are unread: distinct buffers, each belonging to that queue.
SlotsOwned(f, max, L(_), who) ==
  \A p \in 0..max : L(p) =>
    /\ f[p] \in Bufs
    /\ owner[f[p]] = who
    /\ \A q \in 0..max : L(q) /\ f[q] = f[p] => q = p

Unshared ==
  /\ SlotsOwned(aBuf, MaxAlloc, AllocLive, "alloc_q")
  /\ SlotsOwned(fBuf, MaxFree, FreeLive, "free_q")

\* Every unread slot of a queue holds a buffer that belongs to that queue
\* and to no one else, once: no buffer is handed out twice, freed twice, or
\* freed while CPU1 or a top-up holds it, and the 0xEEEEEEEE marker is never
\* in an unread slot.  It holds with any number of contexts on both cores, up
\* to the first take from a queue that another context of CPU1 emptied, or put
\* in one that another context filled, since the test outside local_irq_save.
NoBufferShared == overrun \/ Unshared

Accounted ==
  \A b \in Bufs :
    /\ owner[b] = "alloc_q" => \E p \in 0..MaxAlloc : AllocLive(p) /\ aBuf[p] = b
    /\ owner[b] = "free_q"  => \E p \in 0..MaxFree : FreeLive(p) /\ fBuf[p] = b
    /\ owner[b] = "cpu0"    => \E c \in Ctx0 : pc0[c] \in {"set", "publish"} /\ hand0[c] = b

\* No buffer falls out of the accounts: one that was put in a queue is in an
\* unread slot of it, one a top-up allocated is in that top-up's hand; again
\* with any number of contexts, up to the first use of a stale test.
NoBufferLost == overrun \/ Accounted

\* What CPU1 gave back is eventually freed by CPU0's timer.
FreedEventually ==
  \A b \in Bufs : owner[b] = "free_q" ~> owner[b] = "heap"

\* mps_queue_free never frees a buffer whose write-back by a top-up is still
\* outstanding.  The top-up publishes a buffer before it flushes it, so CPU1 may
\* have taken it and given it back by then; only that a context which wants to
\* release loses mps_list_book_keep_x to the context that tops up keeps the
\* late MPS_FLUSH_MPS_BUF from writing over memory CPU0 uses for something else.
FlushedBeforeFreed ==
  [][\A b \in dirty : owner[b] = "free_q" => owner'[b] # "heap"]_vars
=============================================================================
