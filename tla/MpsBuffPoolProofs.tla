-------------------------- MODULE MpsBuffPoolProofs --------------------------
(***************************************************************************)
(* Theorems about MpsBuffPool, for any queue sizes, any set of buffers,    *)
(* any finite set of book-keeping contexts on CPU0 and any set of contexts *)
(* on CPU1.                                                                *)
(***************************************************************************)
EXTENDS MpsBuffPool, FiniteSetTheorems, TLAPS

-----------------------------------------------------------------------------
(* Index arithmetic                                                        *)

\* MPS_NEXT_Q_POS keeps an index inside circular_buf[max + 1].
LEMMA NextQPosType ==
  ASSUME NEW max \in Nat, NEW p \in 0..max
  PROVE  NextQPos(p, max) \in 0..max
  BY DEF NextQPos

\* MPS_GET_Q_COUNT of two valid indices is between 0 and maxcount.
LEMMA QCountType ==
  ASSUME NEW max \in Nat, NEW r \in 0..max, NEW w \in 0..max
  PROVE  QCount(r, w, max) \in 0..max
  BY DEF QCount

\* The queue is full when it holds maxcount items.
LEMMA FullIsMax ==
  ASSUME NEW max \in Nat, NEW r \in 0..max, NEW w \in 0..max
  PROVE  IsQFull(r, w, max) <=> QCount(r, w, max) = max
  BY DEF IsQFull, QCount, NextQPos

\* The slots between r and w are those at a smaller distance from r than w.
LEMMA LiveIsNear ==
  ASSUME NEW max \in Nat, NEW r \in 0..max, NEW w \in 0..max, NEW p \in 0..max
  PROVE  Live(p, r, w) <=> QCount(r, p, max) < QCount(r, w, max)
  BY DEF Live, QCount

\* Advancing the write index of a queue that is not full adds the slot w.
LEMMA LiveGrow ==
  ASSUME NEW max \in Nat, NEW r \in 0..max, NEW w \in 0..max, ~IsQFull(r, w, max)
  PROVE  /\ QCount(r, NextQPos(w, max), max) = QCount(r, w, max) + 1
         /\ \A p \in 0..max : Live(p, r, NextQPos(w, max)) <=> Live(p, r, w) \/ p = w
  BY DEF Live, QCount, NextQPos, IsQFull

\* Advancing the read index of a queue that is not empty drops the slot r.
LEMMA LiveShrink ==
  ASSUME NEW max \in Nat, NEW r \in 0..max, NEW w \in 0..max, r # w
  PROVE  /\ QCount(NextQPos(r, max), w, max) = QCount(r, w, max) - 1
         /\ ~IsQFull(NextQPos(r, max), w, max)
         /\ \A p \in 0..max : Live(p, NextQPos(r, max), w) <=> Live(p, r, w) /\ p # r
  BY DEF Live, QCount, NextQPos, IsQFull

\* Moving the read index on to m, between r and w, drops the slots before m.
LEMMA LiveSplit ==
  ASSUME NEW max \in Nat, NEW r \in 0..max, NEW w \in 0..max, NEW m \in 0..max,
         QCount(r, m, max) <= QCount(r, w, max)
  PROVE  /\ QCount(m, w, max) = QCount(r, w, max) - QCount(r, m, max)
         /\ \A p \in 0..max : Live(p, m, w) <=> Live(p, r, w) /\ ~Live(p, r, m)
  BY DEF Live, QCount

\* A queue whose indices agree has no unread slot, and r = w only then.
LEMMA LiveEmpty ==
  ASSUME NEW max \in Nat, NEW r \in 0..max, NEW w \in 0..max
  PROVE  /\ QCount(r, w, max) = 0 <=> r = w
         /\ ~Live(w, r, w)
         /\ r # w => Live(r, r, w)
  BY DEF Live, QCount

-----------------------------------------------------------------------------
(* Type correctness.  The copies lr and lw a CPU0 context works with are   *)
(* valid indices of the queue it works on; that is what keeps aW and fR    *)
(* valid when a copy is written back.                                      *)

LocalsOK ==
  \A c \in Ctx0 :
    /\ pc0[c] \in {"alloc", "set", "publish", "flush"} => lw[c] \in 0..MaxAlloc
    /\ pc0[c] = "free" => lr[c] \in 0..MaxFree /\ lw[c] \in 0..MaxFree

TypeInv == TypeOK /\ LocalsOK

\* The state that ifx_mps_queue_init leaves has the right types.
LEMMA TypeInit == Init => TypeInv
<1> SUFFICES ASSUME Init PROVE TypeInv
  OBVIOUS
<1>1. overrun \in BOOLEAN
  BY DEF Init
<1> QED
  BY <1>1, BufsAssumption, SizeAssumption, ThreshAssumption
  DEF Init, QueuesInit, TypeInv, TypeOK, LocalsOK, Slots, Owners, Pc0, Pc1

\* A step of CPU0's book-keeping keeps the types and the ranges of the indices.
LEMMA TypeStep0 ==
  ASSUME TypeInv, NEW c \in Ctx0, Step0(c)
  PROVE  TypeInv'
<1> USE SizeAssumption, ThreshAssumption DEF TypeInv, TypeOK, LocalsOK, Goto0, Pc0, Owners, Slots,
        aqVars, fqVars, hitVars, cpu0Vars, cpu1Vars
<1>1. CASE TopupHit(c)
  <2>1. CASE aHits + 1 > Thresh
    <3>1. aHits' = 0 /\ pc0' = [pc0 EXCEPT ![c] = "tryTopup"]
      BY <1>1, <2>1 DEF TopupHit
    <3> QED
      BY <1>1, <3>1 DEF TopupHit
  <2>2. CASE ~(aHits + 1 > Thresh)
    <3>1. aHits' = aHits + 1 /\ aHits + 1 \in 0..Thresh /\ pc0' = pc0
      BY <1>1, <2>2 DEF TopupHit
    <3> QED
      BY <1>1, <3>1 DEF TopupHit
  <2> QED
    BY <2>1, <2>2
<1>2. CASE ReleaseHit(c)
  <2>1. CASE fHits + 1 > Thresh
    <3>1. fHits' = 0 /\ pc0' = [pc0 EXCEPT ![c] = "tryRelease"]
      BY <1>2, <2>1 DEF ReleaseHit
    <3> QED
      BY <1>2, <3>1 DEF ReleaseHit
  <2>2. CASE ~(fHits + 1 > Thresh)
    <3>1. fHits' = fHits + 1 /\ fHits + 1 \in 0..Thresh /\ pc0' = pc0
      BY <1>2, <2>2 DEF ReleaseHit
    <3> QED
      BY <1>2, <3>1 DEF ReleaseHit
  <2> QED
    BY <2>1, <2>2
<1>3. CASE TryLock(c)
  <2>1. PICK to \in {"count", "snap", "unlock"} : pc0' = [pc0 EXCEPT ![c] = to]
    BY <1>3 DEF TryLock
  <2>2. lock' \in Int /\ UNCHANGED <<aqVars, fqVars, owner, dirty, hitVars, lr, lw, cnt,
                                   hand0, cpu1Vars, overrun>>
    BY <1>3 DEF TryLock
  <2> QED
    BY <2>1, <2>2
<1>4. CASE Unlock(c)
  BY <1>4 DEF Unlock
<1>5. CASE TopupCount(c)
  <2>1. MaxAlloc \in Nat /\ aR \in 0..MaxAlloc /\ aW \in 0..MaxAlloc
    OBVIOUS
  <2>2. QCount(aR, aW, MaxAlloc) \in 0..MaxAlloc
    BY <2>1, QCountType
  <2> QED
    BY <1>5, <2>2 DEF TopupCount
<1>6. CASE TopupAlloc(c)
  BY <1>6 DEF TopupAlloc
<1>7. CASE TopupNoMem(c)
  BY <1>7 DEF TopupNoMem
<1>8. CASE TopupSet(c)
  BY <1>8 DEF TopupSet
<1>9. CASE TopupPublish(c)
  <2>1. NextQPos(lw[c], MaxAlloc) \in 0..MaxAlloc
    BY <1>9, NextQPosType DEF TopupPublish
  <2>2. owner' \in [Bufs -> Owners]
    BY <1>9 DEF TopupPublish
  <2>3. aW' \in 0..MaxAlloc /\ lw' \in [Ctx0 -> Nat] /\ pc0' \in [Ctx0 -> Pc0]
    BY <1>9, <2>1 DEF TopupPublish
  <2>4. TypeOK'
    BY <1>9, <2>2, <2>3 DEF TopupPublish
  <2>5. LocalsOK'
    BY <1>9, <2>1 DEF TopupPublish
  <2> QED
    BY <2>4, <2>5
<1>10. CASE TopupFlush(c)
  BY <1>10 DEF TopupFlush
<1>11. CASE TopupDone(c)
  BY <1>11 DEF TopupDone
<1>12. CASE ReleaseSnap(c)
  BY <1>12 DEF ReleaseSnap
<1>13. CASE ReleaseFree(c)
  <2>1. NextQPos(lr[c], MaxFree) \in 0..MaxFree
    BY <1>13, NextQPosType DEF ReleaseFree
  <2> QED
    BY <1>13, <2>1 DEF ReleaseFree
<1>14. CASE ReleaseDone(c)
  BY <1>14 DEF ReleaseDone
<1> QED
  BY <1>1, <1>2, <1>3, <1>4, <1>5, <1>6, <1>7, <1>8, <1>9, <1>10, <1>11, <1>12,
     <1>13, <1>14 DEF Step0, Topup, Release

\* So does a step of CPU1's allocation or free.
LEMMA TypeStep1 ==
  ASSUME TypeInv, NEW c \in Ctx1, Step1(c)
  PROVE  TypeInv'
<1> USE SizeAssumption DEF TypeInv, TypeOK, LocalsOK, Goto1, Pc1, Owners, Slots,
        aqVars, fqVars, hitVars, cpu0Vars, cpu1Vars
<1>1. CASE AllocCheck(c)
  BY <1>1 DEF AllocCheck
<1>2. CASE AllocTake(c)
  BY <1>2 DEF AllocTake
<1>3. CASE AllocAdvance(c)
  BY <1>3, NextQPosType DEF AllocAdvance
<1>4. CASE AllocInv(c)
  BY <1>4 DEF AllocInv
<1>5. CASE FreeCheck(c)
  BY <1>5 DEF FreeCheck
<1>6. CASE FreePut(c)
  BY <1>6 DEF FreePut
<1>7. CASE FreePublish(c)
  BY <1>7, NextQPosType DEF FreePublish
<1> QED
  BY <1>1, <1>2, <1>3, <1>4, <1>5, <1>6, <1>7 DEF Step1

\* So does every step.
LEMMA TypeStep ==
  ASSUME TypeInv, [Next]_vars
  PROVE  TypeInv'
<1> USE DEF TypeInv
<1>1. CASE \E c \in Ctx0 : Step0(c)
  BY <1>1, TypeStep0
<1>2. CASE \E c \in Ctx1 : Step1(c)
  BY <1>2, TypeStep1
<1>3. CASE SendUp
  BY <1>3 DEF SendUp, TypeOK, LocalsOK, Owners, aqVars, fqVars, hitVars, cpu0Vars, cpu1Vars
<1>4. CASE SendDown
  BY <1>4 DEF SendDown, TypeOK, LocalsOK, Owners, aqVars, fqVars, hitVars, cpu0Vars, cpu1Vars
<1>5. CASE UNCHANGED vars
  BY <1>5 DEF vars, TypeOK, LocalsOK, aqVars, fqVars, hitVars, cpu0Vars, cpu1Vars
<1> QED
  BY <1>1, <1>2, <1>3, <1>4, <1>5 DEF Next

\* The queue indices both cores write stay inside the circular buffers, and
\* every other variable has its type, in every reachable state.
THEOREM TypeCorrect == Spec => []TypeOK
<1>1. Spec => []TypeInv
  BY TypeInit, TypeStep, PTL DEF Spec
<1> QED
  BY <1>1, PTL DEF TypeInv

-----------------------------------------------------------------------------
(* Mutual exclusion.  mps_list_book_keep_x is 1 less the number of contexts *)
(* between their atomic_dec_and_test and their atomic_inc; a context can   *)
(* only have won if there was no other such context.                       *)

Busy == {c \in Ctx0 : InSection(c) \/ pc0[c] = "unlock"}

LockInv ==
  /\ TypeOK
  /\ lock = 1 - Cardinality(Busy)
  /\ BookKeepExclusive

\* The contexts that have decremented the counter can be counted.
LEMMA BusyFinite == IsFiniteSet(Busy) /\ Cardinality(Busy) \in Nat
  BY CtxAssumption, FS_Subset, FS_CardinalityType DEF Busy

\* No context has decremented mps_list_book_keep_x at the start.
LEMMA LockInit == Init => LockInv
<1> SUFFICES ASSUME Init PROVE LockInv
  OBVIOUS
<1>1. TypeOK
  BY TypeInit DEF TypeInv
<1>2. Busy = {}
  BY DEF Init, QueuesInit, Busy, InSection, InTopup, InRelease
<1>3. BookKeepExclusive
  BY DEF Init, QueuesInit, BookKeepExclusive, InSection, InTopup, InRelease
<1> QED
  BY <1>1, <1>2, <1>3, FS_EmptySet DEF LockInv, Init

\* A step that moves no context into or out of Busy or a section.
LEMMA LockFrame ==
  ASSUME LockInv, TypeOK', lock' = lock,
         \A c \in Ctx0 : InSection(c)' <=> InSection(c),
         \A c \in Ctx0 : (pc0[c] = "unlock")' <=> pc0[c] = "unlock"
  PROVE  LockInv'
<1>1. Busy' = Busy
  BY DEF Busy
<1>2. BookKeepExclusive'
  BY DEF LockInv, BookKeepExclusive
<1> QED
  BY <1>1, <1>2 DEF LockInv

\* The decrement keeps the counter's account, and only one context sees zero.
LEMMA LockTry ==
  ASSUME LockInv, TypeOK', NEW c \in Ctx0, TryLock(c)
  PROVE  LockInv'
<1> USE DEF InSection, InTopup, InRelease
<1>1. c \notin Busy /\ Busy' = Busy \cup {c}
  BY DEF LockInv, TypeOK, TryLock, Goto0, Busy
<1>2. Cardinality(Busy') = Cardinality(Busy) + 1
  BY <1>1, BusyFinite, FS_AddElement
<1>3. lock' = 1 - Cardinality(Busy')
  BY <1>2, BusyFinite DEF LockInv, TryLock
<1>4. BookKeepExclusive'
  <2>1. CASE lock - 1 = 0
    <3>1. Busy = {}
      BY <2>1, BusyFinite, FS_EmptySet DEF LockInv
    <3> QED
      BY <3>1, <1>1 DEF BookKeepExclusive, Busy
  <2>2. CASE lock - 1 # 0
    <3>1. pc0' = [pc0 EXCEPT ![c] = "unlock"]
      BY <2>2 DEF TryLock, Goto0
    <3> QED
      BY <3>1 DEF LockInv, TypeOK, BookKeepExclusive
  <2> QED
    BY <2>1, <2>2
<1> QED
  BY <1>3, <1>4 DEF LockInv

\* The increment at lbl_ret_ok, by a winner or a loser, keeps the account.
LEMMA LockUnlock ==
  ASSUME LockInv, TypeOK', NEW c \in Ctx0, Unlock(c)
  PROVE  LockInv'
<1> USE DEF InSection, InTopup, InRelease
<1>1. c \in Busy /\ Busy' = Busy \ {c}
  BY DEF LockInv, TypeOK, Unlock, Goto0, Busy
<1>2. Cardinality(Busy') = Cardinality(Busy) - 1
  BY <1>1, BusyFinite, FS_RemoveElement
<1>3. lock' = 1 - Cardinality(Busy')
  BY <1>2, BusyFinite DEF LockInv, Unlock
<1>4. BookKeepExclusive'
  BY DEF LockInv, TypeOK, Unlock, Goto0, BookKeepExclusive
<1> QED
  BY <1>3, <1>4 DEF LockInv

\* The winner leaves its section for lbl_ret_ok: it stays in Busy.
LEMMA LockLeave ==
  ASSUME LockInv, TypeOK', NEW c \in Ctx0, InSection(c), lock' = lock,
         pc0' = [pc0 EXCEPT ![c] = "unlock"]
  PROVE  LockInv'
<1> USE DEF InSection, InTopup, InRelease
<1>1. Busy' = Busy
  BY DEF LockInv, TypeOK, Busy
<1>2. BookKeepExclusive'
  BY DEF LockInv, TypeOK, BookKeepExclusive
<1> QED
  BY <1>1, <1>2 DEF LockInv

\* Every step keeps the account of mps_list_book_keep_x.
LEMMA LockStep ==
  ASSUME LockInv, TypeInv, [Next]_vars
  PROVE  LockInv'
<1>0. TypeOK'
  BY TypeStep DEF TypeInv
<1>1. ASSUME NEW c \in Ctx0, Step0(c)
      PROVE  LockInv'
  <2>1. CASE TryLock(c)
    BY <2>1, <1>0, LockTry
  <2>2. CASE Unlock(c)
    BY <2>2, <1>0, LockUnlock
  <2>3. CASE TopupNoMem(c) \/ TopupDone(c) \/ ReleaseDone(c)
    BY <2>3, <1>0, LockLeave
    DEF TopupNoMem, TopupDone, ReleaseDone, Goto0, InSection, InTopup, InRelease
  <2>4. CASE \/ TopupHit(c) \/ ReleaseHit(c) \/ TopupCount(c) \/ TopupAlloc(c)
             \/ TopupSet(c) \/ TopupPublish(c) \/ TopupFlush(c)
             \/ ReleaseSnap(c) \/ ReleaseFree(c)
    <3>1. lock' = lock
      BY <2>4 DEF TopupHit, ReleaseHit, TopupCount, TopupAlloc, TopupSet,
                  TopupPublish, TopupFlush, ReleaseSnap, ReleaseFree
    <3>2. PICK to \in Pc0 :
            /\ pc0' = [pc0 EXCEPT ![c] = to]
            /\ to # "unlock" /\ pc0[c] # "unlock"
            /\ to \in {"count", "alloc", "set", "publish", "flush", "snap", "free"}
                 <=> InSection(c)
      BY <2>4 DEF TopupHit, ReleaseHit, TopupCount, TopupAlloc, TopupSet,
                  TopupPublish, TopupFlush, ReleaseSnap, ReleaseFree, Goto0, Pc0,
                  InSection, InTopup, InRelease
    <3>3. \A d \in Ctx0 : InSection(d)' <=> InSection(d)
      BY <3>2 DEF LockInv, TypeOK, InSection, InTopup, InRelease
    <3>4. \A d \in Ctx0 : (pc0[d] = "unlock")' <=> pc0[d] = "unlock"
      BY <3>2 DEF LockInv, TypeOK
    <3> QED
      BY <3>1, <3>3, <3>4, <1>0, LockFrame
  <2> QED
    BY <1>1, <2>1, <2>2, <2>3, <2>4 DEF Step0, Topup, Release
<1>2. CASE UNCHANGED <<lock, pc0>>
  BY <1>2, <1>0, LockFrame DEF InSection, InTopup, InRelease
<1>3. ASSUME NEW c \in Ctx1, Step1(c)
      PROVE  UNCHANGED <<lock, pc0>>
  BY <1>3 DEF Step1, AllocCheck, AllocTake, AllocAdvance, AllocInv, FreeCheck,
              FreePut, FreePublish, cpu0Vars
<1>4. CASE SendUp \/ SendDown \/ UNCHANGED vars
  BY <1>4, <1>2 DEF SendUp, SendDown, vars, cpu0Vars
<1> QED
  BY <1>1, <1>2, <1>3, <1>4 DEF Next

\* The counter mps_list_book_keep_x excludes: however many contexts of CPU0
\* enter the book-keeping and however they interleave, at most one of them
\* is between a successful atomic_dec_and_test and lbl_ret_ok.
THEOREM MutualExclusion == Spec => []BookKeepExclusive
<1>1. Spec => [](TypeInv /\ LockInv)
  BY TypeInit, TypeStep, LockInit, LockStep, PTL DEF Spec
<1> QED
  BY <1>1, PTL DEF LockInv

-----------------------------------------------------------------------------
(* Buffer accounting.  The invariant says how far each core's picture of a *)
(* queue may lag behind: CPU0's count of alloc_q is never too small, its   *)
(* copies of the indices of free_q lie between fR and fW, and CPU1 moves   *)
(* an index only past a slot it has really taken or filled.  All of it     *)
(* holds until overrun: then a test made outside local_irq_save was stale. *)

\* CPU1 allocates and frees from one context only.
OneContext == \A c, d \in Ctx1 : c = d

TopupOK ==
  \A c \in Ctx0 :
    /\ pc0[c] \in {"alloc", "set", "publish", "flush"} => lw[c] = aW
    /\ pc0[c] \in {"alloc", "flush"} => QCount(aR, aW, MaxAlloc) <= cnt[c]
    /\ pc0[c] \in {"set", "publish"} =>
         /\ QCount(aR, aW, MaxAlloc) < cnt[c] /\ cnt[c] <= MaxAlloc
         /\ hand0[c] \in Bufs /\ owner[hand0[c]] = "cpu0"
    /\ pc0[c] = "publish" => aBuf[aW] = hand0[c]

ReleaseOK ==
  \A c \in Ctx0 : pc0[c] = "free" =>
    /\ QCount(fR, lr[c], MaxFree) <= QCount(fR, lw[c], MaxFree)
    /\ QCount(fR, lw[c], MaxFree) <= QCount(fR, fW, MaxFree)

Cpu1OK ==
  \A c \in Ctx1 :
    /\ pc1[c] = "advance" => aR # aW
    /\ pc1[c] \in {"put", "publish"} =>
         /\ hand1[c] \in Bufs /\ owner[hand1[c]] = "cpu1"
         /\ \A d \in Ctx1 \ {c} : hand1[d] # hand1[c]
    /\ pc1[c] = "publish" => ~IsQFull(fR, fW, MaxFree) /\ fBuf[fW] = hand1[c]
    /\ OneContext => /\ pc1[c] = "take" => aR # aW
                     /\ pc1[c] = "put" => ~IsQFull(fR, fW, MaxFree)

PoolInv ==
  /\ TypeInv /\ BookKeepExclusive
  /\ TopupOK /\ ReleaseOK /\ Cpu1OK
  /\ Unshared /\ Accounted

Accounts == TopupOK /\ ReleaseOK /\ Cpu1OK /\ Unshared /\ Accounted

\* The full alloc_q and the empty free_q satisfy the invariant.
LEMMA PoolInit == Init => PoolInv
<1> SUFFICES ASSUME Init PROVE PoolInv
  OBVIOUS
<1>1. TypeInv /\ BookKeepExclusive
  BY TypeInit, LockInit DEF LockInv
<1>2. TopupOK /\ ReleaseOK /\ Cpu1OK
  BY DEF Init, QueuesInit, TopupOK, ReleaseOK, Cpu1OK
<1>3. PICK f \in [0..MaxAlloc - 1 -> Bufs] :
        /\ \A i, j \in 0..MaxAlloc - 1 : f[i] = f[j] => i = j
        /\ aBuf  = [p \in 0..MaxAlloc |-> IF p < MaxAlloc THEN f[p] ELSE Invalid]
        /\ owner = [b \in Bufs |-> IF \E i \in 0..MaxAlloc - 1 : f[i] = b
                                   THEN "alloc_q" ELSE "heap"]
  BY DEF Init, QueuesInit
<1>4. \A p \in 0..MaxAlloc : AllocLive(p) <=> p \in 0..MaxAlloc - 1
  BY SizeAssumption DEF Init, QueuesInit, AllocLive, Live
<1>5. \A p \in 0..MaxFree : ~FreeLive(p)
  BY SizeAssumption DEF Init, QueuesInit, FreeLive, Live
<1>6. Unshared
  BY <1>3, <1>4, <1>5, SizeAssumption DEF Unshared, SlotsOwned
<1>7. Accounted
  BY <1>3, <1>4, <1>5, SizeAssumption DEF Accounted
<1> QED
  BY <1>1, <1>2, <1>6, <1>7 DEF PoolInv

\* The unread slots of alloc_q (free_q) stay the same if the indices do and no
\* context steps over a slot (moves its copy of rpos).
LEMMA AllocFrame ==
  ASSUME UNCHANGED <<aR, aW>>,
         \A d \in Ctx1 : (pc1[d] = "advance")' <=> pc1[d] = "advance"
  PROVE  \A p : AllocLive(p)' <=> AllocLive(p)
  BY DEF AllocLive, Live

\* A step that leaves free_q and its readers alone leaves its unread slots alone.
LEMMA FreeFrame ==
  ASSUME UNCHANGED <<fR, fW>>,
         \A d \in Ctx0 : (pc0[d] = "free")' <=> pc0[d] = "free",
         \A d \in Ctx0 : pc0[d] = "free" => lr'[d] = lr[d]
  PROVE  \A p : FreeLive(p)' <=> FreeLive(p)
  BY DEF FreeLive, Live

\* What a step must leave alone to leave the accounts of a queue in order.
LEMMA AccountFrame ==
  ASSUME Unshared, Accounted, UNCHANGED <<aBuf, fBuf, owner>>,
         \A p : AllocLive(p)' <=> AllocLive(p),
         \A p : FreeLive(p)' <=> FreeLive(p),
         \A d \in Ctx0 : pc0[d] \in {"set", "publish"} =>
            pc0'[d] \in {"set", "publish"} /\ hand0'[d] = hand0[d]
  PROVE  Unshared' /\ Accounted'
<1>1. Unshared'
  BY DEF Unshared, SlotsOwned
<1>2. Accounted'
  BY DEF Accounted
<1> QED
  BY <1>1, <1>2

\* Steps of CPU0 that only count, lock, copy indices or loop.
LEMMA PoolBook ==
  ASSUME PoolInv, TypeInv', NEW c \in Ctx0,
         \/ TopupHit(c) \/ ReleaseHit(c) \/ TryLock(c) \/ Unlock(c)
         \/ TopupCount(c) \/ TopupNoMem(c) \/ TopupFlush(c) \/ TopupDone(c)
  PROVE  Accounts'
<1> USE DEF PoolInv, TypeInv, TypeOK, Goto0, aqVars, fqVars, cpu1Vars
<1>1. UNCHANGED <<aBuf, aR, aW, fqVars, owner, cpu1Vars>>
  BY DEF TopupHit, ReleaseHit, TryLock, Unlock, TopupCount, TopupNoMem, TopupFlush,
         TopupDone, TopupOK
<1>2. PICK to \in {"idle", "tryTopup", "tryRelease", "count", "snap", "unlock", "alloc"} :
         /\ pc0' = [pc0 EXCEPT ![c] = to]
         /\ pc0[c] \notin {"free", "set", "publish"}
  BY DEF TopupHit, ReleaseHit, TryLock, Unlock, TopupCount, TopupNoMem, TopupFlush,
         TopupDone
<1>3. \A d \in Ctx0 \ {c} : lr'[d] = lr[d] /\ lw'[d] = lw[d] /\ cnt'[d] = cnt[d] /\ hand0'[d] = hand0[d]
  BY DEF TopupHit, ReleaseHit, TryLock, Unlock, TopupCount, TopupNoMem, TopupFlush,
         TopupDone
<1>4. TopupOK'
  <2>1. pc0'[c] = "alloc" => lw'[c] = aW /\ QCount(aR, aW, MaxAlloc) <= cnt'[c]
    <3>1. CASE TopupCount(c)
      <4>1. QCount(aR, aW, MaxAlloc) \in 0..MaxAlloc
        BY QCountType, SizeAssumption
      <4> QED
        BY <3>1, <4>1, SizeAssumption DEF TopupCount
    <3>2. CASE TopupFlush(c)
      BY <3>2 DEF TopupFlush, TopupOK
    <3>3. CASE \/ TopupHit(c) \/ ReleaseHit(c) \/ TryLock(c) \/ Unlock(c)
               \/ TopupNoMem(c) \/ TopupDone(c)
      BY <3>3 DEF TopupHit, ReleaseHit, TryLock, Unlock, TopupNoMem, TopupDone
    <3> QED
      BY <3>1, <3>2, <3>3
  <2>2. pc0'[c] \notin {"set", "publish", "flush"} /\ \A d \in Ctx0 \ {c} : pc0'[d] = pc0[d]
    BY <1>2
  <2>3. TopupOK /\ UNCHANGED <<aBuf, aR, aW, owner>>
    BY <1>1
  <2> HIDE DEF PoolInv, TypeInv, TypeOK
  <2> QED
    BY <1>3, <2>1, <2>2, <2>3 DEF TopupOK
<1>5. ReleaseOK'
  BY <1>1, <1>2, <1>3 DEF ReleaseOK
<1>6. Cpu1OK'
  BY <1>1 DEF Cpu1OK
<1>7. Unshared' /\ Accounted'
  BY <1>1, <1>2, <1>3, AllocFrame, FreeFrame, AccountFrame
<1> QED
  BY <1>4, <1>5, <1>6, <1>7 DEF Accounts

\* dev_alloc_skb in a top-up keeps the invariant.
LEMMA PoolTopupAlloc ==
  ASSUME PoolInv, TypeInv', NEW c \in Ctx0, TopupAlloc(c)
  PROVE  Accounts'
<1> USE DEF PoolInv, TypeInv, TypeOK, Goto0, aqVars, fqVars, cpu1Vars
<1>1. PICK b \in Bufs : /\ owner[b] = "heap"
                        /\ owner' = [owner EXCEPT ![b] = "cpu0"]
                        /\ hand0' = [hand0 EXCEPT ![c] = b]
  BY DEF TopupAlloc
<1>2. UNCHANGED <<aBuf, aR, aW, fBuf, fR, fW, pc1, hand1, lr, lw>>
  BY DEF TopupAlloc
<1>3. cnt[c] < MaxAlloc /\ cnt' = [cnt EXCEPT ![c] = @ + 1]
      /\ pc0[c] = "alloc" /\ pc0' = [pc0 EXCEPT ![c] = "set"]
  BY DEF TopupAlloc
<1>4. /\ \A p : AllocLive(p)' <=> AllocLive(p)
      /\ \A p : FreeLive(p)' <=> FreeLive(p)
  BY <1>2, <1>3, AllocFrame, FreeFrame
<1>5. TopupOK'
  <2>1. QCount(aR, aW, MaxAlloc) \in 0..MaxAlloc
    BY QCountType, SizeAssumption
  <2>2. QCount(aR, aW, MaxAlloc) < cnt'[c] /\ cnt'[c] <= MaxAlloc
    <3>1. QCount(aR, aW, MaxAlloc) <= cnt[c] /\ cnt[c] \in Nat /\ cnt'[c] = cnt[c] + 1
      BY <1>3 DEF TopupOK
    <3>2. MaxAlloc \in Nat
      BY SizeAssumption
    <3> HIDE DEF PoolInv, TypeInv
    <3> QED
      BY <1>3, <2>1, <3>1, <3>2
  <2>3. hand0'[c] = b /\ owner'[b] = "cpu0"
    BY <1>1
  <2>4. \A d \in Ctx0 \ {c} : /\ pc0'[d] = pc0[d] /\ lw'[d] = lw[d] /\ cnt'[d] = cnt[d]
                              /\ hand0'[d] = hand0[d]
    BY <1>1, <1>2, <1>3
  <2>5. \A d \in Ctx0 : lw'[d] = lw[d] /\ pc0[c] = "alloc" /\ pc0'[c] = "set"
    BY <1>2, <1>3
  <2>6. TopupOK /\ UNCHANGED <<aBuf, aR, aW>> /\ owner[b] = "heap"
        /\ \A x \in Bufs \ {b} : owner'[x] = owner[x]
    BY <1>1, <1>2
  <2> HIDE DEF PoolInv, TypeInv, TypeOK
  <2> QED
    BY <2>2, <2>3, <2>4, <2>5, <2>6 DEF TopupOK
<1>6. ReleaseOK' /\ Cpu1OK'
  BY <1>1, <1>2, <1>3 DEF ReleaseOK, Cpu1OK
<1>7. Unshared'
  BY <1>1, <1>2, <1>4 DEF Unshared, SlotsOwned
<1>8. Accounted'
  <2>1. /\ hand0'[c] = b /\ pc0'[c] = "set" /\ owner'[b] = "cpu0"
        /\ \A x \in Bufs \ {b} : owner'[x] = owner[x]
    BY <1>1, <1>3
  <2>2. \A d \in Ctx0 : pc0[d] \in {"set", "publish"} =>
          pc0'[d] = pc0[d] /\ hand0'[d] = hand0[d]
    BY <1>1, <1>3
  <2>3. Accounted
    OBVIOUS
  <2> HIDE DEF PoolInv, TypeInv, TypeOK
  <2>4. ASSUME NEW x \in Bufs
        PROVE  /\ owner'[x] = "alloc_q" => \E p \in 0..MaxAlloc : AllocLive(p)' /\ aBuf'[p] = x
               /\ owner'[x] = "free_q" => \E p \in 0..MaxFree : FreeLive(p)' /\ fBuf'[p] = x
               /\ owner'[x] = "cpu0" =>
                    \E d \in Ctx0 : pc0'[d] \in {"set", "publish"} /\ hand0'[d] = x
    <3>1. CASE x = b
      BY <2>1, <3>1
    <3>2. CASE x # b
      BY <1>2, <1>4, <2>1, <2>2, <2>3, <3>2 DEF Accounted
    <3> QED
      BY <3>1, <3>2
  <2> QED
    BY <2>4 DEF Accounted
<1> QED
  BY <1>5, <1>6, <1>7, <1>8 DEF Accounts

\* MPS_SET_Q_ITEM in a top-up writes a slot that CPU1 does not read.
LEMMA PoolTopupSet ==
  ASSUME PoolInv, TypeInv', NEW c \in Ctx0, TopupSet(c)
  PROVE  Accounts'
<1> USE DEF PoolInv, TypeInv, TypeOK, Goto0, aqVars, fqVars, cpu1Vars
<1>1. UNCHANGED <<aR, aW, fBuf, fR, fW, owner, pc1, hand1, lr, lw, cnt, hand0>>
  BY DEF TopupSet
<1>2. /\ pc0[c] = "set" /\ pc0' = [pc0 EXCEPT ![c] = "publish"]
      /\ aBuf' = [aBuf EXCEPT ![aW] = hand0[c]]
  BY DEF TopupSet
<1>3. /\ \A p : AllocLive(p)' <=> AllocLive(p)
      /\ \A p : FreeLive(p)' <=> FreeLive(p)
  BY <1>1, <1>2, AllocFrame, FreeFrame
<1>4. \A p \in 0..MaxAlloc : AllocLive(p) => aBuf'[p] = aBuf[p]
  <2>1. ~AllocLive(aW)
    BY SizeAssumption DEF AllocLive, Live
  <2> QED
    BY <1>2, <2>1
<1>5. TopupOK'
  <2>1. \A d \in Ctx0 \ {c} : pc0[d] # "publish"
    BY <1>2 DEF BookKeepExclusive, InSection, InTopup
  <2> QED
    BY <1>1, <1>2, <2>1 DEF TopupOK
<1>6. ReleaseOK' /\ Cpu1OK'
  BY <1>1, <1>2 DEF ReleaseOK, Cpu1OK
<1>7. Unshared'
  BY <1>1, <1>3, <1>4 DEF Unshared, SlotsOwned
<1>8. Accounted'
  BY <1>1, <1>2, <1>3, <1>4 DEF Accounted
<1> QED
  BY <1>5, <1>6, <1>7, <1>8 DEF Accounts

\* Publishing the slot keeps the invariant.
LEMMA PoolTopupPublish ==
  ASSUME PoolInv, TypeInv', NEW c \in Ctx0, TopupPublish(c)
  PROVE  Accounts'
<1> USE DEF PoolInv, TypeInv, TypeOK, Goto0, aqVars, fqVars, cpu1Vars
<1> DEFINE b == hand0[c]
<1>1. UNCHANGED <<aBuf, aR, fBuf, fR, fW, pc1, hand1, lr, cnt, hand0>>
  BY DEF TopupPublish
<1>2. /\ pc0[c] = "publish" /\ pc0' = [pc0 EXCEPT ![c] = "flush"]
      /\ aW' = NextQPos(aW, MaxAlloc) /\ lw'[c] = aW'
      /\ owner' = [owner EXCEPT ![b] = "alloc_q"]
  BY DEF TopupPublish, TopupOK
<1>3. /\ b \in Bufs /\ owner[b] = "cpu0" /\ aBuf[aW] = b
      /\ QCount(aR, aW, MaxAlloc) < cnt[c] /\ cnt[c] <= MaxAlloc /\ cnt[c] \in Nat
  BY <1>2 DEF TopupOK
<1>4. /\ MaxAlloc \in Nat /\ aR \in 0..MaxAlloc /\ aW \in 0..MaxAlloc
      /\ QCount(aR, aW, MaxAlloc) \in 0..MaxAlloc
  BY QCountType, SizeAssumption
<1>5. ~IsQFull(aR, aW, MaxAlloc)
  <2> HIDE DEF PoolInv, TypeInv
  <2>1. QCount(aR, aW, MaxAlloc) # MaxAlloc
    BY <1>3, <1>4
  <2> QED
    BY <1>4, <2>1, FullIsMax
<1>6. /\ QCount(aR, aW', MaxAlloc) = QCount(aR, aW, MaxAlloc) + 1
      /\ \A p \in 0..MaxAlloc : Live(p, aR, aW') <=> Live(p, aR, aW) \/ p = aW
  <2> HIDE DEF PoolInv, TypeInv
  <2>1. /\ QCount(aR, NextQPos(aW, MaxAlloc), MaxAlloc) = QCount(aR, aW, MaxAlloc) + 1
        /\ \A p \in 0..MaxAlloc : Live(p, aR, NextQPos(aW, MaxAlloc)) <=> Live(p, aR, aW) \/ p = aW
    BY <1>4, <1>5, LiveGrow
  <2> QED
    BY <1>2, <2>1
<1>7. \A d \in Ctx1 : pc1[d] = "advance" => aR # aW
  BY DEF Cpu1OK
<1>8. \A p \in 0..MaxAlloc : AllocLive(p)' <=> AllocLive(p) \/ p = aW
  BY <1>1, <1>6, <1>7 DEF AllocLive
<1>9. \A p : FreeLive(p)' <=> FreeLive(p)
  BY <1>1, <1>2, FreeFrame
<1>10. \A d \in Ctx0 \ {c} : pc0'[d] = pc0[d] /\ ~InTopup(d)
  BY <1>2 DEF BookKeepExclusive, InSection, InTopup
<1>11. TopupOK'
  <2>1. QCount(aR', aW', MaxAlloc) <= cnt'[c]
    BY <1>1, <1>3, <1>4, <1>6
  <2>2. pc0'[c] = "flush" /\ lw'[c] = aW'
    BY <1>2
  <2> HIDE DEF PoolInv, TypeInv, TypeOK
  <2> QED
    BY <1>10, <2>1, <2>2 DEF TopupOK, InTopup
<1>12. ReleaseOK'
  BY <1>1, <1>2, <1>10 DEF ReleaseOK, TopupPublish
<1>13. Cpu1OK'
  <2>1. aR' # aW'
    BY <1>1, <1>2, <1>5 DEF IsQFull
  <2>2. \A x \in Bufs : owner[x] = "cpu1" => owner'[x] = "cpu1"
    BY <1>2, <1>3
  <2> QED
    BY <1>1, <2>1, <2>2 DEF Cpu1OK
<1>14. Unshared'
  <2>1. /\ owner'[b] = "alloc_q" /\ \A x \in Bufs \ {b} : owner'[x] = owner[x]
        /\ b \in Bufs /\ owner[b] = "cpu0"
    BY <1>2, <1>3
  <2>2. /\ Unshared /\ UNCHANGED <<aBuf, fBuf>>
        /\ aW \in 0..MaxAlloc /\ aBuf[aW] = b
    BY <1>1, <1>3, <1>4
  <2> HIDE DEF PoolInv, TypeInv, TypeOK, b
  <2>3. \A p \in 0..MaxAlloc : AllocLive(p) =>
          /\ aBuf[p] \in Bufs \ {b} /\ owner[aBuf[p]] = "alloc_q"
          /\ \A q \in 0..MaxAlloc : AllocLive(q) /\ aBuf[q] = aBuf[p] => q = p
    BY <2>1, <2>2 DEF Unshared, SlotsOwned
  <2>4. \A p \in 0..MaxFree : FreeLive(p) =>
          /\ fBuf[p] \in Bufs \ {b} /\ owner[fBuf[p]] = "free_q"
          /\ \A q \in 0..MaxFree : FreeLive(q) /\ fBuf[q] = fBuf[p] => q = p
    BY <2>1, <2>2 DEF Unshared, SlotsOwned
  <2>5. \A p \in 0..MaxAlloc : AllocLive(p)' =>
          /\ aBuf'[p] \in Bufs /\ owner'[aBuf'[p]] = "alloc_q"
          /\ \A q \in 0..MaxAlloc : AllocLive(q)' /\ aBuf'[q] = aBuf'[p] => q = p
    BY <1>8, <2>1, <2>2, <2>3
  <2>6. \A p \in 0..MaxFree : FreeLive(p)' =>
          /\ fBuf'[p] \in Bufs /\ owner'[fBuf'[p]] = "free_q"
          /\ \A q \in 0..MaxFree : FreeLive(q)' /\ fBuf'[q] = fBuf'[p] => q = p
    BY <1>9, <2>1, <2>2, <2>4
  <2> QED
    BY <2>5, <2>6 DEF Unshared, SlotsOwned
<1>15. Accounted'
  <2>1. /\ \A x \in Bufs : owner'[x] = "cpu0" => owner[x] = "cpu0" /\ x # b
        /\ owner'[b] = "alloc_q" /\ \A x \in Bufs \ {b} : owner'[x] = owner[x]
    BY <1>2, <1>3
  <2>2. \A d \in Ctx0 \ {c} : pc0'[d] = pc0[d] /\ hand0'[d] = hand0[d]
    BY <1>1, <1>10
  <2>3. Accounted /\ UNCHANGED <<aBuf, fBuf>> /\ aW \in 0..MaxAlloc /\ aBuf[aW] = b
        /\ hand0[c] = b
    BY <1>1, <1>3, <1>4
  <2> HIDE DEF PoolInv, TypeInv, TypeOK, b
  <2>4. ASSUME NEW x \in Bufs
        PROVE  /\ owner'[x] = "alloc_q" => \E p \in 0..MaxAlloc : AllocLive(p)' /\ aBuf'[p] = x
               /\ owner'[x] = "free_q" => \E p \in 0..MaxFree : FreeLive(p)' /\ fBuf'[p] = x
               /\ owner'[x] = "cpu0" =>
                    \E d \in Ctx0 : pc0'[d] \in {"set", "publish"} /\ hand0'[d] = x
    <3>1. CASE x = b
      BY <1>8, <2>1, <2>3, <3>1
    <3>2. CASE x # b
      BY <1>8, <1>9, <2>1, <2>2, <2>3, <3>2 DEF Accounted
    <3> QED
      BY <3>1, <3>2
  <2> QED
    BY <2>4 DEF Accounted
<1> QED
  BY <1>11, <1>12, <1>13, <1>14, <1>15 DEF Accounts

\* The copies of the indices taken by mps_queue_free keep the invariant.
LEMMA PoolReleaseSnap ==
  ASSUME PoolInv, TypeInv', NEW c \in Ctx0, ReleaseSnap(c)
  PROVE  Accounts'
<1> USE DEF PoolInv, TypeInv, TypeOK, Goto0, aqVars, fqVars, cpu1Vars
<1>1. UNCHANGED <<aBuf, aR, aW, fBuf, fR, fW, owner, pc1, hand1, cnt, hand0>>
  BY DEF ReleaseSnap
<1>2. /\ pc0[c] = "snap" /\ pc0' = [pc0 EXCEPT ![c] = "free"]
      /\ lw' = [lw EXCEPT ![c] = fW] /\ lr' = [lr EXCEPT ![c] = fR]
  BY DEF ReleaseSnap
<1>3. \A p : AllocLive(p)' <=> AllocLive(p)
  BY <1>1, AllocFrame
<1>4. \A p \in 0..MaxFree : FreeLive(p)' <=> FreeLive(p)
  <2>1. \A p \in 0..MaxFree : ~Live(p, fR, fR)
    BY SizeAssumption DEF Live
  <2> QED
    BY <1>1, <1>2, <2>1 DEF FreeLive
<1>5. TopupOK' /\ Cpu1OK'
  BY <1>1, <1>2 DEF TopupOK, Cpu1OK
<1>6. ReleaseOK'
  <2>1. QCount(fR, fR, MaxFree) <= QCount(fR, fW, MaxFree)
    BY SizeAssumption DEF QCount
  <2>2. QCount(fR, fW, MaxFree) <= QCount(fR, fW, MaxFree)
    BY SizeAssumption DEF QCount
  <2> QED
    BY <1>1, <1>2, <2>1, <2>2 DEF ReleaseOK
<1>7. Unshared'
  BY <1>1, <1>3, <1>4 DEF Unshared, SlotsOwned
<1>8. Accounted'
  BY <1>1, <1>2, <1>3, <1>4 DEF Accounted
<1> QED
  BY <1>5, <1>6, <1>7, <1>8 DEF Accounts

\* Freeing one slot, with rpos not yet written back, keeps the invariant.
LEMMA PoolReleaseFree ==
  ASSUME PoolInv, TypeInv', NEW c \in Ctx0, ReleaseFree(c)
  PROVE  Accounts'
<1> USE DEF PoolInv, TypeInv, TypeOK, Goto0, aqVars, fqVars, cpu1Vars
<1> DEFINE s == lr[c]
           b == fBuf[s]
<1>1. UNCHANGED <<aBuf, aR, aW, fBuf, fR, fW, pc1, hand1, lw, cnt, hand0>> /\ pc0' = pc0
  BY DEF ReleaseFree
<1>2. /\ pc0[c] = "free" /\ s # lw[c]
      /\ owner' = [x \in Bufs |-> IF x = b THEN "heap" ELSE owner[x]]
      /\ lr' = [lr EXCEPT ![c] = NextQPos(s, MaxFree)]
  BY DEF ReleaseFree
<1>3. MaxFree \in Nat /\ s \in 0..MaxFree /\ lw[c] \in 0..MaxFree /\ fR \in 0..MaxFree /\ fW \in 0..MaxFree
  BY <1>2, SizeAssumption DEF LocalsOK
<1>4. /\ QCount(fR, s, MaxFree) <= QCount(fR, lw[c], MaxFree)
      /\ QCount(fR, lw[c], MaxFree) <= QCount(fR, fW, MaxFree)
  BY <1>2 DEF ReleaseOK
<1>5. QCount(fR, s, MaxFree) < QCount(fR, lw[c], MaxFree)
  <2> HIDE DEF PoolInv, TypeInv, s
  <2> QED
    BY <1>2, <1>3, <1>4 DEF QCount
<1>6. Live(s, fR, fW) /\ ~Live(s, fR, s) /\ ~IsQFull(fR, s, MaxFree)
  <2> HIDE DEF PoolInv, TypeInv, s
  <2>1. /\ QCount(fR, s, MaxFree) \in 0..MaxFree /\ QCount(fR, lw[c], MaxFree) \in 0..MaxFree
        /\ QCount(fR, fW, MaxFree) \in 0..MaxFree
    BY <1>3, QCountType
  <2>2. /\ QCount(fR, s, MaxFree) < QCount(fR, fW, MaxFree)
        /\ QCount(fR, s, MaxFree) # MaxFree
    BY <2>1, <1>3, <1>4, <1>5
  <2> QED
    BY <1>3, <2>2, LiveIsNear, LiveEmpty, FullIsMax
<1>7. /\ QCount(fR, NextQPos(s, MaxFree), MaxFree) = QCount(fR, s, MaxFree) + 1
      /\ \A p \in 0..MaxFree : Live(p, fR, NextQPos(s, MaxFree)) <=> Live(p, fR, s) \/ p = s
  <2> HIDE DEF PoolInv, TypeInv, s
  <2> QED
    BY <1>3, <1>6, LiveGrow
<1>8. \A d \in Ctx0 \ {c} : pc0[d] # "free"
  BY <1>2 DEF BookKeepExclusive, InSection, InRelease
<1>9. \A p \in 0..MaxFree : FreeLive(p)' <=> FreeLive(p) /\ p # s
  <2>1. \A p \in 0..MaxFree : FreeLive(p) <=> Live(p, fR, fW) /\ ~Live(p, fR, s)
    BY <1>2, <1>8 DEF FreeLive
  <2>2. \A p \in 0..MaxFree : FreeLive(p)' <=> Live(p, fR, fW) /\ ~Live(p, fR, NextQPos(s, MaxFree))
    BY <1>1, <1>2, <1>8 DEF FreeLive
  <2> QED
    BY <1>7, <2>1, <2>2
<1>10. \A p : AllocLive(p)' <=> AllocLive(p)
  BY <1>1, AllocFrame
<1>11. FreeLive(s)
  BY <1>2, <1>6, <1>8 DEF FreeLive
<1>12. /\ b \in Bufs /\ owner[b] = "free_q"
       /\ \A q \in 0..MaxFree : FreeLive(q) /\ fBuf[q] = b => q = s
  BY <1>3, <1>11 DEF Unshared, SlotsOwned
<1>13. TopupOK' /\ Cpu1OK'
  BY <1>1, <1>2, <1>12 DEF TopupOK, Cpu1OK
<1>14. ReleaseOK'
  <2>1. QCount(fR, NextQPos(s, MaxFree), MaxFree) <= QCount(fR, lw[c], MaxFree)
    <3> HIDE DEF PoolInv, TypeInv, s
    <3>1. QCount(fR, s, MaxFree) \in 0..MaxFree /\ QCount(fR, lw[c], MaxFree) \in 0..MaxFree
      BY <1>3, QCountType
    <3> QED
      BY <1>5, <1>7, <3>1
  <2> QED
    BY <1>1, <1>2, <1>4, <1>8, <2>1 DEF ReleaseOK
<1>15. Unshared'
  BY <1>1, <1>2, <1>9, <1>10, <1>12 DEF Unshared, SlotsOwned
<1>16. Accounted'
  BY <1>1, <1>2, <1>9, <1>10, <1>12 DEF Accounted
<1> QED
  BY <1>13, <1>14, <1>15, <1>16 DEF Accounts

\* Writing rpos back keeps the invariant.
LEMMA PoolReleaseDone ==
  ASSUME PoolInv, TypeInv', NEW c \in Ctx0, ReleaseDone(c)
  PROVE  Accounts'
<1> USE DEF PoolInv, TypeInv, TypeOK, Goto0, aqVars, fqVars, cpu1Vars
<1>1. UNCHANGED <<aBuf, aR, aW, fBuf, fW, owner, pc1, hand1, lr, lw, cnt, hand0>>
  BY DEF ReleaseDone
<1>2. /\ pc0[c] = "free" /\ pc0' = [pc0 EXCEPT ![c] = "unlock"]
      /\ fR' = lr[c]
  BY DEF ReleaseDone
<1>3. MaxFree \in Nat /\ lr[c] \in 0..MaxFree /\ lw[c] \in 0..MaxFree /\ fR \in 0..MaxFree /\ fW \in 0..MaxFree
  BY <1>2, SizeAssumption DEF LocalsOK
<1>4. QCount(fR, lr[c], MaxFree) <= QCount(fR, fW, MaxFree)
  <2>1. /\ QCount(fR, lr[c], MaxFree) <= QCount(fR, lw[c], MaxFree)
        /\ QCount(fR, lw[c], MaxFree) <= QCount(fR, fW, MaxFree)
    BY <1>2 DEF ReleaseOK
  <2> HIDE DEF PoolInv, TypeInv
  <2>2. /\ QCount(fR, lr[c], MaxFree) \in 0..MaxFree /\ QCount(fR, lw[c], MaxFree) \in 0..MaxFree
        /\ QCount(fR, fW, MaxFree) \in 0..MaxFree
    BY <1>3, QCountType
  <2> QED
    BY <1>3, <2>1, <2>2
<1>5. \A d \in Ctx0 \ {c} : pc0[d] # "free"
  BY <1>2 DEF BookKeepExclusive, InSection, InRelease
<1>6. \A p \in 0..MaxFree : FreeLive(p)' <=> FreeLive(p)
  <2>1. \A p \in 0..MaxFree : FreeLive(p) <=> Live(p, fR, fW) /\ ~Live(p, fR, lr[c])
    BY <1>2, <1>5 DEF FreeLive
  <2>2. \A p \in 0..MaxFree : FreeLive(p)' <=> Live(p, lr[c], fW)
    BY <1>1, <1>2, <1>5 DEF FreeLive
  <2> HIDE DEF PoolInv, TypeInv
  <2> QED
    BY <1>3, <1>4, <2>1, <2>2, LiveSplit
<1>7. \A p : AllocLive(p)' <=> AllocLive(p)
  BY <1>1, AllocFrame
<1>8. TopupOK' /\ ReleaseOK'
  BY <1>1, <1>2, <1>5 DEF TopupOK, ReleaseOK
<1>9. ~IsQFull(fR, fW, MaxFree) => ~IsQFull(lr[c], fW, MaxFree)
  <2> HIDE DEF PoolInv, TypeInv
  <2> QED
    BY <1>3, <1>4 DEF QCount, IsQFull, NextQPos
<1>10. Cpu1OK'
  BY <1>1, <1>2, <1>9 DEF Cpu1OK
<1>11. Unshared'
  BY <1>1, <1>6, <1>7 DEF Unshared, SlotsOwned
<1>12. Accounted'
  BY <1>1, <1>2, <1>6, <1>7 DEF Accounted
<1> QED
  BY <1>8, <1>10, <1>11, <1>12 DEF Accounts

\* Steps of CPU1 that only test a queue or invalidate the cache.
LEMMA PoolCpu1Check ==
  ASSUME PoolInv, TypeInv', NEW c \in Ctx1, AllocCheck(c) \/ AllocInv(c) \/ FreeCheck(c)
  PROVE  Accounts'
<1> USE DEF PoolInv, TypeInv, TypeOK, Goto1, aqVars, fqVars, cpu0Vars
<1>1. UNCHANGED <<aBuf, aR, aW, fBuf, fR, fW, owner, pc0, lr, lw, cnt, hand0>>
  BY DEF AllocCheck, AllocInv, FreeCheck
<1>2. PICK to \in {"idle", "take", "put"} :
        pc1' = [pc1 EXCEPT ![c] = to] /\ pc1[c] \in {"idle", "inv"}
  BY DEF AllocCheck, AllocInv, FreeCheck
<1>3. TopupOK' /\ ReleaseOK'
  BY <1>1 DEF TopupOK, ReleaseOK
<1>4. Cpu1OK'
  <2>1. \A d \in Ctx1 \ {c} : pc1'[d] = pc1[d] /\ hand1'[d] = hand1[d]
    BY DEF AllocCheck, AllocInv, FreeCheck
  <2>2. /\ pc1'[c] = "take" => aR # aW
        /\ pc1'[c] = "put" => /\ ~IsQFull(fR, fW, MaxFree)
                             /\ hand1'[c] \in Bufs /\ owner[hand1'[c]] = "cpu1"
                             /\ \A d \in Ctx1 \ {c} : hand1[d] # hand1'[c]
        /\ pc1'[c] \notin {"advance", "publish"}
    BY DEF AllocCheck, AllocInv, FreeCheck, AtCpu1, IsQEmpty
  <2>3. \A d \in Ctx1 \ {c} : pc1[d] \in {"put", "publish"} => hand1'[c] # hand1[d]
    <3> SUFFICES ASSUME NEW d \in Ctx1 \ {c}, pc1[d] \in {"put", "publish"}
                 PROVE  hand1'[c] # hand1[d]
      OBVIOUS
    <3>1. hand1[d] \in Bufs /\ hand1[c] # hand1[d]
      BY DEF Cpu1OK
    <3>2. CASE AllocCheck(c)
      BY <3>1, <3>2 DEF AllocCheck
    <3>3. CASE AllocInv(c)
      <4>1. hand1'[c] = Invalid
        BY <3>3 DEF AllocInv
      <4> QED
        BY <3>1, <4>1, BufsAssumption
    <3>4. CASE FreeCheck(c)
      BY <3>4 DEF FreeCheck, AtCpu1
    <3> QED
      BY <3>2, <3>3, <3>4
  <2>4. Cpu1OK /\ UNCHANGED <<aR, aW, fBuf, fR, fW, owner>>
    BY <1>1
  <2> HIDE DEF PoolInv, TypeInv, TypeOK
  <2> QED
    BY <2>1, <2>2, <2>3, <2>4 DEF Cpu1OK
<1>5. /\ \A p : AllocLive(p)' <=> AllocLive(p)
      /\ \A p : FreeLive(p)' <=> FreeLive(p)
  BY <1>1, <1>2, AllocFrame, FreeFrame
<1>6. Unshared' /\ Accounted'
  BY <1>1, <1>5, AccountFrame
<1> QED
  BY <1>3, <1>4, <1>6 DEF Accounts

\* mps_dequeue_head takes a buffer that belongs to alloc_q.
LEMMA PoolAllocTake ==
  ASSUME PoolInv, TypeInv', ~IsQEmpty(aR, aW), NEW c \in Ctx1, AllocTake(c)
  PROVE  Accounts'
<1> USE DEF PoolInv, TypeInv, TypeOK, Goto1, aqVars, fqVars, cpu0Vars
<1> DEFINE b == aBuf[aR]
<1>1. UNCHANGED <<aR, aW, fBuf, fR, fW, pc0, lr, lw, cnt, hand0>>
  BY DEF AllocTake
<1>2. /\ pc1[c] = "take" /\ pc1' = [pc1 EXCEPT ![c] = "advance"]
      /\ aBuf' = [aBuf EXCEPT ![aR] = Invalid]
      /\ owner' = [x \in Bufs |-> IF x = b THEN "cpu1" ELSE owner[x]]
  BY DEF AllocTake
<1>3. aR # aW /\ \A d \in Ctx1 : pc1[d] \notin {"advance", "publish"}
  BY <1>2 DEF AllocTake, MayRun, IrqOff, IsQEmpty
<1>4. \A p \in 0..MaxAlloc : AllocLive(p) <=> Live(p, aR, aW)
  BY <1>2, <1>3 DEF AllocLive
<1>5. \A p \in 0..MaxAlloc : AllocLive(p)' <=> AllocLive(p) /\ p # aR
  BY <1>1, <1>2, <1>4 DEF AllocLive
<1>6. /\ b \in Bufs /\ owner[b] = "alloc_q"
      /\ \A q \in 0..MaxAlloc : AllocLive(q) /\ aBuf[q] = b => q = aR
  <2>1. AllocLive(aR)
    BY <1>3, <1>4, LiveEmpty, SizeAssumption
  <2> QED
    BY <2>1 DEF Unshared, SlotsOwned
<1>7. \A p : FreeLive(p)' <=> FreeLive(p)
  BY <1>1, FreeFrame
<1>8. TopupOK' /\ ReleaseOK'
  BY <1>1, <1>2, <1>3, <1>6 DEF TopupOK, ReleaseOK
<1>9. Cpu1OK'
  <2>1. hand1' = [hand1 EXCEPT ![c] = b] /\ \A x \in Bufs : owner[x] = "cpu1" => owner'[x] = "cpu1"
    BY <1>2 DEF AllocTake
  <2>2. \A d \in Ctx1 : owner[hand1[d]] = "cpu1" => hand1[d] # b
    BY <1>6
  <2> QED
    BY <1>1, <1>2, <1>3, <2>1, <2>2 DEF Cpu1OK, OneContext
<1>10. Unshared'
  BY <1>1, <1>2, <1>5, <1>6, <1>7 DEF Unshared, SlotsOwned
<1>11. Accounted'
  BY <1>1, <1>2, <1>5, <1>6, <1>7 DEF Accounted
<1> QED
  BY <1>8, <1>9, <1>10, <1>11 DEF Accounts

\* Moving rpos past the slot marked invalid keeps the invariant.
LEMMA PoolAllocAdvance ==
  ASSUME PoolInv, TypeInv', NEW c \in Ctx1, AllocAdvance(c)
  PROVE  Accounts'
<1> USE DEF PoolInv, TypeInv, TypeOK, Goto1, aqVars, fqVars, cpu0Vars
<1>1. UNCHANGED <<aBuf, aW, fBuf, fR, fW, owner, pc0, lr, lw, cnt, hand0, hand1>>
  BY DEF AllocAdvance
<1>2. /\ pc1[c] = "advance" /\ pc1' = [pc1 EXCEPT ![c] = "inv"]
      /\ aR' = NextQPos(aR, MaxAlloc)
  BY DEF AllocAdvance
<1>3. aR # aW /\ \A d \in Ctx1 \ {c} : pc1[d] \notin {"advance", "publish"}
  BY <1>2 DEF AllocAdvance, MayRun, IrqOff, Cpu1OK
<1>4. /\ MaxAlloc \in Nat /\ aR \in 0..MaxAlloc /\ aW \in 0..MaxAlloc
      /\ QCount(aR, aW, MaxAlloc) \in 0..MaxAlloc
  BY QCountType, SizeAssumption
<1>5. /\ QCount(aR', aW, MaxAlloc) = QCount(aR, aW, MaxAlloc) - 1
      /\ \A p \in 0..MaxAlloc : Live(p, aR', aW) <=> Live(p, aR, aW) /\ p # aR
  <2> HIDE DEF PoolInv, TypeInv
  <2>1. /\ QCount(NextQPos(aR, MaxAlloc), aW, MaxAlloc) = QCount(aR, aW, MaxAlloc) - 1
        /\ \A p \in 0..MaxAlloc : Live(p, NextQPos(aR, MaxAlloc), aW) <=> Live(p, aR, aW) /\ p # aR
    BY <1>3, <1>4, LiveShrink
  <2> QED
    BY <1>2, <2>1
<1>6. \A p \in 0..MaxAlloc : AllocLive(p)' <=> AllocLive(p)
  BY <1>1, <1>2, <1>3, <1>5 DEF AllocLive
<1>7. \A p : FreeLive(p)' <=> FreeLive(p)
  BY <1>1, FreeFrame
<1>8. TopupOK'
  <2>1. \A n \in Nat : /\ QCount(aR, aW, MaxAlloc) <= n => QCount(aR', aW, MaxAlloc) <= n
                       /\ QCount(aR, aW, MaxAlloc) < n => QCount(aR', aW, MaxAlloc) < n
    <3> HIDE DEF PoolInv, TypeInv
    <3> QED
      BY <1>4, <1>5
  <2> QED
    BY <1>1, <2>1 DEF TopupOK
<1>9. ReleaseOK' /\ Cpu1OK'
  BY <1>1, <1>2, <1>3 DEF ReleaseOK, Cpu1OK, OneContext
<1>10. Unshared'
  BY <1>1, <1>6, <1>7 DEF Unshared, SlotsOwned
<1>11. Accounted'
  BY <1>1, <1>6, <1>7 DEF Accounted
<1> QED
  BY <1>8, <1>9, <1>10, <1>11 DEF Accounts

\* mps_queue_tail writes a slot that CPU0 does not read.
LEMMA PoolFreePut ==
  ASSUME PoolInv, TypeInv', ~IsQFull(fR, fW, MaxFree), NEW c \in Ctx1, FreePut(c)
  PROVE  Accounts'
<1> USE DEF PoolInv, TypeInv, TypeOK, Goto1, aqVars, fqVars, cpu0Vars
<1>1. UNCHANGED <<aBuf, aR, aW, fR, fW, owner, pc0, lr, lw, cnt, hand0, hand1>>
  BY DEF FreePut
<1>2. /\ pc1[c] = "put" /\ pc1' = [pc1 EXCEPT ![c] = "publish"]
      /\ fBuf' = [fBuf EXCEPT ![fW] = hand1[c]]
  BY DEF FreePut
<1>3. /\ \A p : AllocLive(p)' <=> AllocLive(p)
      /\ \A p : FreeLive(p)' <=> FreeLive(p)
  BY <1>1, <1>2, AllocFrame, FreeFrame
<1>4. \A p \in 0..MaxFree : FreeLive(p) => fBuf'[p] = fBuf[p]
  <2>1. ~FreeLive(fW)
    BY SizeAssumption DEF FreeLive, Live
  <2> QED
    BY <1>2, <2>1
<1>5. TopupOK' /\ ReleaseOK'
  BY <1>1 DEF TopupOK, ReleaseOK
<1>6. Cpu1OK'
  <2>1. \A d \in Ctx1 \ {c} : pc1[d] \notin {"advance", "publish"}
    BY DEF FreePut, MayRun, IrqOff
  <2> QED
    BY <1>1, <1>2, <2>1 DEF Cpu1OK
<1>7. Unshared'
  BY <1>1, <1>3, <1>4 DEF Unshared, SlotsOwned
<1>8. Accounted'
  BY <1>1, <1>3, <1>4 DEF Accounted
<1> QED
  BY <1>5, <1>6, <1>7, <1>8 DEF Accounts

\* Publishing the returned buffer keeps the invariant.
LEMMA PoolFreePublish ==
  ASSUME PoolInv, TypeInv', NEW c \in Ctx1, FreePublish(c)
  PROVE  Accounts'
<1> USE DEF PoolInv, TypeInv, TypeOK, Goto1, aqVars, fqVars, cpu0Vars
<1> DEFINE b == hand1[c]
<1>1. UNCHANGED <<aBuf, aR, aW, fBuf, fR, pc0, lr, lw, cnt, hand0>>
  BY DEF FreePublish
<1>2. /\ pc1[c] = "publish" /\ pc1' = [pc1 EXCEPT ![c] = "idle"]
      /\ fW' = NextQPos(fW, MaxFree)
      /\ owner' = [x \in Bufs |-> IF x = b THEN "free_q" ELSE owner[x]]
  BY DEF FreePublish
<1>3. /\ b \in Bufs /\ owner[b] = "cpu1" /\ fBuf[fW] = b
      /\ ~IsQFull(fR, fW, MaxFree)
      /\ \A d \in Ctx1 \ {c} : pc1[d] \notin {"advance", "publish"} /\ hand1[d] # b
  BY <1>2 DEF FreePublish, MayRun, IrqOff, Cpu1OK
<1>4. /\ MaxFree \in Nat /\ fR \in 0..MaxFree /\ fW \in 0..MaxFree
      /\ QCount(fR, fW, MaxFree) \in 0..MaxFree
  BY QCountType, SizeAssumption
<1>5. /\ QCount(fR, fW', MaxFree) = QCount(fR, fW, MaxFree) + 1
      /\ \A p \in 0..MaxFree : Live(p, fR, fW') <=> Live(p, fR, fW) \/ p = fW
  <2> HIDE DEF PoolInv, TypeInv
  <2>1. /\ QCount(fR, NextQPos(fW, MaxFree), MaxFree) = QCount(fR, fW, MaxFree) + 1
        /\ \A p \in 0..MaxFree : Live(p, fR, NextQPos(fW, MaxFree)) <=> Live(p, fR, fW) \/ p = fW
    BY <1>3, <1>4, LiveGrow
  <2> QED
    BY <1>2, <2>1
<1>6. \A d \in Ctx0 : pc0[d] = "free" => ~Live(fW, fR, lr[d])
  <2> SUFFICES ASSUME NEW d \in Ctx0, pc0[d] = "free"
               PROVE  ~Live(fW, fR, lr[d])
    OBVIOUS
  <2>1. /\ QCount(fR, lr[d], MaxFree) <= QCount(fR, lw[d], MaxFree)
        /\ QCount(fR, lw[d], MaxFree) <= QCount(fR, fW, MaxFree)
        /\ lr[d] \in 0..MaxFree /\ lw[d] \in 0..MaxFree
    BY DEF ReleaseOK, LocalsOK
  <2> HIDE DEF PoolInv, TypeInv
  <2>2. QCount(fR, lr[d], MaxFree) \in 0..MaxFree /\ QCount(fR, lw[d], MaxFree) \in 0..MaxFree
    BY <1>4, <2>1, QCountType
  <2>3. ~(QCount(fR, fW, MaxFree) < QCount(fR, lr[d], MaxFree))
    BY <1>4, <2>1, <2>2
  <2> QED
    BY <1>4, <2>1, <2>3, LiveIsNear
<1>7. \A p \in 0..MaxFree : FreeLive(p)' <=> FreeLive(p) \/ p = fW
  BY <1>1, <1>5, <1>6 DEF FreeLive
<1>8. \A p : AllocLive(p)' <=> AllocLive(p)
  BY <1>1, <1>2, AllocFrame
<1>9. TopupOK'
  BY <1>1, <1>2, <1>3 DEF TopupOK
<1>10. ReleaseOK'
  <2>1. \A n \in 0..MaxFree : n <= QCount(fR, fW, MaxFree) => n <= QCount(fR, fW', MaxFree)
    <3> HIDE DEF PoolInv, TypeInv
    <3> QED
      BY <1>4, <1>5
  <2>2. ASSUME NEW d \in Ctx0, pc0[d] = "free"
        PROVE  QCount(fR, lw[d], MaxFree) \in 0..MaxFree
    <3>1. lw[d] \in 0..MaxFree
      BY <2>2 DEF LocalsOK
    <3> HIDE DEF PoolInv, TypeInv
    <3> QED
      BY <1>4, <3>1, QCountType
  <2> QED
    BY <1>1, <2>1, <2>2 DEF ReleaseOK
<1>11. Cpu1OK'
  <2>1. hand1' = [hand1 EXCEPT ![c] = Invalid] /\ \A x \in Bufs \ {b} : owner'[x] = owner[x]
    BY <1>2 DEF FreePublish
  <2> QED
    BY <1>1, <1>2, <1>3, <2>1, BufsAssumption DEF Cpu1OK, OneContext
<1>12. Unshared'
  BY <1>1, <1>2, <1>3, <1>7, <1>8 DEF Unshared, SlotsOwned
<1>13. Accounted'
  BY <1>1, <1>2, <1>3, <1>7, <1>8 DEF Accounted
<1> QED
  BY <1>9, <1>10, <1>11, <1>12, <1>13 DEF Accounts

\* Buffers that change hands as messages are in no queue.
LEMMA PoolSend ==
  ASSUME PoolInv, TypeInv', SendUp \/ SendDown
  PROVE  Accounts'
<1> USE DEF PoolInv, TypeInv, TypeOK, aqVars, fqVars, cpu0Vars, cpu1Vars
<1>1. UNCHANGED <<aBuf, aR, aW, fBuf, fR, fW, pc0, lr, lw, cnt, hand0, pc1, hand1>>
  BY DEF SendUp, SendDown
<1>2. PICK b \in Bufs, w \in {"heap", "cpu1"} :
        /\ owner' = [owner EXCEPT ![b] = w]
        /\ owner[b] \in {"heap", "cpu1"}
        /\ \A d \in Ctx1 : owner[b] = "cpu1" => hand1[d] # b
  BY DEF SendUp, SendDown, AtCpu1
<1>3. /\ \A p : AllocLive(p)' <=> AllocLive(p)
      /\ \A p : FreeLive(p)' <=> FreeLive(p)
  BY <1>1, AllocFrame, FreeFrame
<1>4. TopupOK' /\ ReleaseOK' /\ Cpu1OK'
  BY <1>1, <1>2 DEF TopupOK, ReleaseOK, Cpu1OK
<1>5. Unshared'
  BY <1>1, <1>2, <1>3 DEF Unshared, SlotsOwned
<1>6. Accounted'
  BY <1>1, <1>2, <1>3 DEF Accounted
<1> QED
  BY <1>4, <1>5, <1>6 DEF Accounts

\* A step that uses no stale test keeps the invariant.
LEMMA PoolStep ==
  ASSUME PoolInv, LockInv, [Next]_vars, ~overrun, ~overrun'
  PROVE  PoolInv'
<1>1. TypeInv' /\ BookKeepExclusive'
  BY TypeStep, LockStep DEF PoolInv, LockInv
<1>2. ASSUME NEW c \in Ctx0, Step0(c)
      PROVE  Accounts'
  BY <1>1, <1>2, PoolBook, PoolTopupAlloc, PoolTopupSet, PoolTopupPublish,
     PoolReleaseSnap, PoolReleaseFree, PoolReleaseDone DEF Step0, Topup, Release
<1>3. ASSUME NEW c \in Ctx1, Step1(c)
      PROVE  Accounts'
  <2>1. CASE AllocTake(c)
    <3>1. ~IsQEmpty(aR, aW)
      BY <2>1 DEF AllocTake
    <3> QED
      BY <1>1, <2>1, <3>1, PoolAllocTake
  <2>2. CASE FreePut(c)
    <3>1. ~IsQFull(fR, fW, MaxFree)
      BY <2>2 DEF FreePut
    <3> QED
      BY <1>1, <2>2, <3>1, PoolFreePut
  <2> QED
    BY <1>1, <1>3, <2>1, <2>2, PoolCpu1Check, PoolAllocAdvance, PoolFreePublish DEF Step1
<1>4. CASE SendUp \/ SendDown
  BY <1>1, <1>4, PoolSend DEF PoolInv, Accounts
<1>5. CASE UNCHANGED vars
  <2> USE <1>5 DEF vars, aqVars, fqVars, cpu0Vars, cpu1Vars, PoolInv
  <2>1. TopupOK' /\ ReleaseOK' /\ Cpu1OK'
    BY DEF TopupOK, ReleaseOK, Cpu1OK
  <2>2. Unshared' /\ Accounted'
    BY AllocFrame, FreeFrame, AccountFrame
  <2> QED
    BY <1>1, <2>1, <2>2
<1> QED
  BY <1>1, <1>2, <1>3, <1>4, <1>5 DEF Next, PoolInv, Accounts

\* A stale test once used is never forgotten.
LEMMA OverrunStays ==
  ASSUME overrun, [Next]_vars
  PROVE  overrun'
<1>1. ASSUME NEW c \in Ctx0, Step0(c) PROVE overrun' = overrun
  BY <1>1 DEF Step0, TopupHit, ReleaseHit, TryLock, Unlock, Topup, TopupCount, TopupAlloc,
              TopupNoMem, TopupSet, TopupPublish, TopupFlush, TopupDone, Release,
              ReleaseSnap, ReleaseFree, ReleaseDone
<1>2. ASSUME NEW c \in Ctx1, Step1(c) PROVE overrun'
  BY <1>2, Zenon DEF Step1, AllocCheck, AllocTake, AllocAdvance, AllocInv, FreeCheck, FreePut,
              FreePublish
<1> QED
  BY <1>1, <1>2 DEF Next, SendUp, SendDown, vars

UntilOverrun == overrun \/ PoolInv

\* The invariant holds in every reachable state until a stale test is used.
LEMMA PoolInvariant == Spec => []UntilOverrun
<1>1. Init => UntilOverrun /\ LockInv /\ TypeInv
  BY PoolInit, LockInit, TypeInit DEF UntilOverrun
<1>2. UntilOverrun /\ LockInv /\ TypeInv /\ [Next]_vars => UntilOverrun' /\ LockInv' /\ TypeInv'
  BY PoolStep, LockStep, TypeStep, OverrunStays DEF UntilOverrun
<1> QED
  BY <1>1, <1>2, PTL DEF Spec

\* The pool's index protocol is safe for all queue sizes and any number of
\* contexts, without any lock between the cores, as long as no test made outside
\* local_irq_save has become stale when it is used: every unread slot of alloc_q
\* and free_q holds a buffer that belongs to that queue alone, so no buffer is
\* handed out, or freed, twice.
THEOREM NoSharing == Spec => []NoBufferShared
<1>1. UntilOverrun => NoBufferShared
  BY DEF UntilOverrun, PoolInv, NoBufferShared
<1> QED
  BY <1>1, PoolInvariant, PTL

\* Nor does a buffer leak: what a top-up allocated or a queue received stays
\* reachable from that top-up or that queue, again up to the first stale test.
THEOREM NoLeak == Spec => []NoBufferLost
<1>1. UntilOverrun => NoBufferLost
  BY DEF UntilOverrun, PoolInv, NoBufferLost
<1> QED
  BY <1>1, PoolInvariant, PTL

NeverOverrun == ~overrun

\* A test becomes stale only through another context of CPU1, never through
\* CPU0: if CPU1 has one context, mps_dequeue_head never takes from an empty
\* queue and mps_queue_tail never fills a full one, whatever CPU0 does between
\* the test and the access.
THEOREM StaleNeedsTwo ==
  ASSUME OneContext
  PROVE  Spec => []NeverOverrun
<1>1. Init => NeverOverrun
  BY DEF Init, NeverOverrun
<1>2. NeverOverrun /\ UntilOverrun /\ [Next]_vars => NeverOverrun'
  <2> SUFFICES ASSUME ~overrun, PoolInv, [Next]_vars PROVE ~overrun'
    BY DEF NeverOverrun, UntilOverrun
  <2>1. ASSUME NEW c \in Ctx0, Step0(c) PROVE overrun' = overrun
    BY <2>1 DEF Step0, TopupHit, ReleaseHit, TryLock, Unlock, Topup, TopupCount, TopupAlloc,
                TopupNoMem, TopupSet, TopupPublish, TopupFlush, TopupDone, Release,
                ReleaseSnap, ReleaseFree, ReleaseDone
  <2>2. ASSUME NEW c \in Ctx1, AllocTake(c) PROVE ~overrun'
    <3>1. ~IsQEmpty(aR, aW)
      BY <2>2, OneContext DEF AllocTake, Goto1, PoolInv, Cpu1OK, IsQEmpty
    <3> QED
      BY <2>2, <3>1, Zenon DEF AllocTake
  <2>3. ASSUME NEW c \in Ctx1, FreePut(c) PROVE ~overrun'
    <3>1. ~IsQFull(fR, fW, MaxFree)
      BY <2>3, OneContext DEF FreePut, Goto1, PoolInv, Cpu1OK
    <3> QED
      BY <2>3, <3>1, Zenon DEF FreePut
  <2>4. ASSUME NEW c \in Ctx1, Step1(c), ~AllocTake(c), ~FreePut(c) PROVE overrun' = overrun
    BY <2>4 DEF Step1, AllocCheck, AllocAdvance, AllocInv, FreeCheck, FreePublish
  <2> QED
    BY <2>1, <2>2, <2>3, <2>4 DEF Next, SendUp, SendDown, vars
<1> QED
  BY <1>1, <1>2, PoolInvariant, PTL DEF Spec

-----------------------------------------------------------------------------
(* Write-back.  A context that holds an unwritten buffer takes no step but  *)
(* those that lead to its write-back, and nobody else moves it.             *)

\* Where an unwritten buffer is: in the hand of a top-up that is on its way to
\* write it back.
FlushFollows ==
  \A b \in dirty : \E c \in Ctx0 :
    pc0[c] \in {"set", "publish", "flush"} /\ hand0[c] = b

\* A context with an unwritten buffer in its hand.
Holds(c, b) == pc0[c] \in {"set", "publish", "flush"} /\ hand0[c] = b

\* Every step keeps each unwritten buffer in the hand of a top-up.
LEMMA FlushStep ==
  ASSUME TypeOK, FlushFollows, [Next]_vars
  PROVE  FlushFollows'
<1> SUFFICES ASSUME NEW b \in dirty' PROVE \E c \in Ctx0 : Holds(c, b)'
  BY DEF FlushFollows, Holds
<1>1. ASSUME NEW c \in Ctx0, TopupAlloc(c) PROVE \E d \in Ctx0 : Holds(d, b)'
  <2>1. PICK n \in Bufs : dirty' = dirty \cup {n} /\ hand0' = [hand0 EXCEPT ![c] = n]
    BY <1>1 DEF TopupAlloc
  <2>2. pc0[c] = "alloc" /\ pc0' = [pc0 EXCEPT ![c] = "set"]
    BY <1>1 DEF TopupAlloc, Goto0
  <2>3. CASE b = n
    BY <2>1, <2>2, <2>3 DEF Holds, TypeOK
  <2>4. CASE b \in dirty
    <3>1. PICK d \in Ctx0 : Holds(d, b)
      BY <2>4 DEF FlushFollows, Holds
    <3>2. d # c
      BY <3>1, <2>2 DEF Holds
    <3> QED
      BY <3>1, <3>2, <2>1, <2>2 DEF Holds, TypeOK
  <2> QED
    BY <2>1, <2>3, <2>4
<1>2. ASSUME NEW c \in Ctx0, TopupSet(c) \/ TopupPublish(c) PROVE \E d \in Ctx0 : Holds(d, b)'
  <2>1. PICK to \in {"publish", "flush"} : pc0' = [pc0 EXCEPT ![c] = to]
    BY <1>2 DEF TopupSet, TopupPublish, Goto0
  <2>2. dirty' = dirty /\ hand0' = hand0
    BY <1>2 DEF TopupSet, TopupPublish
  <2>3. PICK d \in Ctx0 : Holds(d, b)
    BY <2>2 DEF FlushFollows, Holds
  <2> QED
    BY <2>1, <2>2, <2>3 DEF Holds, TypeOK
<1>3. ASSUME NEW c \in Ctx0, TopupFlush(c) PROVE \E d \in Ctx0 : Holds(d, b)'
  <2>1. PICK d \in Ctx0 : Holds(d, b)
    BY <1>3 DEF TopupFlush, FlushFollows, Holds
  <2>2. d # c
    BY <1>3, <2>1 DEF TopupFlush, Holds
  <2> QED
    BY <1>3, <2>1, <2>2 DEF TopupFlush, Goto0, Holds, TypeOK
<1>4. ASSUME NEW c \in Ctx0, Step0(c),
             ~(TopupAlloc(c) \/ TopupSet(c) \/ TopupPublish(c) \/ TopupFlush(c))
      PROVE  \E d \in Ctx0 : Holds(d, b)'
  <2>1. TopupHit(c) \/ ReleaseHit(c) \/ TryLock(c) \/ Unlock(c) \/ TopupCount(c) \/ TopupNoMem(c)
        \/ TopupDone(c) \/ Release(c)
    BY <1>4 DEF Step0, Topup
  <2>2. dirty' = dirty /\ \A d \in Ctx0 \ {c} : pc0'[d] = pc0[d] /\ hand0'[d] = hand0[d]
    BY <2>1 DEF TopupHit, ReleaseHit, TryLock, Unlock, TopupCount, TopupNoMem, TopupDone,
                Release, ReleaseSnap, ReleaseFree, ReleaseDone, Goto0, TypeOK
  <2>3. pc0[c] \notin {"set", "publish", "flush"}
    BY <2>1 DEF TopupHit, ReleaseHit, TryLock, Unlock, TopupCount, TopupNoMem, TopupDone,
                Release, ReleaseSnap, ReleaseFree, ReleaseDone, Goto0
  <2>4. PICK d \in Ctx0 : Holds(d, b)
    BY <2>2 DEF FlushFollows, Holds
  <2> QED
    BY <2>2, <2>3, <2>4 DEF Holds
<1>5. CASE (\E c \in Ctx1 : Step1(c)) \/ SendUp \/ SendDown \/ UNCHANGED vars
  <2>1. dirty' = dirty /\ pc0' = pc0 /\ hand0' = hand0
    BY <1>5 DEF Step1, AllocCheck, AllocTake, AllocAdvance, AllocInv, FreeCheck, FreePut,
                FreePublish, SendUp, SendDown, vars, cpu0Vars
  <2> QED
    BY <2>1 DEF FlushFollows, Holds
<1> QED
  BY <1>1, <1>2, <1>3, <1>4, <1>5 DEF Next

\* While mps_queue_free frees, no write-back is outstanding.
LEMMA FreeIsClean ==
  ASSUME FlushFollows, BookKeepExclusive, NEW c \in Ctx0, ReleaseFree(c)
  PROVE  dirty = {}
  BY DEF FlushFollows, BookKeepExclusive, ReleaseFree, Goto0, InSection, InTopup, InRelease

FreedClean == \A b \in dirty : owner[b] = "free_q" => owner'[b] # "heap"

\* mps_queue_free is the only step that takes a buffer from free_q to the heap.
LEMMA FreedStep ==
  ASSUME TypeOK, FlushFollows, BookKeepExclusive, [Next]_vars
  PROVE  FreedClean
<1> SUFFICES ASSUME NEW b \in dirty, owner[b] = "free_q" PROVE owner'[b] # "heap"
  BY DEF FreedClean
<1>0. b \in Bufs
  BY DEF TypeOK
<1>1. ASSUME NEW c \in Ctx0, ReleaseFree(c) PROVE FALSE
  BY <1>1, FreeIsClean
<1>2. ASSUME NEW c \in Ctx0, TopupAlloc(c) \/ TopupPublish(c) PROVE owner'[b] # "heap"
  BY <1>0, <1>2 DEF TopupAlloc, TopupPublish, TypeOK
<1>3. ASSUME NEW c \in Ctx0, Step0(c), ~ReleaseFree(c), ~TopupAlloc(c), ~TopupPublish(c)
      PROVE  owner' = owner
  BY <1>3 DEF Step0, TopupHit, ReleaseHit, TryLock, Unlock, Topup, TopupCount, TopupNoMem,
              TopupSet, TopupFlush, TopupDone, Release, ReleaseSnap, ReleaseDone
<1>4. ASSUME NEW c \in Ctx1, Step1(c) PROVE owner'[b] # "heap"
  BY <1>0, <1>4 DEF Step1, AllocCheck, AllocTake, AllocAdvance, AllocInv, FreeCheck, FreePut,
                    FreePublish, TypeOK
<1>5. CASE SendUp \/ SendDown
  BY <1>0, <1>5 DEF SendUp, SendDown, AtCpu1, TypeOK
<1>6. CASE UNCHANGED vars
  BY <1>6 DEF vars
<1> QED
  BY <1>1, <1>2, <1>3, <1>4, <1>5, <1>6 DEF Next

\* No release frees a buffer whose write-back is outstanding, for any queue
\* sizes and any number of contexts on both cores, also after a stale test: a
\* top-up that has still to flush holds mps_list_book_keep_x.
THEOREM CleanWhenFreed == Spec => FlushedBeforeFreed
<1>1. Init => FlushFollows
  BY DEF Init, QueuesInit, FlushFollows
<1>2. Spec => [](TypeOK /\ BookKeepExclusive)
  BY TypeCorrect, MutualExclusion, PTL
<1>3. Spec => []FlushFollows
  BY <1>1, <1>2, FlushStep, PTL DEF Spec
<1>4. TypeOK /\ BookKeepExclusive /\ FlushFollows /\ [Next]_vars => [FreedClean]_vars
  BY FreedStep
<1>5. Spec => [][FreedClean]_vars
  BY <1>2, <1>3, <1>4, PTL DEF Spec
<1> QED
  BY <1>5 DEF FlushedBeforeFreed, FreedClean
=============================================================================
