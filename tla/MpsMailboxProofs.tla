-------------------------- MODULE MpsMailboxProofs ---------------------------
(***************************************************************************)
(* Theorems about MpsMailbox, for every size of the ring and of the FIFO   *)
(* and any number of messages.                                             *)
(***************************************************************************)
EXTENDS MpsMailbox, FiniteSetTheorems, TLAPS

\* The messages the handler has taken from the FIFO.
Got == 1..Len(sent) - Len(fifo)

\* The slots between the indices, and how far each is behind rpos.
Between(p, r, w) == IF r <= w THEN r <= p /\ p < w ELSE r <= p \/ p < w
Far(p, r) == IF r <= p THEN p - r ELSE p - r + QLen + 1
Unread(p) == Between(p, rpos, wpos)
Behind(p) == Far(p, rpos)

\* The first message that may still be handled.
Lower == IF handled = <<>> THEN 1 ELSE handled[Len(handled)] + 1

\* Messages are numbered in the order of sending, and the FIFO holds the last.
Numbered ==
  /\ Len(sent) <= MaxMsgs /\ Len(fifo) <= Len(sent)
  /\ \A i \in 1..Len(sent) : sent[i] = i
  /\ \A i \in 1..Len(fifo) : fifo[i] = Len(sent) - Len(fifo) + i

\* The ring holds messages that were taken and not handled, the oldest first.
RingInOrder ==
  /\ \A p \in 0..QLen : Unread(p) => buf[p] \in Got /\ Lower <= buf[p]
  /\ \A p, q \in 0..QLen : Unread(p) /\ Unread(q) /\ Behind(p) < Behind(q) => buf[p] < buf[q]

\* The message in the tasklet's hand is older than those in the ring; before
\* the read index is moved it is still in its slot.
HandInOrder ==
  /\ tpc \in {"idle", "loop", "return"} => hand = NoMsg
  /\ tpc = "advance" => rpos # wpos /\ hand = buf[rpos]
  /\ tpc \in {"call", "null"} => /\ hand \in Got /\ Lower <= hand
                                 /\ \A p \in 0..QLen : Unread(p) => hand < buf[p]

\* What was handled, dropped or unclaimed was taken before.
Gone ==
  /\ \A i \in 1..Len(handled) : handled[i] \in Got /\ handled[i] < Lower
  /\ dropped \subseteq Got /\ unclaimed \subseteq Got

\* The two pointers agree outside the two windows of the process, and in the
\* window of registering the driver has no pointer yet.
Callbacks ==
  /\ ppc = "idle" => (appCb <=> drvCb)
  /\ ppc = "registering" => appCb /\ ~drvCb
  /\ ppc = "unregistering" => ~appCb
  /\ tpc = "null" => ppc = "unregistering"

OrderInv == Numbered /\ RingInOrder /\ HandInOrder /\ Gone

\* What the queue operations do to a sequence.
LEMMA SeqFacts ==
  ASSUME NEW S, NEW q \in Seq(S)
  PROVE  /\ Len(q) \in Nat /\ (q # <<>> <=> Len(q) > 0)
         /\ \A i \in 1..Len(q) : q[i] \in S
         /\ \A e \in S : /\ Append(q, e) \in Seq(S)
                         /\ Len(Append(q, e)) = Len(q) + 1
                         /\ Append(q, e)[Len(q) + 1] = e
                         /\ \A i \in 1..Len(q) : Append(q, e)[i] = q[i]
         /\ q # <<>> => /\ Head(q) \in S /\ Head(q) = q[1]
                        /\ Tail(q) \in Seq(S)
                        /\ Len(Tail(q)) = Len(q) - 1
                        /\ \A i \in 1..Len(q) - 1 : Tail(q)[i] = q[i + 1]
<1>1. ASSUME NEW e \in S
      PROVE  /\ Append(q, e) \in Seq(S)
             /\ Len(Append(q, e)) = Len(q) + 1
             /\ Append(q, e)[Len(q) + 1] = e
             /\ \A i \in 1..Len(q) : Append(q, e)[i] = q[i]
  OBVIOUS
<1>2. ASSUME q # <<>>
      PROVE  /\ Len(q) \in Nat \ {0}
             /\ Head(q) \in S /\ Head(q) = q[1]
             /\ Tail(q) \in Seq(S)
             /\ Len(Tail(q)) = Len(q) - 1
             /\ \A i \in 1..Len(q) - 1 : Tail(q)[i] = q[i + 1]
  BY <1>2
<1>3. Len(q) \in Nat /\ \A i \in 1..Len(q) : q[i] \in S
  OBVIOUS
<1>4. q # <<>> <=> Len(q) > 0
  BY <1>2
<1> QED
  BY <1>1, <1>2, <1>3, <1>4

-----------------------------------------------------------------------------
(* Types and callbacks                                                     *)

\* Init gives every variable its type.
LEMMA TypeInit == Init => TypeOK
<1> SUFFICES ASSUME Init PROVE TypeOK
  OBVIOUS
<1>1. fifo \in Seq(Ids) /\ sent \in Seq(Ids) /\ handled \in Seq(Ids)
  BY DEF Init
<1>2. 0 \in Ids /\ 0 \in 0..QLen
  BY SizeAssumption DEF Ids
<1>3. buf \in [0..QLen -> Ids]
  BY <1>2 DEF Init, NoMsg
<1> QED
  BY <1>1, <1>2, <1>3 DEF Init, TypeOK, NoMsg

\* Every step keeps the types and both indices inside the ring.
LEMMA TypeStep ==
  ASSUME TypeOK, [Next]_vars
  PROVE  TypeOK'
<1> USE SizeAssumption DEF TypeOK, Ids, fifoVars, isrVars, ringVars, taskVars, procVars, lossVars
<1>1. CASE Send
  <2>1. Len(sent) \in Nat /\ Len(sent) + 1 \in Ids
    BY <1>1, SeqFacts DEF Send
  <2>2. sent' \in Seq(Ids) /\ fifo' \in Seq(Ids)
    BY <1>1, <2>1, SeqFacts DEF Send
  <2> QED
    BY <1>1, <2>2 DEF Send
<1>2. CASE IsrEnter
  BY <1>2 DEF IsrEnter
<1>3. CASE IsrRead
  <2>1. Head(fifo) \in Ids /\ fifo' \in Seq(Ids)
    BY <1>3, SeqFacts DEF IsrRead
  <2>2. NextQPos(wpos) \in 0..QLen
    BY DEF NextQPos
  <2>3. /\ buf' \in [0..QLen -> Ids] /\ wpos' \in 0..QLen /\ rpos' \in 0..QLen
        /\ dropped' \subseteq Ids
    BY <1>3, <2>1, <2>2 DEF IsrRead, Enqueue
  <2> QED
    BY <1>3, <2>1, <2>3 DEF IsrRead
<1>4. CASE IsrNoMem
  <2>1. {fifo[i] : i \in 1..Len(fifo)} \subseteq Ids
    BY SeqFacts
  <2> QED
    BY <1>4, <2>1 DEF IsrNoMem
<1>5. CASE IsrEmpty \/ IsrExit
  BY <1>5, ZenonT(40) DEF IsrEmpty, IsrExit
<1>6. CASE TaskletRun \/ TaskletEmpty \/ TaskletGet
  BY <1>6 DEF TaskletRun, TaskletEmpty, TaskletGet, GotoT
<1>7. CASE TaskletAdvance
  <2>1. NextQPos(rpos) \in 0..QLen
    BY DEF NextQPos
  <2> QED
    BY <1>7, <2>1 DEF TaskletAdvance, GotoT
<1>8. CASE TaskletCall
  <2>1. handled' \in Seq(Ids)
    <3>1. handled' = Append(handled, hand) \/ handled' = handled
      BY <1>8 DEF TaskletCall
    <3>2. Append(handled, hand) \in Seq(Ids)
      BY SeqFacts
    <3> QED
      BY <3>1, <3>2
  <2>2. tpc' \in {"loop", "null"} /\ hand' \in Ids
    BY <1>8 DEF TaskletCall, GotoT, NoMsg
  <2> QED
    BY <1>8, <2>1, <2>2 DEF TaskletCall
<1>9. CASE TaskletNoCallback
  BY <1>9 DEF TaskletNoCallback, GotoT, NoMsg
<1>10. CASE Process
  BY <1>10 DEF Process, Register, RegisterDriver, Unregister, UnregisterDriver, GotoP, procOnly
<1>11. CASE UNCHANGED vars
  BY <1>11 DEF vars
<1> QED
  BY <1>1, <1>2, <1>3, <1>4, <1>5, <1>6, <1>7, <1>8, <1>9, <1>10, <1>11 DEF Next, Isr, Tasklet

\* The indices that handler and tasklet move stay inside the ring, and every
\* other variable has its type.
THEOREM TypeCorrect == Spec => []TypeOK
  BY TypeInit, TypeStep, PTL DEF Spec

\* Every step keeps the two pointers in step.
LEMMA CallbackStep ==
  ASSUME Callbacks, TypeOK, [Next]_vars
  PROVE  Callbacks'
<1>1. CASE TaskletCall
  <2>1. UNCHANGED <<ppc, appCb, drvCb>> /\ drvCb /\ tpc = "call"
    BY <1>1 DEF TaskletCall, GotoT, procVars
  <2>2. appCb => tpc' = "loop"
    BY <1>1 DEF TaskletCall, GotoT
  <2>3. ~appCb => ppc = "unregistering"
    BY <2>1 DEF Callbacks, TypeOK
  <2> QED
    BY <2>1, <2>2, <2>3 DEF Callbacks
<1>2. CASE Process
  <2>1. tpc = "idle" /\ tpc' = tpc
    BY <1>2 DEF Process, Register, RegisterDriver, Unregister, UnregisterDriver, GotoP, procOnly,
                taskVars
  <2>2. CASE Register
    <3>1. ppc' = "registering" /\ appCb' /\ drvCb' = drvCb
      BY <2>2 DEF Register, GotoP
    <3>2. ~drvCb
      BY <2>2 DEF Register, GotoP, Callbacks
    <3> QED
      BY <2>1, <3>1, <3>2 DEF Callbacks
  <2>3. CASE RegisterDriver
    <3>1. ppc' = "idle" /\ appCb' = appCb /\ drvCb' = TRUE /\ appCb
      BY <2>3 DEF RegisterDriver, GotoP, Callbacks
    <3> QED
      BY <2>1, <3>1 DEF Callbacks
  <2>4. CASE Unregister
    <3>1. ppc' = "unregistering" /\ appCb' = FALSE
      BY <2>4 DEF Unregister, GotoP
    <3> QED
      BY <2>1, <3>1 DEF Callbacks
  <2>5. CASE UnregisterDriver
    <3>1. ppc' = "idle" /\ appCb' = appCb /\ drvCb' = FALSE /\ ~appCb
      BY <2>5 DEF UnregisterDriver, GotoP, Callbacks
    <3> QED
      BY <2>1, <3>1 DEF Callbacks
  <2> QED
    BY <1>2, <2>2, <2>3, <2>4, <2>5 DEF Process
<1>3. CASE Send \/ Isr \/ TaskletRun \/ TaskletEmpty \/ TaskletGet \/ TaskletAdvance
           \/ TaskletNoCallback \/ UNCHANGED vars
  <2>1. UNCHANGED <<ppc, appCb, drvCb>> /\ (tpc' = tpc \/ tpc' # "null")
    BY <1>3 DEF Send, Isr, IsrEnter, IsrRead, IsrNoMem, IsrEmpty, IsrExit, TaskletRun,
                TaskletEmpty, TaskletGet, TaskletAdvance, TaskletNoCallback, GotoT, vars,
                procVars, taskVars
  <2> QED
    BY <2>1 DEF Callbacks
<1> QED
  BY <1>1, <1>2, <1>3 DEF Next, Tasklet

\* Registering never exposes a NULL callback: only the window between the two
\* stores of ifx_mps_unregister_callback does.
THEOREM NullOnlyThere == Spec => []NullOnlyUnregistering
<1>1. Init => Callbacks
  BY Zenon DEF Init, Callbacks
<1>2. Spec => []TypeOK
  BY TypeCorrect
<1>3. Callbacks => NullOnlyUnregistering
  BY DEF Callbacks, NullOnlyUnregistering
<1> QED
  BY <1>1, <1>2, <1>3, CallbackStep, PTL DEF Spec

-----------------------------------------------------------------------------
(* The order of the messages                                               *)

\* Moving the write index of a ring that is not full adds the slot w, the last.
LEMMA RingGrow ==
  ASSUME NEW r \in 0..QLen, NEW w \in 0..QLen, NextQPos(w) # r
  PROVE  /\ \A p \in 0..QLen : Between(p, r, NextQPos(w)) <=> Between(p, r, w) \/ p = w
         /\ ~Between(w, r, w) /\ NextQPos(w) \in 0..QLen
         /\ \A p \in 0..QLen : Between(p, r, w) => Far(p, r) < Far(w, r)
  BY SizeAssumption DEF Between, Far, NextQPos

\* Moving the read index of a ring that is not empty drops the slot r, the first.
LEMMA RingShrink ==
  ASSUME NEW r \in 0..QLen, NEW w \in 0..QLen, r # w
  PROVE  /\ \A p \in 0..QLen : Between(p, NextQPos(r), w) <=> Between(p, r, w) /\ p # r
         /\ Between(r, r, w) /\ NextQPos(r) \in 0..QLen
         /\ \A p \in 0..QLen : Between(p, r, w) /\ p # r => Far(r, r) < Far(p, r)
         /\ \A p, q \in 0..QLen : p # r /\ q # r /\ Far(p, NextQPos(r)) < Far(q, NextQPos(r))
                                    => Far(p, r) < Far(q, r)
  BY SizeAssumption DEF Between, Far, NextQPos

\* Two slots are never equally far.
LEMMA FarDiffers ==
  ASSUME NEW r \in 0..QLen, NEW p \in 0..QLen, NEW q \in 0..QLen, p # q
  PROVE  Far(p, r) < Far(q, r) \/ Far(q, r) < Far(p, r)
  BY SizeAssumption DEF Far

orderVars == <<fifo, sent, buf, rpos, wpos, hand, handled, dropped, unclaimed>>

\* The lengths are numbers, and the first message not handled follows those taken.
LEMMA Lengths ==
  ASSUME TypeOK, OrderInv
  PROVE  /\ Len(sent) \in Nat /\ Len(fifo) \in Nat /\ Len(handled) \in Nat
         /\ Len(sent) - Len(fifo) \in Nat
         /\ Lower \in 1..Len(sent) - Len(fifo) + 1
<1>1. /\ Len(sent) \in Nat /\ Len(fifo) \in Nat /\ Len(handled) \in Nat
      /\ Len(sent) - Len(fifo) \in Nat /\ (handled # <<>> <=> Len(handled) > 0)
  BY SeqFacts DEF TypeOK, OrderInv, Numbered
<1>2. CASE handled = <<>>
  BY <1>1, <1>2 DEF Lower
<1>3. CASE handled # <<>>
  <2>1. handled[Len(handled)] \in 1..Len(sent) - Len(fifo)
    BY <1>1, <1>3 DEF OrderInv, Gone, Got
  <2> QED
    BY <1>1, <1>3, <2>1 DEF Lower
<1> QED
  BY <1>1, <1>2, <1>3

\* Steps that move no message keep the order.
LEMMA OrderFrame ==
  ASSUME OrderInv, UNCHANGED orderVars,
         tpc' = tpc \/ (tpc \in {"idle", "loop", "return"} /\ tpc' \in {"idle", "loop", "return"})
  PROVE  OrderInv'
<1>1. Numbered' /\ RingInOrder' /\ Gone'
  BY DEF OrderInv, orderVars, Numbered, RingInOrder, Gone, Got, Lower, Unread, Behind
<1>2. HandInOrder'
  BY DEF OrderInv, orderVars, HandInOrder, Got, Lower, Unread
<1> QED
  BY <1>1, <1>2 DEF OrderInv

\* The sender appends the next message.
LEMMA OrderSend ==
  ASSUME TypeOK, OrderInv, Send
  PROVE  OrderInv' /\ Got' = Got
<1>1. /\ Len(sent) \in Nat /\ Len(fifo) \in Nat /\ Len(sent) + 1 \in Ids
      /\ Len(sent) < MaxMsgs /\ MaxMsgs \in Nat
  BY SeqFacts, SizeAssumption DEF TypeOK, Send, Ids
<1>2. /\ Len(sent') = Len(sent) + 1 /\ sent'[Len(sent) + 1] = Len(sent) + 1
      /\ \A i \in 1..Len(sent) : sent'[i] = sent[i]
  BY <1>1, SeqFacts DEF TypeOK, Send
<1>3. /\ Len(fifo') = Len(fifo) + 1 /\ fifo'[Len(fifo) + 1] = Len(sent) + 1
      /\ \A i \in 1..Len(fifo) : fifo'[i] = fifo[i]
  BY <1>1, SeqFacts DEF TypeOK, Send
<1>4. Got' = Got
  BY <1>1, <1>2, <1>3 DEF Got
<1>5. Numbered'
  <2>1. \A i \in 1..Len(sent') : sent'[i] = i
    BY <1>1, <1>2 DEF OrderInv, Numbered
  <2>2. ASSUME NEW i \in 1..Len(fifo') PROVE fifo'[i] = Len(sent') - Len(fifo') + i
    <3>1. CASE i = Len(fifo) + 1
      BY <3>1, <1>1, <1>2, <1>3
    <3>2. CASE i \in 1..Len(fifo)
      <4>1. fifo[i] = Len(sent) - Len(fifo) + i
        BY <3>2 DEF OrderInv, Numbered
      <4> QED
        BY <4>1, <3>2, <1>1, <1>2, <1>3
    <3> QED
      BY <3>1, <3>2, <1>1, <1>3
  <2> QED
    BY <2>1, <2>2, <1>1, <1>2, <1>3 DEF OrderInv, Numbered
<1>6. UNCHANGED <<buf, rpos, wpos, hand, tpc, handled, dropped, unclaimed>>
  BY DEF Send, ringVars, taskVars, lossVars
<1>7. RingInOrder' /\ Gone'
  BY <1>4, <1>6 DEF OrderInv, RingInOrder, Gone, Lower, Unread, Behind
<1>8. HandInOrder'
  BY <1>4, <1>6 DEF OrderInv, HandInOrder, Lower, Unread
<1> QED
  BY <1>4, <1>5, <1>7, <1>8 DEF OrderInv

\* The handler takes the oldest message of the FIFO.
LEMMA OrderRead ==
  ASSUME TypeOK, OrderInv, IsrRead
  PROVE  /\ OrderInv'
         /\ Head(fifo) = Len(sent) - Len(fifo) + 1 /\ Got' = Got \cup {Head(fifo)}
<1> DEFINE g == Len(sent) - Len(fifo)
           m == Head(fifo)
<1>1. /\ Len(sent) \in Nat /\ Len(fifo) \in Nat /\ g \in Nat /\ Lower \in 1..g + 1
  BY Lengths
<1>2. /\ Len(fifo) > 0 /\ m = fifo[1] /\ Len(fifo') = Len(fifo) - 1 /\ sent' = sent
      /\ \A i \in 1..Len(fifo) - 1 : fifo'[i] = fifo[i + 1]
  BY SeqFacts DEF TypeOK, IsrRead
<1>3. m = g + 1
  BY <1>1, <1>2 DEF OrderInv, Numbered
<1>4. Got' = Got \cup {m} /\ m \in Got' /\ \A x \in Got : x < m
  <2>1. Got = 1..g /\ Got' = 1..g + 1
    BY <1>1, <1>2 DEF Got
  <2> HIDE DEF g, m
  <2> QED
    BY <2>1, <1>1, <1>3
<1>5. Numbered'
  BY <1>1, <1>2 DEF OrderInv, Numbered
<1>6. UNCHANGED <<rpos, hand, tpc, handled, unclaimed>> /\ Lower' = Lower
  BY DEF IsrRead, Enqueue, taskVars, ringVars, Lower
<1>7. Gone'
  <2>1. dropped' \subseteq dropped \cup {m}
    BY DEF IsrRead, Enqueue
  <2> QED
    BY <2>1, <1>4, <1>6 DEF OrderInv, Gone
<1> HIDE DEF g, m
<1>8. CASE IsQFull
  <2>1. UNCHANGED <<buf, wpos>>
    BY <1>8 DEF IsrRead, Enqueue, ringVars
  <2>2. RingInOrder' /\ HandInOrder'
    BY <2>1, <1>4, <1>6 DEF OrderInv, RingInOrder, HandInOrder, Unread, Behind
  <2> QED
    BY <1>3, <1>4, <1>5, <1>7, <2>2 DEF OrderInv, g, m
<1>9. CASE ~IsQFull
  <2>1. buf' = [buf EXCEPT ![wpos] = m] /\ wpos' = NextQPos(wpos) /\ NextQPos(wpos) # rpos
    BY <1>9 DEF IsrRead, Enqueue, IsQFull, m
  <2>2. rpos \in 0..QLen /\ wpos \in 0..QLen /\ buf \in [0..QLen -> Ids]
    BY DEF TypeOK
  <2>3. /\ \A p \in 0..QLen : Unread(p)' <=> Unread(p) \/ p = wpos
        /\ ~Unread(wpos)
        /\ \A p \in 0..QLen : Unread(p) => Behind(p) < Behind(wpos)
    BY <2>1, <2>2, <1>6, RingGrow DEF Unread, Behind
  <2>4. \A p \in 0..QLen : Behind(p)' = Behind(p) /\ Behind(p) \in Int
    BY <1>6, <2>2, SizeAssumption DEF Behind, Far
  <2>5. buf'[wpos] = m /\ \A p \in 0..QLen : Unread(p) => buf'[p] = buf[p]
    BY <2>1, <2>2, <2>3
  <2>6. ASSUME NEW p \in 0..QLen, Unread(p)' PROVE buf'[p] \in Got' /\ Lower' <= buf'[p]
    <3>1. CASE p = wpos
      BY <3>1, <2>5, <1>1, <1>3, <1>4, <1>6 DEF g
    <3>2. CASE Unread(p)
      BY <3>2, <2>5, <1>4, <1>6 DEF OrderInv, RingInOrder
    <3> QED
      BY <2>3, <2>6, <3>1, <3>2
  <2>7. ASSUME NEW p \in 0..QLen, NEW q \in 0..QLen, Unread(p)', Unread(q)', Behind(p) < Behind(q)
        PROVE  buf'[p] < buf'[q]
    <3>1. CASE q = wpos
      <4>1. Unread(p)
        BY <2>3, <2>4, <2>7, <3>1
      <4> QED
        BY <3>1, <4>1, <2>5, <1>4 DEF OrderInv, RingInOrder
    <3>2. CASE q # wpos
      <4>1. Unread(q)
        BY <2>3, <2>7, <3>2
      <4>2. p # wpos
        BY <4>1, <2>3, <2>4, <2>7
      <4>3. Unread(p)
        BY <4>2, <2>3, <2>7
      <4> QED
        BY <4>1, <4>3, <2>5, <2>7 DEF OrderInv, RingInOrder
    <3> QED
      BY <3>1, <3>2
  <2>8. RingInOrder'
    BY <2>4, <2>6, <2>7 DEF RingInOrder
  <2>9. HandInOrder'
    <3>1. tpc = "advance" => rpos' # wpos' /\ hand = buf'[rpos]
      <4>1. rpos # wpos => Unread(rpos)
        BY <2>2, RingShrink DEF Unread
      <4> QED
        BY <4>1, <1>6, <2>1, <2>2, <2>5 DEF OrderInv, HandInOrder
    <3>2. ASSUME tpc \in {"call", "null"}
          PROVE  /\ hand \in Got' /\ Lower' <= hand
                 /\ \A p \in 0..QLen : Unread(p)' => hand < buf'[p]
      <4>1. hand \in Got /\ Lower <= hand /\ \A p \in 0..QLen : Unread(p) => hand < buf[p]
        BY <3>2 DEF OrderInv, HandInOrder
      <4> QED
        BY <4>1, <1>4, <1>6, <2>3, <2>5
    <3> QED
      BY <3>1, <3>2, <1>6 DEF OrderInv, HandInOrder
  <2> QED
    BY <1>3, <1>4, <1>5, <1>7, <2>8, <2>9 DEF OrderInv, g, m
<1> QED
  BY <1>8, <1>9

\* The tasklet reads a slot, and moves the read index.
LEMMA OrderTake ==
  ASSUME TypeOK, OrderInv, TaskletGet \/ TaskletAdvance
  PROVE  OrderInv'
<1>1. rpos \in 0..QLen /\ wpos \in 0..QLen
  BY DEF TypeOK
<1>2. UNCHANGED <<fifo, sent, buf, wpos, handled, dropped, unclaimed>>
  BY DEF TaskletGet, TaskletAdvance, fifoVars, ringVars, lossVars
<1>3. Numbered' /\ Gone' /\ Got' = Got /\ Lower' = Lower
  BY <1>2 DEF OrderInv, Numbered, Gone, Got, Lower
<1>4. CASE TaskletGet
  <2>1. rpos' = rpos /\ rpos # wpos /\ tpc' = "advance" /\ hand' = buf[rpos]
    BY <1>4 DEF TaskletGet, GotoT, ringVars, IsQEmpty
  <2>2. RingInOrder' /\ HandInOrder'
    BY <1>2, <1>3, <2>1 DEF OrderInv, RingInOrder, HandInOrder, Unread, Behind
  <2> QED
    BY <1>3, <2>2 DEF OrderInv
<1>5. CASE TaskletAdvance
  <2>1. /\ tpc = "advance" /\ tpc' = "call" /\ rpos' = NextQPos(rpos) /\ hand' = hand
        /\ rpos # wpos /\ hand = buf[rpos]
    BY <1>5 DEF TaskletAdvance, GotoT, OrderInv, HandInOrder
  <2>2. /\ \A p \in 0..QLen : Unread(p)' <=> Unread(p) /\ p # rpos
        /\ Unread(rpos)
        /\ \A p \in 0..QLen : Unread(p) /\ p # rpos => Behind(rpos) < Behind(p)
        /\ \A p, q \in 0..QLen : p # rpos /\ q # rpos /\ Behind(p)' < Behind(q)'
                                    => Behind(p) < Behind(q)
    BY <1>1, <1>2, <2>1, RingShrink DEF Unread, Behind
  <2>3. RingInOrder'
    BY <1>2, <1>3, <2>2 DEF OrderInv, RingInOrder
  <2>4. hand \in Got /\ Lower <= hand
    BY <1>1, <2>1, <2>2 DEF OrderInv, RingInOrder
  <2>5. \A p \in 0..QLen : Unread(p)' => hand < buf[p]
    BY <1>1, <2>1, <2>2 DEF OrderInv, RingInOrder
  <2>6. HandInOrder'
    BY <1>2, <1>3, <2>1, <2>4, <2>5 DEF HandInOrder
  <2> QED
    BY <1>3, <2>3, <2>6 DEF OrderInv
<1> QED
  BY <1>4, <1>5

\* The tasklet gives its message away.
LEMMA OrderGive ==
  ASSUME TypeOK, OrderInv, TaskletCall \/ TaskletNoCallback
  PROVE  OrderInv'
<1>1. UNCHANGED <<fifo, sent, buf, rpos, wpos, dropped>> /\ tpc = "call"
  BY DEF TaskletCall, TaskletNoCallback, fifoVars, ringVars, lossVars, GotoT
<1>2. Numbered' /\ Got' = Got
  BY <1>1 DEF OrderInv, Numbered, Got
<1>3. hand \in Got /\ Lower <= hand /\ \A p \in 0..QLen : Unread(p) => hand < buf[p]
  BY <1>1 DEF OrderInv, HandInOrder
<1>4. \A p \in 0..QLen : (Unread(p)' <=> Unread(p)) /\ Behind(p)' = Behind(p)
  BY <1>1 DEF Unread, Behind
<1>5. CASE TaskletCall /\ appCb
  <2>1. /\ handled' = Append(handled, hand) /\ hand' = NoMsg /\ tpc' = "loop"
        /\ unclaimed' = unclaimed
    BY <1>5 DEF TaskletCall, GotoT, lossVars
  <2>2. /\ Len(handled) \in Nat /\ Len(handled') = Len(handled) + 1
        /\ handled'[Len(handled) + 1] = hand
        /\ \A i \in 1..Len(handled) : handled'[i] = handled[i]
    BY <2>1, SeqFacts DEF TypeOK
  <2>3. handled' # <<>>
    BY <2>2
  <2>4. Lower' = hand + 1
    BY <2>2, <2>3 DEF Lower
  <2>5. Lower \in Nat /\ hand \in Nat /\ Got \subseteq Nat
    BY <1>3, Lengths DEF Got
  <2>6. RingInOrder'
    <3>1. ASSUME NEW p \in 0..QLen, Unread(p) PROVE Lower' <= buf[p]
      <4>1. buf[p] \in Nat /\ hand < buf[p]
        BY <3>1, <1>3, <2>5 DEF OrderInv, RingInOrder
      <4> QED
        BY <4>1, <2>4, <2>5
    <3> QED
      BY <3>1, <1>1, <1>2, <1>4 DEF OrderInv, RingInOrder
  <2>7. Gone'
    <3>1. ASSUME NEW i \in 1..Len(handled') PROVE handled'[i] \in Got /\ handled'[i] < hand + 1
      <4>1. CASE i = Len(handled) + 1
        BY <4>1, <2>2, <1>3, <2>5
      <4>2. CASE i \in 1..Len(handled)
        <5>1. handled'[i] \in Got /\ handled'[i] < Lower
          BY <4>2, <2>2 DEF OrderInv, Gone
        <5>2. handled'[i] \in Nat
          BY <5>1, <2>5
        <5>3. handled'[i] < hand + 1
          BY <5>1, <5>2, <1>3, <2>5
        <5> QED
          BY <5>1, <5>3
      <4> QED
        BY <4>1, <4>2, <2>2
    <3> QED
      BY <3>1, <2>1, <2>4, <1>1, <1>2 DEF OrderInv, Gone
  <2>8. HandInOrder'
    BY <2>1 DEF HandInOrder
  <2> QED
    BY <1>2, <2>6, <2>7, <2>8 DEF OrderInv
<1>6. CASE TaskletCall /\ ~appCb
  <2>1. UNCHANGED <<handled, hand, unclaimed>> /\ tpc' = "null"
    BY <1>6 DEF TaskletCall, GotoT, lossVars
  <2>2. RingInOrder' /\ Gone' /\ HandInOrder'
    BY <1>1, <1>2, <1>3, <1>4, <2>1 DEF OrderInv, RingInOrder, Gone, HandInOrder, Lower
  <2> QED
    BY <1>2, <2>2 DEF OrderInv
<1>7. CASE TaskletNoCallback
  <2>1. handled' = handled /\ unclaimed' = unclaimed \cup {hand} /\ hand' = NoMsg /\ tpc' = "loop"
    BY <1>7 DEF TaskletNoCallback, GotoT
  <2>2. RingInOrder' /\ Gone' /\ HandInOrder'
    BY <1>1, <1>2, <1>3, <1>4, <2>1 DEF OrderInv, RingInOrder, Gone, HandInOrder, Lower
  <2> QED
    BY <1>2, <2>2 DEF OrderInv
<1> QED
  BY <1>5, <1>6, <1>7

\* Steps other than those of the messages' way.
Aside == IsrEnter \/ IsrNoMem \/ IsrEmpty \/ IsrExit \/ TaskletRun \/ TaskletEmpty \/ Process
           \/ UNCHANGED vars

\* They move no message.
LEMMA AsideFrame ==
  ASSUME Aside
  PROVE  /\ UNCHANGED orderVars
         /\ tpc' = tpc \/ (tpc \in {"idle", "loop", "return"} /\ tpc' \in {"idle", "loop", "return"})
<1> USE DEF orderVars, fifoVars, isrVars, ringVars, taskVars, procVars, lossVars
<1>1. CASE IsrEnter \/ IsrNoMem \/ IsrEmpty \/ IsrExit
  BY <1>1 DEF IsrEnter, IsrNoMem, IsrEmpty, IsrExit
<1>2. CASE TaskletRun \/ TaskletEmpty
  BY <1>2 DEF TaskletRun, TaskletEmpty, GotoT
<1>3. CASE Process
  BY <1>3 DEF Process, Register, RegisterDriver, Unregister, UnregisterDriver, procOnly
<1>4. CASE UNCHANGED vars
  BY <1>4 DEF vars
<1> QED
  BY <1>1, <1>2, <1>3, <1>4 DEF Aside

\* Every step keeps the order.
LEMMA OrderStep ==
  ASSUME TypeOK, OrderInv, [Next]_vars
  PROVE  OrderInv'
<1>1. CASE Aside
  BY <1>1, AsideFrame, OrderFrame
<1> QED
  BY <1>1, OrderSend, OrderRead, OrderTake, OrderGive DEF Next, Isr, Tasklet, Aside

\* The order holds at the start.
LEMMA OrderInit == Init => OrderInv
<1> SUFFICES ASSUME Init PROVE OrderInv
  OBVIOUS
<1>1. Len(sent) = 0 /\ Len(fifo) = 0 /\ Len(handled) = 0 /\ handled = <<>>
  BY DEF Init
<1>2. Numbered
  BY <1>1, SizeAssumption DEF Numbered
<1>3. RingInOrder
  BY DEF Init, RingInOrder, Unread, Between
<1>4. HandInOrder /\ Gone
  BY <1>1 DEF Init, HandInOrder, Gone
<1> QED
  BY <1>2, <1>3, <1>4 DEF OrderInv

\* A step of the receive path is a step of the channel, or none.
LEMMA ChannelStep ==
  ASSUME TypeOK, OrderInv, [Next]_vars
  PROVE  [Channel!Next]_<<sent, handled, Lower>>
<1>1. CASE Send
  <2>1. handled' = handled /\ Lower' = Lower
    BY <1>1 DEF Send, Lower
  <2>2. sent' = Append(sent, Len(sent) + 1) /\ Len(sent) + 1 \in 1..MaxMsgs
    BY <1>1, SeqFacts, SizeAssumption DEF Send, TypeOK
  <2> QED
    BY <2>1, <2>2 DEF Channel!Next, Channel!Accept, Lower
<1>2. CASE TaskletCall /\ appCb
  <2>1. sent' = sent /\ handled' = Append(handled, hand) /\ tpc = "call"
    BY <1>2 DEF TaskletCall, GotoT, fifoVars
  <2>2. hand \in Got /\ Lower <= hand
    BY <2>1 DEF OrderInv, HandInOrder
  <2>3. Len(sent) \in Nat /\ Len(fifo) \in Nat /\ Lower \in Nat
    BY Lengths
  <2>4. hand \in 1..Len(sent) /\ sent[hand] = hand
    BY <2>2, <2>3 DEF Got, OrderInv, Numbered
  <2>5. handled' # <<>> /\ handled'[Len(handled')] = hand
    <3>1. Len(handled) \in Nat /\ Len(handled') = Len(handled) + 1 /\ handled'[Len(handled) + 1] = hand
      BY <2>1, SeqFacts DEF TypeOK
    <3> QED
      BY <3>1
  <2>6. Lower' = hand + 1
    BY <2>5 DEF Lower
  <2>7. CASE hand = Lower
    BY <2>1, <2>4, <2>6, <2>7 DEF Channel!Next, Channel!Deliver, Lower
  <2>8. CASE hand # Lower
    <3>1. hand \in Lower + 1..Len(sent)
      BY <2>2, <2>3, <2>4, <2>8
    <3> QED
      BY <2>1, <2>4, <2>6, <3>1 DEF Channel!Next, Channel!Skip, Lower
  <2> QED
    BY <2>7, <2>8
<1>3. CASE Aside \/ IsrRead \/ TaskletGet \/ TaskletAdvance \/ TaskletNoCallback
           \/ (TaskletCall /\ ~appCb)
  <2>1. CASE Aside
    BY <2>1, AsideFrame DEF orderVars, Lower
  <2>2. CASE IsrRead \/ TaskletGet \/ TaskletAdvance \/ TaskletNoCallback
             \/ (TaskletCall /\ ~appCb)
    BY <2>2 DEF IsrRead, TaskletGet, TaskletAdvance, TaskletNoCallback, TaskletCall, fifoVars, Lower
  <2> QED
    BY <1>3, <2>1, <2>2
<1> QED
  BY <1>1, <1>2, <1>3 DEF Next, Isr, Tasklet, Aside

\* The receive path implements a lossy channel for every size: the callback gets
\* messages that were sent, in the order of sending, each at most once.
THEOREM ReceivePathIsChannel == Spec => IsLossyChannel
<1>1. Init => Channel!Init
  BY DEF Init, Channel!Init
<1>2. Spec => []TypeOK
  BY TypeCorrect
<1>3. TypeOK /\ OrderInv /\ [Next]_vars => [Channel!Next]_<<sent, handled, Lower>>
  BY ChannelStep
<1> QED
  BY <1>1, <1>2, <1>3, OrderInit, OrderStep, PTL DEF Spec, IsLossyChannel, Channel!Spec, Lower

-----------------------------------------------------------------------------
(* Where the messages are                                                  *)

Names == {"fifo", "ring", "hand", "handled", "dropped", "unclaimed"}

\* Message m is in place x and in no other.
Sits(m, x) ==
  /\ x \in Names
  /\ InFifo(m) <=> x = "fifo"
  /\ InRing(m) <=> x = "ring"
  /\ hand = m <=> x = "hand"
  /\ Handled(m) <=> x = "handled"
  /\ m \in dropped <=> x = "dropped"
  /\ m \in unclaimed <=> x = "unclaimed"

\* The predicate says what the set does.
LEMMA SitsIs ==
  ASSUME NEW m, NEW x, Sits(m, x)
  PROVE  Places(m) = {x}
<1> HIDE DEF InFifo, InRing, Handled
<1>1. CASE x = "fifo"
  BY <1>1 DEF Places, Sits
<1>2. CASE x = "ring"
  BY <1>2 DEF Places, Sits
<1>3. CASE x = "hand"
  BY <1>3 DEF Places, Sits
<1>4. CASE x = "handled"
  BY <1>4 DEF Places, Sits
<1>5. CASE x = "dropped"
  BY <1>5 DEF Places, Sits
<1>6. CASE x = "unclaimed"
  BY <1>6 DEF Places, Sits
<1> QED
  BY <1>1, <1>2, <1>3, <1>4, <1>5, <1>6 DEF Sits, Names

\* Every message sent is in one place.
Accounted == \A m \in 1..Len(sent) : \E x : Sits(m, x)

\* Steps beside the messages' way, and the move of the read index, which comes
\* after the message was taken.
LEMMA AccountStay ==
  ASSUME TypeOK, OrderInv, Accounted, Aside \/ TaskletAdvance \/ (TaskletCall /\ ~appCb)
  PROVE  Accounted'
<1>1. UNCHANGED <<fifo, sent, buf, wpos, hand, handled, dropped, unclaimed>>
  BY AsideFrame DEF orderVars, TaskletAdvance, TaskletCall, fifoVars, ringVars, lossVars
<1>2. \A p \in 0..QLen : Live(p)' <=> Live(p)
  <2>1. CASE TaskletAdvance
    <3>1. /\ tpc = "advance" /\ tpc' = "call" /\ rpos' = NextQPos(rpos) /\ rpos # wpos
      BY <2>1 DEF TaskletAdvance, GotoT, OrderInv, HandInOrder
    <3>2. \A p \in 0..QLen : Between(p, NextQPos(rpos), wpos) <=> Between(p, rpos, wpos) /\ p # rpos
      BY <3>1, RingShrink DEF TypeOK
    <3>3. \A p \in 0..QLen : Live(p) <=> Between(p, rpos, wpos) /\ p # rpos
      BY <3>1 DEF Live, Between
    <3>4. \A p \in 0..QLen : Live(p)' <=> Between(p, NextQPos(rpos), wpos)
      BY <1>1, <3>1 DEF Live, Between
    <3> QED
      BY <3>2, <3>3, <3>4
  <2>2. CASE Aside \/ (TaskletCall /\ ~appCb)
    <3>1. rpos' = rpos /\ (tpc' = "advance" <=> tpc = "advance")
      BY <2>2, AsideFrame DEF orderVars, TaskletCall, GotoT, ringVars
    <3> QED
      BY <1>1, <3>1 DEF Live
  <2> QED
    BY <2>1, <2>2
<1>3. \A m : (InFifo(m)' <=> InFifo(m)) /\ (InRing(m)' <=> InRing(m)) /\ (Handled(m)' <=> Handled(m))
  BY <1>1, <1>2 DEF InFifo, InRing, Handled
<1>4. ASSUME NEW m \in 1..Len(sent) PROVE \E x : Sits(m, x)'
  <2>1. PICK x : Sits(m, x)
    BY DEF Accounted
  <2>2. Sits(m, x)'
    BY <1>1, <1>3, <2>1 DEF Sits
  <2> QED
    BY <2>2
<1> QED
  BY <1>1, <1>4 DEF Accounted

\* The tasklet gives its message to the callback, or to nobody.
LEMMA AccountGive ==
  ASSUME TypeOK, OrderInv, Accounted, (TaskletCall /\ appCb) \/ TaskletNoCallback
  PROVE  Accounted'
<1>1. /\ UNCHANGED <<fifo, sent, buf, rpos, wpos, dropped>> /\ tpc = "call" /\ tpc' = "loop"
      /\ hand' = NoMsg
  BY DEF TaskletCall, TaskletNoCallback, fifoVars, ringVars, lossVars, GotoT
<1>0. PICK h : h = hand
  OBVIOUS
<1>2. h \in Got /\ Got \subseteq 1..Len(sent) /\ h \in Ids
  BY <1>0, <1>1, Lengths DEF OrderInv, HandInOrder, Got, TypeOK
<1>3. \A m : (InFifo(m)' <=> InFifo(m)) /\ (InRing(m)' <=> InRing(m))
  BY <1>1 DEF InFifo, InRing, Live
<1>4. Sits(h, "hand")
  BY <1>0, <1>2 DEF Accounted, Sits
<1>5. CASE TaskletCall /\ appCb
  <2>1. handled' = Append(handled, hand) /\ unclaimed' = unclaimed
    BY <1>5 DEF TaskletCall, lossVars
  <2>2. /\ Len(handled') = Len(handled) + 1 /\ handled'[Len(handled) + 1] = hand
        /\ \A i \in 1..Len(handled) : handled'[i] = handled[i]
        /\ Len(handled) \in Nat
    BY <1>2, <2>1, <1>0, SeqFacts DEF TypeOK
  <2>3. \A m : Handled(m)' <=> Handled(m) \/ m = h
    BY <1>0, <2>2 DEF Handled
  <2>4. Sits(h, "handled")'
    BY <1>0, <1>1, <1>2, <1>3, <1>4, <2>1, <2>3 DEF Sits, Names, NoMsg
  <2>5. ASSUME NEW m \in 1..Len(sent), m # h PROVE \E x : Sits(m, x)'
    <3>1. PICK x : Sits(m, x)
      BY DEF Accounted
    <3>2. Sits(m, x)'
      BY <1>0, <1>1, <1>3, <2>1, <2>3, <2>5, <3>1 DEF Sits, NoMsg
    <3> QED
      BY <3>2
  <2> QED
    BY <1>1, <2>4, <2>5 DEF Accounted
<1>6. CASE TaskletNoCallback
  <2>1. handled' = handled /\ unclaimed' = unclaimed \cup {hand}
    BY <1>6 DEF TaskletNoCallback
  <2>2. \A m : Handled(m)' <=> Handled(m)
    BY <2>1 DEF Handled
  <2>3. Sits(h, "unclaimed")'
    BY <1>0, <1>1, <1>2, <1>3, <1>4, <2>1, <2>2 DEF Sits, Names, NoMsg
  <2>4. ASSUME NEW m \in 1..Len(sent), m # h PROVE \E x : Sits(m, x)'
    <3>1. PICK x : Sits(m, x)
      BY DEF Accounted
    <3>2. Sits(m, x)'
      BY <1>0, <1>1, <1>3, <2>1, <2>2, <2>4, <3>1 DEF Sits, NoMsg
    <3> QED
      BY <3>2
  <2> QED
    BY <1>1, <2>3, <2>4 DEF Accounted
<1> QED
  BY <1>5, <1>6

\* The last n - k of n numbers, in order, are those above k.
LEMMA FifoHas ==
  ASSUME NEW f \in Seq(Ids), NEW n \in Nat, Len(f) <= n,
         \A i \in 1..Len(f) : f[i] = n - Len(f) + i, NEW m
  PROVE  (\E i \in 1..Len(f) : f[i] = m) <=> m \in n - Len(f) + 1..n
<1>1. Len(f) \in Nat
  OBVIOUS
<1>2. ASSUME m \in n - Len(f) + 1..n PROVE \E i \in 1..Len(f) : f[i] = m
  <2>1. m - (n - Len(f)) \in 1..Len(f)
    BY <1>1, <1>2
  <2>2. f[m - (n - Len(f))] = n - Len(f) + (m - (n - Len(f)))
    BY <2>1
  <2> QED
    BY <1>1, <1>2, <2>1, <2>2
<1> QED
  BY <1>1, <1>2

\* The sender's new message is in the FIFO and nowhere else.
LEMMA AccountSend ==
  ASSUME TypeOK, OrderInv, Accounted, Send
  PROVE  Accounted'
<1>0. PICK n : n = Len(sent) + 1
  OBVIOUS
<1>1. /\ Len(sent) \in Nat /\ Len(fifo) \in Nat /\ Len(sent) - Len(fifo) \in Nat
      /\ Len(sent) + 1 \in Ids
  BY Lengths, SizeAssumption DEF Send, Ids
<1>2. /\ UNCHANGED <<buf, rpos, wpos, hand, tpc, handled, dropped, unclaimed>>
      /\ Len(sent') = Len(sent) + 1
  BY <1>1, SeqFacts DEF TypeOK, Send, ringVars, taskVars, lossVars
<1>3. /\ Len(fifo') = Len(fifo) + 1 /\ fifo'[Len(fifo) + 1] = n
      /\ \A i \in 1..Len(fifo) : fifo'[i] = fifo[i]
  BY <1>0, <1>1, SeqFacts DEF TypeOK, Send
<1>4. \A m : InFifo(m)' <=> InFifo(m) \/ m = n
  BY <1>1, <1>3 DEF InFifo
<1>5. \A m : (InRing(m)' <=> InRing(m)) /\ (Handled(m)' <=> Handled(m))
  BY <1>2 DEF InRing, Live, Handled
<1>6. n \notin Got /\ n # NoMsg
  BY <1>0, <1>1 DEF Got, NoMsg
<1>7. /\ ~InRing(n) /\ ~Handled(n) /\ n \notin dropped /\ n \notin unclaimed
  <2>1. \A p \in 0..QLen : Live(p) => Unread(p)
    BY DEF Live, Unread, Between
  <2> QED
    BY <1>6, <2>1 DEF InRing, Handled, OrderInv, RingInOrder, Gone
<1>8. hand # n
  <2>1. CASE tpc = "advance"
    <3>1. Unread(rpos) /\ rpos \in 0..QLen
      BY <2>1, RingShrink DEF TypeOK, Unread, OrderInv, HandInOrder
    <3> QED
      BY <1>6, <2>1, <3>1 DEF OrderInv, HandInOrder, RingInOrder
  <2>2. CASE tpc # "advance"
    BY <1>6, <2>2 DEF OrderInv, HandInOrder, TypeOK
  <2> QED
    BY <2>1, <2>2
<1>9. Sits(n, "fifo")'
  BY <1>2, <1>4, <1>5, <1>7, <1>8 DEF Sits, Names
<1>10. ASSUME NEW m \in 1..Len(sent) PROVE \E x : Sits(m, x)'
  <2>1. PICK x : Sits(m, x)
    BY DEF Accounted
  <2>2. m # n
    BY <1>0, <1>1
  <2>3. Sits(m, x)'
    BY <1>2, <1>4, <1>5, <2>1, <2>2 DEF Sits
  <2> QED
    BY <2>3
<1>11. \A m \in 1..Len(sent') : m \in 1..Len(sent) \/ m = n
  BY <1>0, <1>1, <1>2
<1> QED
  BY <1>9, <1>10, <1>11 DEF Accounted

\* The tasklet takes the oldest message of the ring in its hand.
LEMMA AccountGet ==
  ASSUME TypeOK, OrderInv, Accounted, TaskletGet
  PROVE  Accounted'
<1>0. PICK h : h = buf[rpos]
  OBVIOUS
<1>1. /\ UNCHANGED <<fifo, sent, buf, rpos, wpos, handled, dropped, unclaimed>>
      /\ rpos # wpos /\ tpc = "loop" /\ tpc' = "advance" /\ hand' = h
  BY <1>0 DEF TaskletGet, GotoT, fifoVars, ringVars, lossVars, IsQEmpty
<1>2. rpos \in 0..QLen /\ wpos \in 0..QLen /\ buf \in [0..QLen -> Ids] /\ hand = NoMsg
  BY <1>1 DEF TypeOK, OrderInv, HandInOrder
<1>3. Unread(rpos) /\ \A p \in 0..QLen : Unread(p) /\ p # rpos => Behind(rpos) < Behind(p)
  BY <1>1, <1>2, RingShrink DEF Unread, Behind
<1>4. \A p \in 0..QLen : (Live(p) <=> Unread(p)) /\ (Live(p)' <=> Unread(p) /\ p # rpos)
  BY <1>1 DEF Live, Unread, Between
<1>5. h \in Got /\ \A p \in 0..QLen : Unread(p) /\ p # rpos => h < buf[p]
  BY <1>0, <1>2, <1>3 DEF OrderInv, RingInOrder
<1>6. /\ h \in 1..Len(sent) /\ h \in Nat
  BY <1>5, Lengths DEF Got
<1>7. InRing(h) /\ ~InRing(h)'
  <2>1. \A p \in 0..QLen : Unread(p) /\ p # rpos => buf[p] # h
    BY <1>2, <1>5, <1>6 DEF Ids
  <2> QED
    BY <1>0, <1>1, <1>2, <1>3, <1>4, <2>1 DEF InRing
<1>8. \A m : m # h => (InRing(m)' <=> InRing(m))
  BY <1>0, <1>1, <1>4 DEF InRing
<1>9. \A m : (InFifo(m)' <=> InFifo(m)) /\ (Handled(m)' <=> Handled(m))
  BY <1>1 DEF InFifo, Handled
<1>10. Sits(h, "ring")
  BY <1>6, <1>7 DEF Accounted, Sits
<1>11. Sits(h, "hand")'
  BY <1>1, <1>7, <1>9, <1>10 DEF Sits, Names
<1>12. ASSUME NEW m \in 1..Len(sent), m # h PROVE \E x : Sits(m, x)'
  <2>1. PICK x : Sits(m, x)
    BY DEF Accounted
  <2>2. m # NoMsg
    BY Lengths DEF NoMsg
  <2>3. Sits(m, x)'
    BY <1>1, <1>2, <1>8, <1>9, <1>12, <2>1, <2>2 DEF Sits
  <2> QED
    BY <2>3
<1> QED
  BY <1>1, <1>11, <1>12 DEF Accounted

\* The handler moves the oldest message of the FIFO to the ring, or drops it.
LEMMA AccountRead ==
  ASSUME TypeOK, TypeOK', OrderInv, Accounted, IsrRead
  PROVE  Accounted'
<1>0. PICK h : h = Head(fifo)
  OBVIOUS
<1>1. /\ h = Len(sent) - Len(fifo) + 1 /\ Numbered /\ Numbered'
  BY <1>0, OrderRead DEF OrderInv
<1>2. /\ UNCHANGED <<sent, rpos, hand, tpc, handled, unclaimed>>
  BY DEF IsrRead, Enqueue, taskVars, ringVars
<1>3. /\ Len(sent) \in Nat /\ Len(fifo) \in Nat /\ Len(fifo) > 0 /\ Len(fifo) <= Len(sent)
      /\ Len(fifo') = Len(fifo) - 1
  BY <1>1, SeqFacts, Lengths DEF TypeOK, IsrRead, Numbered
<1>4. /\ \A m : InFifo(m) <=> m \in Len(sent) - Len(fifo) + 1..Len(sent)
      /\ \A m : InFifo(m)' <=> m \in Len(sent) - Len(fifo) + 2..Len(sent)
  <2>1. ASSUME NEW m PROVE InFifo(m) <=> m \in Len(sent) - Len(fifo) + 1..Len(sent)
    BY <1>1, <1>3, FifoHas DEF InFifo, Numbered, TypeOK
  <2>2. ASSUME NEW m
        PROVE  (\E i \in 1..Len(fifo') : fifo'[i] = m) <=> m \in Len(sent) - Len(fifo') + 1..Len(sent)
    <3>1. fifo' \in Seq(Ids) /\ Len(fifo') <= Len(sent)
          /\ \A i \in 1..Len(fifo') : fifo'[i] = Len(sent) - Len(fifo') + i
      BY <1>1, <1>2, <1>3 DEF Numbered, TypeOK
    <3> QED
      BY <1>3, <3>1, FifoHas
  <2>3. Len(sent) - Len(fifo') + 1 = Len(sent) - Len(fifo) + 2
    BY <1>3
  <2> QED
    BY <2>1, <2>2, <2>3 DEF InFifo
<1>5. InFifo(h) /\ ~InFifo(h)' /\ \A m : m # h => (InFifo(m)' <=> InFifo(m))
  <2>1. /\ h \in Len(sent) - Len(fifo) + 1..Len(sent)
        /\ h \notin Len(sent) - Len(fifo) + 2..Len(sent)
        /\ \A m : m # h => (m \in Len(sent) - Len(fifo) + 1..Len(sent)
                              <=> m \in Len(sent) - Len(fifo) + 2..Len(sent))
    BY <1>1, <1>3
  <2> QED
    BY <1>4, <2>1
<1>6. h \in 1..Len(sent)
  BY <1>1, <1>3
<1>7. Sits(h, "fifo")
  BY <1>5, <1>6 DEF Accounted, Sits
<1>8. \A m : Handled(m)' <=> Handled(m)
  BY <1>2 DEF Handled
<1>9. CASE IsQFull
  <2>1. dropped' = dropped \cup {h} /\ UNCHANGED <<buf, wpos>>
    BY <1>0, <1>9 DEF IsrRead, Enqueue, ringVars
  <2>2. \A m : InRing(m)' <=> InRing(m)
    BY <1>2, <2>1 DEF InRing, Live
  <2>3. Sits(h, "dropped")'
    BY <1>2, <1>5, <1>7, <1>8, <2>1, <2>2 DEF Sits, Names
  <2>4. ASSUME NEW m \in 1..Len(sent), m # h PROVE \E x : Sits(m, x)'
    <3>1. PICK x : Sits(m, x)
      BY DEF Accounted
    <3>2. Sits(m, x)'
      BY <1>2, <1>5, <1>8, <2>1, <2>2, <2>4, <3>1 DEF Sits
    <3> QED
      BY <3>2
  <2> QED
    BY <1>2, <2>3, <2>4 DEF Accounted
<1>10. CASE ~IsQFull
  <2>1. /\ dropped' = dropped /\ buf' = [buf EXCEPT ![wpos] = h] /\ wpos' = NextQPos(wpos)
        /\ NextQPos(wpos) # rpos
    BY <1>0, <1>10 DEF IsrRead, Enqueue, IsQFull
  <2>2. rpos \in 0..QLen /\ wpos \in 0..QLen /\ buf \in [0..QLen -> Ids]
    BY DEF TypeOK
  <2>3. /\ \A p \in 0..QLen : Between(p, rpos, NextQPos(wpos)) <=> Between(p, rpos, wpos) \/ p = wpos
        /\ ~Between(wpos, rpos, wpos)
    BY <2>1, <2>2, RingGrow
  <2>4. ~(wpos = rpos /\ tpc = "advance")
    BY DEF OrderInv, HandInOrder
  <2>5. /\ \A p \in 0..QLen : Live(p) <=> Between(p, rpos, wpos) /\ ~(p = rpos /\ tpc = "advance")
        /\ \A p \in 0..QLen : Live(p)' <=> /\ Between(p, rpos, NextQPos(wpos))
                                           /\ ~(p = rpos /\ tpc = "advance")
    BY <1>2, <2>1 DEF Live, Between
  <2>6. /\ \A p \in 0..QLen : Live(p)' <=> Live(p) \/ p = wpos
        /\ ~Live(wpos)
    BY <2>2, <2>3, <2>4, <2>5
  <2>7. /\ buf'[wpos] = h /\ \A p \in 0..QLen : p # wpos => buf'[p] = buf[p]
    BY <2>1, <2>2
  <2>8. InRing(h)' /\ \A m : m # h => (InRing(m)' <=> InRing(m))
    BY <2>2, <2>6, <2>7 DEF InRing
  <2>9. Sits(h, "ring")'
    BY <1>2, <1>5, <1>7, <1>8, <2>1, <2>8 DEF Sits, Names
  <2>10. ASSUME NEW m \in 1..Len(sent), m # h PROVE \E x : Sits(m, x)'
    <3>1. PICK x : Sits(m, x)
      BY DEF Accounted
    <3>2. Sits(m, x)'
      BY <1>2, <1>5, <1>8, <2>1, <2>8, <2>10, <3>1 DEF Sits
    <3> QED
      BY <3>2
  <2> QED
    BY <1>2, <2>9, <2>10 DEF Accounted
<1> QED
  BY <1>9, <1>10

\* Every message sent is in exactly one place: in the FIFO, in the ring, in the
\* tasklet's hand, handled, dropped by the full ring or freed without callback.
\* The handler may interrupt the tasklet between any two of its accesses.
THEOREM AlwaysAccounted == Spec => []AccountedOnce
<1>1. Init => Accounted
  BY DEF Init, Accounted
<1>2. TypeOK /\ TypeOK' /\ OrderInv /\ Accounted /\ [Next]_vars => Accounted'
  <2> SUFFICES ASSUME TypeOK, TypeOK', OrderInv, Accounted, [Next]_vars PROVE Accounted'
    OBVIOUS
  <2> QED
    BY AccountStay, AccountGive, AccountSend, AccountGet, AccountRead DEF Next, Isr, Tasklet, Aside
<1>3. Accounted => AccountedOnce
  BY SitsIs, FS_Singleton DEF Accounted, AccountedOnce
<1>4. Spec => []TypeOK
  BY TypeCorrect
<1> QED
  BY <1>1, <1>2, <1>3, <1>4, OrderInit, OrderStep, PTL DEF Spec
=============================================================================
