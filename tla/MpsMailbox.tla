----------------------------- MODULE MpsMailbox ------------------------------
(***************************************************************************)
(* The receiving side of one mailbox on one core (mps_tpe_device.c): the   *)
(* interrupt handler empties the FIFO into the ring mps_rcvDataMsgQ (or    *)
(* mps_rcvCmdMsgQ), the tasklet takes messages from the ring and calls the *)
(* callback of the service, and a process registers and unregisters that   *)
(* callback (mps_tpe_linux.c).                                             *)
(*                                                                         *)
(* The three contexts share one processor: the handler interrupts both     *)
(* others, the tasklet interrupts the process.  Only the sending core,     *)
(* which fills the FIFO, runs beside them.  The FIFO is the channel of     *)
(* MpsChannel here; MpsFifo looks inside it.                               *)
(***************************************************************************)
EXTENDS Naturals, Sequences, FiniteSets

CONSTANTS
  QLen,          \* MAX_MPS_DATAMSG_QLEN
  FifoCap,       \* messages the FIFO holds
  MaxMsgs,       \* bound: messages sent in a behaviour
  MayFail,       \* kmalloc(GFP_ATOMIC) may fail in the handler
  MayUnregister  \* the callback may be unregistered

ASSUME SizeAssumption == QLen \in Nat \ {0} /\ FifoCap \in Nat /\ MaxMsgs \in Nat
ASSUME FlagAssumption == MayFail \in BOOLEAN /\ MayUnregister \in BOOLEAN

VARIABLES
  fifo, irq,          \* messages in the FIFO; the mailbox interrupt is pending
  ipc, any,           \* handler: where it is, num_msg # 0
  buf, rpos, wpos,    \* the ring
  sched, tpc, hand,   \* tasklet: scheduled, where it is, pMsg
  ppc, appCb, drvCb,  \* process; data_callback_funct[seq], callback_function[seq]
  sent,               \* history: messages the other core sent
  handled,            \* history: messages given to the service's callback
  dropped, unclaimed, \* history: ring was full; no callback was registered
  left                \* history: in the FIFO when the handler found no memory

fifoVars == <<fifo, irq, sent>>
isrVars  == <<ipc, any>>
ringVars == <<buf, rpos, wpos>>
taskVars == <<sched, tpc, hand>>
procVars == <<ppc, appCb, drvCb>>
lossVars == <<dropped, unclaimed, left>>
vars     == <<fifoVars, isrVars, ringVars, taskVars, procVars, handled, lossVars>>

NoMsg == 0

\* Fault: wraps one slot too late.
NextQPosLate(pos) == IF pos <= QLen THEN pos + 1 ELSE 0

\* The MPS_DATAMSG_* macros: QLen + 1 slots.
NextQPos(pos) == IF pos < QLen THEN pos + 1 ELSE 0

\* Fault: the ring is never found full.
IsQFullNever == FALSE

IsQFull == NextQPos(wpos) = rpos
IsQEmpty == rpos = wpos

\* mps_datamsg_queue_init.  No service has a callback yet.
Init ==
  /\ fifo = <<>> /\ irq = FALSE /\ sent = <<>>
  /\ ipc = "idle" /\ any = FALSE
  /\ buf = [p \in 0..QLen |-> NoMsg] /\ rpos = 0 /\ wpos = 0
  /\ sched = FALSE /\ tpc = "idle" /\ hand = NoMsg
  /\ ppc = "idle" /\ appCb = FALSE /\ drvCb = FALSE
  /\ handled = <<>> /\ dropped = {} /\ unclaimed = {} /\ left = {}

-----------------------------------------------------------------------------
(* The other core                                                          *)

Send ==
  /\ Len(sent) < MaxMsgs /\ Len(fifo) < FifoCap
  /\ sent' = Append(sent, Len(sent) + 1)
  /\ fifo' = Append(fifo, Len(sent) + 1)
  /\ irq' = TRUE
  /\ UNCHANGED <<isrVars, ringVars, taskVars, procVars, handled, lossVars>>

-----------------------------------------------------------------------------
(* The interrupt handler                                                   *)

\* The status is read and acknowledged before the FIFO is looked at.
IsrEnter ==
  /\ irq /\ ipc = "idle"
  /\ irq' = FALSE
  /\ ipc' = "loop" /\ any' = FALSE
  /\ UNCHANGED <<fifo, sent, ringVars, taskVars, procVars, handled, lossVars>>

\* mps_datamsg_enqueue_tail; if the ring is full the message's buffer is freed
\* and the message forgotten.  num_msg counts it all the same.
Enqueue(m) ==
  IF IsQFull
    THEN dropped' = dropped \cup {m} /\ UNCHANGED ringVars
    ELSE /\ buf' = [buf EXCEPT ![wpos] = m]
         /\ wpos' = NextQPos(wpos)
         /\ UNCHANGED <<rpos, dropped>>

\* One turn of the loop of _ifx_mpsdrv_mbx_read_*Msg.
IsrRead ==
  /\ ipc = "loop" /\ fifo # <<>>
  /\ Enqueue(Head(fifo))
  /\ fifo' = Tail(fifo)
  /\ any' = TRUE
  /\ UNCHANGED <<irq, sent, ipc, taskVars, procVars, handled, unclaimed, left>>

\* kmalloc fails: break, with the messages left where they are.
IsrNoMem ==
  /\ MayFail
  /\ ipc = "loop" /\ fifo # <<>>
  /\ ipc' = "exit"
  /\ left' = left \cup {fifo[i] : i \in 1..Len(fifo)}
  /\ UNCHANGED <<fifoVars, any, ringVars, taskVars, procVars, handled, dropped, unclaimed>>

IsrEmpty ==
  /\ ipc = "loop" /\ fifo = <<>>
  /\ ipc' = "exit"
  /\ UNCHANGED <<fifoVars, any, ringVars, taskVars, procVars, handled, lossVars>>

\* Fault: a tasklet that is running is not scheduled again.
IsrExitIfIdle ==
  /\ ipc = "exit" /\ ipc' = "idle"
  /\ sched' = (sched \/ (any /\ tpc = "idle"))
  /\ UNCHANGED <<fifoVars, any, ringVars, tpc, hand, procVars, handled, lossVars>>

\* tasklet_schedule if something was read.
IsrExit ==
  /\ ipc = "exit" /\ ipc' = "idle"
  /\ sched' = (sched \/ any)
  /\ UNCHANGED <<fifoVars, any, ringVars, tpc, hand, procVars, handled, lossVars>>

-----------------------------------------------------------------------------
(* The tasklet                                                             *)

GotoT(from, to) == ipc = "idle" /\ tpc = from /\ tpc' = to

\* The kernel clears the scheduled bit before it calls the tasklet.
TaskletRun ==
  /\ sched /\ sched' = FALSE
  /\ GotoT("idle", "loop")
  /\ UNCHANGED <<fifoVars, isrVars, ringVars, hand, procVars, handled, lossVars>>

\* mps_datamsg_dequeue_head: the ring is empty, so the tasklet returns (the
\* handler can interrupt it in between) ...
TaskletEmpty ==
  /\ \/ IsQEmpty /\ GotoT("loop", "return")
     \/ GotoT("return", "idle")
  /\ UNCHANGED <<fifoVars, isrVars, ringVars, sched, hand, procVars, handled, lossVars>>

\* ... or the item is read,
TaskletGet ==
  /\ ~IsQEmpty
  /\ GotoT("loop", "advance")
  /\ hand' = buf[rpos]
  /\ UNCHANGED <<fifoVars, isrVars, ringVars, sched, procVars, handled, lossVars>>

\* Fault: the read index is not moved.
TaskletNoAdvance ==
  /\ GotoT("advance", "call")
  /\ UNCHANGED <<fifoVars, isrVars, ringVars, sched, hand, procVars, handled, lossVars>>

\* and then the read index moved.
TaskletAdvance ==
  /\ GotoT("advance", "call")
  /\ rpos' = NextQPos(rpos)
  /\ UNCHANGED <<fifoVars, isrVars, buf, wpos, sched, hand, procVars, handled, lossVars>>

\* callback_function[seq] is ifx_mbx_data_rcv_callback, which calls the
\* service's function without a test.
TaskletCall ==
  /\ drvCb
  /\ IF appCb THEN GotoT("call", "loop") /\ handled' = Append(handled, hand)
              ELSE GotoT("call", "null") /\ UNCHANGED handled
  /\ hand' = IF appCb THEN NoMsg ELSE hand
  /\ UNCHANGED <<fifoVars, isrVars, ringVars, sched, procVars, lossVars>>

\* No callback: the message is freed; the buffer it names is not.
TaskletNoCallback ==
  /\ ~drvCb
  /\ GotoT("call", "loop")
  /\ unclaimed' = unclaimed \cup {hand}
  /\ hand' = NoMsg
  /\ UNCHANGED <<fifoVars, isrVars, ringVars, sched, procVars, handled, dropped, left>>

-----------------------------------------------------------------------------
(* The process that owns the service                                       *)

GotoP(from, to) == ipc = "idle" /\ tpc = "idle" /\ ppc = from /\ ppc' = to
procOnly == <<fifoVars, isrVars, ringVars, taskVars, handled, lossVars>>

\* Fault: the driver's pointer is set before the service's own.
RegisterDriverFirst ==
  /\ ~appCb
  /\ GotoP("idle", "registering")
  /\ drvCb' = TRUE
  /\ UNCHANGED <<procOnly, appCb>>

\* ifx_mps_register_callback sets its own pointer, then the driver's.
Register ==
  /\ ~appCb
  /\ GotoP("idle", "registering")
  /\ appCb' = TRUE
  /\ UNCHANGED <<procOnly, drvCb>>

RegisterDriver ==
  /\ GotoP("registering", "idle")
  /\ drvCb' = TRUE
  /\ UNCHANGED <<procOnly, appCb>>

\* ifx_mps_unregister_callback resets them in the same order.
Unregister ==
  /\ MayUnregister
  /\ appCb
  /\ GotoP("idle", "unregistering")
  /\ appCb' = FALSE
  /\ UNCHANGED <<procOnly, drvCb>>

UnregisterDriver ==
  /\ GotoP("unregistering", "idle")
  /\ drvCb' = FALSE
  /\ UNCHANGED <<procOnly, appCb>>

-----------------------------------------------------------------------------
Isr     == IsrEnter \/ IsrRead \/ IsrNoMem \/ IsrEmpty \/ IsrExit
Tasklet == TaskletRun \/ TaskletEmpty \/ TaskletGet \/ TaskletAdvance
             \/ TaskletCall \/ TaskletNoCallback
Process == Register \/ RegisterDriver \/ Unregister \/ UnregisterDriver

Next == Send \/ Isr \/ Tasklet \/ Process

Spec == Init /\ [][Next]_vars

\* A pending interrupt is taken and the handler ends; a scheduled tasklet runs
\* whenever the handler leaves the processor to it.  MaxMsgs bounds the
\* interrupts, so weak fairness is enough for both.
Fairness == WF_vars(Isr) /\ WF_vars(Tasklet)

FairSpec == Spec /\ Fairness

-----------------------------------------------------------------------------
(* Properties                                                              *)

Ids == 0..MaxMsgs

\* Both indices stay inside circular_buf[MAX_MPS_DATAMSG_QLEN + 1]; every other
\* variable has its type.
TypeOK ==
  /\ fifo \in Seq(Ids) /\ sent \in Seq(Ids) /\ irq \in BOOLEAN
  /\ ipc \in {"idle", "loop", "exit"} /\ any \in BOOLEAN
  /\ buf \in [0..QLen -> Ids] /\ rpos \in 0..QLen /\ wpos \in 0..QLen
  /\ sched \in BOOLEAN /\ hand \in Ids
  /\ tpc \in {"idle", "loop", "advance", "call", "null", "return"}
  /\ ppc \in {"idle", "registering", "unregistering"}
  /\ appCb \in BOOLEAN /\ drvCb \in BOOLEAN
  /\ handled \in Seq(Ids)
  /\ dropped \subseteq Ids /\ unclaimed \subseteq Ids /\ left \subseteq Ids

\* The slots whose message the tasklet has still to take.
Live(p) ==
  /\ IF rpos <= wpos THEN rpos <= p /\ p < wpos ELSE rpos <= p \/ p < wpos
  /\ ~(p = rpos /\ tpc = "advance")

InFifo(m)  == \E i \in 1..Len(fifo) : fifo[i] = m
InRing(m)  == \E p \in 0..QLen : Live(p) /\ buf[p] = m
Handled(m) == \E i \in 1..Len(handled) : handled[i] = m

\* Where message m is.
Places(m) ==
  {x \in {"fifo", "ring", "hand", "handled", "dropped", "unclaimed"} :
     CASE x = "fifo"      -> InFifo(m)
       [] x = "ring"      -> InRing(m)
       [] x = "hand"      -> hand = m
       [] x = "handled"   -> Handled(m)
       [] x = "dropped"   -> m \in dropped
       [] x = "unclaimed" -> m \in unclaimed}

\* Every message sent is in exactly one place, although the handler fills the
\* ring while it interrupts the tasklet that empties it.
AccountedOnce == \A m \in 1..Len(sent) : Cardinality(Places(m)) = 1

\* What was sent and what was handled, as the channel sees it.
Channel == INSTANCE MpsChannel WITH
             Msgs <- 1..MaxMsgs, Lossy <- TRUE, accepted <- sent, delivered <- handled,
             next <- IF handled = <<>> THEN 1 ELSE handled[Len(handled)] + 1

\* The callback gets messages in the order they were sent, each at most once,
\* whatever the full ring and the missing callback lose.
IsLossyChannel == Channel!Spec

\* No message stays in the FIFO or in the ring: the handler's last look at the
\* FIFO comes after the acknowledgement, and a tasklet that has just found the
\* ring empty is scheduled again.  What a failed kmalloc left in the FIFO waits
\* for another interrupt; a tasklet that called NULL takes nothing any more.
Settles ==
  \A m \in 1..MaxMsgs :
    InFifo(m) \/ InRing(m)
      ~> Handled(m) \/ m \in dropped \cup unclaimed \cup left \/ tpc = "null"

\* Between the two stores of ifx_mps_register_callback the tasklet may run, and
\* finds no callback, never a NULL one: only the window between the two stores
\* of ifx_mps_unregister_callback lets it call NULL.
NullOnlyUnregistering == tpc = "null" => ppc = "unregistering"
=============================================================================
