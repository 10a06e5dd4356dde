------------------------------- MODULE DmaCore -------------------------------
(***************************************************************************)
(* The central DMA (basic/dma-core.c) under the Ethernet driver of the     *)
(* packet processor (drivers/net/danube_ppa_eth_d2.c).  A channel is a     *)
(* ring of descriptors that the DMA engine and the CPU pass to each other  *)
(* with the OWN bit.  The engine raises the channel's interrupt; the       *)
(* handler only notes the channel in g_danube_dma_int_status and masks the *)
(* line, and one tasklet serves the noted channels by weight.              *)
(*                                                                         *)
(* One CPU, no preemption: an interrupt comes between any two steps unless *)
(* interrupts are off, the tasklet runs to its end before code outside     *)
(* softirqs goes on, and dma_device_write runs with interrupts off.  The   *)
(* DMA engine runs beside all of it.  The rings are modelled with the      *)
(* build that has the packet processor (ENABLE_DANUBE_ETHERNET_D2).        *)
(***************************************************************************)
EXTENDS Integers, FiniteSets

CONSTANTS
  Rx, Tx,         \* the numbers of the receive and transmit channels
  DescLen,        \* descriptors of a channel (desc_len)
  DefaultWeight,  \* DANUBE_DMA_CH_DEFAULT_WEIGHT
  Budget,         \* DMA_INT_BUDGET
  Ports,          \* the network devices that share the channels; 0 is eth0
  MayStop         \* whether a device is ever stopped and the DMA unregistered

Chan == Rx \cup Tx
Desc == 0..DescLen - 1
None == -1      \* no channel

ASSUME ChanAssumption ==
  Rx \subseteq Nat /\ Tx \subseteq Nat /\ Rx \cap Tx = {} /\ IsFiniteSet(Rx) /\ IsFiniteSet(Tx)
ASSUME SizeAssumption == DescLen \in Nat \ {0} /\ DefaultWeight \in Nat \ {0} /\ Budget \in Nat
ASSUME PortAssumption == Ports \subseteq {0, 1} /\ MayStop \in BOOLEAN

VARIABLES
  own, buf,          \* the descriptors: OWN and C, and what Data_Pointer points to
  curr, prev,        \* curr_desc and prev_desc
  hw,                \* the descriptor the DMA engine is at
  on,                \* the channels that are switched on in CCTRL
  cis, cie, icu,     \* latched events, events enabled (CIE), lines enabled in the ICU
  status,            \* g_danube_dma_int_status
  inProcess,         \* g_danube_dma_in_process
  scheduled,         \* the tasklet is scheduled
  pc, chan, budget,  \* the running tasklet
  weight,
  wr, wchan,         \* dma_device_write
  reg,               \* control == DANUBE_DMA_CH_ON
  up, queue,         \* f_dma_opened; whether eth0's queue may transmit
  bufs,              \* history: buffers the DMA core has to free or pass up
  lowmem             \* history: where a buffer could not be allocated

rings == <<own, buf, curr, prev, hw>>
regs == <<on, cis, cie, icu>>
tasklet == <<pc, chan, budget, weight>>
soft == <<status, inProcess, scheduled>>
driver == <<reg, up, queue>>
vars == <<rings, regs, soft, tasklet, wr, wchan, driver, bufs, lowmem>>

PCs == {"idle", "top", "rx", "rxcb", "rxclr", "rxown", "tx", "txcb", "end", "oops"}

\* A descriptor belongs to the engine ("dma"), or to the CPU with the C bit
\* ("done") or without it ("cpu").  What it points to is a buffer the core has
\* to free or pass up ("live"), one that it already has freed, or nothing.
Owns == {"dma", "done", "cpu"}
Bufs == {"live", "freed", "none"}

\* Fault: no wrap.
Next1NoWrap(i) == i + 1

Next1(i) == IF i + 1 = DescLen THEN 0 ELSE i + 1

Init ==
  /\ own = [c \in Chan |-> [i \in Desc |-> "cpu"]]
  /\ buf = [c \in Chan |-> [i \in Desc |-> "none"]]
  /\ curr = [c \in Chan |-> 0] /\ prev = [c \in Chan |-> 0] /\ hw = [c \in Chan |-> 0]
  /\ on = {} /\ cis = {} /\ cie = {} /\ icu = {}
  /\ status = {} /\ inProcess = FALSE /\ scheduled = FALSE
  /\ pc = "idle" /\ chan = None /\ budget = Budget
  /\ weight = [c \in Chan |-> DefaultWeight]
  /\ wr = "idle" /\ wchan = None
  /\ reg = FALSE /\ up = {} /\ queue = "stopped"
  /\ bufs = 0 /\ lowmem = {}

\* Neither the tasklet nor dma_device_write is running.
Quiet == pc = "idle" /\ wr = "idle"

-----------------------------------------------------------------------------
\* The hardware

\* The engine finishes the descriptor it is at, and goes to the next one.
Complete(c) ==
  /\ pc # "oops"
  /\ c \in on /\ own[c][hw[c]] = "dma"
  /\ own' = [own EXCEPT ![c][hw[c]] = "done"]
  /\ hw' = [hw EXCEPT ![c] = Next1(@)]
  /\ cis' = cis \cup {c}
  /\ UNCHANGED <<buf, curr, prev, on, cie, icu, soft, tasklet, wr, wchan, driver, bufs, lowmem>>

\* The line of channel c is asserted and not masked.
Raised(c) == c \in cis /\ c \in cie /\ c \in icu

dma_interrupt(c) ==
  /\ Raised(c) /\ pc \notin {"rxown", "oops"} /\ wr = "idle"
  /\ status' = status \cup {c}
  /\ icu' = icu \ {c}
  /\ inProcess' = TRUE
  /\ scheduled' = (scheduled \/ ~inProcess)
  /\ UNCHANGED <<rings, on, cis, cie, tasklet, wr, wchan, driver, bufs, lowmem>>

-----------------------------------------------------------------------------
\* The tasklet

RunTasklet ==
  /\ scheduled /\ Quiet
  /\ scheduled' = FALSE
  /\ pc' = "top"
  /\ UNCHANGED <<rings, regs, status, inProcess, chan, budget, weight, wr, wchan, driver, bufs, lowmem>>

\* The noted channels with weight left; c is the first of the heaviest of them.
Ready == {c \in status : weight[c] > 0}
Heaviest(c) == \A d \in Ready : weight[d] < weight[c] \/ (weight[d] = weight[c] /\ c <= d)

\* The head of the loop: leave it, hand over to a new run, give out new
\* weights, or choose a channel.
LoopEnd ==
  /\ status = {}
  /\ pc' = "end"
  /\ UNCHANGED <<soft, chan, budget, weight>>

OutOfBudget ==
  /\ status # {} /\ budget < 0
  /\ pc' = "idle" /\ scheduled' = TRUE /\ budget' = Budget
  /\ UNCHANGED <<status, inProcess, chan, weight>>

NewWeights ==
  /\ status # {} /\ budget >= 0 /\ Ready = {}
  /\ budget' = budget - 1
  /\ weight' = [c \in Chan |-> DefaultWeight]
  /\ UNCHANGED <<soft, pc, chan>>

Choose(c) ==
  /\ budget >= 0 /\ Heaviest(c)
  /\ budget' = budget - 1
  /\ chan' = c
  /\ pc' = IF c \in Rx THEN "rx" ELSE "tx"
  /\ UNCHANGED <<soft, weight>>

do_dma_tasklet ==
  /\ pc = "top"
  /\ LoopEnd \/ OutOfBudget \/ NewWeights \/ \E c \in Ready : Choose(c)
  /\ UNCHANGED <<rings, regs, wr, wchan, driver, bufs, lowmem>>

\* Fault: the notes are not looked at again.
FinishBlind ==
  /\ pc = "end"
  /\ inProcess' = FALSE
  /\ scheduled' = FALSE
  /\ pc' = "idle" /\ budget' = Budget
  /\ UNCHANGED <<rings, regs, status, chan, weight, wr, wchan, driver, bufs, lowmem>>

\* With interrupts off: the run is over, unless an interrupt came after the loop.
Finish ==
  /\ pc = "end"
  /\ inProcess' = (status # {})
  /\ scheduled' = (status # {})
  /\ pc' = "idle" /\ budget' = Budget
  /\ UNCHANGED <<rings, regs, status, chan, weight, wr, wchan, driver, bufs, lowmem>>

\* The descriptor that the driver reads next holds a packet.
Done(c) == own[c][curr[c]] = "done"

rx_chan_intr_handler ==
  /\ pc = "rx"
  /\ pc' = IF Done(chan) THEN "rxcb" ELSE "rxclr"
  /\ UNCHANGED <<rings, regs, soft, chan, budget, weight, wr, wchan, driver, bufs, lowmem>>

\* Fault: the buffer that was passed up stays in the descriptor.
ReplaceNothing(c) ==
  /\ own' = [own EXCEPT ![c][curr[c]] = "dma"]
  /\ buf' = [buf EXCEPT ![c][curr[c]] = "freed"]
  /\ curr' = [curr EXCEPT ![c] = Next1(@)]
  /\ UNCHANGED lowmem

\* dma_device_read passes the buffer up and puts a new one in its place.
\* Without memory it gives nothing and leaves the descriptor, but goes on.
Replace(c) ==
  /\ own' = [own EXCEPT ![c][curr[c]] = "dma"]
  /\ buf' = [buf EXCEPT ![c][curr[c]] = "live"]
  /\ curr' = [curr EXCEPT ![c] = Next1(@)]
  /\ UNCHANGED lowmem

NoMemory(c) ==
  /\ curr' = [curr EXCEPT ![c] = Next1(@)]
  /\ lowmem' = lowmem \cup {"read"}
  /\ UNCHANGED <<own, buf>>

\* Fault: the packet costs the channel nothing.
ReadForFree ==
  /\ pc = "rxcb"
  /\ Replace(chan) \/ NoMemory(chan)
  /\ pc' = "top" /\ chan' = None
  /\ UNCHANGED <<prev, hw, regs, soft, budget, weight, wr, wchan, driver, bufs>>

\* RCV_INT: dma_rx_int_handler reads one packet.
dma_rx_int_handler ==
  /\ pc = "rxcb"
  /\ Replace(chan) \/ NoMemory(chan)
  /\ weight' = [weight EXCEPT ![chan] = @ - 1]
  /\ pc' = "top" /\ chan' = None
  /\ UNCHANGED <<prev, hw, regs, soft, budget, wr, wchan, driver, bufs>>

\* Fault: the line stays masked.
AcknowledgeMasked ==
  /\ pc = "rxclr"
  /\ cis' = cis \ {chan}
  /\ pc' = "rxown"
  /\ UNCHANGED <<rings, on, cie, icu, soft, chan, budget, weight, wr, wchan, driver, bufs, lowmem>>

\* With interrupts off: the events are acknowledged and the line enabled,
\* then the channel is forgotten unless the engine was faster.
RxAcknowledge ==
  /\ pc = "rxclr"
  /\ cis' = cis \ {chan} /\ icu' = icu \cup {chan}
  /\ pc' = "rxown"
  /\ UNCHANGED <<rings, on, cie, soft, chan, budget, weight, wr, wchan, driver, bufs, lowmem>>

\* Fault: the engine may have been faster.
ForgetAlways ==
  /\ pc = "rxown"
  /\ status' = status \ {chan}
  /\ pc' = "top" /\ chan' = None
  /\ UNCHANGED <<rings, regs, inProcess, scheduled, budget, weight, wr, wchan, driver, bufs, lowmem>>

RxForget ==
  /\ pc = "rxown"
  /\ status' = IF own[chan][curr[chan]] = "dma" THEN status \ {chan} ELSE status
  /\ pc' = "top" /\ chan' = None
  /\ UNCHANGED <<rings, regs, inProcess, scheduled, budget, weight, wr, wchan, driver, bufs, lowmem>>

tx_chan_intr_handler ==
  /\ pc = "tx"
  /\ cis' = cis \ {chan} /\ status' = status \ {chan}
  /\ pc' = "txcb"
  /\ UNCHANGED <<rings, on, cie, icu, inProcess, scheduled, chan, budget, weight, wr, wchan, driver, bufs, lowmem>>

\* Fault: the channel stays noted.
DisableIrqNoted(C) == status' = status /\ cie' = cie \ C /\ icu' = icu \ C

\* disable_ch_irq and enable_ch_irq of the channels in C.
DisableIrq(C) == status' = status \ C /\ cie' = cie \ C /\ icu' = icu \ C
EnableIrq(C) == cie' = cie \cup C /\ icu' = icu \cup C

\* TRANSMIT_CPT_INT: the driver has no more use for the interrupts of its
\* transmit channels and lets eth0 transmit.  Once it has given the device
\* back, its pointer to it is NULL.
TransmitComplete ==
  /\ pc = "txcb" /\ reg
  /\ DisableIrq(Tx)
  /\ queue' = "on"
  /\ pc' = "top" /\ chan' = None
  /\ UNCHANGED <<rings, on, cis, inProcess, scheduled, budget, weight, wr, wchan, reg, up, bufs, lowmem>>

TransmitCompleteNull ==
  /\ pc = "txcb" /\ ~reg
  /\ pc' = "oops"
  /\ UNCHANGED <<rings, regs, soft, chan, budget, weight, wr, wchan, driver, bufs, lowmem>>

-----------------------------------------------------------------------------
\* Transmission: eth0_xmit calls dma_device_write

eth0_xmit(c) ==
  /\ Quiet /\ 0 \in up /\ queue = "on"
  /\ wr' = "reclaim" /\ wchan' = c
  /\ bufs' = bufs + 1
  /\ UNCHANGED <<rings, regs, soft, tasklet, driver, lowmem>>

\* Fault: the descriptor is freed and not cleared.
ReclaimUncleared ==
  /\ wr = "reclaim" /\ own[wchan][prev[wchan]] = "done"
  /\ prev' = [prev EXCEPT ![wchan] = (@ + 1) % DescLen]
  /\ bufs' = IF bufs > 0 THEN bufs - 1 ELSE bufs
  /\ UNCHANGED <<own, buf, curr, hw, regs, soft, tasklet, wr, wchan, driver, lowmem>>

\* The first loop: free what the engine has sent, from prev_desc on.
Reclaim ==
  /\ wr = "reclaim" /\ own[wchan][prev[wchan]] = "done"
  /\ own' = [own EXCEPT ![wchan][prev[wchan]] = "cpu"]
  /\ buf' = [buf EXCEPT ![wchan][prev[wchan]] = "none"]
  /\ prev' = [prev EXCEPT ![wchan] = (@ + 1) % DescLen]
  /\ bufs' = bufs - 1
  /\ UNCHANGED <<curr, hw, regs, soft, tasklet, wr, wchan, driver, lowmem>>

ReclaimEnd ==
  /\ wr = "reclaim" /\ own[wchan][prev[wchan]] # "done"
  /\ wr' = "put"
  /\ UNCHANGED <<rings, regs, soft, tasklet, wchan, driver, bufs, lowmem>>

\* Fault: nobody will wake the queue.
StopOnly ==
  /\ queue' = "stopped"
  /\ UNCHANGED <<cie, icu>>

\* TX_BUF_FULL_INT: the driver stops the queue and asks for interrupts.
TxBufFull ==
  /\ queue' = "stopped"
  /\ EnableIrq(Tx)

\* No descriptor: eth0_xmit drops the packet.
Refuse ==
  /\ wr = "put" /\ own[wchan][curr[wchan]] # "cpu"
  /\ TxBufFull
  /\ bufs' = bufs - 1
  /\ wr' = "idle" /\ wchan' = None
  /\ UNCHANGED <<rings, on, cis, soft, tasklet, reg, up, lowmem>>

\* Fault: a sent packet that is not reclaimed yet is overwritten.
PutOverSent ==
  /\ wr = "put" /\ own[wchan][curr[wchan]] # "dma"
  /\ own' = [own EXCEPT ![wchan][curr[wchan]] = "dma"]
  /\ buf' = [buf EXCEPT ![wchan][curr[wchan]] = "live"]
  /\ curr' = [curr EXCEPT ![wchan] = Next1(@)]
  /\ wr' = "next"
  /\ UNCHANGED <<prev, hw, regs, soft, tasklet, wchan, driver, bufs, lowmem>>

Put ==
  /\ wr = "put" /\ own[wchan][curr[wchan]] = "cpu"
  /\ own' = [own EXCEPT ![wchan][curr[wchan]] = "dma"]
  /\ buf' = [buf EXCEPT ![wchan][curr[wchan]] = "live"]
  /\ curr' = [curr EXCEPT ![wchan] = Next1(@)]
  /\ wr' = "next"
  /\ UNCHANGED <<prev, hw, regs, soft, tasklet, wchan, driver, bufs, lowmem>>

\* The ring is looked at once more, and the channel opened.
WriteEnd ==
  /\ wr = "next"
  /\ IF own[wchan][curr[wchan]] = "dma" THEN TxBufFull ELSE UNCHANGED <<queue, cie, icu>>
  /\ on' = on \cup {wchan}
  /\ wr' = "idle" /\ wchan' = None
  /\ UNCHANGED <<rings, cis, soft, tasklet, reg, up, bufs, lowmem>>

\* The watchdog of a stopped queue.
eth0_tx_timeout ==
  /\ Quiet /\ 0 \in up /\ queue = "stopped"
  /\ DisableIrq(Tx)
  /\ queue' = "on"
  /\ UNCHANGED <<rings, on, cis, inProcess, scheduled, tasklet, wr, wchan, reg, up, bufs, lowmem>>

-----------------------------------------------------------------------------
\* Opening and stopping the network devices, registering with the DMA core

\* The first device that is opened opens the receive channels.
eth_open(p) ==
  /\ Quiet /\ reg /\ p \notin up
  /\ up' = up \cup {p}
  /\ queue' = IF p = 0 THEN "on" ELSE queue
  /\ IF up = {} THEN on' = on \cup Rx /\ EnableIrq(Rx) ELSE UNCHANGED <<on, cie, icu>>
  /\ UNCHANGED <<rings, cis, soft, tasklet, wr, wchan, reg, bufs, lowmem>>

\* The last device that is stopped closes them.
eth_stop(p) ==
  /\ MayStop /\ Quiet /\ p \in up
  /\ up' = up \ {p}
  /\ queue' = IF p = 0 THEN "stopped" ELSE queue
  /\ IF up = {p} THEN on' = on \ Rx /\ DisableIrq(Rx) ELSE UNCHANGED <<on, status, cie, icu>>
  /\ UNCHANGED <<rings, cis, inProcess, scheduled, tasklet, wr, wchan, reg, bufs, lowmem>>

\* alloc_dma: k[c] is how many buffers channel c gets.  A ring that does not
\* get all leaves its other descriptors as they are: empty, or from an earlier
\* registration.  (Bound: after that nothing is registered again.)
dma_device_register(k) ==
  /\ Quiet /\ ~reg /\ "stale" \notin lowmem
  /\ own' = [c \in Chan |-> [i \in Desc |->
               IF c \in Tx THEN "cpu" ELSE IF i < k[c] THEN "dma" ELSE own[c][i]]]
  /\ buf' = [c \in Chan |-> [i \in Desc |->
               IF c \in Tx THEN "none" ELSE IF i < k[c] THEN "live" ELSE buf[c][i]]]
  /\ bufs' = bufs + Cardinality({d \in Rx \X Desc : d[2] < k[d[1]]})
  /\ lowmem' = lowmem
       \cup (IF \E c \in Rx : k[c] < DescLen THEN {"register"} ELSE {})
       \cup (IF \E c \in Rx, i \in Desc : i >= k[c] /\ own[c][i] # "cpu" THEN {"stale"} ELSE {})
  /\ hw' = [c \in Chan |-> 0]
  /\ on' = {} /\ cis' = {}
  /\ EnableIrq(Rx)
  /\ reg' = TRUE
  /\ UNCHANGED <<curr, prev, soft, tasklet, wr, wchan, up, queue>>

\* Fault: the positions are kept.
UnregisterInPlace ==
  /\ MayStop /\ Quiet /\ reg /\ up = {}
  /\ bufs' = bufs - Cardinality({d \in Chan \X Desc : own[d[1]][d[2]] # "cpu"})
  /\ own' = [c \in Chan |-> IF c \in Tx THEN [i \in Desc |-> "cpu"] ELSE own[c]]
  /\ buf' = [c \in Chan |-> [i \in Desc |->
               IF c \in Tx THEN "none" ELSE IF own[c][i] # "cpu" THEN "freed" ELSE buf[c][i]]]
  /\ on' = {} /\ cie' = {} /\ icu' = icu \ Rx
  /\ status' = status \ Rx
  /\ reg' = FALSE
  /\ UNCHANGED <<curr, prev, hw, cis, inProcess, scheduled, tasklet, wr, wchan, up, queue, lowmem>>

\* free_dma, after the devices are stopped.  The receive descriptors keep
\* their pointers and their owner.
dma_device_unregister ==
  /\ MayStop /\ Quiet /\ reg /\ up = {}
  /\ bufs' = bufs - Cardinality({d \in Chan \X Desc : own[d[1]][d[2]] # "cpu"})
  /\ own' = [c \in Chan |-> IF c \in Tx THEN [i \in Desc |-> "cpu"] ELSE own[c]]
  /\ buf' = [c \in Chan |-> [i \in Desc |->
               IF c \in Tx THEN "none" ELSE IF own[c][i] # "cpu" THEN "freed" ELSE buf[c][i]]]
  /\ curr' = [c \in Chan |-> 0] /\ prev' = [c \in Chan |-> 0]
  /\ on' = {} /\ cie' = {} /\ icu' = icu \ Rx
  /\ status' = status \ Rx
  /\ reg' = FALSE
  /\ UNCHANGED <<hw, cis, inProcess, scheduled, tasklet, wr, wchan, up, queue, lowmem>>

-----------------------------------------------------------------------------
Tasklet ==
  \/ do_dma_tasklet \/ Finish
  \/ rx_chan_intr_handler \/ dma_rx_int_handler \/ RxAcknowledge \/ RxForget
  \/ tx_chan_intr_handler \/ TransmitComplete \/ TransmitCompleteNull

Write == Reclaim \/ ReclaimEnd \/ Refuse \/ Put \/ WriteEnd

Next ==
  \/ \E c \in Chan : Complete(c) \/ dma_interrupt(c)
  \/ RunTasklet \/ Tasklet
  \/ \E c \in Tx : eth0_xmit(c)
  \/ Write \/ eth0_tx_timeout
  \/ \E p \in Ports : eth_open(p) \/ eth_stop(p)
  \/ \E k \in [Rx -> 0..DescLen] : dma_device_register(k)
  \/ dma_device_unregister

Spec == Init /\ [][Next]_vars

\* The engine sends what it was given; the CPU takes interrupts, ends what it
\* has started, and runs a scheduled tasklet at the latest from ksoftirqd,
\* however often packets are sent in between.
FairSpec ==
  /\ Spec
  /\ \A c \in Tx : WF_vars(Complete(c))
  /\ \A c \in Chan : SF_vars(dma_interrupt(c))
  /\ SF_vars(RunTasklet) /\ WF_vars(Tasklet) /\ WF_vars(Write)

-----------------------------------------------------------------------------
\* Every variable has its type: the positions stay inside desc_base, a weight
\* is never paid below zero, and the budget is missed by one at most.
TypeOK ==
  /\ own \in [Chan -> [Desc -> Owns]] /\ buf \in [Chan -> [Desc -> Bufs]]
  /\ curr \in [Chan -> Desc] /\ prev \in [Chan -> Desc] /\ hw \in [Chan -> Desc]
  /\ on \subseteq Chan /\ cis \subseteq Chan /\ cie \subseteq Chan /\ icu \subseteq Chan
  /\ status \subseteq Chan /\ inProcess \in BOOLEAN /\ scheduled \in BOOLEAN
  /\ pc \in PCs /\ chan \in Chan \cup {None} /\ budget \in -1..Budget
  /\ weight \in [Chan -> 0..DefaultWeight]
  /\ wr \in {"idle", "reclaim", "put", "next"} /\ wchan \in Tx \cup {None}
  /\ reg \in BOOLEAN /\ up \subseteq Ports /\ queue \in {"on", "stopped"}
  /\ bufs \in Int /\ lowmem \subseteq {"register", "stale", "read"}

\* How far descriptor i is from descriptor a in the direction of the ring.
Dist(a, i) == (i - a + DescLen) % DescLen

\* A registration ran out of memory, and that in a ring which still had the
\* descriptors of an earlier registration; a read ran out of memory.
Short == "register" \in lowmem
Stale == "stale" \in lowmem
Starved == "read" \in lowmem

\* A channel is noted only while a run of the tasklet is due or going on, and
\* g_danube_dma_in_process says exactly that: no run is scheduled twice and
\* none is forgotten, although the handler and the end of the tasklet test and
\* set the flag at different times.
RunIsDue ==
  /\ status # {} => inProcess
  /\ inProcess <=> (scheduled \/ pc # "idle")
  /\ scheduled => pc = "idle"

\* A packet at the descriptor that is read next is either noted or will raise
\* an interrupt, as long as the device stays open: the engine may finish it
\* before, between or after the two steps that acknowledge the old event and
\* forget the channel.
NoLostPacketEvent ==
  \A c \in Rx \cap on : Done(c) => c \in status \/ Raised(c)

\* A receive ring is cut by its two positions: packets from curr_desc to the
\* engine, empty buffers from there on.  So packets are read in the order they
\* came, each once, and the engine is never handed a full descriptor.
RxRingInOrder ==
  reg /\ lowmem = {} => \A c \in Rx : \E n \in 0..DescLen :
    /\ (curr[c] + n) % DescLen = hw[c]
    /\ \A i \in Desc : own[c][i] = IF Dist(curr[c], i) < n THEN "done" ELSE "dma"

\* dma_device_read is to "replace with a new allocated buffer" what it has
\* read (dma-core.c:723): the engine never waits for a descriptor of a ring
\* while the CPU waits for the engine.
NoRingDeadlock ==
  ~Short => \A c \in Rx \cap on : own[c][hw[c]] = "dma" \/ Done(c)

\* Every buffer that the core was given or has allocated is in one descriptor
\* or in the hands of dma_device_write until it is freed or passed up once,
\* through refused packets, reads without memory, stop and unregistering, and
\* through registrations that get only some of their buffers.
BuffersAccounted ==
  ~Stale => bufs = Cardinality({d \in Chan \X Desc : buf[d[1]][d[2]] = "live"})
                   + (IF wr \in {"reclaim", "put"} THEN 1 ELSE 0)

\* The engine never works on memory that was freed: a receive ring keeps its
\* pointers and its owner bits when it is unregistered, and every channel is
\* off before that and is not switched on before the ring is filled again.  A
\* ring that is filled in part is safe as long as the rest of it is empty.
EngineOwnsLive ==
  ~Stale => \A c \in on : \A i \in Desc : own[c][i] = "dma" => buf[c][i] = "live"

\* While no device is open, no receive channel is noted or served: eth_stop may
\* come when an interrupt was noted and the tasklet is scheduled but has not run,
\* and dma_rx_int_handler would pass packets to a closed device or use a device
\* pointer that is NULL.  (Transmit channels do stay noted.)
ClosedIsQuiet ==
  up = {} => status \cap Rx = {} /\ chan \notin Rx

\* A transmit ring is cut by its three positions: sent and not yet reclaimed
\* from prev_desc to the engine, not yet sent from there to curr_desc, free
\* from there on.  So packets leave in the order of the calls and the engine
\* never passes curr_desc.
TxRingInOrder ==
  reg => \A c \in Tx : \E n \in 0..DescLen :
    /\ (prev[c] + n) % DescLen = curr[c]
    /\ \E m \in 0..n :
         /\ (prev[c] + m) % DescLen = hw[c]
         /\ \A i \in Desc :
              own[c][i] = IF Dist(prev[c], i) < m THEN "done"
                          ELSE IF Dist(prev[c], i) < n THEN "dma" ELSE "cpu"

\* Every noted channel is served, however much comes in on heavier ones and
\* however often the tasklet hands over to a new run.
NotedIsServed ==
  \A c \in Chan : (c \in status /\ ~Short) ~> (c \notin status \/ (chan = c /\ pc \in {"rx", "tx"}))

\* A packet in an open ring is read without waiting for the next one.
PacketIsRead ==
  \A c \in Rx, i \in Desc :
    (c \in on /\ curr[c] = i /\ Done(c) /\ ~Short) ~> (curr[c] # i)

\* A stopped queue of an open device transmits again without the watchdog's
\* help.
QueueWakes == (queue = "stopped" /\ 0 \in up /\ ~Short) ~> (queue = "on")
=============================================================================
