---------------------------- MODULE DmaCoreProofs ----------------------------
(***************************************************************************)
(* Proofs about DmaCore, for any channels, rings, weights and budget.      *)
(***************************************************************************)
EXTENDS DmaCore, FiniteSetTheorems, TLAPS

RxPCs == {"rx", "rxcb", "rxclr", "rxown"}
TxPCs == {"tx", "txcb"}

\* What the local variables of the tasklet and of dma_device_write stand for:
\* the tasklet handles a noted channel of the direction its handler is for,
\* which had weight left when it was chosen.
Locals ==
  /\ pc \in RxPCs => chan \in Rx /\ chan \in status
  /\ pc \in TxPCs => chan \in Tx
  /\ pc \in {"rx", "rxcb"} => weight[chan] > 0
  /\ wr # "idle" => wchan \in Tx

\* The next position in a ring is a position.
LEMMA NextInRing == ASSUME NEW i \in Desc PROVE Next1(i) \in Desc
  BY SizeAssumption DEF Desc, Next1

\* The position after a reclaimed descriptor is a position.
LEMMA ModInRing == ASSUME NEW i \in Desc PROVE (i + 1) % DescLen \in Desc
  BY SizeAssumption DEF Desc

\* A table of descriptors stays one when one descriptor is written.
LEMMA TableUpdate ==
  ASSUME NEW S, NEW f \in [Chan -> [Desc -> S]], NEW c, NEW i, NEW v \in S
  PROVE  [f EXCEPT ![c][i] = v] \in [Chan -> [Desc -> S]]
  OBVIOUS

\* There are finitely many descriptors.
LEMMA DescriptorsFinite == IsFiniteSet(Chan \X Desc) /\ IsFiniteSet(Rx \X Desc)
<1>1. IsFiniteSet(Desc)
  BY FS_Interval, SizeAssumption DEF Desc
<1>2. IsFiniteSet(Chan)
  BY FS_Union, ChanAssumption DEF Chan
<1> QED
  BY <1>1, <1>2, FS_Product, ChanAssumption

\* So any of them can be counted.
LEMMA CountsAreNatural ==
  /\ \A S \in SUBSET (Chan \X Desc) : Cardinality(S) \in Nat
  /\ \A S \in SUBSET (Rx \X Desc) : Cardinality(S) \in Nat
<1>1. \A S \in SUBSET (Chan \X Desc) : IsFiniteSet(S)
  BY DescriptorsFinite, FS_Subset
<1>2. \A S \in SUBSET (Rx \X Desc) : IsFiniteSet(S)
  BY DescriptorsFinite, FS_Subset
<1> QED
  BY <1>1, <1>2, FS_CardinalityType

\* The types and the local variables together are preserved by every step.
TypeInv == TypeOK /\ Locals

\* Steps of the hardware and of the interrupt handler keep TypeInv.
LEMMA HardwareTypes ==
  ASSUME TypeInv, NEW c \in Chan, Complete(c) \/ dma_interrupt(c)
  PROVE  TypeInv'
<1>1. CASE Complete(c)
  <2>1. Next1(hw[c]) \in Desc
    BY NextInRing DEF TypeInv, TypeOK
  <2>2. own' \in [Chan -> [Desc -> Owns]] /\ hw' \in [Chan -> Desc] /\ cis' \subseteq Chan
    BY <1>1, <2>1 DEF Complete, TypeInv, TypeOK, Owns
  <2> QED
    BY <1>1, <2>2 DEF Complete, TypeInv, TypeOK, Locals, soft, tasklet, driver
<1>2. CASE dma_interrupt(c)
  <2>1. scheduled' \in BOOLEAN /\ inProcess' \in BOOLEAN
    BY <1>2 DEF dma_interrupt
  <2>2. status' \subseteq Chan /\ icu' \subseteq Chan
    BY <1>2 DEF dma_interrupt, TypeInv, TypeOK
  <2>3. Locals'
    BY <1>2 DEF dma_interrupt, TypeInv, Locals, tasklet
  <2> QED
    BY <1>2, <2>1, <2>2, <2>3 DEF dma_interrupt, TypeInv, TypeOK, rings, tasklet, driver
<1> QED
  BY <1>1, <1>2

\* Starting the tasklet and the head of its loop keep TypeInv.
LEMMA LoopTypes ==
  ASSUME TypeInv, RunTasklet \/ do_dma_tasklet \/ Finish
  PROVE  TypeInv'
<1> USE SizeAssumption
<1>1. CASE RunTasklet
  BY <1>1 DEF RunTasklet, Quiet, TypeInv, TypeOK, Locals, PCs, RxPCs, TxPCs, rings, regs, driver
<1>2. CASE do_dma_tasklet /\ LoopEnd
  BY <1>2 DEF do_dma_tasklet, LoopEnd, TypeInv, TypeOK, Locals, PCs, RxPCs, TxPCs, rings, regs, soft, driver
<1>3. CASE do_dma_tasklet /\ OutOfBudget
  <2>1. budget' \in -1..Budget
    BY <1>3 DEF do_dma_tasklet, OutOfBudget
  <2> QED
    BY <1>3, <2>1 DEF do_dma_tasklet, OutOfBudget, TypeInv, TypeOK, Locals, PCs, RxPCs, TxPCs, rings, regs, driver
<1>4. CASE do_dma_tasklet /\ NewWeights
  <2>1. budget' \in -1..Budget
    BY <1>4 DEF do_dma_tasklet, NewWeights, TypeInv, TypeOK
  <2>2. weight' \in [Chan -> 0..DefaultWeight]
    BY <1>4 DEF do_dma_tasklet, NewWeights
  <2>3. Locals'
    BY <1>4 DEF do_dma_tasklet, NewWeights, TypeInv, Locals, RxPCs, TxPCs, soft
  <2> QED
    BY <1>4, <2>1, <2>2, <2>3 DEF do_dma_tasklet, NewWeights, TypeInv, TypeOK, rings, regs, soft, driver
<1>5. ASSUME NEW c \in Ready, do_dma_tasklet, Choose(c)
      PROVE  TypeInv'
  <2>1. budget' \in -1..Budget
    BY <1>5 DEF Choose, TypeInv, TypeOK
  <2>2. c \in Chan /\ c \in status /\ weight[c] > 0
    BY <1>5 DEF Ready, TypeInv, TypeOK
  <2>3. pc' \in PCs /\ chan' \in Chan
    BY <1>5, <2>2 DEF Choose, PCs
  <2>4. Locals'
    BY <1>5, <2>2 DEF do_dma_tasklet, Choose, TypeInv, Locals, RxPCs, TxPCs, soft, Chan
  <2> QED
    BY <1>5, <2>1, <2>3, <2>4 DEF do_dma_tasklet, Choose, TypeInv, TypeOK, rings, regs, soft, driver
<1>6. CASE Finish
  <2>1. budget' \in -1..Budget
    BY <1>6 DEF Finish
  <2>2. scheduled' \in BOOLEAN /\ inProcess' \in BOOLEAN
    BY <1>6 DEF Finish
  <2>3. Locals'
    BY <1>6 DEF Finish, TypeInv, Locals, RxPCs, TxPCs
  <2> QED
    BY <1>6, <2>1, <2>2, <2>3 DEF Finish, TypeInv, TypeOK, PCs, rings, regs, driver
<1> QED
  BY <1>1, <1>2, <1>3, <1>4, <1>5, <1>6 DEF do_dma_tasklet

\* The steps of the receive handler keep TypeInv.
LEMMA RxTypes ==
  ASSUME TypeInv, rx_chan_intr_handler \/ dma_rx_int_handler \/ RxAcknowledge \/ RxForget
  PROVE  TypeInv'
<1> USE SizeAssumption
<1>1. CASE rx_chan_intr_handler
  BY <1>1 DEF rx_chan_intr_handler, TypeInv, TypeOK, Locals, PCs, RxPCs, TxPCs, rings, regs, soft, driver
<1>2. CASE dma_rx_int_handler
  <2>1. chan \in Chan /\ chan \in Rx /\ weight[chan] > 0
    BY <1>2 DEF dma_rx_int_handler, TypeInv, Locals, RxPCs, Chan
  <2>2. curr[chan] \in Desc /\ Next1(curr[chan]) \in Desc
    BY <2>1, NextInRing DEF TypeInv, TypeOK
  <2>3. curr' \in [Chan -> Desc]
    BY <1>2, <2>2 DEF dma_rx_int_handler, Replace, NoMemory, TypeInv, TypeOK
  <2>4. own' \in [Chan -> [Desc -> Owns]] /\ buf' \in [Chan -> [Desc -> Bufs]]
    <3>1. own \in [Chan -> [Desc -> Owns]] /\ buf \in [Chan -> [Desc -> Bufs]]
      BY DEF TypeInv, TypeOK
    <3>2. CASE Replace(chan)
      BY <3>1, <3>2, TableUpdate DEF Replace, Owns, Bufs
    <3>3. CASE NoMemory(chan)
      BY <3>1, <3>3 DEF NoMemory
    <3> QED
      BY <1>2, <3>2, <3>3 DEF dma_rx_int_handler
  <2>5. weight' \in [Chan -> 0..DefaultWeight]
    BY <1>2, <2>1 DEF dma_rx_int_handler, TypeInv, TypeOK
  <2>6. lowmem' \subseteq {"register", "stale", "read"}
    BY <1>2 DEF dma_rx_int_handler, Replace, NoMemory, TypeInv, TypeOK
  <2>7. Locals'
    BY <1>2 DEF dma_rx_int_handler, TypeInv, Locals, RxPCs, TxPCs, soft
  <2> QED
    BY <1>2, <2>3, <2>4, <2>5, <2>6, <2>7
    DEF dma_rx_int_handler, TypeInv, TypeOK, PCs, regs, soft, driver
<1>3. CASE RxAcknowledge
  BY <1>3 DEF RxAcknowledge, TypeInv, TypeOK, Locals, PCs, RxPCs, TxPCs, rings, soft, driver, Chan
<1>4. CASE RxForget
  BY <1>4 DEF RxForget, TypeInv, TypeOK, Locals, PCs, RxPCs, TxPCs, rings, regs, driver
<1> QED
  BY <1>1, <1>2, <1>3, <1>4

\* The steps of the transmit handler keep TypeInv.
LEMMA TxTypes ==
  ASSUME TypeInv, tx_chan_intr_handler \/ TransmitComplete \/ TransmitCompleteNull
  PROVE  TypeInv'
<1>1. CASE tx_chan_intr_handler
  BY <1>1 DEF tx_chan_intr_handler, TypeInv, TypeOK, Locals, PCs, RxPCs, TxPCs, rings, driver
<1>2. CASE TransmitComplete
  BY <1>2 DEF TransmitComplete, DisableIrq, TypeInv, TypeOK, Locals, PCs, RxPCs, TxPCs, rings
<1>3. CASE TransmitCompleteNull
  BY <1>3 DEF TransmitCompleteNull, TypeInv, TypeOK, Locals, PCs, RxPCs, TxPCs, rings, regs, soft, driver
<1> QED
  BY <1>1, <1>2, <1>3

\* The steps of transmission keep TypeInv.
LEMMA WriteTypes ==
  ASSUME TypeInv, (\E c \in Tx : eth0_xmit(c)) \/ Write \/ eth0_tx_timeout
  PROVE  TypeInv'
<1>1. ASSUME NEW c \in Tx, eth0_xmit(c)
      PROVE  TypeInv'
  BY <1>1 DEF eth0_xmit, Quiet, TypeInv, TypeOK, Locals, rings, regs, soft, tasklet, driver
<1>2. CASE Reclaim
  <2>1. wchan \in Chan /\ prev[wchan] \in Desc
    BY <1>2 DEF Reclaim, TypeInv, TypeOK, Locals, Chan
  <2>2. (prev[wchan] + 1) % DescLen \in Desc
    BY <2>1, ModInRing
  <2>3. prev' \in [Chan -> Desc]
    BY <1>2, <2>2 DEF Reclaim, TypeInv, TypeOK
  <2>4. own' \in [Chan -> [Desc -> Owns]] /\ buf' \in [Chan -> [Desc -> Bufs]]
    BY <1>2, TableUpdate DEF Reclaim, TypeInv, TypeOK, Owns, Bufs
  <2>5. bufs' \in Int
    BY <1>2 DEF Reclaim, TypeInv, TypeOK
  <2> QED
    BY <1>2, <2>3, <2>4, <2>5 DEF Reclaim, TypeInv, TypeOK, Locals, regs, soft, tasklet, driver
<1>3. CASE ReclaimEnd
  BY <1>3 DEF ReclaimEnd, TypeInv, TypeOK, Locals, rings, regs, soft, tasklet, driver
<1>4. CASE Refuse
  BY <1>4 DEF Refuse, TxBufFull, EnableIrq, TypeInv, TypeOK, Locals, rings, soft, tasklet, Chan
<1>5. CASE Put
  <2>1. wchan \in Chan /\ Next1(curr[wchan]) \in Desc
    BY <1>5, NextInRing DEF Put, TypeInv, TypeOK, Locals, Chan
  <2>2. curr' \in [Chan -> Desc]
    BY <1>5, <2>1 DEF Put, TypeInv, TypeOK
  <2>3. own' \in [Chan -> [Desc -> Owns]] /\ buf' \in [Chan -> [Desc -> Bufs]]
    BY <1>5, TableUpdate DEF Put, TypeInv, TypeOK, Owns, Bufs
  <2> QED
    BY <1>5, <2>2, <2>3 DEF Put, TypeInv, TypeOK, Locals, regs, soft, tasklet, driver
<1>6. CASE WriteEnd
  <2>1. queue' \in {"on", "stopped"} /\ cie' \subseteq Chan /\ icu' \subseteq Chan
    BY <1>6 DEF WriteEnd, TxBufFull, EnableIrq, TypeInv, TypeOK, Chan
  <2>2. on' \subseteq Chan
    BY <1>6 DEF WriteEnd, TypeInv, TypeOK, Locals, Chan
  <2> QED
    BY <1>6, <2>1, <2>2 DEF WriteEnd, TypeInv, TypeOK, Locals, rings, soft, tasklet
<1>7. CASE eth0_tx_timeout
  BY <1>7 DEF eth0_tx_timeout, Quiet, DisableIrq, TypeInv, TypeOK, Locals, RxPCs, TxPCs, rings, tasklet
<1> QED
  BY <1>1, <1>2, <1>3, <1>4, <1>5, <1>6, <1>7 DEF Write

\* Opening, stopping, registering and unregistering keep TypeInv.
LEMMA DeviceTypes ==
  ASSUME TypeInv,
         \/ \E p \in Ports : eth_open(p) \/ eth_stop(p)
         \/ \E k \in [Rx -> 0..DescLen] : dma_device_register(k)
         \/ dma_device_unregister
  PROVE  TypeInv'
<1> USE SizeAssumption
<1>1. ASSUME NEW p \in Ports, eth_open(p)
      PROVE  TypeInv'
  <2>1. on' \subseteq Chan /\ cie' \subseteq Chan /\ icu' \subseteq Chan
    BY <1>1 DEF eth_open, EnableIrq, TypeInv, TypeOK, Chan
  <2>2. up' \subseteq Ports /\ queue' \in {"on", "stopped"}
    BY <1>1 DEF eth_open, TypeInv, TypeOK
  <2> QED
    BY <1>1, <2>1, <2>2 DEF eth_open, TypeInv, TypeOK, Locals, rings, soft, tasklet
<1>2. ASSUME NEW p \in Ports, eth_stop(p)
      PROVE  TypeInv'
  <2>1. on' \subseteq Chan /\ cie' \subseteq Chan /\ icu' \subseteq Chan /\ status' \subseteq Chan
    BY <1>2 DEF eth_stop, DisableIrq, TypeInv, TypeOK
  <2>2. up' \subseteq Ports /\ queue' \in {"on", "stopped"}
    BY <1>2 DEF eth_stop, TypeInv, TypeOK
  <2>3. Locals'
    BY <1>2 DEF eth_stop, Quiet, TypeInv, Locals, RxPCs, TxPCs, tasklet
  <2> QED
    BY <1>2, <2>1, <2>2, <2>3 DEF eth_stop, TypeInv, TypeOK, rings, tasklet
<1>3. ASSUME NEW k \in [Rx -> 0..DescLen], dma_device_register(k)
      PROVE  TypeInv'
  <2>1. own' \in [Chan -> [Desc -> Owns]] /\ buf' \in [Chan -> [Desc -> Bufs]]
    BY <1>3 DEF dma_device_register, TypeInv, TypeOK, Owns, Bufs
  <2>2. hw' \in [Chan -> Desc]
    BY <1>3 DEF dma_device_register, Desc
  <2>3. Cardinality({d \in Rx \X Desc : d[2] < k[d[1]]}) \in Nat
    BY CountsAreNatural
  <2>4. bufs' \in Int
    BY <1>3, <2>3 DEF dma_device_register, TypeInv, TypeOK
  <2>5. cie' \subseteq Chan /\ icu' \subseteq Chan /\ on' \subseteq Chan /\ cis' \subseteq Chan
    BY <1>3 DEF dma_device_register, EnableIrq, TypeInv, TypeOK, Chan
  <2>6. lowmem' \subseteq {"register", "stale", "read"}
    BY <1>3 DEF dma_device_register, TypeInv, TypeOK
  <2>7. Locals'
    BY <1>3 DEF dma_device_register, TypeInv, Locals, soft, tasklet
  <2> QED
    BY <1>3, <2>1, <2>2, <2>4, <2>5, <2>6, <2>7 DEF dma_device_register, TypeInv, TypeOK, soft, tasklet
<1>4. CASE dma_device_unregister
  <2>1. own' \in [Chan -> [Desc -> Owns]] /\ buf' \in [Chan -> [Desc -> Bufs]]
    BY <1>4 DEF dma_device_unregister, TypeInv, TypeOK, Owns, Bufs
  <2>2. curr' \in [Chan -> Desc] /\ prev' \in [Chan -> Desc]
    BY <1>4 DEF dma_device_unregister, Desc
  <2>3. Cardinality({d \in Chan \X Desc : own[d[1]][d[2]] # "cpu"}) \in Nat
    BY CountsAreNatural
  <2>4. bufs' \in Int
    BY <1>4, <2>3 DEF dma_device_unregister, TypeInv, TypeOK
  <2>5. cie' \subseteq Chan /\ icu' \subseteq Chan /\ on' \subseteq Chan /\ status' \subseteq Chan
    BY <1>4 DEF dma_device_unregister, TypeInv, TypeOK
  <2>6. Locals'
    BY <1>4 DEF dma_device_unregister, Quiet, TypeInv, Locals, RxPCs, TxPCs, tasklet
  <2> QED
    BY <1>4, <2>1, <2>2, <2>4, <2>5, <2>6 DEF dma_device_unregister, TypeInv, TypeOK, tasklet
<1> QED
  BY <1>1, <1>2, <1>3, <1>4

\* TypeInv holds initially.
LEMMA InitTypes == Init => TypeInv
<1> SUFFICES ASSUME Init PROVE TypeInv
  OBVIOUS
<1>1. own \in [Chan -> [Desc -> Owns]] /\ buf \in [Chan -> [Desc -> Bufs]]
  BY DEF Init, Owns, Bufs
<1>2. 0 \in Desc
  BY SizeAssumption DEF Desc
<1>3. curr \in [Chan -> Desc] /\ prev \in [Chan -> Desc] /\ hw \in [Chan -> Desc]
  BY <1>2 DEF Init
<1>4. budget \in -1..Budget /\ weight \in [Chan -> 0..DefaultWeight]
  BY SizeAssumption DEF Init
<1>5. Locals
  BY DEF Init, Locals, RxPCs, TxPCs
<1>6. bufs \in Int
  BY DEF Init
<1> QED
  BY <1>1, <1>3, <1>4, <1>5, <1>6 DEF Init, TypeInv, TypeOK, PCs

\* Every step keeps TypeInv.
LEMMA StepTypes == TypeInv /\ [Next]_vars => TypeInv'
<1> SUFFICES ASSUME TypeInv, [Next]_vars PROVE TypeInv'
  OBVIOUS
<1>1. CASE Next
  BY <1>1, HardwareTypes, LoopTypes, RxTypes, TxTypes, WriteTypes, DeviceTypes DEF Next, Tasklet
<1>2. CASE UNCHANGED vars
  BY <1>2 DEF vars, TypeInv, TypeOK, Locals, rings, regs, soft, tasklet, driver
<1> QED
  BY <1>1, <1>2

\* The registers, rings, notes and local variables of the DMA core always have
\* their types: no position leaves its ring, no weight becomes negative, and
\* the handlers run for a channel of their own direction.
THEOREM TypeCorrect == Spec => [](TypeOK /\ Locals)
<1>1. Spec => []TypeInv
  BY InitTypes, StepTypes, PTL DEF Spec
<1>2. TypeInv => TypeOK /\ Locals
  BY DEF TypeInv
<1> QED
  BY <1>1, <1>2, PTL

-----------------------------------------------------------------------------
\* No step but these touches the notes, the flag, the scheduled bit or pc.
LEMMA RunIsDueStep ==
  ASSUME TypeInv, RunIsDue, [Next]_vars
  PROVE  RunIsDue'
<1> USE DEF RunIsDue
<1>1. ASSUME NEW c \in Chan, dma_interrupt(c)
      PROVE  RunIsDue'
  BY <1>1, Zenon DEF dma_interrupt, tasklet
<1>2. CASE RunTasklet
  BY <1>2, Zenon DEF RunTasklet
<1>3. CASE do_dma_tasklet /\ LoopEnd
  BY <1>3 DEF do_dma_tasklet, LoopEnd, soft
<1>4. CASE do_dma_tasklet /\ OutOfBudget
  BY <1>4 DEF do_dma_tasklet, OutOfBudget
<1>5. CASE do_dma_tasklet /\ NewWeights
  BY <1>5 DEF do_dma_tasklet, NewWeights, soft
<1>6. ASSUME NEW c \in Ready, do_dma_tasklet, Choose(c)
      PROVE  RunIsDue'
  BY <1>6 DEF do_dma_tasklet, Choose, soft
<1>7. CASE Finish
  BY <1>7, Zenon DEF Finish
<1>8. CASE rx_chan_intr_handler
  BY <1>8 DEF rx_chan_intr_handler, soft
<1>9. CASE dma_rx_int_handler
  BY <1>9 DEF dma_rx_int_handler, soft
<1>10. CASE RxAcknowledge
  BY <1>10 DEF RxAcknowledge, soft
<1>11. CASE RxForget
  <2>1. status' # {} => status # {}
    BY <1>11 DEF RxForget
  <2> QED
    BY <1>11, <2>1 DEF RxForget
<1>12. CASE tx_chan_intr_handler
  <2>1. status' # {} => status # {}
    BY <1>12 DEF tx_chan_intr_handler
  <2> QED
    BY <1>12, <2>1 DEF tx_chan_intr_handler
<1>13. CASE TransmitComplete
  <2>1. status' # {} => status # {}
    BY <1>13 DEF TransmitComplete, DisableIrq
  <2> QED
    BY <1>13, <2>1 DEF TransmitComplete
<1>14. CASE TransmitCompleteNull
  BY <1>14 DEF TransmitCompleteNull, soft
<1>15. CASE eth0_tx_timeout
  <2>1. status' # {} => status # {}
    BY <1>15 DEF eth0_tx_timeout, DisableIrq
  <2> QED
    BY <1>15, <2>1 DEF eth0_tx_timeout, tasklet
<1>16. ASSUME NEW p \in Ports, eth_stop(p)
       PROVE  RunIsDue'
  <2>1. status' # {} => status # {}
    BY <1>16 DEF eth_stop, DisableIrq
  <2> QED
    BY <1>16, <2>1 DEF eth_stop, tasklet
<1>17. CASE dma_device_unregister
  <2>1. status' # {} => status # {}
    BY <1>17 DEF dma_device_unregister
  <2> QED
    BY <1>17, <2>1 DEF dma_device_unregister, tasklet
<1>18. ASSUME NEW c \in Chan, Complete(c)
       PROVE  RunIsDue'
  BY <1>18 DEF Complete, soft, tasklet
<1>19. ASSUME NEW c \in Tx, eth0_xmit(c)
       PROVE  RunIsDue'
  BY <1>19 DEF eth0_xmit, soft, tasklet
<1>20. CASE Write
  BY <1>20 DEF Write, Reclaim, ReclaimEnd, Refuse, Put, WriteEnd, soft, tasklet
<1>21. ASSUME NEW p \in Ports, eth_open(p)
       PROVE  RunIsDue'
  BY <1>21 DEF eth_open, soft, tasklet
<1>22. ASSUME NEW k \in [Rx -> 0..DescLen], dma_device_register(k)
       PROVE  RunIsDue'
  BY <1>22 DEF dma_device_register, soft, tasklet
<1>23. CASE UNCHANGED vars
  BY <1>23 DEF vars, soft, tasklet
<1> HIDE DEF RunIsDue
<1> QED
  BY <1>1, <1>2, <1>3, <1>4, <1>5, <1>6, <1>7, <1>8, <1>9, <1>10, <1>11, <1>12, <1>13, <1>14,
     <1>15, <1>16, <1>17, <1>18, <1>19, <1>20, <1>21, <1>22, <1>23
  DEF Next, Tasklet, do_dma_tasklet

\* A noted channel always has a run of the tasklet before it, and
\* g_danube_dma_in_process says exactly whether one is due or going on.
THEOREM RunIsAlwaysDue == Spec => []RunIsDue
<1>1. Init => RunIsDue
  BY DEF Init, RunIsDue
<1>2. TypeInv /\ RunIsDue /\ [Next]_vars => RunIsDue'
  BY RunIsDueStep
<1> QED
  BY <1>1, <1>2, InitTypes, StepTypes, PTL DEF Spec

-----------------------------------------------------------------------------
\* Why no receive channel can become noted while no device is open: all of them
\* are off, and an event that is still latched is not enabled.  The tasklet is at
\* one only inside a visit to it, and no device is stopped then.
ClosedInv ==
  /\ chan \in Rx => pc \in RxPCs
  /\ up = {} => /\ status \cap Rx = {} /\ chan \notin Rx
                /\ on \cap Rx = {} /\ cis \cap cie \cap Rx = {}

\* ClosedInv is preserved.
LEMMA ClosedStep ==
  ASSUME TypeInv, ClosedInv, [Next]_vars
  PROVE  ClosedInv'
<1> USE DEF ClosedInv
<1>1. ASSUME NEW c \in Chan, Complete(c) \/ dma_interrupt(c)
      PROVE  ClosedInv'
  BY <1>1 DEF Complete, dma_interrupt, Raised, driver, soft, tasklet
<1>2. CASE RunTasklet
  BY <1>2 DEF RunTasklet, Quiet, RxPCs, driver, regs
<1>3. CASE do_dma_tasklet
  <2>1. UNCHANGED <<up, on, cis, cie, status>>
    BY <1>3 DEF do_dma_tasklet, LoopEnd, OutOfBudget, NewWeights, Choose, driver, regs, soft
  <2>2. chan \notin Rx
    BY <1>3 DEF do_dma_tasklet, RxPCs
  <2>3. chan' = chan \/ (chan' \in status /\ (chan' \in Rx => pc' = "rx"))
    BY <1>3 DEF do_dma_tasklet, LoopEnd, OutOfBudget, NewWeights, Choose, Ready
  <2> QED
    BY <2>1, <2>2, <2>3 DEF RxPCs
<1>4. CASE Finish \/ rx_chan_intr_handler \/ tx_chan_intr_handler \/ TransmitCompleteNull
  BY <1>4 DEF Finish, rx_chan_intr_handler, tx_chan_intr_handler, TransmitCompleteNull,
              RxPCs, TxPCs, TypeInv, Locals, driver, regs, soft
<1>5. CASE dma_rx_int_handler \/ RxAcknowledge \/ RxForget
  BY <1>5, ChanAssumption
  DEF dma_rx_int_handler, RxAcknowledge, RxForget, TypeInv, Locals, RxPCs, None, driver
<1>6. CASE TransmitComplete
  BY <1>6, ChanAssumption DEF TransmitComplete, DisableIrq, None
<1>7. ASSUME NEW c \in Tx, eth0_xmit(c)
      PROVE  ClosedInv'
  BY <1>7 DEF eth0_xmit, driver, regs, soft, tasklet
<1>8. CASE Reclaim \/ ReclaimEnd \/ Put
  BY <1>8 DEF Reclaim, ReclaimEnd, Put, driver, regs, soft, tasklet
<1>9. CASE Refuse \/ WriteEnd
  <2>1. UNCHANGED <<up, status, chan, pc, cis>>
    BY <1>9 DEF Refuse, WriteEnd, soft, tasklet
  <2>2. on' \subseteq on \cup Tx /\ cie' \subseteq cie \cup Tx
    BY <1>9 DEF Refuse, WriteEnd, TxBufFull, EnableIrq, TypeInv, Locals
  <2> QED
    BY <2>1, <2>2, ChanAssumption
<1>10. CASE eth0_tx_timeout
  BY <1>10 DEF eth0_tx_timeout, DisableIrq, tasklet
<1>11. ASSUME NEW p \in Ports, eth_open(p)
       PROVE  ClosedInv'
  BY <1>11 DEF eth_open, tasklet
<1>12. ASSUME NEW p \in Ports, eth_stop(p)
       PROVE  ClosedInv'
  <2>1. chan' \notin Rx
    BY <1>12, ChanAssumption DEF eth_stop, Quiet, RxPCs, tasklet
  <2>2. CASE up = {p}
    BY <1>12, <2>1, <2>2 DEF eth_stop, DisableIrq
  <2>3. CASE up # {p}
    BY <1>12, <2>1, <2>3 DEF eth_stop
  <2> QED
    BY <2>2, <2>3
<1>13. ASSUME NEW k \in [Rx -> 0..DescLen], dma_device_register(k)
       PROVE  ClosedInv'
  BY <1>13 DEF dma_device_register, soft, tasklet
<1>14. CASE dma_device_unregister
  BY <1>14 DEF dma_device_unregister, tasklet
<1>15. CASE UNCHANGED vars
  BY <1>15 DEF vars, regs, soft, driver, tasklet
<1> HIDE DEF ClosedInv
<1> QED
  BY <1>1, <1>2, <1>3, <1>4, <1>5, <1>6, <1>7, <1>8, <1>9, <1>10, <1>11, <1>12, <1>13, <1>14, <1>15
  DEF Next, Tasklet, Write

\* ClosedIsQuiet for any channels and devices: once the last device is stopped, the
\* tasklet that was scheduled for its packets finds no receive channel to serve,
\* and none is noted again before a device is opened.
THEOREM ClosedAlwaysQuiet == Spec => []ClosedIsQuiet
<1>1. Init => ClosedInv
  BY ChanAssumption DEF Init, ClosedInv, None
<1>2. TypeInv /\ ClosedInv /\ [Next]_vars => ClosedInv'
  BY ClosedStep
<1>3. ClosedInv => ClosedIsQuiet
  BY DEF ClosedInv, ClosedIsQuiet
<1> QED
  BY <1>1, <1>2, <1>3, InitTypes, StepTypes, PTL DEF Spec

-----------------------------------------------------------------------------
\* Nothing is open, on, noted for reception or being written while the DMA is
\* not registered, and the positions of the rings start again at 0.
Registered ==
  ~reg => /\ on = {} /\ up = {} /\ cie = {} /\ status \cap Rx = {} /\ wr = "idle"
          /\ \A c \in Chan : curr[c] = 0 /\ prev[c] = 0

\* The buffers of the core are exactly those of the descriptors that are not
\* the CPU's empty ones, as long as it is registered.
Filled ==
  ~Stale => \A c \in Chan, i \in Desc : buf[c][i] = "live" <=> reg /\ own[c][i] # "cpu"

\* The tasklet calls the driver only for a channel with a packet.
ReadsPacket == pc = "rxcb" => Done(chan)

\* Registered is preserved.
LEMMA RegisteredStep ==
  ASSUME TypeInv, Registered, [Next]_vars
  PROVE  Registered'
<1> USE DEF Registered
<1>1. ASSUME NEW c \in Chan, Complete(c) \/ dma_interrupt(c)
      PROVE  Registered'
  BY <1>1 DEF Complete, dma_interrupt, Raised, driver, rings, soft
<1>2. CASE RunTasklet
  BY <1>2 DEF RunTasklet, driver, rings, regs
<1>3. CASE do_dma_tasklet
  BY <1>3 DEF do_dma_tasklet, LoopEnd, OutOfBudget, NewWeights, Choose, driver, rings, regs, soft
<1>4. CASE Finish \/ rx_chan_intr_handler \/ RxAcknowledge \/ RxForget \/ tx_chan_intr_handler
  BY <1>4 DEF Finish, rx_chan_intr_handler, RxAcknowledge, RxForget, tx_chan_intr_handler,
              driver, rings, regs, soft
<1>5. CASE dma_rx_int_handler
  BY <1>5 DEF dma_rx_int_handler, TypeInv, Locals, RxPCs, driver
<1>6. CASE TransmitComplete \/ TransmitCompleteNull
  BY <1>6 DEF TransmitComplete, TransmitCompleteNull, DisableIrq, driver, rings, regs, soft
<1>7. ASSUME NEW c \in Tx, eth0_xmit(c)
      PROVE  Registered'
  BY <1>7 DEF eth0_xmit, driver
<1>8. CASE Write
  BY <1>8 DEF Write, Reclaim, ReclaimEnd, Refuse, Put, WriteEnd, driver
<1>9. CASE eth0_tx_timeout
  BY <1>9 DEF eth0_tx_timeout
<1>10. ASSUME NEW p \in Ports, eth_open(p) \/ eth_stop(p)
       PROVE  Registered'
  BY <1>10 DEF eth_open, eth_stop
<1>11. ASSUME NEW k \in [Rx -> 0..DescLen], dma_device_register(k)
       PROVE  Registered'
  BY <1>11 DEF dma_device_register
<1>12. CASE dma_device_unregister
  BY <1>12 DEF dma_device_unregister, Quiet
<1>13. CASE UNCHANGED vars
  BY <1>13 DEF vars, rings, regs, soft, driver
<1> HIDE DEF Registered
<1> QED
  BY <1>1, <1>2, <1>3, <1>4, <1>5, <1>6, <1>7, <1>8, <1>9, <1>10, <1>11, <1>12, <1>13
  DEF Next, Tasklet

\* ReadsPacket is preserved: the engine takes only descriptors that are its own.
LEMMA ReadsPacketStep ==
  ASSUME TypeInv, ReadsPacket, [Next]_vars
  PROVE  ReadsPacket'
<1> SUFFICES ASSUME pc' = "rxcb"
             PROVE  own'[chan'][curr'[chan']] = "done"
  BY DEF ReadsPacket, Done
<1>1. ASSUME NEW c \in Chan, Complete(c)
      PROVE  own'[chan'][curr'[chan']] = "done"
  <2>1. pc = "rxcb" /\ chan' = chan /\ curr' = curr
    BY <1>1 DEF Complete, tasklet
  <2>2. chan \in Chan /\ own[chan][curr[chan]] = "done"
    BY <2>1 DEF ReadsPacket, Done, TypeInv, Locals, RxPCs, Chan
  <2>3. curr[chan] \in Desc /\ hw[c] \in Desc /\ own \in [Chan -> [Desc -> Owns]]
    BY <2>2 DEF TypeInv, TypeOK
  <2> QED
    BY <1>1, <2>1, <2>2, <2>3 DEF Complete
<1>2. CASE rx_chan_intr_handler
  BY <1>2 DEF rx_chan_intr_handler, Done, rings
<1>3. CASE Write
  <2>1. pc = "rxcb" /\ chan' = chan
    BY <1>3 DEF Write, Reclaim, ReclaimEnd, Refuse, Put, WriteEnd, tasklet
  <2>2. chan \in Rx /\ chan \in Chan /\ own[chan][curr[chan]] = "done"
    BY <2>1 DEF ReadsPacket, Done, TypeInv, Locals, RxPCs, Chan
  <2>3. wchan \in Tx /\ wchan # chan
    BY <1>3, <2>2, ChanAssumption
    DEF Write, Reclaim, ReclaimEnd, Refuse, Put, WriteEnd, TypeInv, Locals
  <2>4. own'[chan] = own[chan] /\ curr'[chan] = curr[chan]
    BY <1>3, <2>2, <2>3 DEF Write, Reclaim, ReclaimEnd, Refuse, Put, WriteEnd, rings, TypeInv, TypeOK
  <2> QED
    BY <2>1, <2>2, <2>4
<1>4. CASE \/ \E c \in Chan : dma_interrupt(c)
           \/ UNCHANGED vars
  BY <1>4 DEF dma_interrupt, vars, rings, tasklet, ReadsPacket, Done
<1>5. CASE \/ RunTasklet \/ do_dma_tasklet \/ Finish
           \/ dma_rx_int_handler \/ RxAcknowledge \/ RxForget
           \/ tx_chan_intr_handler \/ TransmitComplete \/ TransmitCompleteNull
  BY <1>5 DEF RunTasklet, do_dma_tasklet, LoopEnd, OutOfBudget, NewWeights, Choose, Finish,
              dma_rx_int_handler, RxAcknowledge, RxForget, tx_chan_intr_handler,
              TransmitComplete, TransmitCompleteNull
<1>6. CASE \/ \E c \in Tx : eth0_xmit(c)
           \/ eth0_tx_timeout
           \/ \E p \in Ports : eth_open(p) \/ eth_stop(p)
           \/ \E k \in [Rx -> 0..DescLen] : dma_device_register(k)
           \/ dma_device_unregister
  BY <1>6 DEF eth0_xmit, eth0_tx_timeout, eth_open, eth_stop, dma_device_register,
              dma_device_unregister, Quiet, tasklet
<1> QED
  BY <1>1, <1>2, <1>3, <1>4, <1>5, <1>6 DEF Next, Tasklet

\* The steps that leave the descriptors, the registration and the notes about
\* memory alone.
LEMMA TablesKept ==
  ASSUME \/ \E c \in Chan : dma_interrupt(c)
         \/ RunTasklet \/ do_dma_tasklet \/ Finish
         \/ rx_chan_intr_handler \/ RxAcknowledge \/ RxForget
         \/ tx_chan_intr_handler \/ TransmitComplete \/ TransmitCompleteNull
         \/ \E c \in Tx : eth0_xmit(c)
         \/ ReclaimEnd \/ Refuse \/ WriteEnd \/ eth0_tx_timeout
         \/ \E p \in Ports : eth_open(p) \/ eth_stop(p)
         \/ UNCHANGED vars
  PROVE  UNCHANGED <<own, buf, curr, prev, hw, reg, lowmem>>
  BY DEF dma_interrupt, RunTasklet, do_dma_tasklet, Finish, rx_chan_intr_handler, RxAcknowledge,
         RxForget, tx_chan_intr_handler, TransmitComplete, TransmitCompleteNull, eth0_xmit,
         ReclaimEnd, Refuse, WriteEnd, eth0_tx_timeout, eth_open, eth_stop, vars, rings, driver

\* Filled is preserved.
LEMMA FilledStep ==
  ASSUME TypeInv, Registered, ReadsPacket, Filled, [Next]_vars
  PROVE  Filled'
<1> SUFFICES ASSUME ~Stale', NEW c \in Chan, NEW i \in Desc
             PROVE  buf'[c][i] = "live" <=> reg' /\ own'[c][i] # "cpu"
  BY DEF Filled
<1>1. own \in [Chan -> [Desc -> Owns]] /\ buf \in [Chan -> [Desc -> Bufs]]
  BY DEF TypeInv, TypeOK
<1>2. curr \in [Chan -> Desc] /\ prev \in [Chan -> Desc] /\ hw \in [Chan -> Desc]
  BY DEF TypeInv, TypeOK
<1>3. ASSUME UNCHANGED <<own, buf, reg, lowmem>>
      PROVE  buf'[c][i] = "live" <=> reg' /\ own'[c][i] # "cpu"
  BY <1>3 DEF Filled, Stale
<1>4. ASSUME NEW e \in Chan, Complete(e)
      PROVE  buf'[c][i] = "live" <=> reg' /\ own'[c][i] # "cpu"
  <2>1. ~Stale /\ buf' = buf /\ reg' = reg
    BY <1>4 DEF Complete, Stale, driver
  <2>2. own'[c][i] # "cpu" <=> own[c][i] # "cpu"
    BY <1>1, <1>2, <1>4 DEF Complete
  <2> QED
    BY <2>1, <2>2 DEF Filled
<1>5. CASE dma_rx_int_handler
  <2>1. chan \in Chan /\ own[chan][curr[chan]] = "done" /\ curr[chan] \in Desc
    BY <1>2, <1>5 DEF dma_rx_int_handler, ReadsPacket, Done, TypeInv, Locals, RxPCs, Chan
  <2>2. reg' = reg /\ reg
    BY <1>5 DEF dma_rx_int_handler, driver, TypeInv, Locals, RxPCs, Registered
  <2>3. CASE Replace(chan)
    <3>1. ~Stale
      BY <2>3 DEF Replace, Stale
    <3>2. CASE c = chan /\ i = curr[chan]
      <4>1. own'[c][i] = "dma" /\ buf'[c][i] = "live"
        BY <1>1, <2>1, <2>3, <3>2 DEF Replace
      <4> QED
        BY <4>1, <2>2
    <3>3. CASE ~(c = chan /\ i = curr[chan])
      <4>1. own'[c][i] = own[c][i] /\ buf'[c][i] = buf[c][i]
        BY <1>1, <2>3, <3>3 DEF Replace
      <4> QED
        BY <4>1, <3>1, <2>2 DEF Filled
    <3> QED
      BY <3>2, <3>3
  <2>4. CASE NoMemory(chan)
    BY <2>2, <2>4 DEF NoMemory, Filled, Stale
  <2> QED
    BY <1>5, <2>3, <2>4 DEF dma_rx_int_handler
<1>6. CASE Reclaim
  <2>1. wchan \in Chan /\ prev[wchan] \in Desc /\ reg /\ reg' = reg /\ ~Stale
    BY <1>2, <1>6 DEF Reclaim, TypeInv, Locals, Chan, Registered, driver, Stale
  <2>2. CASE c = wchan /\ i = prev[wchan]
    <3>1. own'[c][i] = "cpu" /\ buf'[c][i] = "none"
      BY <1>1, <1>6, <2>1, <2>2 DEF Reclaim
    <3> QED
      BY <3>1
  <2>3. CASE ~(c = wchan /\ i = prev[wchan])
    <3>1. own'[c][i] = own[c][i] /\ buf'[c][i] = buf[c][i]
      BY <1>1, <1>6, <2>3 DEF Reclaim
    <3> QED
      BY <3>1, <2>1 DEF Filled
  <2> QED
    BY <2>2, <2>3
<1>7. CASE Put
  <2>1. wchan \in Chan /\ curr[wchan] \in Desc /\ reg /\ reg' = reg /\ ~Stale
    BY <1>2, <1>7 DEF Put, TypeInv, Locals, Chan, Registered, driver, Stale
  <2>2. CASE c = wchan /\ i = curr[wchan]
    <3>1. own'[c][i] = "dma" /\ buf'[c][i] = "live"
      BY <1>1, <1>7, <2>1, <2>2 DEF Put
    <3> QED
      BY <3>1, <2>1
  <2>3. CASE ~(c = wchan /\ i = curr[wchan])
    <3>1. own'[c][i] = own[c][i] /\ buf'[c][i] = buf[c][i]
      BY <1>1, <1>7, <2>3 DEF Put
    <3> QED
      BY <3>1, <2>1 DEF Filled
  <2> QED
    BY <2>2, <2>3
<1>8. ASSUME NEW k \in [Rx -> 0..DescLen], dma_device_register(k)
      PROVE  buf'[c][i] = "live" <=> reg' /\ own'[c][i] # "cpu"
  <2>1. reg'
    BY <1>8 DEF dma_device_register
  <2>2. CASE c \in Tx
    BY <1>8, <2>2 DEF dma_device_register
  <2>3. CASE c \in Rx /\ i < k[c]
    <3>1. own'[c][i] = "dma" /\ buf'[c][i] = "live"
      BY <1>8, <2>3, ChanAssumption DEF dma_device_register
    <3> QED
      BY <2>1, <3>1
  <2>4. CASE c \in Rx /\ ~(i < k[c])
    <3>1. own'[c][i] = own[c][i] /\ buf'[c][i] = buf[c][i]
      BY <1>8, <2>4, ChanAssumption DEF dma_device_register
    <3>2. ~(\E e \in Rx, j \in Desc : j >= k[e] /\ own[e][j] # "cpu")
      BY <1>8 DEF dma_device_register, Stale
    <3>3. k[c] \in Nat /\ i \in Nat
      BY <2>4, SizeAssumption DEF Desc
    <3>4. own[c][i] = "cpu"
      BY <2>4, <3>2, <3>3
    <3>5. buf[c][i] # "live"
      BY <1>8, <3>4 DEF dma_device_register, Filled, Stale
    <3> QED
      BY <3>1, <3>4, <3>5
  <2> QED
    BY <2>2, <2>3, <2>4 DEF Chan
<1>9. CASE dma_device_unregister
  <2>1. ~reg' /\ reg /\ ~Stale
    BY <1>9 DEF dma_device_unregister, Stale
  <2>2. buf'[c][i] # "live"
    BY <1>1, <1>9, <2>1 DEF dma_device_unregister, Filled
  <2> QED
    BY <2>1, <2>2
<1> QED
  BY <1>3, <1>4, <1>5, <1>6, <1>7, <1>8, <1>9, TablesKept DEF Next, Tasklet, Write

\* The four parts of the argument about buffers.
RingInv == TypeInv /\ Registered /\ ReadsPacket /\ Filled

\* RingInv holds initially.
LEMMA InitRing == Init => RingInv
<1> SUFFICES ASSUME Init PROVE Registered /\ ReadsPacket /\ Filled
  BY InitTypes DEF RingInv
<1>1. Registered
  BY DEF Init, Registered
<1>2. ReadsPacket
  BY DEF Init, ReadsPacket
<1>3. Filled
  BY DEF Init, Filled
<1> QED
  BY <1>1, <1>2, <1>3

\* Every step keeps RingInv.
LEMMA StepRing == RingInv /\ [Next]_vars => RingInv'
  BY StepTypes, RegisteredStep, ReadsPacketStep, FilledStep DEF RingInv

\* The engine never works on memory that was freed, through stops, reads
\* without memory, unregistering and registering again.
THEOREM EngineAlwaysOwnsLive == Spec => []EngineOwnsLive
<1>1. RingInv => EngineOwnsLive
  <2> SUFFICES ASSUME RingInv, ~Stale, NEW c \in on, NEW i \in Desc, own[c][i] = "dma"
               PROVE  buf[c][i] = "live"
    BY DEF EngineOwnsLive
  <2>1. c \in Chan /\ reg
    BY DEF RingInv, TypeInv, TypeOK, Registered
  <2> QED
    BY <2>1 DEF RingInv, Filled
<1> QED
  BY <1>1, InitRing, StepRing, PTL DEF Spec

-----------------------------------------------------------------------------
\* The descriptors with a buffer, and the packet dma_device_write still holds.
Live == {d \in Chan \X Desc : buf[d[1]][d[2]] = "live"}
InHand == IF wr \in {"reclaim", "put"} THEN 1 ELSE 0

\* Live is finite.
LEMMA LiveFinite == IsFiniteSet(Live) /\ IsFiniteSet(Live') /\ Cardinality(Live) \in Nat
<1>1. Live \in SUBSET (Chan \X Desc) /\ Live' \in SUBSET (Chan \X Desc)
  BY DEF Live
<1>2. IsFiniteSet(Chan \X Desc)
  BY DescriptorsFinite
<1>3. IsFiniteSet(Live) /\ IsFiniteSet(Live')
  BY <1>1, <1>2, FS_Subset
<1> QED
  BY <1>3, FS_CardinalityType

\* BuffersAccounted is preserved.
LEMMA AccountedStep ==
  ASSUME RingInv, RingInv', BuffersAccounted, [Next]_vars
  PROVE  BuffersAccounted'
<1> SUFFICES ASSUME ~Stale' PROVE bufs' = Cardinality(Live') + InHand'
  BY DEF BuffersAccounted, Live, InHand
<1>0. ASSUME ~Stale PROVE bufs = Cardinality(Live) + InHand
  BY <1>0 DEF BuffersAccounted, Live, InHand
<1>1. own \in [Chan -> [Desc -> Owns]] /\ buf \in [Chan -> [Desc -> Bufs]]
  BY DEF RingInv, TypeInv, TypeOK
<1>2. curr \in [Chan -> Desc] /\ prev \in [Chan -> Desc]
  BY DEF RingInv, TypeInv, TypeOK
<1>3. bufs \in Int /\ wr \in {"idle", "reclaim", "put", "next"}
  BY DEF RingInv, TypeInv, TypeOK
<1>4. Cardinality(Live) \in Nat
  BY LiveFinite
<1>5. ASSUME UNCHANGED <<buf, lowmem, bufs, wr>>
      PROVE  bufs' = Cardinality(Live') + InHand'
  BY <1>0, <1>5 DEF Live, InHand, Stale
<1>6. ASSUME UNCHANGED <<buf, lowmem>>
      PROVE  ~Stale /\ Live' = Live
  BY <1>6 DEF Live, Stale
<1>7. ASSUME NEW c \in Tx, eth0_xmit(c)
      PROVE  bufs' = Cardinality(Live') + InHand'
  <2>1. bufs' = bufs + 1 /\ InHand = 0 /\ InHand' = 1 /\ ~Stale /\ Live' = Live
    BY <1>6, <1>7 DEF eth0_xmit, Quiet, InHand, rings
  <2> QED
    BY <2>1, <1>0, <1>4
<1>8. CASE ReclaimEnd
  <2>1. bufs' = bufs /\ InHand = 1 /\ InHand' = 1 /\ ~Stale /\ Live' = Live
    BY <1>6, <1>8 DEF ReclaimEnd, InHand, rings
  <2> QED
    BY <2>1, <1>0, <1>4
<1>9. CASE Refuse
  <2>1. bufs' = bufs - 1 /\ InHand = 1 /\ InHand' = 0 /\ ~Stale /\ Live' = Live
    BY <1>6, <1>9 DEF Refuse, InHand, rings
  <2> QED
    BY <2>1, <1>0, <1>4
<1>10. CASE WriteEnd
  <2>1. bufs' = bufs /\ InHand = 0 /\ InHand' = 0 /\ ~Stale /\ Live' = Live
    BY <1>6, <1>10 DEF WriteEnd, InHand, rings
  <2> QED
    BY <2>1, <1>0, <1>4
<1>11. CASE Reclaim
  <2> DEFINE e == <<wchan, prev[wchan]>>
  <2>1. wchan \in Chan /\ prev[wchan] \in Desc /\ reg /\ ~Stale
    BY <1>2, <1>11 DEF Reclaim, RingInv, TypeInv, Locals, Chan, Registered, Stale
  <2>2. e \in Live
    BY <1>11, <2>1 DEF Reclaim, RingInv, Filled, Live
  <2>3. \A c \in Chan, i \in Desc :
          buf'[c][i] = IF c = wchan /\ i = prev[wchan] THEN "none" ELSE buf[c][i]
    BY <1>1, <1>11, <2>1 DEF Reclaim
  <2>4. Live' = Live \ {e}
    BY <2>1, <2>3 DEF Live
  <2>5. Cardinality(Live') = Cardinality(Live) - 1
    BY <2>2, <2>4, LiveFinite, FS_RemoveElement
  <2>6. bufs' = bufs - 1 /\ InHand = 1 /\ InHand' = 1
    BY <1>11 DEF Reclaim, InHand
  <2> QED
    BY <2>1, <2>5, <2>6, <1>0, <1>3, <1>4
<1>12. CASE Put
  <2> DEFINE e == <<wchan, curr[wchan]>>
  <2>1. wchan \in Chan /\ curr[wchan] \in Desc /\ reg /\ ~Stale
    BY <1>2, <1>12 DEF Put, RingInv, TypeInv, Locals, Chan, Registered, Stale
  <2>2. e \notin Live
    BY <1>12, <2>1 DEF Put, RingInv, Filled, Live
  <2>3. \A c \in Chan, i \in Desc :
          buf'[c][i] = IF c = wchan /\ i = curr[wchan] THEN "live" ELSE buf[c][i]
    BY <1>1, <1>12, <2>1 DEF Put
  <2>4. Live' = Live \cup {e}
    BY <2>1, <2>3 DEF Live
  <2>5. Cardinality(Live') = Cardinality(Live) + 1
    BY <2>2, <2>4, LiveFinite, FS_AddElement
  <2>6. bufs' = bufs /\ InHand = 1 /\ InHand' = 0
    BY <1>12 DEF Put, InHand
  <2> QED
    BY <2>1, <2>5, <2>6, <1>0, <1>3, <1>4
<1>13. CASE dma_rx_int_handler
  <2>1. chan \in Chan /\ curr[chan] \in Desc /\ own[chan][curr[chan]] = "done" /\ reg
    BY <1>2, <1>13
    DEF dma_rx_int_handler, RingInv, ReadsPacket, Done, TypeInv, Locals, RxPCs, Chan, Registered
  <2>2. ~Stale
    BY <1>13 DEF dma_rx_int_handler, Replace, NoMemory, Stale
  <2>3. buf[chan][curr[chan]] = "live"
    BY <2>1, <2>2 DEF RingInv, Filled
  <2>4. buf' = buf
    BY <1>1, <1>13, <2>1, <2>3 DEF dma_rx_int_handler, Replace, NoMemory
  <2>5. bufs' = bufs /\ InHand' = InHand
    BY <1>13 DEF dma_rx_int_handler, InHand
  <2>6. Live' = Live
    BY <2>4 DEF Live
  <2> QED
    BY <2>2, <2>5, <2>6, <1>0
<1>14. ASSUME NEW k \in [Rx -> 0..DescLen], dma_device_register(k)
       PROVE  bufs' = Cardinality(Live') + InHand'
  <2> DEFINE G == {d \in Rx \X Desc : d[2] < k[d[1]]}
  <2>1. ~reg /\ ~Stale /\ reg' /\ InHand = 0 /\ InHand' = 0
    BY <1>14 DEF dma_device_register, Quiet, InHand, Stale
  <2>2. Live = {}
    BY <2>1 DEF RingInv, Filled, Live
  <2>3. bufs = 0
    BY <2>1, <2>2, <1>0, FS_EmptySet
  <2>4. \A c \in Chan, i \in Desc : buf[c][i] # "live"
    BY <2>1 DEF RingInv, Filled
  <2>5. \A c \in Tx, i \in Desc : buf'[c][i] = "none"
    BY <1>14 DEF dma_device_register, Chan
  <2>6. \A c \in Rx, i \in Desc : buf'[c][i] = IF i < k[c] THEN "live" ELSE buf[c][i]
    BY <1>14, ChanAssumption DEF dma_device_register, Chan
  <2>7. \A c \in Chan, i \in Desc : buf'[c][i] = "live" <=> c \in Rx /\ i < k[c]
    BY <2>4, <2>5, <2>6, ChanAssumption DEF Chan
  <2>8. Live' = G
    BY <2>7 DEF Live, Chan
  <2>9. bufs' = bufs + Cardinality(G)
    BY <1>14 DEF dma_device_register
  <2>10. Cardinality(G) \in Nat
    BY CountsAreNatural
  <2> HIDE DEF G
  <2> QED
    BY <2>1, <2>3, <2>8, <2>9, <2>10
<1>15. CASE dma_device_unregister
  <2> DEFINE G == {d \in Chan \X Desc : own[d[1]][d[2]] # "cpu"}
  <2>1. reg /\ ~Stale /\ ~reg' /\ InHand = 0 /\ InHand' = 0
    BY <1>15 DEF dma_device_unregister, Quiet, InHand, Stale
  <2>2. G = Live
    BY <2>1 DEF RingInv, Filled, Live
  <2>3. Live' = {}
    BY <2>1 DEF RingInv, Filled, Live
  <2>4. bufs' = bufs - Cardinality(G)
    BY <1>15 DEF dma_device_unregister
  <2>5. Cardinality(Live') = 0
    BY <2>3, FS_EmptySet
  <2> HIDE DEF G
  <2> QED
    BY <2>1, <2>2, <2>4, <2>5, <1>0, <1>4
<1>16. CASE \/ \E c \in Chan : Complete(c) \/ dma_interrupt(c)
            \/ RunTasklet \/ do_dma_tasklet \/ Finish
            \/ rx_chan_intr_handler \/ RxAcknowledge \/ RxForget
            \/ tx_chan_intr_handler \/ TransmitComplete \/ TransmitCompleteNull
            \/ eth0_tx_timeout
            \/ \E p \in Ports : eth_open(p) \/ eth_stop(p)
            \/ UNCHANGED vars
  <2>1. UNCHANGED <<buf, lowmem, bufs, wr>>
    BY <1>16
    DEF Complete, dma_interrupt, RunTasklet, do_dma_tasklet, Finish, rx_chan_intr_handler,
        RxAcknowledge, RxForget, tx_chan_intr_handler, TransmitComplete, TransmitCompleteNull,
        eth0_tx_timeout, eth_open, eth_stop, vars, rings
  <2> QED
    BY <1>5, <2>1
<1> QED
  BY <1>7, <1>8, <1>9, <1>10, <1>11, <1>12, <1>13, <1>14, <1>15, <1>16 DEF Next, Tasklet, Write

\* Every buffer is in one descriptor or in the hands of dma_device_write until
\* it is freed or passed up once, however long the rings are.
THEOREM BuffersAlwaysAccounted == Spec => []BuffersAccounted
<1>1. Init => BuffersAccounted
  <2> SUFFICES ASSUME Init PROVE BuffersAccounted
    OBVIOUS
  <2>1. Live = {} /\ InHand = 0 /\ bufs = 0
    BY DEF Init, Live, InHand
  <2> QED
    BY <2>1, FS_EmptySet DEF BuffersAccounted, Live, InHand
<1>2. RingInv /\ RingInv' /\ BuffersAccounted /\ [Next]_vars => BuffersAccounted'
  BY AccountedStep
<1> QED
  BY <1>1, <1>2, InitRing, StepRing, PTL DEF Spec

-----------------------------------------------------------------------------
\* What makes an event reach the CPU.  A channel that is on has its events
\* enabled, and its line too unless it is noted; the tasklet enables the line
\* before it looks whether to forget the channel; a ring that is not on holds
\* no packet.
Watched == \A c \in Rx \cap on : c \in cie /\ (c \in status \/ c \in icu)
EnabledFirst == pc = "rxown" => chan \in icu
ClosedEmpty == \A c \in Rx \ on, i \in Desc : own[c][i] # "done"

EventInv == Watched /\ EnabledFirst /\ ClosedEmpty /\ NoLostPacketEvent

\* Every step keeps EventInv as long as no device is stopped.
LEMMA EventStep ==
  ASSUME ~MayStop, RingInv, EventInv, [Next]_vars
  PROVE  EventInv'
<1>1. own \in [Chan -> [Desc -> Owns]] /\ curr \in [Chan -> Desc] /\ hw \in [Chan -> Desc]
  BY DEF RingInv, TypeInv, TypeOK
<1>2. Rx \subseteq Chan /\ Tx \subseteq Chan /\ Rx \cap Tx = {}
  BY ChanAssumption DEF Chan
<1>3. ASSUME NEW c \in Chan, Complete(c)
      PROVE  EventInv'
  <2>1. Watched' /\ EnabledFirst'
    BY <1>3 DEF Complete, EventInv, Watched, EnabledFirst, soft, tasklet
  <2>2. \A e \in Chan : e # c => own'[e] = own[e]
    BY <1>1, <1>3 DEF Complete
  <2>3. c \in on /\ on' = on /\ curr' = curr /\ status' = status /\ cie' = cie /\ icu' = icu
        /\ cis' = cis \cup {c}
    BY <1>3 DEF Complete, soft
  <2>4. ClosedEmpty'
    BY <1>2, <2>2, <2>3 DEF EventInv, ClosedEmpty
  <2>5. NoLostPacketEvent'
    BY <1>2, <2>1, <2>2, <2>3 DEF EventInv, NoLostPacketEvent, Watched, Done, Raised
  <2> QED
    BY <2>1, <2>4, <2>5 DEF EventInv
<1>4. ASSUME NEW c \in Chan, dma_interrupt(c)
      PROVE  EventInv'
  BY <1>4 DEF dma_interrupt, EventInv, Watched, EnabledFirst, ClosedEmpty, NoLostPacketEvent, Done,
              Raised, rings, tasklet
<1>5. CASE RunTasklet \/ do_dma_tasklet \/ Finish \/ rx_chan_intr_handler
  <2>1. UNCHANGED <<own, curr, on, cis, cie, icu, status>> /\ pc' # "rxown"
    BY <1>5 DEF RunTasklet, do_dma_tasklet, LoopEnd, OutOfBudget, NewWeights, Choose, Finish,
                rx_chan_intr_handler, rings, regs, soft
  <2> QED
    BY <2>1 DEF EventInv, Watched, EnabledFirst, ClosedEmpty, NoLostPacketEvent, Done, Raised
<1>6. CASE dma_rx_int_handler
  <2>1. chan \in Rx /\ chan \in status /\ chan \in Chan /\ curr[chan] \in Desc
    BY <1>1, <1>6 DEF dma_rx_int_handler, RingInv, TypeInv, Locals, RxPCs, Chan
  <2>2. UNCHANGED <<on, cis, cie, icu, status>> /\ pc' # "rxown"
    BY <1>6 DEF dma_rx_int_handler, regs, soft
  <2>3. \A e \in Chan : e # chan => own'[e] = own[e] /\ curr'[e] = curr[e]
    BY <1>1, <1>6, <2>1 DEF dma_rx_int_handler, Replace, NoMemory
  <2>4. \A i \in Desc : own'[chan][i] = "done" => own[chan][i] = "done"
    BY <1>1, <1>6, <2>1 DEF dma_rx_int_handler, Replace, NoMemory
  <2>5. ClosedEmpty'
    BY <1>2, <2>1, <2>2, <2>3, <2>4 DEF EventInv, ClosedEmpty
  <2>6. NoLostPacketEvent'
    BY <1>2, <2>1, <2>2, <2>3 DEF EventInv, NoLostPacketEvent, Done, Raised
  <2> QED
    BY <2>2, <2>5, <2>6 DEF EventInv, Watched, EnabledFirst
<1>7. CASE RxAcknowledge
  <2>1. chan \in status
    BY <1>7 DEF RxAcknowledge, RingInv, TypeInv, Locals, RxPCs
  <2>2. UNCHANGED <<own, curr, on, cie, status, chan>> /\ icu' = icu \cup {chan} /\ cis' = cis \ {chan}
    BY <1>7 DEF RxAcknowledge, rings, soft
  <2> QED
    BY <2>1, <2>2 DEF EventInv, Watched, EnabledFirst, ClosedEmpty, NoLostPacketEvent, Done, Raised
<1>8. CASE RxForget
  <2>1. UNCHANGED <<own, curr, on, cis, cie, icu>> /\ pc' # "rxown" /\ chan \in icu
    BY <1>8 DEF RxForget, rings, regs, EventInv, EnabledFirst
  <2>2. \/ status' = status \ {chan} /\ own[chan][curr[chan]] = "dma"
        \/ status' = status
    BY <1>8 DEF RxForget
  <2> QED
    BY <2>1, <2>2 DEF EventInv, Watched, EnabledFirst, ClosedEmpty, NoLostPacketEvent, Done, Raised
<1>9. CASE tx_chan_intr_handler \/ TransmitCompleteNull
  <2>1. chan \in Tx /\ chan \notin Rx
    BY <1>2, <1>9 DEF tx_chan_intr_handler, TransmitCompleteNull, RingInv, TypeInv, Locals, TxPCs
  <2>2. UNCHANGED <<own, curr, on, cie, icu>> /\ pc' # "rxown"
    BY <1>9 DEF tx_chan_intr_handler, TransmitCompleteNull, rings, regs
  <2>3. \A e \in Rx : (e \in status' <=> e \in status) /\ (e \in cis' <=> e \in cis)
    BY <1>9, <2>1 DEF tx_chan_intr_handler, TransmitCompleteNull, regs, soft
  <2> QED
    BY <2>2, <2>3 DEF EventInv, Watched, EnabledFirst, ClosedEmpty, NoLostPacketEvent, Done, Raised
<1>10. CASE TransmitComplete \/ eth0_tx_timeout
  <2>1. UNCHANGED <<own, curr, on, cis>> /\ pc' # "rxown"
    BY <1>10 DEF TransmitComplete, eth0_tx_timeout, Quiet, rings, tasklet
  <2>2. \A e \in Rx : /\ e \in status' <=> e \in status
                      /\ e \in cie' <=> e \in cie
                      /\ e \in icu' <=> e \in icu
    BY <1>2, <1>10 DEF TransmitComplete, eth0_tx_timeout, DisableIrq
  <2> QED
    BY <2>1, <2>2 DEF EventInv, Watched, EnabledFirst, ClosedEmpty, NoLostPacketEvent, Done, Raised
<1>11. CASE Write
  <2>1. wchan \in Tx /\ wchan \notin Rx
    BY <1>2, <1>11
    DEF Write, Reclaim, ReclaimEnd, Refuse, Put, WriteEnd, RingInv, TypeInv, Locals
  <2>2. \A e \in Rx : own'[e] = own[e] /\ curr'[e] = curr[e] /\ (e \in on' <=> e \in on)
    BY <1>1, <1>2, <1>11, <2>1
    DEF Write, Reclaim, ReclaimEnd, Refuse, Put, WriteEnd, rings, regs
  <2>3. UNCHANGED <<cis, status, pc, chan>>
    BY <1>11 DEF Write, Reclaim, ReclaimEnd, Refuse, Put, WriteEnd, regs, soft, tasklet
  <2>4. cie \subseteq cie' /\ icu \subseteq icu'
    BY <1>11 DEF Write, Reclaim, ReclaimEnd, Refuse, Put, WriteEnd, TxBufFull, EnableIrq, regs
  <2> QED
    BY <2>2, <2>3, <2>4 DEF EventInv, Watched, EnabledFirst, ClosedEmpty, NoLostPacketEvent, Done, Raised
<1>12. ASSUME NEW c \in Tx, eth0_xmit(c)
       PROVE  EventInv'
  BY <1>12 DEF eth0_xmit, EventInv, Watched, EnabledFirst, ClosedEmpty, NoLostPacketEvent, Done,
               Raised, rings, regs, soft, tasklet
<1>13. ASSUME NEW p \in Ports, eth_open(p)
       PROVE  EventInv'
  <2>1. UNCHANGED <<own, curr, cis, status>> /\ pc' # "rxown"
    BY <1>13 DEF eth_open, Quiet, rings, soft, tasklet
  <2>2. \/ on' = on /\ cie' = cie /\ icu' = icu
        \/ on' = on \cup Rx /\ cie' = cie \cup Rx /\ icu' = icu \cup Rx
    BY <1>13 DEF eth_open, EnableIrq
  <2>3. Watched'
    BY <2>1, <2>2 DEF EventInv, Watched
  <2>4. ClosedEmpty'
    BY <2>1, <2>2 DEF EventInv, ClosedEmpty
  <2>5. ASSUME NEW c \in Rx \cap on', own[c][curr[c]] = "done"
        PROVE  c \in status \/ (c \in cis /\ c \in cie' /\ c \in icu')
    <3>1. c \in on
      BY <1>1, <1>2, <2>5 DEF EventInv, ClosedEmpty
    <3> QED
      BY <2>2, <2>5, <3>1 DEF EventInv, NoLostPacketEvent, Done, Raised
  <2>6. NoLostPacketEvent'
    BY <2>1, <2>5 DEF NoLostPacketEvent, Done, Raised
  <2> QED
    BY <2>1, <2>3, <2>4, <2>6 DEF EventInv, EnabledFirst
<1>14. ASSUME NEW k \in [Rx -> 0..DescLen], dma_device_register(k)
       PROVE  EventInv'
  <2>1. on = {} /\ on' = {} /\ pc' # "rxown"
    BY <1>14 DEF dma_device_register, Quiet, RingInv, Registered, tasklet
  <2>2. \A c \in Rx, i \in Desc : own'[c][i] \in {"dma", own[c][i]}
    BY <1>2, <1>14 DEF dma_device_register
  <2>3. ClosedEmpty'
    BY <2>1, <2>2 DEF EventInv, ClosedEmpty
  <2> QED
    BY <2>1, <2>3 DEF EventInv, Watched, EnabledFirst, NoLostPacketEvent
<1>15. CASE (\E p \in Ports : eth_stop(p)) \/ dma_device_unregister
  BY <1>15 DEF eth_stop, dma_device_unregister
<1>16. CASE UNCHANGED vars
  BY <1>16 DEF vars, EventInv, Watched, EnabledFirst, ClosedEmpty, NoLostPacketEvent, Done,
               Raised, rings, regs, soft, tasklet
<1> QED
  BY <1>3, <1>4, <1>5, <1>6, <1>7, <1>8, <1>9, <1>10, <1>11, <1>12, <1>13, <1>14, <1>15, <1>16
  DEF Next, Tasklet

\* While no device is stopped, no packet waits at the descriptor that is read
\* next without being noted or about to raise an interrupt.
THEOREM NoPacketEventLost == ASSUME ~MayStop PROVE Spec => []NoLostPacketEvent
<1>1. Init => EventInv
  BY DEF Init, EventInv, Watched, EnabledFirst, ClosedEmpty, NoLostPacketEvent, Chan
<1>2. RingInv /\ EventInv /\ [Next]_vars => EventInv'
  BY EventStep
<1>3. EventInv => NoLostPacketEvent
  BY DEF EventInv
<1> QED
  BY <1>1, <1>2, <1>3, InitRing, StepRing, PTL DEF Spec

-----------------------------------------------------------------------------
\* The position n descriptors after a.
Plus(a, n) == (a + n) % DescLen

\* Plus and Dist without %.
LEMMA PlusValue ==
  ASSUME NEW a \in Desc, NEW n \in 0..DescLen
  PROVE  Plus(a, n) = IF a + n < DescLen THEN a + n ELSE a + n - DescLen
  BY SizeAssumption DEF Desc, Plus

\* See PlusValue.
LEMMA DistValue ==
  ASSUME NEW a \in Desc, NEW i \in Desc
  PROVE  Dist(a, i) = IF i >= a THEN i - a ELSE i - a + DescLen
  BY SizeAssumption DEF Desc, Dist

\* Reclaiming goes to the next descriptor as the other positions do.
LEMMA ModIsNext == ASSUME NEW i \in Desc PROVE (i + 1) % DescLen = Next1(i)
<1>1. Plus(i, 1) = IF i + 1 < DescLen THEN i + 1 ELSE i + 1 - DescLen
  BY PlusValue, SizeAssumption
<1> QED
  BY <1>1, SizeAssumption DEF Plus, Next1, Desc

\* One more descriptor from the same position.
LEMMA PlusSucc ==
  ASSUME NEW a \in Desc, NEW n \in 0..DescLen, n < DescLen
  PROVE  Plus(a, n + 1) = Next1(Plus(a, n))
<1>1. n + 1 \in 0..DescLen
  BY SizeAssumption
<1>2. Plus(a, n + 1) = IF a + (n + 1) < DescLen THEN a + (n + 1) ELSE a + (n + 1) - DescLen
  BY <1>1, PlusValue
<1>3. Plus(a, n) = IF a + n < DescLen THEN a + n ELSE a + n - DescLen
  BY PlusValue
<1> QED
  BY <1>2, <1>3, SizeAssumption DEF Next1, Desc

\* One less from the next position.
LEMMA PlusNext ==
  ASSUME NEW a \in Desc, NEW n \in 0..DescLen, n > 0
  PROVE  Plus(Next1(a), n - 1) = Plus(a, n)
<1>1. n - 1 \in 0..DescLen /\ Next1(a) \in Desc
  BY NextInRing, SizeAssumption
<1>2. Plus(Next1(a), n - 1) =
        IF Next1(a) + (n - 1) < DescLen THEN Next1(a) + (n - 1) ELSE Next1(a) + (n - 1) - DescLen
  BY <1>1, PlusValue
<1>3. Plus(a, n) = IF a + n < DescLen THEN a + n ELSE a + n - DescLen
  BY PlusValue
<1> QED
  BY <1>2, <1>3, SizeAssumption DEF Next1, Desc

\* A distance is less than the length of the ring.
LEMMA DistRange == ASSUME NEW a \in Desc, NEW i \in Desc PROVE Dist(a, i) \in 0..DescLen - 1
<1>1. Dist(a, i) = IF i >= a THEN i - a ELSE i - a + DescLen
  BY DistValue
<1> QED
  BY <1>1, SizeAssumption DEF Desc

\* The descriptor at distance n is the one n after a.
LEMMA DistPlus ==
  ASSUME NEW a \in Desc, NEW i \in Desc, NEW n \in 0..DescLen, n < DescLen
  PROVE  Dist(a, i) = n <=> i = Plus(a, n)
<1>1. Dist(a, i) = IF i >= a THEN i - a ELSE i - a + DescLen
  BY DistValue
<1>2. Plus(a, n) = IF a + n < DescLen THEN a + n ELSE a + n - DescLen
  BY PlusValue
<1> QED
  BY <1>1, <1>2, SizeAssumption DEF Desc

\* From the next position everything is one closer, but a itself.
LEMMA DistNext ==
  ASSUME NEW a \in Desc, NEW i \in Desc
  PROVE  Dist(Next1(a), i) = IF i = a THEN DescLen - 1 ELSE Dist(a, i) - 1
<1>1. Dist(a, i) = IF i >= a THEN i - a ELSE i - a + DescLen
  BY DistValue
<1>2. Next1(a) \in Desc
  BY NextInRing
<1>3. Dist(Next1(a), i) = IF i >= Next1(a) THEN i - Next1(a) ELSE i - Next1(a) + DescLen
  BY <1>2, DistValue
<1> QED
  BY <1>1, <1>3, SizeAssumption DEF Next1, Desc

\* A position is at distance 0 from itself, and a whole ring after it too.
LEMMA DistSelf ==
  ASSUME NEW a \in Desc
  PROVE  Dist(a, a) = 0 /\ Plus(a, DescLen) = a
<1>1. Dist(a, a) = IF a >= a THEN a - a ELSE a - a + DescLen
  BY DistValue
<1>2. Plus(a, DescLen) = IF a + DescLen < DescLen THEN a + DescLen ELSE a + DescLen - DescLen
  BY PlusValue, SizeAssumption
<1> QED
  BY <1>1, <1>2, SizeAssumption DEF Desc

\* Receive ring o with n packets between position a and the engine at h;
\* transmit ring o with n packets from p on to a, the first m of them sent.
RxCut(o, a, h, n) ==
  /\ Plus(a, n) = h
  /\ \A i \in Desc : o[i] = IF Dist(a, i) < n THEN "done" ELSE "dma"
TxCut(o, p, a, h, n, m) ==
  /\ Plus(p, n) = a
  /\ Plus(p, m) = h
  /\ \A i \in Desc : o[i] = IF Dist(p, i) < m THEN "done" ELSE IF Dist(p, i) < n THEN "dma" ELSE "cpu"

\* The engine completes a packet.
LEMMA RxCompleteCut ==
  ASSUME NEW o \in [Desc -> Owns], NEW a \in Desc, NEW h \in Desc, NEW n \in 0..DescLen,
         RxCut(o, a, h, n), o[h] = "dma"
  PROVE  n + 1 \in 0..DescLen /\ RxCut([o EXCEPT ![h] = "done"], a, Next1(h), n + 1)
<1>1. Dist(a, h) \in 0..DescLen - 1
  BY DistRange
<1>2. ~(Dist(a, h) < n)
  BY DEF RxCut
<1>3. n < DescLen /\ n + 1 \in 0..DescLen
  BY <1>1, <1>2, SizeAssumption
<1>4. Dist(a, h) = n
  BY <1>3, DistPlus DEF RxCut
<1>5. Plus(a, n + 1) = Next1(h)
  BY <1>3, PlusSucc DEF RxCut
<1>6. ASSUME NEW i \in Desc
      PROVE  [o EXCEPT ![h] = "done"][i] = IF Dist(a, i) < n + 1 THEN "done" ELSE "dma"
  <2>1. CASE i = h
    BY <1>4, <2>1
  <2>2. CASE i # h
    <3>1. Dist(a, i) # n
      BY <1>3, <2>2, DistPlus DEF RxCut
    <3>2. Dist(a, i) \in 0..DescLen - 1
      BY DistRange
    <3>3. Dist(a, i) < n + 1 <=> Dist(a, i) < n
      BY <3>1, <3>2, SizeAssumption
    <3> QED
      BY <2>2, <3>3 DEF RxCut
  <2> QED
    BY <2>1, <2>2
<1> QED
  BY <1>3, <1>5, <1>6 DEF RxCut

\* The driver reads a packet.
LEMMA RxReadCut ==
  ASSUME NEW o \in [Desc -> Owns], NEW a \in Desc, NEW h \in Desc, NEW n \in 0..DescLen,
         RxCut(o, a, h, n), o[a] = "done"
  PROVE  n - 1 \in 0..DescLen /\ RxCut([o EXCEPT ![a] = "dma"], Next1(a), h, n - 1)
<1>1. Dist(a, a) < n
  BY DEF RxCut
<1>2. n > 0 /\ n - 1 \in 0..DescLen
  BY <1>1, DistSelf, SizeAssumption
<1>3. Plus(Next1(a), n - 1) = h
  BY <1>2, PlusNext DEF RxCut
<1>4. ASSUME NEW i \in Desc
      PROVE  [o EXCEPT ![a] = "dma"][i] = IF Dist(Next1(a), i) < n - 1 THEN "done" ELSE "dma"
  <2>1. Dist(Next1(a), i) = IF i = a THEN DescLen - 1 ELSE Dist(a, i) - 1
    BY DistNext
  <2>2. CASE i = a
    <3>1. ~(Dist(Next1(a), i) < n - 1)
      BY <2>1, <2>2, SizeAssumption
    <3> QED
      BY <2>2, <3>1
  <2>3. CASE i # a
    <3>1. Dist(a, i) \in 0..DescLen - 1
      BY DistRange
    <3>2. Dist(Next1(a), i) < n - 1 <=> Dist(a, i) < n
      BY <2>1, <2>3, <3>1, SizeAssumption
    <3> QED
      BY <2>3, <3>2 DEF RxCut
  <2> QED
    BY <2>2, <2>3
<1> QED
  BY <1>2, <1>3, <1>4 DEF RxCut

\* The engine sends a packet.
LEMMA TxCompleteCut ==
  ASSUME NEW o \in [Desc -> Owns], NEW p \in Desc, NEW a \in Desc, NEW h \in Desc,
         NEW n \in 0..DescLen, NEW m \in 0..n, TxCut(o, p, a, h, n, m), o[h] = "dma"
  PROVE  m + 1 \in 0..n /\ TxCut([o EXCEPT ![h] = "done"], p, a, Next1(h), n, m + 1)
<1>0. m \in 0..DescLen
  BY SizeAssumption
<1>1. Dist(p, h) \in 0..DescLen - 1
  BY DistRange
<1>2. ~(Dist(p, h) < m) /\ Dist(p, h) < n
  BY DEF TxCut
<1>3. m < DescLen
  BY <1>0, <1>1, <1>2, SizeAssumption
<1>4. Dist(p, h) = m
  BY <1>0, <1>3, DistPlus DEF TxCut
<1>5. m + 1 \in 0..n
  BY <1>0, <1>2, <1>4, SizeAssumption
<1>6. Plus(p, m + 1) = Next1(h)
  BY <1>0, <1>3, PlusSucc DEF TxCut
<1>7. ASSUME NEW i \in Desc
      PROVE  [o EXCEPT ![h] = "done"][i] =
               IF Dist(p, i) < m + 1 THEN "done" ELSE IF Dist(p, i) < n THEN "dma" ELSE "cpu"
  <2>1. CASE i = h
    BY <1>0, <1>4, <2>1
  <2>2. CASE i # h
    <3>1. Dist(p, i) # m
      BY <1>0, <1>3, <2>2, DistPlus DEF TxCut
    <3>2. Dist(p, i) \in 0..DescLen - 1
      BY DistRange
    <3>3. Dist(p, i) < m + 1 <=> Dist(p, i) < m
      BY <1>0, <3>1, <3>2, SizeAssumption
    <3> QED
      BY <2>2, <3>3 DEF TxCut
  <2> QED
    BY <2>1, <2>2
<1> QED
  BY <1>5, <1>6, <1>7 DEF TxCut

\* dma_device_write reclaims a sent packet.
LEMMA TxReclaimCut ==
  ASSUME NEW o \in [Desc -> Owns], NEW p \in Desc, NEW a \in Desc, NEW h \in Desc,
         NEW n \in 0..DescLen, NEW m \in 0..n, TxCut(o, p, a, h, n, m), o[p] = "done"
  PROVE  /\ n - 1 \in 0..DescLen /\ m - 1 \in 0..n - 1
         /\ TxCut([o EXCEPT ![p] = "cpu"], Next1(p), a, h, n - 1, m - 1)
<1>0. m \in 0..DescLen
  BY SizeAssumption
<1>1. Dist(p, p) < m
  BY DEF TxCut
<1>2. m > 0 /\ n > 0
  BY <1>0, <1>1, DistSelf, SizeAssumption
<1>3. n - 1 \in 0..DescLen /\ m - 1 \in 0..n - 1
  BY <1>0, <1>2, SizeAssumption
<1>4. Plus(Next1(p), n - 1) = a
  BY <1>2, PlusNext DEF TxCut
<1>5. Plus(Next1(p), m - 1) = h
  BY <1>0, <1>2, PlusNext DEF TxCut
<1>6. ASSUME NEW i \in Desc
      PROVE  [o EXCEPT ![p] = "cpu"][i] =
               IF Dist(Next1(p), i) < m - 1 THEN "done"
               ELSE IF Dist(Next1(p), i) < n - 1 THEN "dma" ELSE "cpu"
  <2>1. Dist(Next1(p), i) = IF i = p THEN DescLen - 1 ELSE Dist(p, i) - 1
    BY DistNext
  <2>2. CASE i = p
    <3>1. ~(Dist(Next1(p), i) < n - 1) /\ ~(Dist(Next1(p), i) < m - 1)
      BY <1>0, <2>1, <2>2, SizeAssumption
    <3> QED
      BY <2>2, <3>1
  <2>3. CASE i # p
    <3>1. Dist(p, i) \in 0..DescLen - 1
      BY DistRange
    <3>2. /\ Dist(Next1(p), i) < m - 1 <=> Dist(p, i) < m
          /\ Dist(Next1(p), i) < n - 1 <=> Dist(p, i) < n
      BY <1>0, <2>1, <2>3, <3>1, SizeAssumption
    <3> QED
      BY <2>3, <3>2 DEF TxCut
  <2> QED
    BY <2>2, <2>3
<1> QED
  BY <1>3, <1>4, <1>5, <1>6 DEF TxCut

\* dma_device_write puts a packet.
LEMMA TxPutCut ==
  ASSUME NEW o \in [Desc -> Owns], NEW p \in Desc, NEW a \in Desc, NEW h \in Desc,
         NEW n \in 0..DescLen, NEW m \in 0..n, TxCut(o, p, a, h, n, m), o[a] = "cpu"
  PROVE  /\ n + 1 \in 0..DescLen /\ m \in 0..n + 1
         /\ TxCut([o EXCEPT ![a] = "dma"], p, Next1(a), h, n + 1, m)
<1>0. m \in 0..DescLen
  BY SizeAssumption
<1>1. Dist(p, a) \in 0..DescLen - 1
  BY DistRange
<1>2. ~(Dist(p, a) < n) /\ ~(Dist(p, a) < m)
  BY DEF TxCut
<1>3. n < DescLen
  BY <1>1, <1>2, SizeAssumption
<1>4. Dist(p, a) = n
  BY <1>3, DistPlus DEF TxCut
<1>5. n + 1 \in 0..DescLen /\ m \in 0..n + 1
  BY <1>0, <1>3, SizeAssumption
<1>6. Plus(p, n + 1) = Next1(a)
  BY <1>3, PlusSucc DEF TxCut
<1>7. ASSUME NEW i \in Desc
      PROVE  [o EXCEPT ![a] = "dma"][i] =
               IF Dist(p, i) < m THEN "done" ELSE IF Dist(p, i) < n + 1 THEN "dma" ELSE "cpu"
  <2>1. CASE i = a
    BY <1>2, <1>4, <2>1
  <2>2. CASE i # a
    <3>1. Dist(p, i) # n
      BY <1>3, <2>2, DistPlus DEF TxCut
    <3>2. Dist(p, i) \in 0..DescLen - 1
      BY DistRange
    <3>3. Dist(p, i) < n + 1 <=> Dist(p, i) < n
      BY <3>1, <3>2, SizeAssumption
    <3> QED
      BY <2>2, <3>3 DEF TxCut
  <2> QED
    BY <2>1, <2>2
<1> QED
  BY <1>5, <1>6, <1>7 DEF TxCut

-----------------------------------------------------------------------------
\* The two ring properties in terms of the cuts.
RxCutAt(c) == \E n \in 0..DescLen : RxCut(own[c], curr[c], hw[c], n)
TxCutAt(c) == \E n \in 0..DescLen : \E m \in 0..n : TxCut(own[c], prev[c], curr[c], hw[c], n, m)

\* They say the same.
LEMMA RingsAreCuts ==
  /\ RxRingInOrder <=> (reg /\ lowmem = {} => \A c \in Rx : RxCutAt(c))
  /\ TxRingInOrder <=> (reg => \A c \in Tx : TxCutAt(c))
<1>1. RxRingInOrder <=> (reg /\ lowmem = {} => \A c \in Rx : RxCutAt(c))
  BY Zenon DEF RxRingInOrder, RxCutAt, RxCut, Plus
<1>2. TxRingInOrder <=> (reg => \A c \in Tx : TxCutAt(c))
  BY Zenon DEF TxRingInOrder, TxCutAt, TxCut, Plus
<1> QED
  BY <1>1, <1>2

\* The order of the receive rings is preserved.
LEMMA RxOrderStep ==
  ASSUME RingInv, reg /\ lowmem = {} => \A c \in Rx : RxCutAt(c), [Next]_vars
  PROVE  reg' /\ lowmem' = {} => \A c \in Rx : RxCutAt(c)'
<1> SUFFICES ASSUME reg', lowmem' = {}, NEW c \in Rx
             PROVE  \E n \in 0..DescLen : RxCut(own'[c], curr'[c], hw'[c], n)
  BY DEF RxCutAt
<1>1. own \in [Chan -> [Desc -> Owns]] /\ c \in Chan
  BY DEF RingInv, TypeInv, TypeOK, Chan
<1>2. own[c] \in [Desc -> Owns] /\ curr[c] \in Desc /\ hw[c] \in Desc
  BY <1>1 DEF RingInv, TypeInv, TypeOK
<1>3. curr \in [Chan -> Desc] /\ hw \in [Chan -> Desc]
  BY DEF RingInv, TypeInv, TypeOK
<1>4. ASSUME reg, lowmem = {}
      PROVE  \E n \in 0..DescLen : RxCut(own[c], curr[c], hw[c], n)
  BY <1>4 DEF RxCutAt
<1>5. ASSUME own'[c] = own[c], curr'[c] = curr[c], hw'[c] = hw[c], reg, lowmem = {}
      PROVE  \E n \in 0..DescLen : RxCut(own'[c], curr'[c], hw'[c], n)
  BY <1>4, <1>5
<1>6. ASSUME NEW e \in Chan, Complete(e)
      PROVE  \E n \in 0..DescLen : RxCut(own'[c], curr'[c], hw'[c], n)
  <2>1. reg /\ lowmem = {} /\ curr' = curr
    BY <1>6 DEF Complete, driver
  <2>2. CASE e # c
    <3>1. own'[c] = own[c] /\ hw'[c] = hw[c]
      BY <1>1, <1>3, <1>6, <2>2 DEF Complete
    <3> QED
      BY <1>5, <2>1, <3>1
  <2>3. CASE e = c
    <3>1. own[c][hw[c]] = "dma" /\ own'[c] = [own[c] EXCEPT ![hw[c]] = "done"] /\ hw'[c] = Next1(hw[c])
      BY <1>1, <1>3, <1>6, <2>3 DEF Complete
    <3>2. PICK n \in 0..DescLen : RxCut(own[c], curr[c], hw[c], n)
      BY <1>4, <2>1
    <3>3. n + 1 \in 0..DescLen /\ RxCut(own'[c], curr'[c], hw'[c], n + 1)
      BY <1>2, <2>1, <3>1, <3>2, RxCompleteCut
    <3> QED
      BY <3>3
  <2> QED
    BY <2>2, <2>3
<1>7. CASE dma_rx_int_handler
  <2>1. chan \in Chan /\ own[chan][curr[chan]] = "done" /\ reg /\ hw' = hw
    BY <1>7 DEF dma_rx_int_handler, RingInv, ReadsPacket, Done, TypeInv, Locals, RxPCs, Chan, driver
  <2>2. Replace(chan) /\ lowmem = {}
    BY <1>7 DEF dma_rx_int_handler, Replace, NoMemory
  <2>3. CASE chan # c
    <3>1. own'[c] = own[c] /\ curr'[c] = curr[c]
      BY <1>1, <1>3, <2>2, <2>3 DEF Replace
    <3> QED
      BY <1>5, <2>1, <2>2, <3>1
  <2>4. CASE chan = c
    <3>1. own'[c] = [own[c] EXCEPT ![curr[c]] = "dma"] /\ curr'[c] = Next1(curr[c])
      BY <1>1, <1>3, <2>2, <2>4 DEF Replace
    <3>2. PICK n \in 0..DescLen : RxCut(own[c], curr[c], hw[c], n)
      BY <1>4, <2>1, <2>2
    <3>3. n - 1 \in 0..DescLen /\ RxCut(own'[c], curr'[c], hw'[c], n - 1)
      BY <1>2, <2>1, <2>4, <3>1, <3>2, RxReadCut
    <3> QED
      BY <3>3
  <2> QED
    BY <2>3, <2>4
<1>8. CASE Reclaim \/ Put
  <2>1. wchan \in Tx /\ wchan # c
    BY <1>8, ChanAssumption DEF Reclaim, Put, RingInv, TypeInv, Locals
  <2>2. own'[c] = own[c] /\ curr'[c] = curr[c] /\ hw' = hw /\ reg /\ lowmem = {}
    BY <1>1, <1>3, <1>8, <2>1 DEF Reclaim, Put, driver
  <2> QED
    BY <1>5, <2>2
<1>9. ASSUME NEW k \in [Rx -> 0..DescLen], dma_device_register(k)
      PROVE  \E n \in 0..DescLen : RxCut(own'[c], curr'[c], hw'[c], n)
  <2>1. "register" \notin lowmem'
    OBVIOUS
  <2>2. ~(\E e \in Rx : k[e] < DescLen)
    BY <1>9, <2>1 DEF dma_device_register
  <2>3. \A i \in Desc : i < k[c]
    BY <2>2, SizeAssumption DEF Desc
  <2>4. c \notin Tx
    BY ChanAssumption
  <2>5. \A i \in Desc : own'[c][i] = "dma"
    BY <1>1, <1>9, <2>3, <2>4 DEF dma_device_register
  <2>6. curr'[c] = 0 /\ hw'[c] = 0
    BY <1>1, <1>9 DEF dma_device_register, RingInv, Registered
  <2>7. 0 \in Desc /\ 0 \in 0..DescLen
    BY SizeAssumption DEF Desc
  <2>8. Plus(0, 0) = 0
    BY <2>7, PlusValue, SizeAssumption
  <2>9. \A i \in Desc : ~(Dist(0, i) < 0)
    BY <2>7, DistRange, SizeAssumption
  <2>10. RxCut(own'[c], curr'[c], hw'[c], 0)
    BY <2>5, <2>6, <2>8, <2>9 DEF RxCut
  <2> QED
    BY <2>7, <2>10
<1>10. CASE dma_device_unregister
  BY <1>10 DEF dma_device_unregister
<1>11. ASSUME UNCHANGED <<own, buf, curr, prev, hw, reg, lowmem>>
       PROVE  \E n \in 0..DescLen : RxCut(own'[c], curr'[c], hw'[c], n)
  BY <1>5, <1>11
<1> QED
  BY <1>6, <1>7, <1>8, <1>9, <1>10, <1>11, TablesKept DEF Next, Tasklet, Write

\* The order of the transmit rings is preserved.
LEMMA TxOrderStep ==
  ASSUME RingInv, reg => \A c \in Tx : TxCutAt(c), [Next]_vars
  PROVE  reg' => \A c \in Tx : TxCutAt(c)'
<1> DEFINE Cut(c) == \E n \in 0..DescLen : \E m \in 0..n :
                       TxCut(own'[c], prev'[c], curr'[c], hw'[c], n, m)
<1> SUFFICES ASSUME reg', NEW c \in Tx PROVE Cut(c)
  BY DEF TxCutAt
<1>1. own \in [Chan -> [Desc -> Owns]] /\ c \in Chan
  BY DEF RingInv, TypeInv, TypeOK, Chan
<1>2. own[c] \in [Desc -> Owns] /\ curr[c] \in Desc /\ hw[c] \in Desc /\ prev[c] \in Desc
  BY <1>1 DEF RingInv, TypeInv, TypeOK
<1>3. curr \in [Chan -> Desc] /\ hw \in [Chan -> Desc] /\ prev \in [Chan -> Desc]
  BY DEF RingInv, TypeInv, TypeOK
<1>4. ASSUME reg
      PROVE  \E n \in 0..DescLen : \E m \in 0..n : TxCut(own[c], prev[c], curr[c], hw[c], n, m)
  BY <1>4 DEF TxCutAt
<1>5. ASSUME own'[c] = own[c], prev'[c] = prev[c], curr'[c] = curr[c], hw'[c] = hw[c], reg
      PROVE  Cut(c)
  BY <1>4, <1>5
<1>6. ASSUME NEW e \in Chan, Complete(e)
      PROVE  Cut(c)
  <2>1. reg /\ curr' = curr /\ prev' = prev
    BY <1>6 DEF Complete, driver
  <2>2. CASE e # c
    <3>1. own'[c] = own[c] /\ hw'[c] = hw[c]
      BY <1>1, <1>3, <1>6, <2>2 DEF Complete
    <3> QED
      BY <1>5, <2>1, <3>1
  <2>3. CASE e = c
    <3>1. own[c][hw[c]] = "dma" /\ own'[c] = [own[c] EXCEPT ![hw[c]] = "done"] /\ hw'[c] = Next1(hw[c])
      BY <1>1, <1>3, <1>6, <2>3 DEF Complete
    <3>2. PICK n \in 0..DescLen : \E m \in 0..n : TxCut(own[c], prev[c], curr[c], hw[c], n, m)
      BY <1>4, <2>1
    <3>3. PICK m \in 0..n : TxCut(own[c], prev[c], curr[c], hw[c], n, m)
      BY <3>2
    <3>4. m + 1 \in 0..n /\ TxCut(own'[c], prev'[c], curr'[c], hw'[c], n, m + 1)
      BY <1>2, <2>1, <3>1, <3>3, TxCompleteCut
    <3> QED
      BY <3>4
  <2> QED
    BY <2>2, <2>3
<1>7. CASE dma_rx_int_handler
  <2>1. chan # c /\ reg /\ hw' = hw /\ prev' = prev
    BY <1>7, ChanAssumption DEF dma_rx_int_handler, RingInv, TypeInv, Locals, RxPCs, driver
  <2>2. own'[c] = own[c] /\ curr'[c] = curr[c]
    BY <1>1, <1>3, <1>7, <2>1 DEF dma_rx_int_handler, Replace, NoMemory
  <2> QED
    BY <1>5, <2>1, <2>2
<1>8. CASE Reclaim
  <2>1. wchan \in Chan /\ own[wchan][prev[wchan]] = "done" /\ reg /\ hw' = hw /\ curr' = curr
    BY <1>8 DEF Reclaim, RingInv, TypeInv, Locals, Chan, driver
  <2>2. CASE wchan # c
    <3>1. own'[c] = own[c] /\ prev'[c] = prev[c]
      BY <1>1, <1>3, <1>8, <2>2 DEF Reclaim
    <3> QED
      BY <1>5, <2>1, <3>1
  <2>3. CASE wchan = c
    <3>1. own'[c] = [own[c] EXCEPT ![prev[c]] = "cpu"] /\ prev'[c] = (prev[c] + 1) % DescLen
      BY <1>1, <1>3, <1>8, <2>3 DEF Reclaim
    <3>2. prev'[c] = Next1(prev[c])
      BY <1>2, <3>1, ModIsNext
    <3>3. PICK n \in 0..DescLen : \E m \in 0..n : TxCut(own[c], prev[c], curr[c], hw[c], n, m)
      BY <1>4, <2>1
    <3>4. PICK m \in 0..n : TxCut(own[c], prev[c], curr[c], hw[c], n, m)
      BY <3>3
    <3>5. /\ n - 1 \in 0..DescLen /\ m - 1 \in 0..n - 1
          /\ TxCut(own'[c], prev'[c], curr'[c], hw'[c], n - 1, m - 1)
      BY <1>2, <2>1, <2>3, <3>1, <3>2, <3>4, TxReclaimCut
    <3> QED
      BY <3>5
  <2> QED
    BY <2>2, <2>3
<1>9. CASE Put
  <2>1. wchan \in Chan /\ own[wchan][curr[wchan]] = "cpu" /\ reg /\ hw' = hw /\ prev' = prev
    BY <1>9 DEF Put, RingInv, TypeInv, Locals, Chan, driver
  <2>2. CASE wchan # c
    <3>1. own'[c] = own[c] /\ curr'[c] = curr[c]
      BY <1>1, <1>3, <1>9, <2>2 DEF Put
    <3> QED
      BY <1>5, <2>1, <3>1
  <2>3. CASE wchan = c
    <3>1. own'[c] = [own[c] EXCEPT ![curr[c]] = "dma"] /\ curr'[c] = Next1(curr[c])
      BY <1>1, <1>3, <1>9, <2>3 DEF Put
    <3>2. PICK n \in 0..DescLen : \E m \in 0..n : TxCut(own[c], prev[c], curr[c], hw[c], n, m)
      BY <1>4, <2>1
    <3>3. PICK m \in 0..n : TxCut(own[c], prev[c], curr[c], hw[c], n, m)
      BY <3>2
    <3>4. /\ n + 1 \in 0..DescLen /\ m \in 0..n + 1
          /\ TxCut(own'[c], prev'[c], curr'[c], hw'[c], n + 1, m)
      BY <1>2, <2>1, <2>3, <3>1, <3>3, TxPutCut
    <3> QED
      BY <3>4
  <2> QED
    BY <2>2, <2>3
<1>10. ASSUME NEW k \in [Rx -> 0..DescLen], dma_device_register(k)
       PROVE  Cut(c)
  <2>1. \A i \in Desc : own'[c][i] = "cpu"
    BY <1>1, <1>10 DEF dma_device_register
  <2>2. curr'[c] = 0 /\ prev'[c] = 0 /\ hw'[c] = 0
    BY <1>1, <1>10 DEF dma_device_register, RingInv, Registered
  <2>3. 0 \in Desc /\ 0 \in 0..DescLen /\ 0 \in 0..0
    BY SizeAssumption DEF Desc
  <2>4. Plus(0, 0) = 0
    BY <2>3, PlusValue, SizeAssumption
  <2>5. \A i \in Desc : ~(Dist(0, i) < 0)
    BY <2>3, DistRange, SizeAssumption
  <2>6. TxCut(own'[c], prev'[c], curr'[c], hw'[c], 0, 0)
    BY <2>1, <2>2, <2>4, <2>5 DEF TxCut
  <2> QED
    BY <2>3, <2>6
<1>11. CASE dma_device_unregister
  BY <1>11 DEF dma_device_unregister
<1>12. ASSUME UNCHANGED <<own, buf, curr, prev, hw, reg, lowmem>>
       PROVE  Cut(c)
  BY <1>5, <1>12
<1> HIDE DEF Cut
<1> QED
  BY <1>6, <1>7, <1>8, <1>9, <1>10, <1>11, <1>12, TablesKept DEF Next, Tasklet, Write

\* Packets are read in the order they came, each once, for every length of the
\* ring, as long as memory does not run out.
THEOREM RxRingsInOrder == Spec => []RxRingInOrder
<1>1. Init => RxRingInOrder
  BY DEF Init, RxRingInOrder
<1>2. RingInv /\ RxRingInOrder /\ [Next]_vars => RxRingInOrder'
  <2> SUFFICES ASSUME RingInv, RxRingInOrder, [Next]_vars PROVE RxRingInOrder'
    OBVIOUS
  <2>1. reg /\ lowmem = {} => \A c \in Rx : RxCutAt(c)
    BY RingsAreCuts
  <2>2. reg' /\ lowmem' = {} => \A c \in Rx : RxCutAt(c)'
    BY <2>1, RxOrderStep
  <2>3. (RxRingInOrder <=> (reg /\ lowmem = {} => \A c \in Rx : RxCutAt(c)))'
    BY RingsAreCuts, PTL
  <2> QED
    BY <2>2, <2>3
<1> QED
  BY <1>1, <1>2, InitRing, StepRing, PTL DEF Spec

\* Packets are sent in the order of the calls, and the engine never passes
\* curr_desc, for every length of the ring.
THEOREM TxRingsInOrder == Spec => []TxRingInOrder
<1>1. Init => TxRingInOrder
  BY DEF Init, TxRingInOrder
<1>2. RingInv /\ TxRingInOrder /\ [Next]_vars => TxRingInOrder'
  <2> SUFFICES ASSUME RingInv, TxRingInOrder, [Next]_vars PROVE TxRingInOrder'
    OBVIOUS
  <2>1. reg => \A c \in Tx : TxCutAt(c)
    BY RingsAreCuts
  <2>2. reg' => \A c \in Tx : TxCutAt(c)'
    BY <2>1, TxOrderStep
  <2>3. (TxRingInOrder <=> (reg => \A c \in Tx : TxCutAt(c)))'
    BY RingsAreCuts, PTL
  <2> QED
    BY <2>2, <2>3
<1> QED
  BY <1>1, <1>2, InitRing, StepRing, PTL DEF Spec

=============================================================================
