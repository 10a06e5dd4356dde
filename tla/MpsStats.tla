------------------------------ MODULE MpsStats -------------------------------
(***************************************************************************)
(* The boot-configuration registers as a second mailbox                    *)
(* (mps_tpe_device.c).  CPU0 asks CPU1 for the statistics of a wireless    *)
(* device: it writes what it wants to CPU0's MPS_CP0_STATUS, raises the    *)
(* command interrupt and polls that register until CPU1 has cleared it;    *)
(* the answer is a pointer in CPU1's MPS_BOOT_SIZE.  The applications of   *)
(* CPU1 report that they are ready with the bits of the same register,     *)
(* under a fingerprint in its upper half.                                  *)
(*                                                                         *)
(* CPU0's request and CPU1's application are one process each.  The        *)
(* interrupt handler interrupts the application anywhere and is never      *)
(* interrupted by it.                                                      *)
(***************************************************************************)
EXTENDS Naturals

CONSTANTS
  Requests,      \* which statistics of which device
  Answered,      \* requests whose device exists and has the handler
  Bits,          \* numbers of the ready bits
  PointerBits    \* the ready-bit half of an address

None == "none"   \* no request

ASSUME RequestAssumption == Answered \subseteq Requests /\ None \notin Requests
ASSUME BitsAssumption == PointerBits \subseteq Bits

VARIABLES
  status,              \* MBX_CPU0_BOOT_CFG.MPS_CP0_STATUS
  size,                \* MBX_CPU1_BOOT_CFG.MPS_BOOT_SIZE
  irq,                 \* the command bit of CPU0_2_CPU1_IRDR
  qpc, want, got,      \* CPU0: its request, what the last one returned
  ipc, stats,          \* CPU1's interrupt handler
  apc, val, todo,      \* CPU1's application
  ready,               \* history: the bits the applications have set
  undisturbed          \* history: no application wrote during the last request

vars == <<status, size, irq, qpc, want, got, ipc, stats, apc, val, todo, ready, undisturbed>>

\* The contents of MPS_BOOT_SIZE: nothing, ready bits, or an address.  An
\* address lies in 0x80000000..0xBFFFFFFF and never looks like the fingerprint
\* 0x4F6B.
Zero == [kind |-> "zero", bits |-> {}, of |-> None]
Ready(b) == [kind |-> "ready", bits |-> b, of |-> None]
Pointer(r) == [kind |-> "stats", bits |-> PointerBits, of |-> r]

Values == {Zero} \cup {Ready(b) : b \in SUBSET Bits} \cup {Pointer(r) : r \in Requests}

\* The MPS_MPS1_APPS_READY_FP test.
HasFingerprint(v) == v.kind = "ready"

\* What ifx_mpsdrv_cmd1_irq records for a request: NULL for an unknown device.
Answer(r) == IF r \in Answered THEN Pointer(r) ELSE Zero

Init ==
  /\ status = None /\ size = Zero /\ irq = FALSE
  /\ qpc = "idle" /\ want = None /\ got = Zero
  /\ ipc = "idle" /\ stats = Zero
  /\ apc = "idle" /\ val = Zero /\ todo = [set |-> FALSE, bits |-> {}]
  /\ ready = {} /\ undisturbed = TRUE

-----------------------------------------------------------------------------
(* CPU0: ifx_mps_get_core1_wifi_stats, ifx_mps_get_core1_wireless_stats    *)

Request(r) ==
  /\ qpc = "idle" /\ qpc' = "raise"
  /\ status' = r /\ want' = r
  /\ undisturbed' = TRUE
  /\ UNCHANGED <<size, irq, got, ipc, stats, apc, val, todo, ready>>

Raise ==
  /\ qpc = "raise" /\ qpc' = "poll"
  /\ irq' = TRUE
  /\ UNCHANGED <<status, size, want, got, ipc, stats, apc, val, todo, ready, undisturbed>>

\* The polling loop sees the register cleared ...
Poll ==
  /\ qpc = "poll" /\ status = None /\ qpc' = "fetch"
  /\ UNCHANGED <<status, size, irq, want, got, ipc, stats, apc, val, todo, ready, undisturbed>>

\* ... and the function returns what is in MPS_BOOT_SIZE.
Fetch ==
  /\ qpc = "fetch" /\ qpc' = "idle"
  /\ got' = size
  /\ UNCHANGED <<status, size, irq, want, ipc, stats, apc, val, todo, ready, undisturbed>>

\* A command raises the same interrupt (ifx_mpsdrv_mbx_send), at any point of a
\* request: CPU0's interrupts and tasklets send commands too.
Command ==
  /\ irq' = TRUE
  /\ UNCHANGED <<status, size, qpc, want, got, ipc, stats, apc, val, todo, ready, undisturbed>>

-----------------------------------------------------------------------------
(* CPU1: ifx_mpsdrv_cmd1_irq                                               *)

\* It reads the interrupt status ...
IsrEnter ==
  /\ irq
  /\ ipc = "idle" /\ ipc' = "ack"
  /\ UNCHANGED <<status, size, irq, qpc, want, got, stats, apc, val, todo, ready, undisturbed>>

\* ... and acknowledges it.
IsrAck ==
  /\ ipc = "ack" /\ ipc' = "test"
  /\ irq' = FALSE
  /\ UNCHANGED <<status, size, qpc, want, got, stats, apc, val, todo, ready, undisturbed>>

\* No statistics request.
IsrNone ==
  /\ ipc = "test" /\ status = None /\ ipc' = "exit"
  /\ UNCHANGED <<status, size, irq, qpc, want, got, stats, apc, val, todo, ready, undisturbed>>

\* A request: the answer is preset to 0.
IsrPreset ==
  /\ ipc = "test" /\ status # None /\ ipc' = "lookup"
  /\ size' = Zero
  /\ UNCHANGED <<status, irq, qpc, want, got, stats, apc, val, todo, ready, undisturbed>>

\* The mask is read and the statistics of its device looked up.
IsrLookup ==
  /\ ipc = "lookup" /\ ipc' = "record"
  /\ stats' = Answer(status)
  /\ UNCHANGED <<status, size, irq, qpc, want, got, apc, val, todo, ready, undisturbed>>

\* Fault: the request is cleared before the answer is there.
IsrRecordFirstClear ==
  /\ ipc = "record" /\ ipc' = "clear"
  /\ status' = None
  /\ UNCHANGED <<size, irq, qpc, want, got, stats, apc, val, todo, ready, undisturbed>>

IsrRecord ==
  /\ ipc = "record" /\ ipc' = "clear"
  /\ size' = stats
  /\ UNCHANGED <<status, irq, qpc, want, got, stats, apc, val, todo, ready, undisturbed>>

IsrClear ==
  /\ ipc = "clear" /\ ipc' = "exit"
  /\ status' = None
  /\ UNCHANGED <<size, irq, qpc, want, got, stats, apc, val, todo, ready, undisturbed>>

\* Fault: the interrupt is acknowledged on the way out.
IsrExitAck ==
  /\ ipc = "exit" /\ ipc' = "idle"
  /\ irq' = FALSE
  /\ UNCHANGED <<status, size, qpc, want, got, stats, apc, val, todo, ready, undisturbed>>

\* The command FIFO is read (see MpsMailbox) and the handler returns.
IsrExit ==
  /\ ipc = "exit" /\ ipc' = "idle"
  /\ UNCHANGED <<status, size, irq, qpc, want, got, stats, apc, val, todo, ready, undisturbed>>

-----------------------------------------------------------------------------
(* CPU1: ifx_mpsdrv_ctrl_mps1_apps_ready_bit                               *)

\* The new value of the ready bits, from the bits before.
Change(b, old) == IF todo.set THEN old \cup b ELSE old \ b

\* An application sets or clears a bit: MPS_BOOT_SIZE is read ...
ReadyRead ==
  /\ ipc = "idle"
  /\ apc = "idle" /\ apc' = "write"
  /\ val' = size
  /\ \E b \in Bits, s \in BOOLEAN : todo' = [set |-> s, bits |-> {b}]
  /\ UNCHANGED <<status, size, irq, qpc, want, got, ipc, stats, ready, undisturbed>>

\* Fault: the fingerprint is not looked at.
ReadyWriteBlind ==
  /\ ipc = "idle"
  /\ apc = "write" /\ apc' = "idle"
  /\ size' = Ready(Change(todo.bits, val.bits))
  /\ ready' = Change(todo.bits, ready)
  /\ undisturbed' = (undisturbed /\ qpc = "idle")
  /\ UNCHANGED <<status, irq, qpc, want, got, ipc, stats, val, todo>>

\* Fault: the fingerprint is not written with the first bit.
ReadyWriteNoFingerprint ==
  /\ ipc = "idle"
  /\ apc = "write" /\ apc' = "idle"
  /\ size' = [val EXCEPT !.bits = Change(todo.bits, val.bits)]
  /\ ready' = Change(todo.bits, ready)
  /\ undisturbed' = (undisturbed /\ qpc = "idle")
  /\ UNCHANGED <<status, irq, qpc, want, got, ipc, stats, val, todo>>

\* ... and written back, from no bits at all if there was no fingerprint.
ReadyWrite ==
  /\ ipc = "idle"
  /\ apc = "write" /\ apc' = "idle"
  /\ size' = Ready(Change(todo.bits, IF HasFingerprint(val) THEN val.bits ELSE {}))
  /\ ready' = Change(todo.bits, ready)
  /\ undisturbed' = (undisturbed /\ qpc = "idle")
  /\ UNCHANGED <<status, irq, qpc, want, got, ipc, stats, val, todo>>

\* ifx_mpsdrv_get_mps1_apps_ready_bits, on either core.
ReadyBits == IF HasFingerprint(size) THEN size.bits ELSE {}

-----------------------------------------------------------------------------
Cpu0 == (\E r \in Requests : Request(r)) \/ Raise \/ Poll \/ Fetch \/ Command
Isr == IsrEnter \/ IsrAck \/ IsrNone \/ IsrPreset \/ IsrLookup \/ IsrRecord
         \/ IsrClear \/ IsrExit
App == ReadyRead \/ ReadyWrite

Next == Cpu0 \/ Isr \/ App

Spec == Init /\ [][Next]_vars

\* CPU0 goes on with its request, and CPU1 takes its interrupts.
FairSpec == Spec /\ WF_vars(Raise \/ Poll \/ Fetch) /\ WF_vars(Isr)

-----------------------------------------------------------------------------
(* Properties                                                              *)

\* MPS_BOOT_SIZE holds 0, ready bits under their fingerprint, or an address;
\* every other variable has its type.
TypeOK ==
  /\ status \in Requests \cup {None} /\ want \in Requests \cup {None}
  /\ size \in Values /\ got \in Values /\ stats \in Values /\ val \in Values
  /\ irq \in BOOLEAN
  /\ qpc \in {"idle", "raise", "poll", "fetch"}
  /\ ipc \in {"idle", "ack", "test", "lookup", "record", "clear", "exit"}
  /\ apc \in {"idle", "write"}
  /\ todo \in [set : BOOLEAN, bits : SUBSET Bits]
  /\ ready \subseteq Bits /\ undisturbed \in BOOLEAN

\* A request that returned.
RequestDone == qpc = "idle" /\ want # None

\* ifx_mps_get_core1_wifi_stats and ifx_mps_get_core1_wireless_stats return the
\* statistics that were asked for, NULL when the device has none: never the
\* preset 0 or the answer to an earlier request.  An application that writes its
\* ready bit during the request overwrites the answer in MPS_BOOT_SIZE.
AnswersRequest == RequestDone /\ undisturbed => got = Answer(want)

\* ifx_mpsdrv_get_mps1_apps_ready_bits reports no application ready that has
\* not said so.
NoFalseReady == ReadyBits \subseteq ready

\* CPU0's polling loop ends.
RequestReturns == qpc = "raise" ~> qpc = "idle"
=============================================================================
