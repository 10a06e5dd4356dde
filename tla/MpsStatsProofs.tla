--------------------------- MODULE MpsStatsProofs ----------------------------
(***************************************************************************)
(* Proofs about MpsStats, for all requests, ready bits and addresses.      *)
(***************************************************************************)
EXTENDS MpsStats, TLAPS

\* The values a read of MPS_BOOT_SIZE can return.
LEMMA ValueTypes ==
  /\ Zero \in Values
  /\ \A b \in SUBSET Bits : Ready(b) \in Values
  /\ \A r \in Requests \cup {None} : Answer(r) \in Values
  /\ \A v \in Values : v.bits \in SUBSET Bits
<1>1. Zero \in Values
  BY DEF Values
<1>2. \A b \in SUBSET Bits : Ready(b) \in Values
  BY DEF Values
<1>3. \A r \in Requests : Pointer(r) \in Values
  BY DEF Values
<1>4. \A r \in Requests \cup {None} : Answer(r) \in Values
  BY <1>1, <1>3, RequestAssumption DEF Answer
<1>5. ASSUME NEW v \in Values PROVE v.bits \in SUBSET Bits
  <2>1. CASE v = Zero
    BY <2>1 DEF Zero
  <2>2. CASE \E b \in SUBSET Bits : v = Ready(b)
    BY <2>2 DEF Ready
  <2>3. CASE \E r \in Requests : v = Pointer(r)
    BY <2>3, BitsAssumption DEF Pointer
  <2> QED
    BY <2>1, <2>2, <2>3 DEF Values
<1> QED
  BY <1>1, <1>2, <1>4, <1>5

\* Every register and every local variable keeps its type: MPS_BOOT_SIZE holds
\* nothing, fingerprinted ready bits or an address, and never a mixture.
THEOREM TypeCorrect == Spec => []TypeOK
<1>1. Init => TypeOK
  <2> SUFFICES ASSUME Init PROVE TypeOK
    OBVIOUS
  <2>1. todo \in [set : BOOLEAN, bits : SUBSET Bits]
    BY DEF Init
  <2> QED
    BY <2>1, ValueTypes DEF Init, TypeOK
<1>2. TypeOK /\ [Next]_vars => TypeOK'
  <2> SUFFICES ASSUME TypeOK, [Next]_vars PROVE TypeOK'
    OBVIOUS
  <2> USE DEF TypeOK
  <2>1. ASSUME NEW r \in Requests, Request(r) PROVE TypeOK'
    BY <2>1 DEF Request
  <2>2. CASE Raise
    BY <2>2 DEF Raise
  <2>3. CASE Poll
    BY <2>3 DEF Poll
  <2>4. CASE Fetch
    BY <2>4 DEF Fetch
  <2>5. CASE Command
    BY <2>5 DEF Command
  <2>6. CASE IsrEnter
    BY <2>6 DEF IsrEnter
  <2>7. CASE IsrAck
    BY <2>7 DEF IsrAck
  <2>8. CASE IsrNone
    BY <2>8 DEF IsrNone
  <2>9. CASE IsrPreset
    BY <2>9, ValueTypes DEF IsrPreset
  <2>10. CASE IsrLookup
    BY <2>10, ValueTypes DEF IsrLookup
  <2>11. CASE IsrRecord
    BY <2>11 DEF IsrRecord
  <2>12. CASE IsrClear
    BY <2>12 DEF IsrClear
  <2>13. CASE IsrExit
    BY <2>13 DEF IsrExit
  <2>14. CASE ReadyRead
    BY <2>14 DEF ReadyRead
  <2>15. CASE ReadyWrite
    <3>1. val.bits \in SUBSET Bits
      BY ValueTypes
    <3>2. /\ Change(todo.bits, IF HasFingerprint(val) THEN val.bits ELSE {}) \in SUBSET Bits
          /\ Change(todo.bits, ready) \in SUBSET Bits
      BY <3>1 DEF Change
    <3> QED
      BY <2>15, <3>2, ValueTypes DEF ReadyWrite
  <2>16. CASE UNCHANGED vars
    BY <2>16 DEF vars
  <2> QED
    BY <2>1, <2>2, <2>3, <2>4, <2>5, <2>6, <2>7, <2>8, <2>9, <2>10, <2>11, <2>12,
       <2>13, <2>14, <2>15, <2>16 DEF Next, Cpu0, Isr, App
<1> QED
  BY <1>1, <1>2, PTL DEF Spec

-----------------------------------------------------------------------------
(* The ready bits                                                          *)

\* A value that carries the fingerprint carries bits that applications have
\* set.  It holds of the register, of the handler's answer, which carries none,
\* and of the value an application has read and will write back.
ReadyInv ==
  /\ HasFingerprint(size) => size.bits \subseteq ready
  /\ ~HasFingerprint(stats)
  /\ apc = "write" /\ HasFingerprint(val) => val.bits \subseteq ready

\* No application is reported ready that has not said so, in any
\* interleaving of the read-modify-write of MPS_BOOT_SIZE with the statistics
\* requests that overwrite it.
THEOREM ReadySound == Spec => []NoFalseReady
<1>1. Init => ReadyInv
  BY DEF Init, ReadyInv, HasFingerprint, Zero
<1>2. ReadyInv /\ [Next]_vars => ReadyInv'
  <2> SUFFICES ASSUME ReadyInv, [Next]_vars PROVE ReadyInv'
    OBVIOUS
  <2> USE DEF ReadyInv
  <2>1. CASE Cpu0
    BY <2>1 DEF Cpu0, Request, Raise, Poll, Fetch, Command
  <2>2. CASE IsrEnter \/ IsrAck \/ IsrNone \/ IsrClear \/ IsrExit
    BY <2>2 DEF IsrEnter, IsrAck, IsrNone, IsrClear, IsrExit
  <2>3. CASE IsrPreset
    BY <2>3 DEF IsrPreset, Zero, HasFingerprint
  <2>4. CASE IsrLookup
    BY <2>4 DEF IsrLookup, Answer, Pointer, Zero, HasFingerprint
  <2>5. CASE IsrRecord
    BY <2>5 DEF IsrRecord
  <2>6. CASE ReadyRead
    BY <2>6 DEF ReadyRead
  <2>7. CASE ReadyWrite
    BY <2>7 DEF ReadyWrite, Change, Ready, HasFingerprint
  <2>8. CASE UNCHANGED vars
    BY <2>8 DEF vars
  <2> QED
    BY <2>1, <2>2, <2>3, <2>4, <2>5, <2>6, <2>7, <2>8 DEF Next, Isr, App
<1>3. ReadyInv => NoFalseReady
  BY DEF ReadyInv, NoFalseReady, ReadyBits
<1> QED
  BY <1>1, <1>2, <1>3, PTL DEF Spec

-----------------------------------------------------------------------------
(* The statistics                                                          *)

\* Where a request is: CPU1 works on it only while CPU0 waits for it, and once
\* MPS_CP0_STATUS is cleared the answer is in MPS_BOOT_SIZE until CPU0 has it.
Waiting == qpc \in {"raise", "poll"} /\ want # None /\ status = want

AnswerInv ==
  /\ qpc \in {"idle", "raise", "poll", "fetch"}
  /\ qpc = "idle" => status = None
  /\ qpc \in {"raise", "poll"} => Waiting \/ (status = None /\ (undisturbed => size = Answer(want)))
  /\ qpc = "fetch" => status = None /\ (undisturbed => size = Answer(want))
  /\ ipc \in {"lookup", "record", "clear"} => Waiting
  /\ ipc = "record" => stats = Answer(want)
  /\ ipc = "clear" /\ undisturbed => size = Answer(want)
  /\ AnswersRequest

\* Every statistics request during which no application of CPU1 writes its ready
\* bit returns what it asked for, however the handler's five accesses to the
\* registers interleave with CPU0's polling, with commands and with the ready
\* bits written between requests.
THEOREM StatsAnswered == Spec => []AnswersRequest
<1>1. Init => AnswerInv
  BY DEF Init, AnswerInv, AnswersRequest, RequestDone
<1>2. AnswerInv /\ [Next]_vars => AnswerInv'
  <2> SUFFICES ASSUME AnswerInv, [Next]_vars PROVE AnswerInv'
    OBVIOUS
  <2> USE DEF AnswerInv, AnswersRequest, RequestDone, Waiting
  <2>1. ASSUME NEW r \in Requests, Request(r) PROVE AnswerInv'
    BY <2>1, RequestAssumption DEF Request
  <2>2. CASE Raise
    BY <2>2 DEF Raise
  <2>3. CASE Poll
    BY <2>3 DEF Poll
  <2>4. CASE Fetch
    BY <2>4 DEF Fetch
  <2>5. CASE Command
    BY <2>5 DEF Command
  <2>6. CASE IsrEnter
    BY <2>6 DEF IsrEnter
  <2>7. CASE IsrAck
    BY <2>7 DEF IsrAck
  <2>8. CASE IsrNone
    BY <2>8 DEF IsrNone
  <2>9. CASE IsrPreset
    BY <2>9 DEF IsrPreset
  <2>10. CASE IsrLookup
    BY <2>10 DEF IsrLookup
  <2>11. CASE IsrRecord
    BY <2>11 DEF IsrRecord
  <2>12. CASE IsrClear
    BY <2>12 DEF IsrClear
  <2>13. CASE IsrExit
    BY <2>13 DEF IsrExit
  <2>14. CASE App
    <3>1. CASE ReadyRead
      BY <3>1 DEF ReadyRead
    <3>2. CASE ReadyWrite
      <4>1. undisturbed' => undisturbed /\ qpc = "idle"
        BY <3>2, Zenon DEF ReadyWrite
      <4>2. UNCHANGED <<status, qpc, want, got, ipc, stats>> /\ ipc = "idle"
        BY <3>2 DEF ReadyWrite
      <4> QED
        BY <4>1, <4>2
    <3> QED
      BY <2>14, <3>1, <3>2 DEF App
  <2>15. CASE UNCHANGED vars
    BY <2>15 DEF vars
  <2> QED
    BY <2>1, <2>2, <2>3, <2>4, <2>5, <2>6, <2>7, <2>8, <2>9, <2>10, <2>11, <2>12,
       <2>13, <2>14, <2>15 DEF Next, Cpu0, Isr
<1>3. AnswerInv => AnswersRequest
  BY DEF AnswerInv
<1> QED
  BY <1>1, <1>2, <1>3, PTL DEF Spec
=============================================================================
