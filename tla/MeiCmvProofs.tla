---------------------------- MODULE MeiCmvProofs ----------------------------
(***************************************************************************)
(* Proofs about MeiCmv, for any processes and any calls they make.         *)
(***************************************************************************)
EXTENDS MeiCmv, FiniteSetTheorems, TLAPS

-----------------------------------------------------------------------------
\* Types, the Boolean variables apart

FlagsOK ==
  /\ cmv_waiting \in BOOLEAN /\ arcmsgav \in BOOLEAN
  /\ showtime \in BOOLEAN /\ reset_arc_flag \in BOOLEAN /\ arc_halt_flag \in BOOLEAN
  /\ irqOn \in BOOLEAN /\ msgav \in BOOLEAN
  /\ boot \in BOOLEAN /\ late \in BOOLEAN /\ spoiled \in BOOLEAN /\ disturbed \in BOOLEAN
  /\ failed \in BOOLEAN /\ intruded \in BOOLEAN

RestOK ==
  /\ pc \in [Proc -> PCs] /\ op \in [Proc -> Sessions \cup Bypasses \cup {"none"}]
  /\ count \in Int /\ waking \in Nat /\ stranded \subseteq Proc
  /\ CMV_RxMsg \in {"new", "old"}
  /\ image \in {"none", "part", "full"} /\ arc \in {"off", "booting", "ready"}
  /\ doing \in {"none", "new", "old"} /\ out \in {"none", "new", "old", "ready"}
  /\ rx \in [Proc -> {"none", "new", "old"}]

\* The two parts are the type invariant.
LEMMA TypeParts == TypeOK <=> FlagsOK /\ RestOK
  BY DEF TypeOK, FlagsOK, RestOK

\* The Boolean variables have their types at the start.
LEMMA FlagsInit == Init => FlagsOK
  BY DEF Init, FlagsOK

\* So have the others.
LEMMA RestInit == Init => RestOK
  BY DEF Init, RestOK, PCs, CmvPoints, Sessions, Bypasses

\* Every step keeps the types of the Boolean variables.
LEMMA FlagsStep == FlagsOK /\ [Next]_vars => FlagsOK'
<1> SUFFICES ASSUME FlagsOK, [Next]_vars PROVE FlagsOK'
  OBVIOUS
<1> USE DEF Goto, sema, flags, modem, hw, history, marks, FlagsOK
<1>1. ASSUME NEW p \in Proc, CmvArm(p) PROVE FlagsOK'
  BY <1>1 DEF CmvArm, Age
<1>2. ASSUME NEW p \in Proc, CmvRaise(p) PROVE FlagsOK'
  BY <1>2 DEF CmvRaise
<1>3. ASSUME NEW p \in Proc, CmvPoll(p) PROVE FlagsOK'
  BY <1>3, ZenonT(40) DEF CmvPoll
<1>4. ASSUME NEW p \in Proc, CmvQueue(p) PROVE FlagsOK'
  BY <1>4 DEF CmvQueue
<1>5. ASSUME NEW p \in Proc, CmvWake(p) PROVE FlagsOK'
  BY <1>5 DEF CmvWake
<1>6. ASSUME NEW p \in Proc, CmvTest(p) PROVE FlagsOK'
  BY <1>6 DEF CmvTest
<1>7. ASSUME NEW p \in Proc, CmvExpire(p) PROVE FlagsOK'
  BY <1>7 DEF CmvExpire
<1>8. ASSUME NEW p \in Proc, CmvClear(p) PROVE FlagsOK'
  BY <1>8 DEF CmvClear
<1>9. ASSUME NEW p \in Proc, CmvTake(p) PROVE FlagsOK'
  BY <1>9, ZenonT(40) DEF CmvTake
<1>10. ASSUME NEW p \in Proc, CmvCopy(p) PROVE FlagsOK'
  BY <1>10 DEF CmvCopy
<1>11. ASSUME NEW p \in Proc, DownWake(p) PROVE FlagsOK'
  BY <1>11 DEF DownWake, Work
<1>12. ASSUME NEW p \in Proc, NextCmv(p) PROVE FlagsOK'
  BY <1>12 DEF NextCmv, Forget
<1>13. ASSUME NEW p \in Proc, EndSession(p) PROVE FlagsOK'
  BY <1>13 DEF EndSession, Up, Return, Forget
<1>14. ASSUME NEW p \in Proc, EndDiag(p) PROVE FlagsOK'
  BY <1>14 DEF EndDiag, Return, Forget
<1>15. ASSUME NEW p \in Proc, StartFails(p) PROVE FlagsOK'
  BY <1>15 DEF StartFails, Return
<1>16. ASSUME NEW p \in Proc, StartBoots(p) PROVE FlagsOK'
  BY <1>16 DEF StartBoots, Return, meiResetARC, ResetHw, ResetHistory
<1>17. ASSUME NEW p \in Proc, Reboot(p) PROVE FlagsOK'
  BY <1>17 DEF Reboot, ResetAndHalt, meiResetARC, ResetHw, ResetHistory, Return, Forget
<1>18. ASSUME NEW p \in Proc, DownSignal(p) PROVE FlagsOK'
  BY <1>18 DEF DownSignal, Return, Work
<1>19. ASSUME NEW p \in Proc, Halt(p) PROVE FlagsOK'
  BY <1>19 DEF Halt, ResetAndHalt, meiResetARC, ResetHw, ResetHistory
<1>20. ASSUME NEW p \in Proc, WriteFirst(p) PROVE FlagsOK'
  BY <1>20, ZenonT(40) DEF WriteFirst, ResetAndHalt, meiResetARC, ResetHw, ResetHistory
<1>21. ASSUME NEW p \in Proc, WriteRest(p) PROVE FlagsOK'
  BY <1>21 DEF WriteRest
<1>22. ASSUME NEW p \in Proc, NEW o \in Sessions \cup Bypasses, Begin(p, o) PROVE FlagsOK'
  BY <1>22 DEF Begin, Down, Work
<1>23. ASSUME mei_interrupt_arcmsgav PROVE FlagsOK'
  BY <1>23 DEF mei_interrupt_arcmsgav, Up
<1>24. ASSUME ArcReady PROVE FlagsOK'
  BY <1>24 DEF ArcReady
<1>25. ASSUME ArcAccept PROVE FlagsOK'
  BY <1>25, ZenonT(40) DEF ArcAccept
<1>26. ASSUME ArcReply PROVE FlagsOK'
  BY <1>26 DEF ArcReply
<1>27. ASSUME ArcIndicate PROVE FlagsOK'
  BY <1>27 DEF ArcIndicate
<1>28. ASSUME UNCHANGED vars PROVE FlagsOK'
  BY <1>28 DEF vars
<1> QED
  BY <1>1, <1>2, <1>3, <1>4, <1>5, <1>6, <1>7, <1>8, <1>9, <1>10, <1>11, <1>12, <1>13,
       <1>14, <1>15, <1>16, <1>17, <1>18, <1>19, <1>20, <1>21, <1>22, <1>23, <1>24, <1>25,
       <1>26, <1>27, <1>28 DEF Next, meiCMV, Session, Arc

\* Every step keeps those of the others; waking falls only from above zero.
LEMMA RestStep == RestOK /\ [Next]_vars => RestOK'
<1> SUFFICES ASSUME RestOK, [Next]_vars PROVE RestOK'
  OBVIOUS
<1> USE DEF Goto, sema, flags, modem, hw, history, marks, RestOK, PCs, CmvPoints, Sessions,
     Bypasses
<1>1. ASSUME NEW p \in Proc, CmvArm(p) PROVE RestOK'
  BY <1>1 DEF CmvArm, Age
<1>2. ASSUME NEW p \in Proc, CmvRaise(p) PROVE RestOK'
  BY <1>2 DEF CmvRaise
<1>3. ASSUME NEW p \in Proc, CmvPoll(p) PROVE RestOK'
  BY <1>3 DEF CmvPoll
<1>4. ASSUME NEW p \in Proc, CmvQueue(p) PROVE RestOK'
  BY <1>4 DEF CmvQueue
<1>5. ASSUME NEW p \in Proc, CmvWake(p) PROVE RestOK'
  BY <1>5 DEF CmvWake
<1>6. ASSUME NEW p \in Proc, CmvTest(p) PROVE RestOK'
  BY <1>6 DEF CmvTest
<1>7. ASSUME NEW p \in Proc, CmvExpire(p) PROVE RestOK'
  BY <1>7 DEF CmvExpire
<1>8. ASSUME NEW p \in Proc, CmvClear(p) PROVE RestOK'
  BY <1>8 DEF CmvClear
<1>9. ASSUME NEW p \in Proc, CmvTake(p) PROVE RestOK'
  BY <1>9 DEF CmvTake
<1>10. ASSUME NEW p \in Proc, CmvCopy(p) PROVE RestOK'
  BY <1>10 DEF CmvCopy
<1>11. ASSUME NEW p \in Proc, DownWake(p) PROVE RestOK'
  BY <1>11 DEF DownWake, Work
<1>12. ASSUME NEW p \in Proc, NextCmv(p) PROVE RestOK'
  BY <1>12 DEF NextCmv, Forget
<1>13. ASSUME NEW p \in Proc, EndSession(p) PROVE RestOK'
  BY <1>13 DEF EndSession, Up, Return, Forget
<1>14. ASSUME NEW p \in Proc, EndDiag(p) PROVE RestOK'
  BY <1>14 DEF EndDiag, Return, Forget
<1>15. ASSUME NEW p \in Proc, StartFails(p) PROVE RestOK'
  BY <1>15 DEF StartFails, Return
<1>16. ASSUME NEW p \in Proc, StartBoots(p) PROVE RestOK'
  BY <1>16 DEF StartBoots, Return, meiResetARC, ResetHw, ResetHistory
<1>17. ASSUME NEW p \in Proc, Reboot(p) PROVE RestOK'
  BY <1>17 DEF Reboot, ResetAndHalt, meiResetARC, ResetHw, ResetHistory, Return, Forget
<1>18. ASSUME NEW p \in Proc, DownSignal(p) PROVE RestOK'
  BY <1>18 DEF DownSignal, Return, Work
<1>19. ASSUME NEW p \in Proc, Halt(p) PROVE RestOK'
  BY <1>19 DEF Halt, ResetAndHalt, meiResetARC, ResetHw, ResetHistory
<1>20. ASSUME NEW p \in Proc, WriteFirst(p) PROVE RestOK'
  BY <1>20 DEF WriteFirst, ResetAndHalt, meiResetARC, ResetHw, ResetHistory
<1>21. ASSUME NEW p \in Proc, WriteRest(p) PROVE RestOK'
  BY <1>21 DEF WriteRest
<1>22. ASSUME NEW p \in Proc, NEW o \in Sessions \cup Bypasses, Begin(p, o) PROVE RestOK'
  BY <1>22 DEF Begin, Down, Work
<1>23. ASSUME mei_interrupt_arcmsgav PROVE RestOK'
  BY <1>23 DEF mei_interrupt_arcmsgav, Up
<1>24. ASSUME ArcReady PROVE RestOK'
  BY <1>24 DEF ArcReady
<1>25. ASSUME ArcAccept PROVE RestOK'
  BY <1>25 DEF ArcAccept
<1>26. ASSUME ArcReply PROVE RestOK'
  BY <1>26 DEF ArcReply
<1>27. ASSUME ArcIndicate PROVE RestOK'
  BY <1>27 DEF ArcIndicate
<1>28. ASSUME UNCHANGED vars PROVE RestOK'
  BY <1>28 DEF vars
<1> QED
  BY <1>1, <1>2, <1>3, <1>4, <1>5, <1>6, <1>7, <1>8, <1>9, <1>10, <1>11, <1>12, <1>13,
       <1>14, <1>15, <1>16, <1>17, <1>18, <1>19, <1>20, <1>21, <1>22, <1>23, <1>24, <1>25,
       <1>26, <1>27, <1>28 DEF Next, meiCMV, Session, Arc

\* TypeOK for any processes: in particular a sleeper of down_interruptible never
\* takes mei_sema without an up that has raised waking for it.
THEOREM TypeCorrect == Spec => []TypeOK
  BY FlagsInit, RestInit, FlagsStep, RestStep, TypeParts, PTL DEF Spec

-----------------------------------------------------------------------------
\* One process runs at a time; what a request returned is kept until it is used

OneRuns ==
  \A p, q \in Proc : p # q => pc[p] \in {"idle", "down", "sleep"} \/ pc[q] \in {"idle", "down", "sleep"}

\* Nobody keeps an earlier reply.
RxKept == \A p \in Proc : pc[p] # "ret" => rx[p] = "none"

\* Nobody runs and no request has returned anything at the start.
LEMMA RunsInit == Init => OneRuns /\ RxKept
  BY DEF Init, OneRuns, RxKept

\* A process goes on only while the others sleep.
LEMMA RunsStep == RestOK /\ OneRuns /\ [Next]_vars => OneRuns'
<1> SUFFICES ASSUME RestOK, OneRuns, [Next]_vars PROVE OneRuns'
  OBVIOUS
<1> USE DEF Goto, sema, flags, modem, hw, history, marks, RestOK, OneRuns, MayRun
<1>1. ASSUME NEW p \in Proc, CmvArm(p) PROVE OneRuns'
  BY <1>1 DEF CmvArm, Age
<1>2. ASSUME NEW p \in Proc, CmvRaise(p) PROVE OneRuns'
  BY <1>2 DEF CmvRaise
<1>3. ASSUME NEW p \in Proc, CmvPoll(p) PROVE OneRuns'
  BY <1>3 DEF CmvPoll
<1>4. ASSUME NEW p \in Proc, CmvQueue(p) PROVE OneRuns'
  BY <1>4 DEF CmvQueue
<1>5. ASSUME NEW p \in Proc, CmvWake(p) PROVE OneRuns'
  BY <1>5 DEF CmvWake
<1>6. ASSUME NEW p \in Proc, CmvTest(p) PROVE OneRuns'
  BY <1>6 DEF CmvTest
<1>7. ASSUME NEW p \in Proc, CmvExpire(p) PROVE OneRuns'
  BY <1>7 DEF CmvExpire
<1>8. ASSUME NEW p \in Proc, CmvClear(p) PROVE OneRuns'
  BY <1>8 DEF CmvClear
<1>9. ASSUME NEW p \in Proc, CmvTake(p) PROVE OneRuns'
  BY <1>9 DEF CmvTake
<1>10. ASSUME NEW p \in Proc, CmvCopy(p) PROVE OneRuns'
  BY <1>10 DEF CmvCopy
<1>11. ASSUME NEW p \in Proc, DownWake(p) PROVE OneRuns'
  BY <1>11 DEF DownWake, Work
<1>12. ASSUME NEW p \in Proc, NextCmv(p) PROVE OneRuns'
  BY <1>12 DEF NextCmv, Forget
<1>13. ASSUME NEW p \in Proc, EndSession(p) PROVE OneRuns'
  BY <1>13 DEF EndSession, Up, Return, Forget
<1>14. ASSUME NEW p \in Proc, EndDiag(p) PROVE OneRuns'
  BY <1>14 DEF EndDiag, Return, Forget
<1>15. ASSUME NEW p \in Proc, StartFails(p) PROVE OneRuns'
  BY <1>15 DEF StartFails, Return
<1>16. ASSUME NEW p \in Proc, StartBoots(p) PROVE OneRuns'
  BY <1>16 DEF StartBoots, Return, meiResetARC, ResetHw, ResetHistory
<1>17. ASSUME NEW p \in Proc, Reboot(p) PROVE OneRuns'
  BY <1>17 DEF Reboot, ResetAndHalt, meiResetARC, ResetHw, ResetHistory, Return, Forget
<1>18. ASSUME NEW p \in Proc, DownSignal(p) PROVE OneRuns'
  BY <1>18 DEF DownSignal, Return, Work
<1>19. ASSUME NEW p \in Proc, Halt(p) PROVE OneRuns'
  BY <1>19 DEF Halt, ResetAndHalt, meiResetARC, ResetHw, ResetHistory
<1>20. ASSUME NEW p \in Proc, WriteFirst(p) PROVE OneRuns'
  BY <1>20 DEF WriteFirst, ResetAndHalt, meiResetARC, ResetHw, ResetHistory
<1>21. ASSUME NEW p \in Proc, WriteRest(p) PROVE OneRuns'
  BY <1>21 DEF WriteRest
<1>22. ASSUME NEW p \in Proc, NEW o \in Sessions \cup Bypasses, Begin(p, o) PROVE OneRuns'
  BY <1>22 DEF Begin, Down, Work
<1>23. ASSUME mei_interrupt_arcmsgav PROVE OneRuns'
  BY <1>23 DEF mei_interrupt_arcmsgav, Up
<1>24. ASSUME ArcReady PROVE OneRuns'
  BY <1>24 DEF ArcReady
<1>25. ASSUME ArcAccept PROVE OneRuns'
  BY <1>25 DEF ArcAccept
<1>26. ASSUME ArcReply PROVE OneRuns'
  BY <1>26 DEF ArcReply
<1>27. ASSUME ArcIndicate PROVE OneRuns'
  BY <1>27 DEF ArcIndicate
<1>28. ASSUME UNCHANGED vars PROVE OneRuns'
  BY <1>28 DEF vars
<1> QED
  BY <1>1, <1>2, <1>3, <1>4, <1>5, <1>6, <1>7, <1>8, <1>9, <1>10, <1>11, <1>12, <1>13,
       <1>14, <1>15, <1>16, <1>17, <1>18, <1>19, <1>20, <1>21, <1>22, <1>23, <1>24, <1>25,
       <1>26, <1>27, <1>28 DEF Next, meiCMV, Session, Arc

\* A process forgets what a request returned before it does anything else.
LEMMA RxStep == RestOK /\ RxKept /\ [Next]_vars => RxKept'
<1> SUFFICES ASSUME RestOK, RxKept, [Next]_vars PROVE RxKept'
  OBVIOUS
<1> USE DEF Goto, sema, flags, modem, hw, history, marks, RestOK, RxKept
<1>1. ASSUME NEW p \in Proc, CmvArm(p) PROVE RxKept'
  BY <1>1 DEF CmvArm, Age
<1>2. ASSUME NEW p \in Proc, CmvRaise(p) PROVE RxKept'
  BY <1>2 DEF CmvRaise
<1>3. ASSUME NEW p \in Proc, CmvPoll(p) PROVE RxKept'
  BY <1>3 DEF CmvPoll
<1>4. ASSUME NEW p \in Proc, CmvQueue(p) PROVE RxKept'
  BY <1>4 DEF CmvQueue
<1>5. ASSUME NEW p \in Proc, CmvWake(p) PROVE RxKept'
  BY <1>5 DEF CmvWake
<1>6. ASSUME NEW p \in Proc, CmvTest(p) PROVE RxKept'
  BY <1>6 DEF CmvTest
<1>7. ASSUME NEW p \in Proc, CmvExpire(p) PROVE RxKept'
  BY <1>7 DEF CmvExpire
<1>8. ASSUME NEW p \in Proc, CmvClear(p) PROVE RxKept'
  BY <1>8 DEF CmvClear
<1>9. ASSUME NEW p \in Proc, CmvTake(p) PROVE RxKept'
  BY <1>9 DEF CmvTake
<1>10. ASSUME NEW p \in Proc, CmvCopy(p) PROVE RxKept'
  BY <1>10 DEF CmvCopy
<1>11. ASSUME NEW p \in Proc, DownWake(p) PROVE RxKept'
  BY <1>11 DEF DownWake, Work
<1>12. ASSUME NEW p \in Proc, NextCmv(p) PROVE RxKept'
  BY <1>12 DEF NextCmv, Forget
<1>13. ASSUME NEW p \in Proc, EndSession(p) PROVE RxKept'
  BY <1>13 DEF EndSession, Up, Return, Forget
<1>14. ASSUME NEW p \in Proc, EndDiag(p) PROVE RxKept'
  BY <1>14 DEF EndDiag, Return, Forget
<1>15. ASSUME NEW p \in Proc, StartFails(p) PROVE RxKept'
  BY <1>15 DEF StartFails, Return
<1>16. ASSUME NEW p \in Proc, StartBoots(p) PROVE RxKept'
  BY <1>16 DEF StartBoots, Return, meiResetARC, ResetHw, ResetHistory
<1>17. ASSUME NEW p \in Proc, Reboot(p) PROVE RxKept'
  BY <1>17 DEF Reboot, ResetAndHalt, meiResetARC, ResetHw, ResetHistory, Return, Forget
<1>18. ASSUME NEW p \in Proc, DownSignal(p) PROVE RxKept'
  BY <1>18 DEF DownSignal, Return, Work
<1>19. ASSUME NEW p \in Proc, Halt(p) PROVE RxKept'
  BY <1>19 DEF Halt, ResetAndHalt, meiResetARC, ResetHw, ResetHistory
<1>20. ASSUME NEW p \in Proc, WriteFirst(p) PROVE RxKept'
  BY <1>20 DEF WriteFirst, ResetAndHalt, meiResetARC, ResetHw, ResetHistory
<1>21. ASSUME NEW p \in Proc, WriteRest(p) PROVE RxKept'
  BY <1>21 DEF WriteRest
<1>22. ASSUME NEW p \in Proc, NEW o \in Sessions \cup Bypasses, Begin(p, o) PROVE RxKept'
  BY <1>22 DEF Begin, Down, Work
<1>23. ASSUME mei_interrupt_arcmsgav PROVE RxKept'
  BY <1>23 DEF mei_interrupt_arcmsgav, Up
<1>24. ASSUME ArcReady PROVE RxKept'
  BY <1>24 DEF ArcReady
<1>25. ASSUME ArcAccept PROVE RxKept'
  BY <1>25 DEF ArcAccept
<1>26. ASSUME ArcReply PROVE RxKept'
  BY <1>26 DEF ArcReply
<1>27. ASSUME ArcIndicate PROVE RxKept'
  BY <1>27 DEF ArcIndicate
<1>28. ASSUME UNCHANGED vars PROVE RxKept'
  BY <1>28 DEF vars
<1> QED
  BY <1>1, <1>2, <1>3, <1>4, <1>5, <1>6, <1>7, <1>8, <1>9, <1>10, <1>11, <1>12, <1>13,
       <1>14, <1>15, <1>16, <1>17, <1>18, <1>19, <1>20, <1>21, <1>22, <1>23, <1>24, <1>25,
       <1>26, <1>27, <1>28 DEF Next, meiCMV, Session, Arc

-----------------------------------------------------------------------------
\* The two flags, until a mailbox write fails or two requests overlap

FlagInv ==
  ~spoiled =>
    /\ \A p, q \in Proc : InCmv(p) /\ InCmv(q) => p = q
    /\ (arcmsgav \/ cmv_waiting) => \E p \in Proc : InCmv(p)
    /\ ~(arcmsgav /\ cmv_waiting)
    /\ \A p \in Proc : pc[p] \in {"clear", "take", "copy"} => ~cmv_waiting
    /\ \A p \in Proc : pc[p] = "copy" => ~arcmsgav

\* Both flags are down at the start.
LEMMA FlagInit == Init => FlagInv
  BY DEF Init, FlagInv, InCmv, CmvPoints

\* Every step keeps FlagInv: the handler sets arcmsgav only where it clears
\* cmv_waiting, and the end of the wait clears cmv_waiting before arcmsgav.
LEMMA FlagStep == FlagsOK /\ RestOK /\ FlagInv /\ [Next]_vars => FlagInv'
<1> SUFFICES ASSUME FlagsOK, RestOK, FlagInv, [Next]_vars, ~spoiled' PROVE FlagInv'
  BY DEF FlagInv
<1> USE DEF Goto, sema, flags, modem, hw, history, marks, FlagsOK, RestOK, FlagInv, InCmv,
     CmvPoints
<1>1. ASSUME NEW p \in Proc, CmvArm(p) PROVE FlagInv'
  BY <1>1, ZenonT(40) DEF CmvArm, Age
<1>2. ASSUME NEW p \in Proc, CmvRaise(p) PROVE FlagInv'
  BY <1>2 DEF CmvRaise
<1>3. ASSUME NEW p \in Proc, CmvPoll(p) PROVE FlagInv'
  BY <1>3 DEF CmvPoll
<1>4. ASSUME NEW p \in Proc, CmvQueue(p) PROVE FlagInv'
  BY <1>4 DEF CmvQueue
<1>5. ASSUME NEW p \in Proc, CmvWake(p) PROVE FlagInv'
  BY <1>5 DEF CmvWake
<1>6. ASSUME NEW p \in Proc, CmvTest(p) PROVE FlagInv'
  BY <1>6 DEF CmvTest
<1>7. ASSUME NEW p \in Proc, CmvExpire(p) PROVE FlagInv'
  BY <1>7 DEF CmvExpire
<1>8. ASSUME NEW p \in Proc, CmvClear(p) PROVE FlagInv'
  BY <1>8 DEF CmvClear
<1>9. ASSUME NEW p \in Proc, CmvTake(p) PROVE FlagInv'
  BY <1>9 DEF CmvTake
<1>10. ASSUME NEW p \in Proc, CmvCopy(p) PROVE FlagInv'
  BY <1>10 DEF CmvCopy
<1>11. ASSUME NEW p \in Proc, DownWake(p) PROVE FlagInv'
  BY <1>11 DEF DownWake, Work
<1>12. ASSUME NEW p \in Proc, NextCmv(p) PROVE FlagInv'
  BY <1>12 DEF NextCmv, Forget
<1>13. ASSUME NEW p \in Proc, EndSession(p) PROVE FlagInv'
  BY <1>13 DEF EndSession, Up, Return, Forget
<1>14. ASSUME NEW p \in Proc, EndDiag(p) PROVE FlagInv'
  BY <1>14 DEF EndDiag, Return, Forget
<1>15. ASSUME NEW p \in Proc, StartFails(p) PROVE FlagInv'
  BY <1>15 DEF StartFails, Return
<1>16. ASSUME NEW p \in Proc, StartBoots(p) PROVE FlagInv'
  BY <1>16 DEF StartBoots, Return, meiResetARC, ResetHw, ResetHistory
<1>17. ASSUME NEW p \in Proc, Reboot(p) PROVE FlagInv'
  BY <1>17 DEF Reboot, ResetAndHalt, meiResetARC, ResetHw, ResetHistory, Return, Forget
<1>18. ASSUME NEW p \in Proc, DownSignal(p) PROVE FlagInv'
  BY <1>18 DEF DownSignal, Return, Work
<1>19. ASSUME NEW p \in Proc, Halt(p) PROVE FlagInv'
  BY <1>19 DEF Halt, ResetAndHalt, meiResetARC, ResetHw, ResetHistory
<1>20. ASSUME NEW p \in Proc, WriteFirst(p) PROVE FlagInv'
  BY <1>20 DEF WriteFirst, ResetAndHalt, meiResetARC, ResetHw, ResetHistory
<1>21. ASSUME NEW p \in Proc, WriteRest(p) PROVE FlagInv'
  BY <1>21 DEF WriteRest
<1>22. ASSUME NEW p \in Proc, NEW o \in Sessions \cup Bypasses, Begin(p, o) PROVE FlagInv'
  BY <1>22 DEF Begin, Down, Work
<1>23. ASSUME mei_interrupt_arcmsgav PROVE FlagInv'
  BY <1>23 DEF mei_interrupt_arcmsgav, Up
<1>24. ASSUME ArcReady PROVE FlagInv'
  BY <1>24 DEF ArcReady
<1>25. ASSUME ArcAccept PROVE FlagInv'
  BY <1>25 DEF ArcAccept
<1>26. ASSUME ArcReply PROVE FlagInv'
  BY <1>26 DEF ArcReply
<1>27. ASSUME ArcIndicate PROVE FlagInv'
  BY <1>27 DEF ArcIndicate
<1>28. ASSUME UNCHANGED vars PROVE FlagInv'
  BY <1>28 DEF vars
<1> QED
  BY <1>1, <1>2, <1>3, <1>4, <1>5, <1>6, <1>7, <1>8, <1>9, <1>10, <1>11, <1>12, <1>13,
       <1>14, <1>15, <1>16, <1>17, <1>18, <1>19, <1>20, <1>21, <1>22, <1>23, <1>24, <1>25,
       <1>26, <1>27, <1>28 DEF Next, meiCMV, Session, Arc

-----------------------------------------------------------------------------
\* The two flags, overlapping requests included

Other(p) == \E q \in Proc \ {p} : InCmv(q)

\* Until a mailbox write fails every flag that is set has a request it belongs to,
\* and one that is left behind by the end of a request belongs to another request.
StaleInv ==
  /\ \A p \in Proc : pc[p] = "clear" => ~cmv_waiting
  /\ \A p \in Proc : pc[p] = "take" => arcmsgav
  /\ \A p \in Proc : pc[p] = "copy" => ~(arcmsgav /\ cmv_waiting)
  /\ ~failed =>
       /\ arcmsgav \/ cmv_waiting => \E p \in Proc : InCmv(p)
       /\ arcmsgav /\ cmv_waiting => \E p, q \in Proc : p # q /\ InCmv(p) /\ InCmv(q)
       /\ \A p \in Proc : pc[p] = "copy" /\ (arcmsgav \/ cmv_waiting) => Other(p)

\* Both flags are down at the start.
LEMMA StaleInit == Init => StaleInv
  BY DEF Init, StaleInv, InCmv, CmvPoints

\* Every step keeps StaleInv: a request that takes a reply while another one has
\* armed cmv_waiting leaves it to that one, and a timeout clears both flags.
LEMMA StaleStep == FlagsOK /\ RestOK /\ OneRuns /\ StaleInv /\ [Next]_vars => StaleInv'
<1> SUFFICES ASSUME FlagsOK, RestOK, OneRuns, StaleInv, [Next]_vars PROVE StaleInv'
  OBVIOUS
<1> USE DEF Goto, sema, flags, modem, hw, history, marks, FlagsOK, RestOK, OneRuns, MayRun,
     StaleInv, Other, InCmv, CmvPoints
<1>1. ASSUME NEW p \in Proc, CmvArm(p) PROVE StaleInv'
  BY <1>1 DEF CmvArm, Age
<1>2. ASSUME NEW p \in Proc, CmvRaise(p) PROVE StaleInv'
  BY <1>2 DEF CmvRaise
<1>3. ASSUME NEW p \in Proc, CmvPoll(p) PROVE StaleInv'
  BY <1>3 DEF CmvPoll
<1>4. ASSUME NEW p \in Proc, CmvQueue(p) PROVE StaleInv'
  BY <1>4 DEF CmvQueue
<1>5. ASSUME NEW p \in Proc, CmvWake(p) PROVE StaleInv'
  BY <1>5 DEF CmvWake
<1>6. ASSUME NEW p \in Proc, CmvTest(p) PROVE StaleInv'
  BY <1>6 DEF CmvTest
<1>7. ASSUME NEW p \in Proc, CmvExpire(p) PROVE StaleInv'
  BY <1>7 DEF CmvExpire
<1>8. ASSUME NEW p \in Proc, CmvClear(p) PROVE StaleInv'
  BY <1>8 DEF CmvClear
<1>9. ASSUME NEW p \in Proc, CmvTake(p) PROVE StaleInv'
  BY <1>9 DEF CmvTake
<1>10. ASSUME NEW p \in Proc, CmvCopy(p) PROVE StaleInv'
  BY <1>10 DEF CmvCopy
<1>11. ASSUME NEW p \in Proc, DownWake(p) PROVE StaleInv'
  BY <1>11 DEF DownWake, Work
<1>12. ASSUME NEW p \in Proc, NextCmv(p) PROVE StaleInv'
  BY <1>12 DEF NextCmv, Forget
<1>13. ASSUME NEW p \in Proc, EndSession(p) PROVE StaleInv'
  BY <1>13 DEF EndSession, Up, Return, Forget
<1>14. ASSUME NEW p \in Proc, EndDiag(p) PROVE StaleInv'
  BY <1>14 DEF EndDiag, Return, Forget
<1>15. ASSUME NEW p \in Proc, StartFails(p) PROVE StaleInv'
  BY <1>15 DEF StartFails, Return
<1>16. ASSUME NEW p \in Proc, StartBoots(p) PROVE StaleInv'
  BY <1>16 DEF StartBoots, Return, meiResetARC, ResetHw, ResetHistory
<1>17. ASSUME NEW p \in Proc, Reboot(p) PROVE StaleInv'
  BY <1>17 DEF Reboot, ResetAndHalt, meiResetARC, ResetHw, ResetHistory, Return, Forget
<1>18. ASSUME NEW p \in Proc, DownSignal(p) PROVE StaleInv'
  BY <1>18 DEF DownSignal, Return, Work
<1>19. ASSUME NEW p \in Proc, Halt(p) PROVE StaleInv'
  BY <1>19 DEF Halt, ResetAndHalt, meiResetARC, ResetHw, ResetHistory
<1>20. ASSUME NEW p \in Proc, WriteFirst(p) PROVE StaleInv'
  BY <1>20 DEF WriteFirst, ResetAndHalt, meiResetARC, ResetHw, ResetHistory
<1>21. ASSUME NEW p \in Proc, WriteRest(p) PROVE StaleInv'
  BY <1>21 DEF WriteRest
<1>22. ASSUME NEW p \in Proc, NEW o \in Sessions \cup Bypasses, Begin(p, o) PROVE StaleInv'
  BY <1>22 DEF Begin, Down, Work
<1>23. ASSUME mei_interrupt_arcmsgav PROVE StaleInv'
  BY <1>23 DEF mei_interrupt_arcmsgav, Up
<1>24. ASSUME ArcReady PROVE StaleInv'
  BY <1>24 DEF ArcReady
<1>25. ASSUME ArcAccept PROVE StaleInv'
  BY <1>25 DEF ArcAccept
<1>26. ASSUME ArcReply PROVE StaleInv'
  BY <1>26 DEF ArcReply
<1>27. ASSUME ArcIndicate PROVE StaleInv'
  BY <1>27 DEF ArcIndicate
<1>28. ASSUME UNCHANGED vars PROVE StaleInv'
  BY <1>28 DEF vars
<1> QED
  BY <1>1, <1>2, <1>3, <1>4, <1>5, <1>6, <1>7, <1>8, <1>9, <1>10, <1>11, <1>12, <1>13,
       <1>14, <1>15, <1>16, <1>17, <1>18, <1>19, <1>20, <1>21, <1>22, <1>23, <1>24, <1>25,
       <1>26, <1>27, <1>28 DEF Next, meiCMV, Session, Arc

\* NoStaleFlag for any processes: the flags meiCMV shares with the handler are both
\* down between requests, overlapping ones included, unless a mailbox write has
\* failed and no request has timed out since.
THEOREM FlagsDown == Spec => []NoStaleFlag
<1>1. StaleInv => NoStaleFlag
  BY DEF StaleInv, NoStaleFlag
<1> QED
  BY <1>1, FlagsInit, RestInit, RunsInit, StaleInit, FlagsStep, RestStep, RunsStep, StaleStep,
     PTL DEF Spec

-----------------------------------------------------------------------------
\* The reply, as long as none is late

ReplyInv ==
  ~spoiled /\ ~late =>
    /\ arcmsgav => CMV_RxMsg = "new"
    /\ \A p \in Proc : pc[p] \in {"take", "copy"} => CMV_RxMsg = "new"
    /\ \A p \in Proc : rx[p] # "old"

\* No reply at the start.
LEMMA ReplyInit == Init => ReplyInv
  BY DEF Init, ReplyInv

\* Every step keeps ReplyInv.
LEMMA ReplyStep ==
  FlagsOK /\ RestOK /\ OneRuns /\ RxKept /\ FlagInv /\ ReplyInv /\ [Next]_vars => ReplyInv'
<1> SUFFICES ASSUME FlagsOK, RestOK, OneRuns, RxKept, FlagInv, ReplyInv, [Next]_vars, ~spoiled', ~late'
             PROVE ReplyInv'
  BY DEF ReplyInv
<1> USE DEF Goto, sema, flags, modem, hw, history, marks, FlagsOK, RestOK, OneRuns, RxKept,
     FlagInv, ReplyInv, InCmv, CmvPoints, MayRun
<1>1. ASSUME NEW p \in Proc, CmvArm(p) PROVE ReplyInv'
  BY <1>1 DEF CmvArm, Age
<1>2. ASSUME NEW p \in Proc, CmvRaise(p) PROVE ReplyInv'
  BY <1>2 DEF CmvRaise
<1>3. ASSUME NEW p \in Proc, CmvPoll(p) PROVE ReplyInv'
  BY <1>3 DEF CmvPoll
<1>4. ASSUME NEW p \in Proc, CmvQueue(p) PROVE ReplyInv'
  BY <1>4 DEF CmvQueue
<1>5. ASSUME NEW p \in Proc, CmvWake(p) PROVE ReplyInv'
  BY <1>5 DEF CmvWake
<1>6. ASSUME NEW p \in Proc, CmvTest(p) PROVE ReplyInv'
  BY <1>6 DEF CmvTest
<1>7. ASSUME NEW p \in Proc, CmvExpire(p) PROVE ReplyInv'
  BY <1>7 DEF CmvExpire
<1>8. ASSUME NEW p \in Proc, CmvClear(p) PROVE ReplyInv'
  BY <1>8 DEF CmvClear
<1>9. ASSUME NEW p \in Proc, CmvTake(p) PROVE ReplyInv'
  BY <1>9 DEF CmvTake
<1>10. ASSUME NEW p \in Proc, CmvCopy(p) PROVE ReplyInv'
  BY <1>10 DEF CmvCopy
<1>11. ASSUME NEW p \in Proc, DownWake(p) PROVE ReplyInv'
  BY <1>11 DEF DownWake, Work
<1>12. ASSUME NEW p \in Proc, NextCmv(p) PROVE ReplyInv'
  BY <1>12 DEF NextCmv, Forget
<1>13. ASSUME NEW p \in Proc, EndSession(p) PROVE ReplyInv'
  BY <1>13 DEF EndSession, Up, Return, Forget
<1>14. ASSUME NEW p \in Proc, EndDiag(p) PROVE ReplyInv'
  BY <1>14 DEF EndDiag, Return, Forget
<1>15. ASSUME NEW p \in Proc, StartFails(p) PROVE ReplyInv'
  BY <1>15 DEF StartFails, Return
<1>16. ASSUME NEW p \in Proc, StartBoots(p) PROVE ReplyInv'
  BY <1>16 DEF StartBoots, Return, meiResetARC, ResetHw, ResetHistory
<1>17. ASSUME NEW p \in Proc, Reboot(p) PROVE ReplyInv'
  BY <1>17 DEF Reboot, ResetAndHalt, meiResetARC, ResetHw, ResetHistory, Return, Forget
<1>18. ASSUME NEW p \in Proc, DownSignal(p) PROVE ReplyInv'
  BY <1>18 DEF DownSignal, Return, Work
<1>19. ASSUME NEW p \in Proc, Halt(p) PROVE ReplyInv'
  BY <1>19 DEF Halt, ResetAndHalt, meiResetARC, ResetHw, ResetHistory
<1>20. ASSUME NEW p \in Proc, WriteFirst(p) PROVE ReplyInv'
  BY <1>20 DEF WriteFirst, ResetAndHalt, meiResetARC, ResetHw, ResetHistory
<1>21. ASSUME NEW p \in Proc, WriteRest(p) PROVE ReplyInv'
  BY <1>21 DEF WriteRest
<1>22. ASSUME NEW p \in Proc, NEW o \in Sessions \cup Bypasses, Begin(p, o) PROVE ReplyInv'
  BY <1>22 DEF Begin, Down, Work
<1>23. ASSUME mei_interrupt_arcmsgav PROVE ReplyInv'
  BY <1>23 DEF mei_interrupt_arcmsgav, Up
<1>24. ASSUME ArcReady PROVE ReplyInv'
  BY <1>24 DEF ArcReady
<1>25. ASSUME ArcAccept PROVE ReplyInv'
  BY <1>25 DEF ArcAccept
<1>26. ASSUME ArcReply PROVE ReplyInv'
  BY <1>26 DEF ArcReply
<1>27. ASSUME ArcIndicate PROVE ReplyInv'
  BY <1>27 DEF ArcIndicate
<1>28. ASSUME UNCHANGED vars PROVE ReplyInv'
  BY <1>28 DEF vars
<1> QED
  BY <1>1, <1>2, <1>3, <1>4, <1>5, <1>6, <1>7, <1>8, <1>9, <1>10, <1>11, <1>12, <1>13,
       <1>14, <1>15, <1>16, <1>17, <1>18, <1>19, <1>20, <1>21, <1>22, <1>23, <1>24, <1>25,
       <1>26, <1>27, <1>28 DEF Next, meiCMV, Session, Arc

\* OwnReply for any processes: meiCMV returns the reply to its own request, unless
\* one has timed out, an indicator took a reply's place or a mailbox write failed.
THEOREM RepliesOwned == Spec => []OwnReply
<1>1. RestOK /\ ReplyInv => OwnReply
  BY DEF RestOK, ReplyInv, OwnReply
<1> QED
  BY <1>1, FlagsInit, RestInit, RunsInit, FlagInit, ReplyInit,
     FlagsStep, RestStep, RunsStep, RxStep, FlagStep, ReplyStep, PTL DEF Spec

-----------------------------------------------------------------------------
\* mei_sema, as long as no sema_init comes between a down and its up

\* The calls that sleep in down_interruptible or run with mei_sema.
OpInv == \A p \in Proc : pc[p] \in {"down", "boot", "up"} => op[p] \in Sessions

\* Nobody is in a call at the start.
LEMMA OpInit == Init => OpInv
  BY DEF Init, OpInv

\* Only a session waits for mei_sema, starts the ARC or calls up.
LEMMA OpStep == RestOK /\ OpInv /\ [Next]_vars => OpInv'
<1> SUFFICES ASSUME RestOK, OpInv, [Next]_vars PROVE OpInv'
  OBVIOUS
<1> USE DEF Goto, sema, flags, modem, hw, history, marks, RestOK, OpInv, Sessions, Bypasses
<1>1. ASSUME NEW p \in Proc, CmvArm(p) PROVE OpInv'
  BY <1>1 DEF CmvArm, Age
<1>2. ASSUME NEW p \in Proc, CmvRaise(p) PROVE OpInv'
  BY <1>2 DEF CmvRaise
<1>3. ASSUME NEW p \in Proc, CmvPoll(p) PROVE OpInv'
  BY <1>3 DEF CmvPoll
<1>4. ASSUME NEW p \in Proc, CmvQueue(p) PROVE OpInv'
  BY <1>4 DEF CmvQueue
<1>5. ASSUME NEW p \in Proc, CmvWake(p) PROVE OpInv'
  BY <1>5 DEF CmvWake
<1>6. ASSUME NEW p \in Proc, CmvTest(p) PROVE OpInv'
  BY <1>6 DEF CmvTest
<1>7. ASSUME NEW p \in Proc, CmvExpire(p) PROVE OpInv'
  BY <1>7 DEF CmvExpire
<1>8. ASSUME NEW p \in Proc, CmvClear(p) PROVE OpInv'
  BY <1>8 DEF CmvClear
<1>9. ASSUME NEW p \in Proc, CmvTake(p) PROVE OpInv'
  BY <1>9 DEF CmvTake
<1>10. ASSUME NEW p \in Proc, CmvCopy(p) PROVE OpInv'
  BY <1>10 DEF CmvCopy
<1>11. ASSUME NEW p \in Proc, DownWake(p) PROVE OpInv'
  BY <1>11 DEF DownWake, Work
<1>12. ASSUME NEW p \in Proc, NextCmv(p) PROVE OpInv'
  BY <1>12 DEF NextCmv, Forget
<1>13. ASSUME NEW p \in Proc, EndSession(p) PROVE OpInv'
  BY <1>13 DEF EndSession, Up, Return, Forget
<1>14. ASSUME NEW p \in Proc, EndDiag(p) PROVE OpInv'
  BY <1>14 DEF EndDiag, Return, Forget
<1>15. ASSUME NEW p \in Proc, StartFails(p) PROVE OpInv'
  BY <1>15 DEF StartFails, Return
<1>16. ASSUME NEW p \in Proc, StartBoots(p) PROVE OpInv'
  BY <1>16 DEF StartBoots, Return, meiResetARC, ResetHw, ResetHistory
<1>17. ASSUME NEW p \in Proc, Reboot(p) PROVE OpInv'
  BY <1>17 DEF Reboot, ResetAndHalt, meiResetARC, ResetHw, ResetHistory, Return, Forget
<1>18. ASSUME NEW p \in Proc, DownSignal(p) PROVE OpInv'
  BY <1>18 DEF DownSignal, Return, Work
<1>19. ASSUME NEW p \in Proc, Halt(p) PROVE OpInv'
  BY <1>19 DEF Halt, ResetAndHalt, meiResetARC, ResetHw, ResetHistory
<1>20. ASSUME NEW p \in Proc, WriteFirst(p) PROVE OpInv'
  BY <1>20 DEF WriteFirst, ResetAndHalt, meiResetARC, ResetHw, ResetHistory
<1>21. ASSUME NEW p \in Proc, WriteRest(p) PROVE OpInv'
  BY <1>21 DEF WriteRest
<1>22. ASSUME NEW p \in Proc, NEW o \in Sessions \cup Bypasses, Begin(p, o) PROVE OpInv'
  BY <1>22 DEF Begin, Down, Work
<1>23. ASSUME mei_interrupt_arcmsgav PROVE OpInv'
  BY <1>23 DEF mei_interrupt_arcmsgav, Up
<1>24. ASSUME ArcReady PROVE OpInv'
  BY <1>24 DEF ArcReady
<1>25. ASSUME ArcAccept PROVE OpInv'
  BY <1>25 DEF ArcAccept
<1>26. ASSUME ArcReply PROVE OpInv'
  BY <1>26 DEF ArcReply
<1>27. ASSUME ArcIndicate PROVE OpInv'
  BY <1>27 DEF ArcIndicate
<1>28. ASSUME UNCHANGED vars PROVE OpInv'
  BY <1>28 DEF vars
<1> QED
  BY <1>1, <1>2, <1>3, <1>4, <1>5, <1>6, <1>7, <1>8, <1>9, <1>10, <1>11, <1>12, <1>13,
       <1>14, <1>15, <1>16, <1>17, <1>18, <1>19, <1>20, <1>21, <1>22, <1>23, <1>24, <1>25,
       <1>26, <1>27, <1>28 DEF Next, meiCMV, Session, Arc

\* An ARC that was reset does not run and has nothing to report.
ResetQuiet == reset_arc_flag => arc = "off" /\ out # "ready"

\* The ARC does not run at the start.
LEMMA QuietInit == Init => ResetQuiet
  BY DEF Init, ResetQuiet

\* reset_arc_flag is set together with the reset and cleared by the start.
LEMMA QuietStep == FlagsOK /\ RestOK /\ ResetQuiet /\ [Next]_vars => ResetQuiet'
<1> SUFFICES ASSUME FlagsOK, RestOK, ResetQuiet, [Next]_vars PROVE ResetQuiet'
  OBVIOUS
<1> USE DEF Goto, sema, flags, modem, hw, history, marks, FlagsOK, RestOK, ResetQuiet, Age
<1>1. ASSUME NEW p \in Proc, CmvArm(p) PROVE ResetQuiet'
  BY <1>1 DEF CmvArm
<1>2. ASSUME NEW p \in Proc, CmvRaise(p) PROVE ResetQuiet'
  BY <1>2 DEF CmvRaise
<1>3. ASSUME NEW p \in Proc, CmvPoll(p) PROVE ResetQuiet'
  BY <1>3 DEF CmvPoll
<1>4. ASSUME NEW p \in Proc, CmvQueue(p) PROVE ResetQuiet'
  BY <1>4 DEF CmvQueue
<1>5. ASSUME NEW p \in Proc, CmvWake(p) PROVE ResetQuiet'
  BY <1>5 DEF CmvWake
<1>6. ASSUME NEW p \in Proc, CmvTest(p) PROVE ResetQuiet'
  BY <1>6 DEF CmvTest
<1>7. ASSUME NEW p \in Proc, CmvExpire(p) PROVE ResetQuiet'
  BY <1>7 DEF CmvExpire
<1>8. ASSUME NEW p \in Proc, CmvClear(p) PROVE ResetQuiet'
  BY <1>8 DEF CmvClear
<1>9. ASSUME NEW p \in Proc, CmvTake(p) PROVE ResetQuiet'
  BY <1>9 DEF CmvTake
<1>10. ASSUME NEW p \in Proc, CmvCopy(p) PROVE ResetQuiet'
  BY <1>10 DEF CmvCopy
<1>11. ASSUME NEW p \in Proc, DownWake(p) PROVE ResetQuiet'
  BY <1>11 DEF DownWake, Work
<1>12. ASSUME NEW p \in Proc, NextCmv(p) PROVE ResetQuiet'
  BY <1>12 DEF NextCmv, Forget
<1>13. ASSUME NEW p \in Proc, EndSession(p) PROVE ResetQuiet'
  BY <1>13 DEF EndSession, Up, Return, Forget
<1>14. ASSUME NEW p \in Proc, EndDiag(p) PROVE ResetQuiet'
  BY <1>14 DEF EndDiag, Return, Forget
<1>15. ASSUME NEW p \in Proc, StartFails(p) PROVE ResetQuiet'
  BY <1>15 DEF StartFails, Return
<1>16. ASSUME NEW p \in Proc, StartBoots(p) PROVE ResetQuiet'
  BY <1>16 DEF StartBoots, Return, meiResetARC, ResetHw, ResetHistory
<1>17. ASSUME NEW p \in Proc, Reboot(p) PROVE ResetQuiet'
  BY <1>17 DEF Reboot, ResetAndHalt, meiResetARC, ResetHw, ResetHistory, Return, Forget
<1>18. ASSUME NEW p \in Proc, DownSignal(p) PROVE ResetQuiet'
  BY <1>18 DEF DownSignal, Return, Work
<1>19. ASSUME NEW p \in Proc, Halt(p) PROVE ResetQuiet'
  BY <1>19 DEF Halt, ResetAndHalt, meiResetARC, ResetHw, ResetHistory
<1>20. ASSUME NEW p \in Proc, WriteFirst(p) PROVE ResetQuiet'
  BY <1>20 DEF WriteFirst, ResetAndHalt, meiResetARC, ResetHw, ResetHistory
<1>21. ASSUME NEW p \in Proc, WriteRest(p) PROVE ResetQuiet'
  BY <1>21 DEF WriteRest
<1>22. ASSUME NEW p \in Proc, NEW o \in Sessions \cup Bypasses, Begin(p, o) PROVE ResetQuiet'
  BY <1>22 DEF Begin, Down, Work
<1>23. ASSUME mei_interrupt_arcmsgav PROVE ResetQuiet'
  BY <1>23 DEF mei_interrupt_arcmsgav, Up
<1>24. ASSUME ArcReady PROVE ResetQuiet'
  BY <1>24 DEF ArcReady
<1>25. ASSUME ArcAccept PROVE ResetQuiet'
  BY <1>25 DEF ArcAccept
<1>26. ASSUME ArcReply PROVE ResetQuiet'
  BY <1>26 DEF ArcReply
<1>27. ASSUME ArcIndicate PROVE ResetQuiet'
  BY <1>27 DEF ArcIndicate
<1>28. ASSUME UNCHANGED vars PROVE ResetQuiet'
  BY <1>28 DEF vars
<1> QED
  BY <1>1, <1>2, <1>3, <1>4, <1>5, <1>6, <1>7, <1>8, <1>9, <1>10, <1>11, <1>12, <1>13,
       <1>14, <1>15, <1>16, <1>17, <1>18, <1>19, <1>20, <1>21, <1>22, <1>23, <1>24, <1>25,
       <1>26, <1>27, <1>28 DEF Next, meiCMV, Session, Arc

\* An ARC that has reported to be ready no longer boots.
ReadyOnce == out = "ready" => arc # "booting"

\* The ARC has nothing to report at the start.
LEMMA ReadyInit == Init => ReadyOnce
  BY DEF Init, ReadyOnce

\* The ARC reports once for each start.
LEMMA ReadyStep == FlagsOK /\ RestOK /\ ResetQuiet /\ ReadyOnce /\ [Next]_vars => ReadyOnce'
<1> SUFFICES ASSUME FlagsOK, RestOK, ResetQuiet, ReadyOnce, [Next]_vars PROVE ReadyOnce'
  OBVIOUS
<1> USE DEF Goto, sema, flags, modem, hw, history, marks, FlagsOK, RestOK, ResetQuiet, ReadyOnce,
     Age
<1>1. ASSUME NEW p \in Proc, CmvArm(p) PROVE ReadyOnce'
  BY <1>1 DEF CmvArm
<1>2. ASSUME NEW p \in Proc, CmvRaise(p) PROVE ReadyOnce'
  BY <1>2 DEF CmvRaise
<1>3. ASSUME NEW p \in Proc, CmvPoll(p) PROVE ReadyOnce'
  BY <1>3 DEF CmvPoll
<1>4. ASSUME NEW p \in Proc, CmvQueue(p) PROVE ReadyOnce'
  BY <1>4 DEF CmvQueue
<1>5. ASSUME NEW p \in Proc, CmvWake(p) PROVE ReadyOnce'
  BY <1>5 DEF CmvWake
<1>6. ASSUME NEW p \in Proc, CmvTest(p) PROVE ReadyOnce'
  BY <1>6 DEF CmvTest
<1>7. ASSUME NEW p \in Proc, CmvExpire(p) PROVE ReadyOnce'
  BY <1>7 DEF CmvExpire
<1>8. ASSUME NEW p \in Proc, CmvClear(p) PROVE ReadyOnce'
  BY <1>8 DEF CmvClear
<1>9. ASSUME NEW p \in Proc, CmvTake(p) PROVE ReadyOnce'
  BY <1>9 DEF CmvTake
<1>10. ASSUME NEW p \in Proc, CmvCopy(p) PROVE ReadyOnce'
  BY <1>10 DEF CmvCopy
<1>11. ASSUME NEW p \in Proc, DownWake(p) PROVE ReadyOnce'
  BY <1>11 DEF DownWake, Work
<1>12. ASSUME NEW p \in Proc, NextCmv(p) PROVE ReadyOnce'
  BY <1>12 DEF NextCmv, Forget
<1>13. ASSUME NEW p \in Proc, EndSession(p) PROVE ReadyOnce'
  BY <1>13 DEF EndSession, Up, Return, Forget
<1>14. ASSUME NEW p \in Proc, EndDiag(p) PROVE ReadyOnce'
  BY <1>14 DEF EndDiag, Return, Forget
<1>15. ASSUME NEW p \in Proc, StartFails(p) PROVE ReadyOnce'
  BY <1>15 DEF StartFails, Return
<1>16. ASSUME NEW p \in Proc, StartBoots(p) PROVE ReadyOnce'
  BY <1>16 DEF StartBoots, Return, meiResetARC, ResetHw, ResetHistory
<1>17. ASSUME NEW p \in Proc, Reboot(p) PROVE ReadyOnce'
  BY <1>17 DEF Reboot, ResetAndHalt, meiResetARC, ResetHw, ResetHistory, Return, Forget
<1>18. ASSUME NEW p \in Proc, DownSignal(p) PROVE ReadyOnce'
  BY <1>18 DEF DownSignal, Return, Work
<1>19. ASSUME NEW p \in Proc, Halt(p) PROVE ReadyOnce'
  BY <1>19 DEF Halt, ResetAndHalt, meiResetARC, ResetHw, ResetHistory
<1>20. ASSUME NEW p \in Proc, WriteFirst(p) PROVE ReadyOnce'
  BY <1>20 DEF WriteFirst, ResetAndHalt, meiResetARC, ResetHw, ResetHistory
<1>21. ASSUME NEW p \in Proc, WriteRest(p) PROVE ReadyOnce'
  BY <1>21 DEF WriteRest
<1>22. ASSUME NEW p \in Proc, NEW o \in Sessions \cup Bypasses, Begin(p, o) PROVE ReadyOnce'
  BY <1>22 DEF Begin, Down, Work
<1>23. ASSUME mei_interrupt_arcmsgav PROVE ReadyOnce'
  BY <1>23 DEF mei_interrupt_arcmsgav, Up
<1>24. ASSUME ArcReady PROVE ReadyOnce'
  BY <1>24 DEF ArcReady
<1>25. ASSUME ArcAccept PROVE ReadyOnce'
  BY <1>25 DEF ArcAccept
<1>26. ASSUME ArcReply PROVE ReadyOnce'
  BY <1>26 DEF ArcReply
<1>27. ASSUME ArcIndicate PROVE ReadyOnce'
  BY <1>27 DEF ArcIndicate
<1>28. ASSUME UNCHANGED vars PROVE ReadyOnce'
  BY <1>28 DEF vars
<1> QED
  BY <1>1, <1>2, <1>3, <1>4, <1>5, <1>6, <1>7, <1>8, <1>9, <1>10, <1>11, <1>12, <1>13,
       <1>14, <1>15, <1>16, <1>17, <1>18, <1>19, <1>20, <1>21, <1>22, <1>23, <1>24, <1>25,
       <1>26, <1>27, <1>28 DEF Next, meiCMV, Session, Arc

\* Asleep in down_interruptible; nobody has mei_sema.
Sleepers == {p \in Proc : pc[p] = "down"}
Free == ~boot /\ \A p \in Proc : ~Holds(p)

\* Until a sema_init meets a user of mei_sema: one owner, a process or the ARC that
\* boots, and count is what is free less the sleepers, one of whom an up may have woken.
SemInv ==
  ~disturbed =>
    /\ \A p, q \in Proc : Holds(p) /\ Holds(q) => p = q
    /\ boot => \A p \in Proc : ~Holds(p)
    /\ (arc = "booting" \/ out = "ready") => boot
    /\ waking = 0 \/ (waking = 1 /\ Free /\ count <= 0)
    /\ Free => count = 1 - Cardinality(Sleepers)
    /\ ~Free => count = 0 - Cardinality(Sleepers)

\* The processes asleep in down_interruptible can be counted.
LEMMA SleepersFinite == IsFiniteSet(Sleepers) /\ Cardinality(Sleepers) \in Nat
<1>1. IsFiniteSet(Sleepers)
  BY ProcAssumption, FS_Subset DEF Sleepers
<1> QED
  BY <1>1, FS_CardinalityType

\* A sleeper less.
LEMMA SleepersLess ==
  ASSUME NEW p \in Sleepers, Sleepers' = Sleepers \ {p}
  PROVE  Cardinality(Sleepers') = Cardinality(Sleepers) - 1 /\ Cardinality(Sleepers) > 0
<1>1. Cardinality(Sleepers \ {p}) = Cardinality(Sleepers) - 1 /\ IsFiniteSet(Sleepers \ {p})
  BY SleepersFinite, FS_RemoveElement
<1>2. Cardinality(Sleepers \ {p}) \in Nat
  BY <1>1, FS_CardinalityType
<1> QED
  BY <1>1, <1>2, SleepersFinite

\* A step that leaves mei_sema, its owner and its sleepers alone.
LEMMA SemQuiet ==
  ASSUME SemInv, UNCHANGED <<count, waking, boot, disturbed>>, Sleepers' = Sleepers,
         \A q \in Proc : Holds(q)' <=> Holds(q),
         (arc' = "booting" \/ out' = "ready") => (arc = "booting" \/ out = "ready")
  PROVE  SemInv'
<1>1. Free' <=> Free
  BY DEF Free
<1> QED
  BY <1>1 DEF SemInv

\* A sleeper gets mei_sema from up.
LEMMA SemTaken ==
  ASSUME RestOK, SemInv, NEW p \in Proc, ~disturbed', p \in Sleepers, Sleepers' = Sleepers \ {p},
         waking > 0, waking' = waking - 1, UNCHANGED <<count, boot, disturbed, arc, out>>,
         Holds(p)', \A q \in Proc \ {p} : Holds(q)' <=> Holds(q)
  PROVE  SemInv'
<1>1. waking = 1 /\ Free
  BY DEF SemInv, RestOK
<1>2. ~Free' /\ ~boot' /\ \A q \in Proc \ {p} : ~Holds(q)'
  BY <1>1 DEF Free
<1>3. Cardinality(Sleepers') = Cardinality(Sleepers) - 1
  BY SleepersLess
<1>4. count' = 0 - Cardinality(Sleepers')
  BY <1>1, <1>3, SleepersFinite DEF SemInv
<1> QED
  BY <1>1, <1>2, <1>4 DEF SemInv, Free

\* Nobody has mei_sema after up, and it goes to a sleeper if there is one.
LEMMA SemUp ==
  ASSUME RestOK, SemInv, ~disturbed', UNCHANGED <<disturbed, arc>>, Up, ~Free, Free', Sleepers' = Sleepers,
         (arc' = "booting" \/ out' = "ready") => boot'
  PROVE  SemInv'
<1>1. waking = 0 /\ count = 0 - Cardinality(Sleepers)
  BY DEF SemInv
<1>2. count' = 1 - Cardinality(Sleepers')
  BY <1>1, SleepersFinite DEF Up
<1>3. waking' = 0 \/ (waking' = 1 /\ count' <= 0)
  BY <1>1 DEF Up
<1> QED
  BY <1>2, <1>3 DEF SemInv, Free

\* DANUBE_MEI_START leaves mei_sema to the ARC.
LEMMA SemBoot ==
  ASSUME RestOK, SemInv, NEW p \in Proc, ~disturbed', UNCHANGED <<count, waking, disturbed>>,
         boot' = TRUE, Sleepers' = Sleepers,
         Holds(p), ~Holds(p)', \A q \in Proc \ {p} : Holds(q)' <=> Holds(q)
  PROVE  SemInv'
<1>1. ~Free /\ ~Free'
  BY DEF Free
<1>2. \A q \in Proc : ~Holds(q)'
  BY DEF SemInv
<1> QED
  BY <1>1, <1>2 DEF SemInv

\* A reset while nobody has or wants mei_sema.
LEMMA SemReset ==
  ASSUME count' = 1, waking' = 0, boot' = FALSE, arc' = "off", out' = "none",
         \A q \in Proc : ~Holds(q)' /\ pc'[q] # "down"
  PROVE  SemInv'
<1>1. Sleepers' = {}
  BY DEF Sleepers
<1>2. Cardinality(Sleepers') = 0
  BY <1>1, FS_EmptySet
<1> QED
  BY <1>2 DEF SemInv, Free

\* mei_sema is free at the start.
LEMMA SemInit == Init => SemInv
<1> SUFFICES ASSUME Init PROVE SemInv
  OBVIOUS
<1>1. Sleepers = {} /\ Free
  BY DEF Init, Sleepers, Free, Holds, CmvPoints
<1>2. Cardinality(Sleepers) = 0
  BY <1>1, FS_EmptySet
<1> QED
  BY <1>1, <1>2 DEF Init, SemInv, Free

\* Every step that leaves disturbed unset keeps SemInv.
LEMMA SemStep == FlagsOK /\ RestOK /\ OpInv /\ ReadyOnce /\ SemInv /\ [Next]_vars => SemInv'
<1> SUFFICES ASSUME FlagsOK, RestOK, OpInv, ReadyOnce, SemInv, [Next]_vars, ~disturbed' PROVE SemInv'
  BY DEF SemInv
<1>1. ASSUME NEW p \in Proc, CmvArm(p) PROVE SemInv'
  <2>1. Sleepers' = Sleepers /\ \A q \in Proc : Holds(q)' <=> Holds(q)
    BY <1>1, RestOK DEF CmvArm, Age, sema, flags, modem, hw, history, marks, Sleepers, Holds,
         Sessions, Bypasses, CmvPoints, RestOK, Goto
  <2> QED
    BY <1>1, <2>1, SemQuiet DEF CmvArm, Age, sema, flags, modem, hw, history, marks, Goto
<1>2. ASSUME NEW p \in Proc, CmvRaise(p) PROVE SemInv'
  <2>1. Sleepers' = Sleepers /\ \A q \in Proc : Holds(q)' <=> Holds(q)
    BY <1>2, RestOK DEF CmvRaise, sema, flags, modem, hw, history, marks, Sleepers, Holds,
         Sessions, Bypasses, CmvPoints, RestOK, Goto
  <2> QED
    BY <1>2, <2>1, SemQuiet DEF CmvRaise, sema, flags, modem, hw, history, marks, Goto
<1>3. ASSUME NEW p \in Proc, CmvPoll(p) PROVE SemInv'
  <2>1. Sleepers' = Sleepers /\ \A q \in Proc : Holds(q)' <=> Holds(q)
    BY <1>3, RestOK DEF CmvPoll, sema, flags, modem, hw, history, marks, Sleepers, Holds,
         Sessions, Bypasses, CmvPoints, RestOK, Goto
  <2> QED
    BY <1>3, <2>1, SemQuiet DEF CmvPoll, sema, flags, modem, hw, history, marks, Goto
<1>4. ASSUME NEW p \in Proc, CmvQueue(p) PROVE SemInv'
  <2>1. Sleepers' = Sleepers /\ \A q \in Proc : Holds(q)' <=> Holds(q)
    BY <1>4, RestOK DEF CmvQueue, sema, flags, modem, hw, history, marks, Sleepers, Holds,
         Sessions, Bypasses, CmvPoints, RestOK, Goto
  <2> QED
    BY <1>4, <2>1, SemQuiet DEF CmvQueue, sema, flags, modem, hw, history, marks, Goto
<1>5. ASSUME NEW p \in Proc, CmvWake(p) PROVE SemInv'
  <2>1. Sleepers' = Sleepers /\ \A q \in Proc : Holds(q)' <=> Holds(q)
    BY <1>5, RestOK DEF CmvWake, sema, flags, modem, hw, history, marks, Sleepers, Holds,
         Sessions, Bypasses, CmvPoints, RestOK, Goto
  <2> QED
    BY <1>5, <2>1, SemQuiet DEF CmvWake, sema, flags, modem, hw, history, marks, Goto
<1>6. ASSUME NEW p \in Proc, CmvTest(p) PROVE SemInv'
  <2>1. Sleepers' = Sleepers /\ \A q \in Proc : Holds(q)' <=> Holds(q)
    BY <1>6, RestOK DEF CmvTest, sema, flags, modem, hw, history, marks, Sleepers, Holds,
         Sessions, Bypasses, CmvPoints, RestOK, Goto
  <2> QED
    BY <1>6, <2>1, SemQuiet DEF CmvTest, sema, flags, modem, hw, history, marks, Goto
<1>7. ASSUME NEW p \in Proc, CmvExpire(p) PROVE SemInv'
  <2>1. Sleepers' = Sleepers /\ \A q \in Proc : Holds(q)' <=> Holds(q)
    BY <1>7, RestOK DEF CmvExpire, sema, flags, modem, hw, history, marks, Sleepers, Holds,
         Sessions, Bypasses, CmvPoints, RestOK, Goto
  <2> QED
    BY <1>7, <2>1, SemQuiet DEF CmvExpire, sema, flags, modem, hw, history, marks, Goto
<1>8. ASSUME NEW p \in Proc, CmvClear(p) PROVE SemInv'
  <2>1. Sleepers' = Sleepers /\ \A q \in Proc : Holds(q)' <=> Holds(q)
    BY <1>8, RestOK DEF CmvClear, sema, flags, modem, hw, history, marks, Sleepers, Holds,
         Sessions, Bypasses, CmvPoints, RestOK, Goto
  <2> QED
    BY <1>8, <2>1, SemQuiet DEF CmvClear, sema, flags, modem, hw, history, marks, Goto
<1>9. ASSUME NEW p \in Proc, CmvTake(p) PROVE SemInv'
  <2>1. Sleepers' = Sleepers /\ \A q \in Proc : Holds(q)' <=> Holds(q)
    BY <1>9, RestOK DEF CmvTake, sema, flags, modem, hw, history, marks, Sleepers, Holds,
         Sessions, Bypasses, CmvPoints, RestOK, Goto
  <2> QED
    BY <1>9, <2>1, SemQuiet DEF CmvTake, sema, flags, modem, hw, history, marks, Goto
<1>10. ASSUME NEW p \in Proc, CmvCopy(p) PROVE SemInv'
  <2>1. Sleepers' = Sleepers /\ \A q \in Proc : Holds(q)' <=> Holds(q)
    BY <1>10, RestOK DEF CmvCopy, sema, flags, modem, hw, history, marks, Sleepers, Holds,
         Sessions, Bypasses, CmvPoints, RestOK, Goto
  <2> QED
    BY <1>10, <2>1, SemQuiet DEF CmvCopy, sema, flags, modem, hw, history, marks, Goto
<1>11. ASSUME NEW p \in Proc, DownWake(p) PROVE SemInv'
  <2>1. /\ Sleepers' = Sleepers \ {p} /\ p \in Sleepers
        /\ Holds(p)' /\ \A q \in Proc \ {p} : Holds(q)' <=> Holds(q)
    BY <1>11, RestOK, OpInv DEF DownWake, Work, sema, flags, modem, hw, history, marks, OpInv,
         Sleepers, Holds, Sessions, Bypasses, CmvPoints, RestOK, Goto
  <2> QED
    BY <1>11, <2>1, SemTaken DEF DownWake, Work, sema, flags, modem, hw, history, marks, Goto
<1>12. ASSUME NEW p \in Proc, NextCmv(p) PROVE SemInv'
  <2>1. Sleepers' = Sleepers /\ \A q \in Proc : Holds(q)' <=> Holds(q)
    BY <1>12, RestOK DEF NextCmv, Forget, sema, flags, modem, hw, history, marks, Sleepers,
         Holds, Sessions, Bypasses, CmvPoints, RestOK, Goto
  <2> QED
    BY <1>12, <2>1, SemQuiet DEF NextCmv, Forget, sema, flags, modem, hw, history, marks, Goto
<1>13. ASSUME NEW p \in Proc, EndSession(p) PROVE SemInv'
  <2>1. /\ Sleepers' = Sleepers /\ Holds(p) /\ ~Holds(p)'
        /\ \A q \in Proc \ {p} : Holds(q)' <=> Holds(q)
    BY <1>13, RestOK, OpInv DEF EndSession, Up, Return, Forget, sema, flags, modem, hw,
         history, marks, OpInv, Sleepers, Holds, Sessions, Bypasses, CmvPoints, RestOK, Goto
  <2>2. Up /\ UNCHANGED <<boot, disturbed, arc, out>>
    BY <1>13 DEF EndSession, hw, history, marks
  <2>3. ~boot /\ \A q \in Proc \ {p} : ~Holds(q)
    BY <2>1, <2>2, SemInv, ~disturbed' DEF SemInv
  <2>4. ~boot' /\ \A q \in Proc : ~Holds(q)'
    BY <2>1, <2>2, <2>3
  <2> QED
    BY <2>1, <2>2, <2>3, <2>4, SemUp, SemInv, ~disturbed' DEF SemInv, Free
<1>14. ASSUME NEW p \in Proc, EndDiag(p) PROVE SemInv'
  <2>1. Sleepers' = Sleepers /\ \A q \in Proc : Holds(q)' <=> Holds(q)
    BY <1>14, RestOK DEF EndDiag, Return, Forget, sema, flags, modem, hw, history, marks,
         Sleepers, Holds, Sessions, Bypasses, CmvPoints, RestOK, Goto
  <2> QED
    BY <1>14, <2>1, SemQuiet DEF EndDiag, Return, Forget, sema, flags, modem, hw, history, marks,
         Goto
<1>15. ASSUME NEW p \in Proc, StartFails(p) PROVE SemInv'
  <2>1. /\ Sleepers' = Sleepers /\ Holds(p) /\ ~Holds(p)'
        /\ \A q \in Proc \ {p} : Holds(q)' <=> Holds(q)
    BY <1>15, RestOK, OpInv DEF StartFails, Return, sema, flags, modem, hw, history, marks,
         OpInv, Sleepers, Holds, Sessions, Bypasses, CmvPoints, RestOK, Goto
  <2> QED
    BY <1>15, <2>1, SemBoot DEF StartFails, Return, sema, flags, modem, hw, history, marks
<1>16. ASSUME NEW p \in Proc, StartBoots(p) PROVE SemInv'
  <2>1. /\ Sleepers' = Sleepers /\ Holds(p) /\ ~Holds(p)'
        /\ \A q \in Proc \ {p} : Holds(q)' <=> Holds(q)
    BY <1>16, RestOK, OpInv DEF StartBoots, Return, OpInv, Sleepers, Holds, Sessions,
         Bypasses, CmvPoints, RestOK, Goto
  <2>2. reset_arc_flag
    BY <1>16, <2>1, ~disturbed' DEF StartBoots, meiResetARC, ResetHistory
  <2>3. boot' = TRUE /\ UNCHANGED <<count, waking, disturbed>>
    BY <1>16, <2>2 DEF StartBoots, sema
  <2> QED
    BY <2>1, <2>3, SemBoot
<1>17. ASSUME NEW p \in Proc, Reboot(p) PROVE SemInv'
  BY <1>17, SemReset, ~disturbed', RestOK, OpInv, ZenonT(40) DEF Reboot, ResetAndHalt, meiResetARC,
       ResetHw, ResetHistory, Return, Forget, sema, flags, modem, hw, history, marks, OpInv,
       Sleepers, Holds, Sessions, Bypasses, CmvPoints, RestOK, Goto
<1>18. ASSUME NEW p \in Proc, DownSignal(p) PROVE SemInv'
  <2>1. CASE waking > 0
    <3>1. /\ Sleepers' = Sleepers \ {p} /\ p \in Sleepers
          /\ Holds(p)' /\ \A q \in Proc \ {p} : Holds(q)' <=> Holds(q)
      BY <1>18, <2>1, RestOK, OpInv DEF DownSignal, Return, Work, sema, flags, modem, hw,
           history, marks, OpInv, Sleepers, Holds, Sessions, Bypasses, CmvPoints, RestOK, Goto
    <3>2. waking' = waking - 1 /\ UNCHANGED <<count, boot, disturbed, arc, out>>
      BY <1>18, <2>1, RestOK DEF DownSignal, hw, history, marks, RestOK
    <3> QED
      BY <2>1, <3>1, <3>2, SemTaken
  <2>2. CASE ~(waking > 0)
    <3>1. /\ Sleepers' = Sleepers \ {p} /\ p \in Sleepers
          /\ \A q \in Proc : Holds(q)' <=> Holds(q)
      BY <1>18, <2>2, RestOK, OpInv DEF DownSignal, Return, Work, sema, flags, modem, hw,
           history, marks, OpInv, Sleepers, Holds, Sessions, Bypasses, CmvPoints, RestOK, Goto
    <3>2. count' = count + 1 /\ waking' = waking
      BY <1>18, <2>2, RestOK DEF DownSignal, RestOK
    <3>3. UNCHANGED <<boot, disturbed, arc, out>>
      BY <1>18 DEF DownSignal, hw, history, marks
    <3> HIDE DEF Sleepers
    <3>4. Cardinality(Sleepers') = Cardinality(Sleepers) - 1
      BY <3>1, SleepersLess
    <3>5. (Free' <=> Free) /\ waking' = 0
      BY <2>2, <3>1, <3>2, <3>3, RestOK DEF Free, RestOK
    <3>6. /\ Free' => count' = 1 - Cardinality(Sleepers')
          /\ ~Free' => count' = 0 - Cardinality(Sleepers')
      BY <3>2, <3>3, <3>4, <3>5, SleepersFinite, SemInv, ~disturbed' DEF SemInv
    <3> QED
      BY <3>1, <3>3, <3>5, <3>6, SemInv, ~disturbed' DEF SemInv
  <2> QED
    BY <2>1, <2>2
<1>19. ASSUME NEW p \in Proc, Halt(p) PROVE SemInv'
  BY <1>19, SemReset, ~disturbed', RestOK, OpInv DEF Halt, ResetAndHalt, meiResetARC,
       ResetHw, ResetHistory, sema, flags, modem, hw, history, marks, OpInv, Sleepers, Holds,
       Sessions, Bypasses, CmvPoints, RestOK, Goto
<1>20. ASSUME NEW p \in Proc, WriteFirst(p) PROVE SemInv'
  <2>1. CASE arc_halt_flag
    <3>1. Sleepers' = Sleepers /\ \A q \in Proc : Holds(q)' <=> Holds(q)
      BY <1>20, <2>1 DEF WriteFirst, ResetAndHalt, meiResetARC, ResetHw, ResetHistory,
           sema, flags, modem, hw, history, marks, Sleepers, Holds
    <3> QED
      BY <1>20, <2>1, <3>1, SemQuiet DEF WriteFirst, ResetAndHalt, meiResetARC, ResetHw,
           ResetHistory, sema, flags, modem, hw, history, marks
  <2>2. CASE ~arc_halt_flag
    BY <1>20, <2>2, SemReset, ~disturbed', RestOK, OpInv DEF WriteFirst, ResetAndHalt,
         meiResetARC, ResetHw, ResetHistory, sema, flags, modem, hw, history, marks, OpInv,
         Sleepers, Holds, Sessions, Bypasses, CmvPoints, RestOK, Goto
  <2> QED
    BY <2>1, <2>2
<1>21. ASSUME NEW p \in Proc, WriteRest(p) PROVE SemInv'
  <2>1. Sleepers' = Sleepers /\ \A q \in Proc : Holds(q)' <=> Holds(q)
    BY <1>21, RestOK DEF WriteRest, sema, flags, modem, hw, history, marks, Sleepers, Holds,
         Sessions, Bypasses, CmvPoints, RestOK, Goto
  <2> QED
    BY <1>21, <2>1, SemQuiet DEF WriteRest, sema, flags, modem, hw, history, marks, Goto
<1>22. ASSUME NEW p \in Proc, NEW o \in Sessions \cup Bypasses, Begin(p, o) PROVE SemInv'
  <2>1. UNCHANGED <<boot, disturbed, arc, out>>
    BY <1>22 DEF Begin, hw, history, marks
  <2>2. CASE o \in Bypasses
    <3>1. Sleepers' = Sleepers /\ \A q \in Proc : Holds(q)' <=> Holds(q)
      BY <1>22, <2>2, RestOK DEF Begin, Down, Work, Sleepers, Holds, Sessions, Bypasses,
           CmvPoints, RestOK, Goto
    <3>2. UNCHANGED <<count, waking>>
      BY <1>22, <2>2 DEF Begin, sema, Bypasses, Sessions
    <3> QED
      BY <2>1, <3>1, <3>2, SemQuiet
  <2>3. CASE o \in Sessions /\ count - 1 >= 0
    <3>1. /\ Sleepers' = Sleepers /\ ~Holds(p)
          /\ Holds(p)' /\ \A q \in Proc \ {p} : Holds(q)' <=> Holds(q)
      BY <1>22, <2>3, RestOK DEF Begin, Down, Work, Sleepers, Holds, Sessions, Bypasses,
           CmvPoints, RestOK, Goto
    <3>2. count' = count - 1 /\ waking' = waking
      BY <1>22, <2>3 DEF Begin, Down, Bypasses, Sessions
    <3>3. Free /\ Cardinality(Sleepers) = 0 /\ waking = 0 /\ count = 1
      BY <2>1, <2>3, SleepersFinite, SemInv, RestOK, ~disturbed' DEF SemInv, RestOK
    <3>4. ~boot /\ \A q \in Proc : ~Holds(q)
      BY <3>3 DEF Free
    <3>5. ~Free'
      BY <3>1 DEF Free
    <3>6. ~boot' /\ arc # "booting" /\ out # "ready"
      BY <2>1, <3>4, SemInv, ~disturbed' DEF SemInv
    <3> QED
      BY <2>1, <3>1, <3>2, <3>3, <3>4, <3>5, <3>6 DEF SemInv
  <2>4. CASE o \in Sessions /\ ~(count - 1 >= 0)
    <3>1. /\ Sleepers' = Sleepers \cup {p} /\ p \notin Sleepers
          /\ \A q \in Proc : Holds(q)' <=> Holds(q)
      BY <1>22, <2>4, RestOK DEF Begin, Down, Work, Sleepers, Holds, Sessions, Bypasses,
           CmvPoints, RestOK, Goto
    <3>2. count' = count - 1 /\ waking' = waking
      BY <1>22, <2>4 DEF Begin, Down, Bypasses, Sessions
    <3>3. Cardinality(Sleepers') = Cardinality(Sleepers) + 1
      BY <3>1, SleepersFinite, FS_AddElement
    <3> HIDE DEF Sleepers
    <3> QED
      BY <2>1, <2>4, <3>1, <3>2, <3>3, SleepersFinite, SemInv, RestOK, ~disturbed' DEF
           SemInv, Free, RestOK
  <2> QED
    BY <2>2, <2>3, <2>4
<1>23. ASSUME mei_interrupt_arcmsgav PROVE SemInv'
  <2>1. Sleepers' = Sleepers /\ \A q \in Proc : Holds(q)' <=> Holds(q)
    BY <1>23 DEF mei_interrupt_arcmsgav, Sleepers, Holds
  <2>2. UNCHANGED <<arc, disturbed>> /\ out' = "none"
    BY <1>23 DEF mei_interrupt_arcmsgav, marks
  <2>3. CASE UNCHANGED <<sema, boot>>
    BY <2>1, <2>2, <2>3, SemQuiet DEF sema
  <2>4. CASE Up /\ boot' = FALSE /\ out = "ready"
    <3>1. boot /\ \A q \in Proc : ~Holds(q)
      BY <2>2, <2>4, SemInv, ~disturbed' DEF SemInv
    <3>2. ~boot' /\ \A q \in Proc : ~Holds(q)'
      BY <2>1, <2>4, <3>1
    <3>3. arc # "booting"
      BY ReadyOnce, <2>4 DEF ReadyOnce
    <3> QED
      BY <2>1, <2>2, <2>4, <3>1, <3>2, <3>3, SemUp, SemInv, ~disturbed' DEF SemInv, Free
  <2> QED
    BY <1>23, <2>3, <2>4 DEF mei_interrupt_arcmsgav, sema
<1>24. ASSUME ArcReady PROVE SemInv'
  <2>1. Sleepers' = Sleepers /\ \A q \in Proc : Holds(q)' <=> Holds(q)
    BY <1>24 DEF ArcReady, sema, flags, modem, hw, history, marks, Sleepers, Holds
  <2> QED
    BY <1>24, <2>1, SemQuiet, RestOK DEF ArcReady, sema, flags, modem, hw, history, marks, RestOK
<1>25. ASSUME ArcAccept PROVE SemInv'
  <2>1. Sleepers' = Sleepers /\ \A q \in Proc : Holds(q)' <=> Holds(q)
    BY <1>25 DEF ArcAccept, sema, flags, modem, hw, history, marks, Sleepers, Holds
  <2> QED
    BY <1>25, <2>1, SemQuiet, RestOK DEF ArcAccept, sema, flags, modem, hw, history, marks, RestOK
<1>26. ASSUME ArcReply PROVE SemInv'
  <2>1. Sleepers' = Sleepers /\ \A q \in Proc : Holds(q)' <=> Holds(q)
    BY <1>26 DEF ArcReply, sema, flags, modem, hw, history, marks, Sleepers, Holds
  <2> QED
    BY <1>26, <2>1, SemQuiet, RestOK DEF ArcReply, sema, flags, modem, hw, history, marks, RestOK
<1>27. ASSUME ArcIndicate PROVE SemInv'
  <2>1. Sleepers' = Sleepers /\ \A q \in Proc : Holds(q)' <=> Holds(q)
    BY <1>27 DEF ArcIndicate, sema, flags, modem, hw, history, marks, Sleepers, Holds
  <2> QED
    BY <1>27, <2>1, SemQuiet, RestOK DEF ArcIndicate, sema, flags, modem, hw, history, marks,
         RestOK
<1>28. ASSUME UNCHANGED vars PROVE SemInv'
  BY <1>28, SemQuiet DEF Sleepers, Holds, vars, sema, flags, modem, hw, history, marks
<1> QED
  BY <1>1, <1>2, <1>3, <1>4, <1>5, <1>6, <1>7, <1>8, <1>9, <1>10, <1>11, <1>12, <1>13,
       <1>14, <1>15, <1>16, <1>17, <1>18, <1>19, <1>20, <1>21, <1>22, <1>23, <1>24, <1>25,
       <1>26, <1>27, <1>28 DEF Next, meiCMV, Session, Arc

\* OneCmv for any processes: mei_sema keeps the sessions of two processes apart in
\* meiCMV, signals to sleepers included, until a sema_init meets a user of it.
THEOREM CmvExclusive == Spec => []OneCmv
<1>1. SemInv => OneCmv
  BY DEF SemInv, OneCmv, Holds, InCmv, CmvPoints
<1> QED
  BY <1>1, FlagsInit, RestInit, OpInit, QuietInit, ReadyInit, SemInit,
     FlagsStep, RestStep, OpStep, QuietStep, ReadyStep, SemStep, PTL DEF Spec

\* ClosedWhileBooting for any processes: from a start up to the MODEM_READY that its
\* interrupt handler sees, mei_sema keeps every session out of meiCMV.
THEOREM ClosedUntilReady == Spec => []ClosedWhileBooting
<1>1. SemInv => ClosedWhileBooting
  BY DEF SemInv, ClosedWhileBooting, Holds, InCmv, CmvPoints
<1> QED
  BY <1>1, FlagsInit, RestInit, OpInit, QuietInit, ReadyInit, SemInit,
     FlagsStep, RestStep, OpStep, QuietStep, ReadyStep, SemStep, PTL DEF Spec
=============================================================================
