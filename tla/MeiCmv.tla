------------------------------- MODULE MeiCmv -------------------------------
(***************************************************************************)
(* The DSL modem interface (drivers/char/danube_mei_core.c, and the calls  *)
(* of danube_mei_mib.c).  The modem's own processor, the ARC, takes one    *)
(* request (CMV) at a time from a mailbox and answers through another,     *)
(* which it also uses for messages nobody asked for (indicators).  Nothing *)
(* in a reply says which request it answers: the handler takes whatever    *)
(* comes while cmv_waiting is set for the reply.  mei_sema lets one        *)
(* process at a time talk to the ARC; starting the modem keeps it until    *)
(* the ARC reports that it is ready.                                       *)
(*                                                                         *)
(* One CPU, no preemption inside the kernel: a process gives up the CPU    *)
(* only asleep in down_interruptible or schedule_timeout.  The interrupt   *)
(* comes between any two steps.  A message is a number: that of a request, *)
(* which its reply bears too, or one of the two kinds of indicators.       *)
(***************************************************************************)
EXTENDS Integers, FiniteSets

CONSTANTS
  Proc,       \* processes that use the driver
  Ops         \* what each of them calls

\* A session holds mei_sema: one request (DANUBE_MEI_CMV_WINHOST), access to
\* the ARC's memory, the requests of DANUBE_MEI_SHOWTIME, those of the MIB
\* thread, and DANUBE_MEI_START.  A bypass makes its requests without it.  The
\* others make none.
Sessions == {"host", "debug", "showtime", "mib", "start"}
Bypasses == {"reboot", "diag"}

ASSUME ProcAssumption == IsFiniteSet(Proc)
ASSUME OpsAssumption == Ops \in [Proc -> SUBSET (Sessions \cup Bypasses \cup {"halt", "write"})]

\* A message from the ARC is the reply to the newest request ("new"), MODEM_READY
\* ("ready"), or anything else: another indicator or the reply to an older request.
Age(m) == IF m = "new" THEN "old" ELSE m

VARIABLES
  pc, op,               \* where each process is, and in which call
  count, waking,        \* mei_sema
  stranded,             \* sleepers that a sema_init has cut off from mei_sema
  cmv_waiting, arcmsgav, CMV_RxMsg,
  showtime, reset_arc_flag, arc_halt_flag,
  image,                \* the firmware in adsl_mem_info
  irqOn,                \* ARC_TO_MEI_INT_MASK
  arc,                  \* the ARC: not running, booting or ready
  msgav,                \* MEI_TO_ARC_MSGAV: the newest request is in the mailbox
  doing, out,           \* the request the ARC works on, its message to the host
  rx,                   \* what a request returned to each process
  boot,                 \* history: DANUBE_MEI_START has left the semaphore taken
  late,                 \* history: a request was given up or a message took its reply's place
  spoiled,              \* history: a mailbox write failed or two requests overlapped
  failed,               \* history: a mailbox write failed; no request has timed out since
  intruded,             \* history: a request was under way while the ARC booted
  disturbed             \* history: mei_sema was set while somebody had or wanted it

sema == <<count, waking, stranded>>
flags == <<cmv_waiting, arcmsgav, CMV_RxMsg>>
modem == <<showtime, reset_arc_flag, arc_halt_flag, image>>
hw == <<irqOn, arc, msgav, doing, out>>
marks == <<spoiled, failed, intruded, disturbed>>
history == <<boot, late, marks>>
vars == <<pc, op, sema, flags, modem, hw, rx, history>>

\* The program points from "raise" to "copy" are those of meiCMV.
CmvPoints == {"raise", "poll", "queue", "sleep", "test", "expire", "clear", "take", "copy"}
PCs == CmvPoints \cup {"idle", "down", "boot", "cmv", "ret", "up"}

InCmv(p) == pc[p] \in CmvPoints
Holds(p) == op[p] \in Sessions /\ pc[p] \in CmvPoints \cup {"boot", "cmv", "ret", "up"}
Goto(p, l) == pc' = [pc EXCEPT ![p] = l]
Return(p) == Goto(p, "idle") /\ op' = [op EXCEPT ![p] = "none"]
Forget(p) == rx' = [rx EXCEPT ![p] = "none"]

\* External: the scheduler.  Another process runs only while the others sleep.
MayRun(p) == \A q \in Proc \ {p} : pc[q] \in {"idle", "down", "sleep"}

Init ==
  /\ pc = [p \in Proc |-> "idle"] /\ op = [p \in Proc |-> "none"]
  /\ count = 1 /\ waking = 0 /\ stranded = {}
  /\ cmv_waiting = FALSE /\ arcmsgav = FALSE /\ CMV_RxMsg = "old"
  /\ showtime = FALSE /\ reset_arc_flag = FALSE /\ arc_halt_flag = FALSE /\ image = "none"
  /\ irqOn = FALSE /\ arc = "off" /\ msgav = FALSE /\ doing = "none" /\ out = "none"
  /\ rx = [p \in Proc |-> "none"]
  /\ boot = FALSE /\ late = FALSE /\ spoiled = FALSE /\ disturbed = FALSE
  /\ failed = FALSE /\ intruded = FALSE

-----------------------------------------------------------------------------
\* mei_sema

Up ==
  /\ count' = count + 1
  /\ waking' = IF count + 1 <= 0 THEN waking + 1 ELSE waking
  /\ UNCHANGED stranded

\* What the owner of mei_sema does first.
Work(o) ==
  CASE o = "start" -> "boot"
    [] o = "debug" \/ (o = "mib" /\ ~showtime) -> "up"
    [] OTHER -> "cmv"

Down(p, o) ==
  /\ count' = count - 1
  /\ Goto(p, IF count - 1 >= 0 THEN Work(o) ELSE "down")
  /\ UNCHANGED <<waking, stranded>>

\* Fault: does not look at waking.
DownWakeAny(p) ==
  /\ pc[p] = "down" /\ MayRun(p) /\ p \notin stranded
  /\ waking' = waking - 1
  /\ Goto(p, Work(op[p]))
  /\ UNCHANGED <<op, count, stranded, flags, modem, hw, rx, history>>

\* A sleeper that up has woken finds waking above zero.
DownWake(p) ==
  /\ pc[p] = "down" /\ MayRun(p) /\ p \notin stranded /\ waking > 0
  /\ waking' = waking - 1
  /\ Goto(p, Work(op[p]))
  /\ UNCHANGED <<op, count, stranded, flags, modem, hw, rx, history>>

\* A signal, which the MIB thread blocks, wakes any other sleeper.
DownSignal(p) ==
  /\ pc[p] = "down" /\ MayRun(p) /\ op[p] # "mib"
  /\ stranded' = stranded \ {p}
  /\ \/ waking > 0 /\ waking' = waking - 1 /\ Goto(p, Work(op[p])) /\ UNCHANGED <<op, count>>
     \/ waking <= 0 /\ count' = count + 1 /\ Return(p) /\ UNCHANGED waking
  /\ UNCHANGED <<flags, modem, hw, rx, history>>

-----------------------------------------------------------------------------
\* meiResetARC, whose effect on the ARC and the two mailboxes is external

ResetHw ==
  /\ msgav' = FALSE /\ doing' = "none" /\ out' = "none"

\* What holds good for the semaphore and the requests after the reset.
ResetHistory ==
  /\ late' = (late /\ \E q \in Proc : InCmv(q))
  /\ disturbed' = (disturbed \/ \E q \in Proc : Holds(q) \/ pc[q] = "down")
  /\ UNCHANGED <<spoiled, failed>>

meiResetARC ==
  /\ ResetHw
  /\ count' = 1 /\ waking' = 0 /\ stranded' = {q \in Proc : pc[q] = "down"}
  /\ ResetHistory

\* meiResetARC and meiHaltArc, as all callers but DANUBE_MEI_START have them.
ResetAndHalt ==
  /\ meiResetARC
  /\ irqOn' = FALSE /\ arc' = "off" /\ boot' = FALSE /\ intruded' = FALSE
  /\ reset_arc_flag' = TRUE /\ arc_halt_flag' = TRUE

-----------------------------------------------------------------------------
\* meiCMV

\* The ARC has been started and its MODEM_READY is to come.
Booting == arc = "booting" \/ out = "ready"

CmvArm(p) ==
  /\ pc[p] = "cmv"
  /\ doing' = Age(doing) /\ out' = Age(out) /\ CMV_RxMsg' = Age(CMV_RxMsg)
  /\ cmv_waiting' = TRUE
  /\ spoiled' = (spoiled \/ \E q \in Proc : InCmv(q))
  /\ intruded' = (intruded \/ Booting)
  /\ Goto(p, "raise")
  /\ UNCHANGED <<op, sema, arcmsgav, modem, irqOn, arc, msgav, rx,
                 boot, late, failed, disturbed>>

CmvRaise(p) ==
  /\ pc[p] = "raise"
  /\ msgav' = TRUE
  /\ Goto(p, "poll")
  /\ UNCHANGED <<op, sema, flags, modem, irqOn, arc, doing, out, rx, history>>

\* The ARC has cleared the bit, or has not after WHILE_DELAY reads of it.
CmvPoll(p) ==
  /\ pc[p] = "poll"
  /\ \/ ~msgav /\ Goto(p, "queue") /\ UNCHANGED <<spoiled, failed>>
     \/ msgav /\ Goto(p, "ret") /\ spoiled' = TRUE /\ failed' = TRUE
  /\ UNCHANGED <<op, sema, flags, modem, hw, rx, boot, late, intruded, disturbed>>

\* In the wait queue already: a reply from here on wakes the process.
CmvQueue(p) ==
  /\ pc[p] = "queue"
  /\ Goto(p, IF arcmsgav THEN "test" ELSE "sleep")
  /\ UNCHANGED <<op, sema, flags, modem, hw, rx, history>>

\* The handler's wake_up, a signal or the end of CMV_TIMEOUT.
CmvWake(p) ==
  /\ pc[p] = "sleep" /\ MayRun(p)
  /\ Goto(p, "test")
  /\ UNCHANGED <<op, sema, flags, modem, hw, rx, history>>

\* Fault: takes every end of the wait for a reply.
CmvTestNone(p) ==
  /\ pc[p] = "test"
  /\ Goto(p, "take")
  /\ UNCHANGED <<op, sema, flags, modem, hw, rx, history>>

CmvTest(p) ==
  /\ pc[p] = "test"
  /\ Goto(p, IF arcmsgav THEN "take" ELSE "expire")
  /\ UNCHANGED <<op, sema, flags, modem, hw, rx, history>>

\* Fault: goes on waiting for the reply.
CmvExpireKeeps(p) ==
  /\ pc[p] = "expire"
  /\ late' = TRUE
  /\ Goto(p, "clear")
  /\ UNCHANGED <<op, sema, flags, modem, hw, rx, boot, marks>>

CmvExpire(p) ==
  /\ pc[p] = "expire"
  /\ cmv_waiting' = FALSE
  /\ late' = TRUE
  /\ Goto(p, "clear")
  /\ UNCHANGED <<op, sema, arcmsgav, CMV_RxMsg, modem, hw, rx, boot, marks>>

CmvClear(p) ==
  /\ pc[p] = "clear"
  /\ arcmsgav' = FALSE
  /\ failed' = FALSE
  /\ Goto(p, "ret")
  /\ UNCHANGED <<op, sema, cmv_waiting, CMV_RxMsg, modem, hw, rx, boot, late, spoiled,
                 intruded, disturbed>>

CmvTake(p) ==
  /\ pc[p] = "take"
  /\ arcmsgav' = FALSE
  /\ Goto(p, "copy")
  /\ UNCHANGED <<op, sema, cmv_waiting, CMV_RxMsg, modem, hw, rx, history>>

CmvCopy(p) ==
  /\ pc[p] = "copy"
  /\ rx' = [rx EXCEPT ![p] = CMV_RxMsg]
  /\ Goto(p, "ret")
  /\ UNCHANGED <<op, sema, flags, modem, hw, history>>

meiCMV(p) ==
  \/ CmvArm(p) \/ CmvRaise(p) \/ CmvPoll(p) \/ CmvQueue(p) \/ CmvWake(p)
  \/ CmvTest(p) \/ CmvExpire(p) \/ CmvClear(p) \/ CmvTake(p) \/ CmvCopy(p)

-----------------------------------------------------------------------------
\* The calls.  The MIB thread goes to work only in showtime.

Begin(p, o) ==
  /\ pc[p] = "idle" /\ MayRun(p)
  /\ o = "mib" => showtime
  /\ op' = [op EXCEPT ![p] = o]
  /\ showtime' = (showtime /\ o # "start")
  /\ \/ o \in Sessions /\ Down(p, o)
     \/ o \in Bypasses /\ Goto(p, "cmv") /\ UNCHANGED sema
  /\ UNCHANGED <<flags, reset_arc_flag, arc_halt_flag, image, hw, rx, history>>

\* A call makes another request, whether or not the last one failed.
NextCmv(p) ==
  /\ pc[p] = "ret"
  /\ op[p] \in {"showtime", "diag"} \/ (op[p] = "mib" /\ showtime)
  /\ Goto(p, "cmv") /\ Forget(p)
  /\ UNCHANGED <<op, sema, flags, modem, hw, history>>

\* The end of a session; DANUBE_MEI_SHOWTIME frees the pages no longer needed.
EndSession(p) ==
  /\ pc[p] = "up" \/ (pc[p] = "ret" /\ op[p] \in Sessions)
  /\ Up
  /\ showtime' = (showtime \/ op[p] = "showtime")
  /\ image' = IF op[p] = "showtime" /\ image = "full" THEN "part" ELSE image
  /\ Return(p) /\ Forget(p)
  /\ UNCHANGED <<flags, reset_arc_flag, arc_halt_flag, hw, history>>

\* The end of LOOP_DIAGNOSTIC_MODE_COMPLETE.
EndDiag(p) ==
  /\ pc[p] = "ret" /\ op[p] = "diag"
  /\ Return(p) /\ Forget(p)
  /\ UNCHANGED <<sema, flags, modem, hw, history>>

\* DANUBE_MEI_START with an image that is not complete keeps the semaphore; so
\* does one without an image, which dies reading the header through NULL.
StartFails(p) ==
  /\ pc[p] = "boot" /\ image # "full"
  /\ irqOn' = FALSE /\ boot' = TRUE
  /\ Return(p)
  /\ UNCHANGED <<sema, flags, modem, arc, msgav, doing, out, rx,
                 late, marks>>

\* Fault: releases the semaphore like other calls.
StartBootsUp(p) ==
  /\ pc[p] = "boot" /\ image = "full"
  /\ \/ ~reset_arc_flag /\ meiResetARC
     \/ reset_arc_flag /\ Up /\ UNCHANGED <<msgav, doing, out, late, spoiled, failed, disturbed>>
  /\ reset_arc_flag' = FALSE /\ arc_halt_flag' = FALSE
  /\ irqOn' = TRUE /\ arc' = "booting" /\ boot' = TRUE
  /\ intruded' = \E q \in Proc : InCmv(q)
  /\ Return(p)
  /\ UNCHANGED <<flags, showtime, image, rx>>

\* meiRunAdslModem, with another reset if nobody has reset the ARC before.
StartBoots(p) ==
  /\ pc[p] = "boot" /\ image = "full"
  /\ \/ ~reset_arc_flag /\ meiResetARC
     \/ reset_arc_flag /\ UNCHANGED <<sema, msgav, doing, out, late, spoiled, failed, disturbed>>
  /\ reset_arc_flag' = FALSE /\ arc_halt_flag' = FALSE
  /\ irqOn' = TRUE /\ arc' = "booting" /\ boot' = TRUE
  /\ intruded' = \E q \in Proc : InCmv(q)
  /\ Return(p)
  /\ UNCHANGED <<flags, showtime, image, rx>>

\* DANUBE_MEI_RESET and DANUBE_MEI_REBOOT after mei_mib_adsl_link_down.
Reboot(p) ==
  /\ pc[p] = "ret" /\ op[p] = "reboot"
  /\ ResetAndHalt
  /\ Return(p) /\ Forget(p)
  /\ UNCHANGED <<flags, showtime, image>>

Halt(p) ==
  /\ "halt" \in Ops[p] /\ pc[p] = "idle" /\ MayRun(p) /\ ~arc_halt_flag
  /\ ResetAndHalt
  /\ UNCHANGED <<pc, op, flags, showtime, image, rx>>

\* The first part of an image, or all of it, resets an ARC that runs and takes the
\* place of the old image; without memory there is none.
WriteFirst(p) ==
  /\ "write" \in Ops[p] /\ pc[p] = "idle" /\ MayRun(p)
  /\ \/ ~arc_halt_flag /\ ResetAndHalt
     \/ /\ arc_halt_flag
        /\ UNCHANGED <<sema, hw, reset_arc_flag, arc_halt_flag, history>>
  /\ image' \in {"none", "part", "full"}
  /\ UNCHANGED <<pc, op, flags, showtime, rx>>

\* A first part that says it is too large is refused, but image_size is its size.
\* More of an image completes it or overruns it; if the ARC runs by now, all of it
\* is freed.
WriteRest(p) ==
  /\ "write" \in Ops[p] /\ pc[p] = "idle" /\ MayRun(p) /\ image # "none"
  /\ \/ image' = "part"
     \/ arc_halt_flag /\ image' = "full"
     \/ ~arc_halt_flag /\ image' = "none"
  /\ UNCHANGED <<pc, op, sema, flags, showtime, reset_arc_flag, arc_halt_flag, hw, rx, history>>

-----------------------------------------------------------------------------
\* The handler.  A request to swap code, which it ignores, is not modelled.

\* Fault: any indicator opens the semaphore.
mei_interrupt_arcmsgavAny ==
  /\ irqOn /\ out # "none"
  /\ CMV_RxMsg' = (IF out = "new" THEN "new" ELSE "old") /\ out' = "none"
  /\ late' = (late \/ (out # "new" /\ \E p \in Proc : InCmv(p)))
  /\ \/ /\ cmv_waiting
        /\ arcmsgav' = TRUE /\ cmv_waiting' = FALSE
        /\ UNCHANGED <<sema, boot>>
     \/ /\ ~cmv_waiting
        /\ Up /\ boot' = FALSE
        /\ UNCHANGED <<arcmsgav, cmv_waiting>>
  /\ UNCHANGED <<pc, op, modem, irqOn, arc, msgav, doing, rx, marks>>

\* Fault: MODEM_READY is counted and no more.
mei_interrupt_arcmsgavNone ==
  /\ irqOn /\ out # "none"
  /\ CMV_RxMsg' = (IF out = "new" THEN "new" ELSE "old") /\ out' = "none"
  /\ late' = (late \/ (out # "new" /\ \E p \in Proc : InCmv(p)))
  /\ arcmsgav' = (arcmsgav \/ cmv_waiting) /\ cmv_waiting' = FALSE
  /\ UNCHANGED <<pc, op, sema, modem, irqOn, arc, msgav, doing, rx, boot, marks>>

mei_interrupt_arcmsgav ==
  /\ irqOn /\ out # "none"
  /\ CMV_RxMsg' = (IF out = "new" THEN "new" ELSE "old") /\ out' = "none"
  /\ late' = (late \/ (out # "new" /\ \E p \in Proc : InCmv(p)))
  /\ \/ /\ cmv_waiting
        /\ arcmsgav' = TRUE /\ cmv_waiting' = FALSE
        /\ UNCHANGED <<sema, boot>>
     \/ /\ ~cmv_waiting /\ out = "ready"
        /\ Up /\ boot' = FALSE
        /\ UNCHANGED <<arcmsgav, cmv_waiting>>
     \/ /\ ~cmv_waiting /\ out # "ready"
        /\ UNCHANGED <<sema, boot, arcmsgav, cmv_waiting>>
  /\ UNCHANGED <<pc, op, modem, irqOn, arc, msgav, doing, rx, marks>>

-----------------------------------------------------------------------------
\* External: the ARC's firmware

ArcReady ==
  /\ arc = "booting" /\ out = "none"
  /\ arc' = "ready" /\ out' = "ready"
  /\ UNCHANGED <<pc, op, sema, flags, modem, irqOn, msgav, doing, rx, history>>

ArcAccept ==
  /\ arc = "ready" /\ msgav /\ doing = "none"
  /\ msgav' = FALSE /\ doing' = "new"
  /\ UNCHANGED <<pc, op, sema, flags, modem, irqOn, arc, out, rx, history>>

ArcReply ==
  /\ doing # "none" /\ out = "none"
  /\ out' = doing /\ doing' = "none"
  /\ UNCHANGED <<pc, op, sema, flags, modem, irqOn, arc, msgav, rx, history>>

ArcIndicate ==
  /\ arc = "ready" /\ out = "none"
  /\ out' = "old"
  /\ UNCHANGED <<pc, op, sema, flags, modem, irqOn, arc, msgav, doing, rx, history>>

Arc == ArcReady \/ ArcAccept \/ ArcReply \/ ArcIndicate

-----------------------------------------------------------------------------
Session(p) ==
  \/ DownWake(p) \/ NextCmv(p) \/ EndSession(p) \/ EndDiag(p)
  \/ StartFails(p) \/ StartBoots(p) \/ Reboot(p)

Next ==
  \/ \E p \in Proc :
       \/ meiCMV(p) \/ Session(p) \/ DownSignal(p)
       \/ Halt(p) \/ WriteFirst(p) \/ WriteRest(p)
       \/ \E o \in Ops[p] \cap (Sessions \cup Bypasses) : Begin(p, o)
  \/ mei_interrupt_arcmsgav
  \/ Arc

Spec == Init /\ [][Next]_vars

\* An interrupt that stays pending is taken, and an ARC that boots reports it.
FairSpec == Spec /\ WF_vars(mei_interrupt_arcmsgav) /\ WF_vars(ArcReady)

-----------------------------------------------------------------------------
\* The type invariant: mei_sema's waking never falls below zero, and a program
\* point is one that the code has.
TypeOK ==
  /\ pc \in [Proc -> PCs] /\ op \in [Proc -> Sessions \cup Bypasses \cup {"none"}]
  /\ count \in Int /\ waking \in Nat /\ stranded \subseteq Proc
  /\ cmv_waiting \in BOOLEAN /\ arcmsgav \in BOOLEAN
  /\ CMV_RxMsg \in {"new", "old"}
  /\ showtime \in BOOLEAN /\ reset_arc_flag \in BOOLEAN /\ arc_halt_flag \in BOOLEAN
  /\ image \in {"none", "part", "full"} /\ arc \in {"off", "booting", "ready"}
  /\ irqOn \in BOOLEAN /\ msgav \in BOOLEAN
  /\ doing \in {"none", "new", "old"} /\ out \in {"none", "new", "old", "ready"}
  /\ rx \in [Proc -> {"none", "new", "old"}]
  /\ boot \in BOOLEAN /\ late \in BOOLEAN /\ spoiled \in BOOLEAN /\ disturbed \in BOOLEAN
  /\ failed \in BOOLEAN /\ intruded \in BOOLEAN

\* Of the processes that talk to the ARC under mei_sema there is one at a time in
\* meiCMV, where they share cmv_waiting, arcmsgav and CMV_RxMsg, as long as no
\* sema_init has come between a down and its up.
OneCmv ==
  \A p, q \in Proc :
    (p # q /\ InCmv(p) /\ InCmv(q) /\ {op[p], op[q]} \subseteq Sessions) => disturbed

\* "disable CMV access until ARC ready" (danube_mei_core.c:1737): while the ARC
\* boots nobody makes a request under mei_sema.  DANUBE_MEI_START of a modem that
\* was not reset first breaks this with its own sema_init; that is in disturbed.
ClosedWhileBooting ==
  arc = "booting" => disturbed \/ \A p \in Proc : ~(InCmv(p) /\ op[p] \in Sessions)

\* Between requests neither cmv_waiting nor arcmsgav is set, whenever timeout and
\* reply meet and even if requests overlap: a set cmv_waiting would take MODEM_READY
\* for a reply, and a set arcmsgav would end the next wait at once.  A failed
\* mailbox write leaves cmv_waiting set, until some request times out.
NoStaleFlag ==
  (arcmsgav \/ cmv_waiting) => failed \/ \E p \in Proc : InCmv(p)

\* A request that succeeds returns the reply to it.  Once a request has timed out
\* or an indicator has come in place of a reply this holds again only after a
\* reset of the ARC; after a failed mailbox write it need never hold again.
OwnReply ==
  \A p \in Proc : (pc[p] = "ret" /\ rx[p] # "none") => rx[p] = "new" \/ late \/ spoiled

\* mei_sema is free, on its way to a sleeper or with one.
Open == count > 0 \/ waking > 0 \/ \E p \in Proc : Holds(p)

\* What DANUBE_MEI_START has closed MODEM_READY opens again, unless the ARC is
\* reset before: no request made before the start, answered or given up, leaves the
\* driver so that it takes MODEM_READY for a reply.  A request that is under way
\* while the ARC boots, as the calls that bypass mei_sema make it, does take it; so
\* does what a failed mailbox write has left behind.
ReadyOpens ==
  (arc = "booting") ~> (Open \/ arc = "off" \/ failed \/ intruded \/ disturbed)
=============================================================================
