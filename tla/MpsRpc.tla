------------------------------- MODULE MpsRpc --------------------------------
(***************************************************************************)
(* Remote calls through the command mailbox (mps_tpe_linux.c): CPU1 asks   *)
(* CPU0 to allocate, free or copy memory for it, and either core asks for  *)
(* the other's version.  A caller clears the one reply slot                *)
(* mps_cmd_control.msg_data, sends a command, sleeps until                 *)
(* cmd_callback_flag is set, resets the flag and takes the reply from the  *)
(* slot.  Nothing in a reply says which call it answers.                   *)
(*                                                                         *)
(* A process gives up its processor only where it sleeps; the tasklet that *)
(* stores replies can run between any two of its steps.                    *)
(***************************************************************************)
EXTENDS Naturals, Sequences

CONSTANTS
  Callers,     \* processes that make remote calls
  MaxCalls,    \* bound: commands sent in a behaviour
  Cap,         \* commands or replies a command FIFO holds
  MayFail,     \* the command FIFO may refuse a message, and memory be short
  MaySignal    \* a signal may reach a process that waits

ASSUME BoundAssumption == MaxCalls \in Nat /\ Cap \in Nat \ {0}
ASSUME FlagAssumption == MayFail \in BOOLEAN /\ MaySignal \in BOOLEAN

VARIABLES
  slot, flag,        \* msg_data.payload (None: 0), cmd_callback_flag
  reqs, reps,        \* commands and replies under way; a reply is its payload
  pc, call, ret,     \* per caller: where it is, its last call, what that returned
  calls,             \* history: number of calls
  taken,             \* history: which call returned which reply
  troubled,          \* history: calls that got a signal or the reply 0
  lost,              \* history: calls whose command or reply was not sent
  joined,            \* history: calls that were in progress together
  late,              \* history: calls begun with a reply to an earlier one to come
  stray              \* history: a reply came when no call was to reset the flag any more

progVars == <<slot, flag, reqs, reps, pc, call, ret>>
histVars == <<calls, taken, troubled, lost, joined, late, stray>>
vars     == <<progVars, histVars>>

None == 0

Init ==
  /\ slot = None /\ flag = FALSE
  /\ reqs = <<>> /\ reps = <<>>
  /\ pc = [p \in Callers |-> "idle"]
  /\ call = [p \in Callers |-> None] /\ ret = [p \in Callers |-> None]
  /\ calls = 0 /\ taken = <<>>
  /\ troubled = {} /\ lost = {} /\ joined = {} /\ late = {} /\ stray = FALSE

-----------------------------------------------------------------------------
(* The calling core                                                        *)

\* No other process of the core is between its wake-up and its next sleep.
MayRun(p) == \A q \in Callers \ {p} : pc[q] \in {"idle", "wait"}

Goto(p, from, to) == MayRun(p) /\ pc[p] = from /\ pc' = [pc EXCEPT ![p] = to]

\* A reply to an earlier call is still to come, or came after its return.
UnderWay == stray \/ reps # <<>> \/ \E i \in 1..Len(reqs) : reqs[i].reply

\* History: what a call that begins meets.
NoteBegin(p) ==
  LET others == {q \in Callers \ {p} : pc[q] # "idle"} IN
  /\ calls' = calls + 1
  /\ joined' = joined \cup {call[q] : q \in others} \cup {n \in {calls + 1} : others # {}}
  /\ late' = late \cup {n \in {calls + 1} : UnderWay}

\* Fault: the slot is not cleared.
BeginNoClear(p) ==
  /\ calls < MaxCalls
  /\ Goto(p, "idle", "send")
  /\ call' = [call EXCEPT ![p] = calls + 1]
  /\ NoteBegin(p)
  /\ UNCHANGED <<slot, flag, reqs, reps, ret, taken, troubled, lost, stray>>

\* memset(&mps_cmd_control.msg_data, 0, ...): also when another call waits.
Begin(p) ==
  /\ calls < MaxCalls
  /\ Goto(p, "idle", "send")
  /\ call' = [call EXCEPT ![p] = calls + 1]
  /\ slot' = None
  /\ NoteBegin(p)
  /\ UNCHANGED <<flag, reqs, reps, ret, taken, troubled, lost, stray>>

\* ifx_cmd_process sends the command.
Send(p) ==
  /\ Len(reqs) < Cap
  /\ Goto(p, "send", "wait")
  /\ reqs' = Append(reqs, [call |-> call[p], reply |-> TRUE])
  /\ UNCHANGED <<slot, flag, reps, call, ret, histVars>>

\* It fails: the result is ignored and the caller waits all the same.
SendFails(p) ==
  /\ MayFail
  /\ Goto(p, "send", "wait")
  /\ lost' = lost \cup {call[p]}
  /\ UNCHANGED <<slot, flag, reqs, reps, call, ret, calls, taken, troubled, joined, late, stray>>

\* Fault: the room in the FIFO is not tested.
SendFreeNoTest(p) ==
  /\ calls < MaxCalls
  /\ Goto(p, "idle", "idle")
  /\ calls' = calls + 1
  /\ reqs' = Append(reqs, [call |-> calls + 1, reply |-> FALSE])
  /\ UNCHANGED <<slot, flag, reps, call, ret, taken, troubled, lost, joined, late, stray>>

\* The commands that free memory (ifx_mps_skbuff_free and its like) do not wait.
SendFree(p) ==
  /\ calls < MaxCalls
  /\ Goto(p, "idle", "idle")
  /\ calls' = calls + 1
  /\ \/ Len(reqs) < Cap /\ reqs' = Append(reqs, [call |-> calls + 1, reply |-> FALSE])
     \/ MayFail /\ UNCHANGED reqs
  /\ UNCHANGED <<slot, flag, reps, call, ret, taken, troubled, lost, joined, late, stray>>

\* wait_event_interruptible returns because the flag is set ...
Wake(p) ==
  /\ flag
  /\ Goto(p, "wait", "reset")
  /\ UNCHANGED <<slot, flag, reqs, reps, call, ret, histVars>>

\* ... or because of a signal; its result is ignored.
Signal(p) ==
  /\ MaySignal
  /\ Goto(p, "wait", "reset")
  /\ troubled' = troubled \cup {call[p]}
  /\ UNCHANGED <<slot, flag, reqs, reps, call, ret, calls, taken, lost, joined, late, stray>>

\* Fault: the flag stays set.
ResetNothing(p) ==
  /\ Goto(p, "reset", "take")
  /\ stray' = FALSE
  /\ UNCHANGED <<slot, flag, reqs, reps, call, ret, calls, taken, troubled, lost, joined, late>>

\* cmd_callback_flag = 0
Reset(p) ==
  /\ Goto(p, "reset", "take")
  /\ flag' = FALSE
  /\ stray' = FALSE
  /\ UNCHANGED <<slot, reqs, reps, call, ret, calls, taken, troubled, lost, joined, late>>

\* The caller returns what is in the slot, 0 or NULL if that is zero.
Take(p) ==
  /\ Goto(p, "take", "idle")
  /\ ret' = [ret EXCEPT ![p] = slot]
  /\ taken' = IF slot = None THEN taken ELSE Append(taken, [by |-> call[p], reply |-> slot])
  /\ UNCHANGED <<slot, flag, reqs, reps, call, calls, troubled, lost, joined, late, stray>>

\* History: no call is between its start and its reset of the flag.
NoteStore == stray' = \A p \in Callers : pc[p] \in {"idle", "take"}

\* Fault: the reply is stored and no one told.
StoreNoFlag ==
  /\ reps # <<>>
  /\ slot' = Head(reps)
  /\ reps' = Tail(reps)
  /\ NoteStore
  /\ UNCHANGED <<flag, reqs, pc, call, ret, calls, taken, troubled, lost, joined, late>>

\* ifx_mps_cmd_rcv_callback, response case: memcpy, flag, wake-up.  It runs in
\* the tasklet, which no process interrupts.
Store ==
  /\ reps # <<>>
  /\ slot' = Head(reps)
  /\ flag' = TRUE
  /\ reps' = Tail(reps)
  /\ NoteStore
  /\ UNCHANGED <<reqs, pc, call, ret, calls, taken, troubled, lost, joined, late>>

-----------------------------------------------------------------------------
(* The serving core: ifx_mps_cmd_rcv_callback, request case                *)

\* The command is carried out and the reply sent.
Serve ==
  /\ reqs # <<>> /\ Head(reqs).reply
  /\ reqs' = Tail(reqs)
  /\ Len(reps) < Cap /\ reps' = Append(reps, Head(reqs).call)
  /\ UNCHANGED <<slot, flag, pc, call, ret, histVars>>

\* alloc_skb or kmalloc fails: the payload of the reply is 0.
ServeNull ==
  /\ MayFail
  /\ reqs # <<>> /\ Head(reqs).reply
  /\ reqs' = Tail(reqs)
  /\ Len(reps) < Cap /\ reps' = Append(reps, None)
  /\ troubled' = troubled \cup {Head(reqs).call}
  /\ UNCHANGED <<slot, flag, pc, call, ret, calls, taken, lost, joined, late, stray>>

\* The reply cannot be sent: the result of the send is ignored.
ServeFails ==
  /\ MayFail
  /\ reqs # <<>> /\ Head(reqs).reply
  /\ reqs' = Tail(reqs)
  /\ lost' = lost \cup {Head(reqs).call}
  /\ UNCHANGED <<slot, flag, reps, pc, call, ret, calls, taken, troubled, joined, late, stray>>

\* A command that frees memory.  Its answer has msg_type 0, which
\* ifx_mpsdrv_mbx_send refuses (-ENOMSG): no reply.
ServeFree ==
  /\ reqs # <<>> /\ ~Head(reqs).reply
  /\ reqs' = Tail(reqs)
  /\ UNCHANGED <<slot, flag, reps, pc, call, ret, histVars>>

Caller(p) == Begin(p) \/ Send(p) \/ SendFails(p) \/ SendFree(p) \/ Wake(p)
               \/ Signal(p) \/ Reset(p) \/ Take(p)
Server == Serve \/ ServeNull \/ ServeFails \/ ServeFree

Next == (\E p \in Callers : Caller(p)) \/ Store \/ Server

Spec == Init /\ [][Next]_vars

\* A process that is runnable gets the processor, and both cores handle what
\* their command mailboxes hold.
Fairness ==
  /\ \A p \in Callers : WF_vars(Send(p) \/ SendFails(p) \/ Wake(p) \/ Reset(p) \/ Take(p))
  /\ WF_vars(Store) /\ WF_vars(Server)

FairSpec == Spec /\ Fairness

-----------------------------------------------------------------------------
(* Properties                                                              *)

\* No command FIFO is overfilled; every variable has its type.
TypeOK ==
  /\ slot \in 0..MaxCalls /\ flag \in BOOLEAN
  /\ reqs \in Seq([call : 1..MaxCalls, reply : BOOLEAN])
  /\ reps \in Seq(0..MaxCalls)
  /\ Len(reqs) <= Cap /\ Len(reps) <= Cap
  /\ pc \in [Callers -> {"idle", "send", "wait", "reset", "take"}]
  /\ call \in [Callers -> 0..MaxCalls] /\ ret \in [Callers -> 0..MaxCalls]
  /\ calls \in 0..MaxCalls
  /\ taken \in Seq([by : 1..MaxCalls, reply : 1..MaxCalls])
  /\ troubled \subseteq 1..MaxCalls /\ lost \subseteq 1..MaxCalls
  /\ joined \subseteq 1..MaxCalls /\ late \subseteq 1..MaxCalls
  /\ stray \in BOOLEAN

\* A call that returned.
Returned(p) == pc[p] = "idle" /\ call[p] # None

\* A call that has cmd_callback_flag and the slot to itself (no other call in
\* progress, no reply to an earlier one still to come) returns its own reply, and
\* 0 only if that was the reply or a signal came, whatever other processes'
\* calls, interrupted waits and lost messages went before it.  Only such calls:
\* one that another joins, or that follows an interrupted one, may return the
\* other's reply, as nothing in a reply says which call it answers.
OwnReply ==
  \A p \in Callers :
    Returned(p) /\ call[p] \notin joined \cup late =>
      ret[p] = call[p] \/ (ret[p] = None /\ call[p] \in troubled)

\* No reply is returned by two calls, so no buffer that the other core allocated
\* gets two owners, unless both calls were in progress together: an interrupted
\* call may leave its reply to a later one, but never keeps it as well.
ReplyOnce ==
  \A i, j \in 1..Len(taken) :
    taken[i].reply = taken[j].reply /\ i # j => taken[i].by \in joined

\* Every call returns, unless its own command or reply was lost, as the wait has
\* no timeout, or another call in progress reset the flag it was waiting for.
CallReturns ==
  \A p \in Callers :
    pc[p] = "send" ~> pc[p] = "idle" \/ call[p] \in lost \cup joined
=============================================================================
