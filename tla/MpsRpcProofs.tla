---------------------------- MODULE MpsRpcProofs -----------------------------
(***************************************************************************)
(* Proofs about MpsRpc, for every number of callers and of calls and every *)
(* FIFO capacity.                                                          *)
(***************************************************************************)
EXTENDS MpsRpc, TLAPS

Requests == [call : 1..MaxCalls, reply : BOOLEAN]
Returns  == [by : 1..MaxCalls, reply : 1..MaxCalls]

\* What the two queue operations do to a sequence.
LEMMA SeqFacts ==
  ASSUME NEW S, NEW q \in Seq(S)
  PROVE  /\ \A e \in S : /\ Append(q, e) \in Seq(S)
                         /\ Len(Append(q, e)) = Len(q) + 1
                         /\ Append(q, e)[Len(q) + 1] = e
                         /\ \A i \in 1..Len(q) : Append(q, e)[i] = q[i]
         /\ q # <<>> => /\ Len(q) \in Nat \ {0}
                        /\ Head(q) \in S /\ Head(q) = q[1]
                        /\ Tail(q) \in Seq(S)
                        /\ Len(Tail(q)) = Len(q) - 1
                        /\ \A i \in 1..Len(q) - 1 : Tail(q)[i] = q[i + 1]
<1>1. ASSUME NEW e \in S
      PROVE  /\ Append(q, e) \in Seq(S)
             /\ Len(Append(q, e)) = Len(q) + 1
             /\ Append(q, e)[Len(q) + 1] = e
             /\ \A i \in 1..Len(q) : Append(q, e)[i] = q[i]
  OBVIOUS
<1>2. ASSUME q # <<>>
      PROVE  /\ Len(q) \in Nat \ {0}
             /\ Head(q) \in S /\ Head(q) = q[1]
             /\ Tail(q) \in Seq(S)
             /\ Len(Tail(q)) = Len(q) - 1
             /\ \A i \in 1..Len(q) - 1 : Tail(q)[i] = q[i + 1]
  BY <1>2
<1> QED
  BY <1>1, <1>2

-----------------------------------------------------------------------------
(* Types                                                                   *)

\* TypeOK is not inductive by itself: a caller sends its own call number, which
\* must be the number of a call.
TypeInv ==
  /\ TypeOK
  /\ \A p \in Callers : pc[p] # "idle" => call[p] \in 1..MaxCalls

\* The control block cleared by the module's initialisation has the right types.
LEMMA TypeInvInit == Init => TypeInv
<1> SUFFICES ASSUME Init PROVE TypeInv
  OBVIOUS
<1>1. reqs \in Seq(Requests) /\ reps \in Seq(0..MaxCalls) /\ taken \in Seq(Returns)
  BY DEF Init
<1>2. Len(reqs) = 0 /\ Len(reps) = 0
  BY DEF Init
<1>3. 0 <= Cap /\ 0 \in 0..MaxCalls
  BY BoundAssumption
<1> QED
  BY <1>1, <1>2, <1>3 DEF Init, TypeInv, TypeOK, None, Requests, Returns

\* Every step keeps the types and the bound on the command FIFOs.
LEMMA TypeInvStep == TypeInv /\ [Next]_vars => TypeInv'
<1> SUFFICES ASSUME TypeInv, [Next]_vars PROVE TypeInv'
  OBVIOUS
<1> USE DEF TypeInv, TypeOK, histVars
<1>a. reqs \in Seq(Requests) /\ reps \in Seq(0..MaxCalls) /\ taken \in Seq(Returns)
  BY DEF Requests, Returns
<1>b. calls < MaxCalls => calls + 1 \in 1..MaxCalls
  BY BoundAssumption
<1>c. \A c \in 1..MaxCalls, b \in BOOLEAN : [call |-> c, reply |-> b] \in Requests
  BY DEF Requests
<1>d. \A r \in Requests : r.call \in 1..MaxCalls
  BY DEF Requests
<1>1. ASSUME NEW p \in Callers, Begin(p) PROVE TypeInv'
  <2> DEFINE others == {q \in Callers \ {p} : pc[q] # "idle"}
  <2>1. calls + 1 \in 1..MaxCalls /\ calls' = calls + 1 /\ call' = [call EXCEPT ![p] = calls + 1]
    BY <1>1, <1>b DEF Begin, NoteBegin
  <2>2. \A q \in others : call[q] \in 1..MaxCalls
    OBVIOUS
  <2>3. /\ joined' = joined \cup {call[q] : q \in others} \cup {n \in {calls + 1} : others # {}}
        /\ late' = late \cup {n \in {calls + 1} : UnderWay}
    BY <1>1 DEF Begin, NoteBegin
  <2>4. joined' \subseteq 1..MaxCalls /\ late' \subseteq 1..MaxCalls
    BY <2>1, <2>2, <2>3
  <2>5. /\ pc' = [pc EXCEPT ![p] = "send"] /\ slot' = None
        /\ UNCHANGED <<flag, reqs, reps, ret, taken, troubled, lost, stray>>
    BY <1>1 DEF Begin, Goto
  <2> HIDE DEF others
  <2> QED
    BY <2>1, <2>4, <2>5, BoundAssumption DEF None
<1>2. ASSUME NEW p \in Callers, Send(p) PROVE TypeInv'
  <2>1. [call |-> call[p], reply |-> TRUE] \in Requests
    BY <1>2, <1>c DEF Send, Goto
  <2>2. reqs' \in Seq(Requests) /\ Len(reqs') <= Cap
    BY <1>2, <1>a, <2>1, SeqFacts, BoundAssumption DEF Send
  <2> QED
    BY <1>2, <2>2 DEF Send, Goto, Requests
<1>3. ASSUME NEW p \in Callers, SendFails(p) PROVE TypeInv'
  BY <1>3 DEF SendFails, Goto
<1>4. ASSUME NEW p \in Callers, SendFree(p) PROVE TypeInv'
  <2>1. [call |-> calls + 1, reply |-> FALSE] \in Requests
    BY <1>4, <1>b, <1>c DEF SendFree
  <2>2. reqs' \in Seq(Requests) /\ Len(reqs') <= Cap
    <3>1. CASE Len(reqs) < Cap /\ reqs' = Append(reqs, [call |-> calls + 1, reply |-> FALSE])
      BY <3>1, <1>a, <2>1, SeqFacts, BoundAssumption
    <3>2. CASE UNCHANGED reqs
      BY <3>2, <1>a
    <3> QED
      BY <1>4, <3>1, <3>2 DEF SendFree
  <2> QED
    BY <1>4, <1>b, <2>2 DEF SendFree, Goto, Requests
<1>5. ASSUME NEW p \in Callers, Wake(p) PROVE TypeInv'
  BY <1>5 DEF Wake, Goto
<1>6. ASSUME NEW p \in Callers, Signal(p) PROVE TypeInv'
  BY <1>6 DEF Signal, Goto
<1>7. ASSUME NEW p \in Callers, Reset(p) PROVE TypeInv'
  BY <1>7 DEF Reset, Goto
<1>8. ASSUME NEW p \in Callers, Take(p) PROVE TypeInv'
  <2>1. slot # None => [by |-> call[p], reply |-> slot] \in Returns
    BY <1>8 DEF None, Returns, Take, Goto
  <2>2. taken' \in Seq(Returns)
    BY <1>8, <1>a, <2>1, SeqFacts DEF Take
  <2> QED
    BY <1>8, <2>2 DEF Take, Goto, Returns
<1>9. CASE Store
  <2>1. Head(reps) \in 0..MaxCalls /\ reps' \in Seq(0..MaxCalls) /\ Len(reps') <= Cap
    BY <1>9, <1>a, SeqFacts, BoundAssumption DEF Store
  <2>2. stray' \in BOOLEAN
    BY <1>9 DEF Store, NoteStore
  <2> QED
    BY <1>9, <2>1, <2>2 DEF Store
<1>10. CASE Server
  <2>1. /\ reqs # <<>>
        /\ reqs' = Tail(reqs)
    BY <1>10 DEF Server, Serve, ServeNull, ServeFails, ServeFree
  <2>2. /\ Head(reqs).call \in 1..MaxCalls
        /\ reqs' \in Seq(Requests) /\ Len(reqs') <= Cap
    BY <2>1, <1>a, <1>d, SeqFacts, BoundAssumption
  <2>3. reps' \in Seq(0..MaxCalls) /\ Len(reps') <= Cap
    <3>1. ASSUME NEW e \in 0..MaxCalls, Len(reps) < Cap, reps' = Append(reps, e)
          PROVE  reps' \in Seq(0..MaxCalls) /\ Len(reps') <= Cap
      BY <3>1, <1>a, SeqFacts, BoundAssumption
    <3>2. CASE UNCHANGED reps
      BY <3>2, <1>a
    <3>3. Head(reqs).call \in 0..MaxCalls /\ None \in 0..MaxCalls
      BY <2>2, BoundAssumption DEF None
    <3> QED
      BY <1>10, <3>1, <3>2, <3>3 DEF Server, Serve, ServeNull, ServeFails, ServeFree
  <2> QED
    BY <1>10, <2>2, <2>3 DEF Server, Serve, ServeNull, ServeFails, ServeFree, Requests
<1>11. CASE UNCHANGED vars
  BY <1>11 DEF vars, progVars
<1> QED
  BY <1>1, <1>2, <1>3, <1>4, <1>5, <1>6, <1>7, <1>8, <1>9, <1>10, <1>11
  DEF Next, Caller

\* The slot, the flag, the queues and the callers keep their types, and no
\* command FIFO ever holds more than it can.
THEOREM TypeCorrect == Spec => []TypeOK
<1>1. TypeInv => TypeOK
  BY DEF TypeInv
<1> QED
  BY TypeInvInit, TypeInvStep, <1>1, PTL DEF Spec

-----------------------------------------------------------------------------
(* What the queues hold after a command or a reply was put in or taken out *)

\* What the command taken from the FIFO and the rest say about the whole.
LEMMA TailReqs ==
  ASSUME TypeInv, reqs # <<>>, reqs' = Tail(reqs)
  PROVE  /\ Len(reqs') \in Nat /\ Len(reqs) = Len(reqs') + 1
         /\ Head(reqs) = reqs[1] /\ 1 \in 1..Len(reqs)
         /\ \A i \in 1..Len(reqs') : i + 1 \in 1..Len(reqs) /\ reqs'[i] = reqs[i + 1]
<1>1. reqs \in Seq(Requests)
  BY DEF TypeInv, TypeOK, Requests
<1>2. /\ Len(reqs) \in Nat \ {0} /\ Head(reqs) = reqs[1]
      /\ Len(reqs') = Len(reqs) - 1
      /\ \A i \in 1..Len(reqs) - 1 : reqs'[i] = reqs[i + 1]
  BY <1>1, SeqFacts
<1> QED
  BY <1>2

\* A command appended to the queue: the old ones and the new one.
LEMMA AppendReqs ==
  ASSUME TypeInv, NEW r \in Requests, reqs' = Append(reqs, r)
  PROVE  /\ Len(reqs) \in Nat /\ Len(reqs') = Len(reqs) + 1
         /\ \A i \in 1..Len(reqs') :
              (i \in 1..Len(reqs) /\ reqs'[i] = reqs[i]) \/ (i = Len(reqs) + 1 /\ reqs'[i] = r)
<1>1. reqs \in Seq(Requests)
  BY DEF TypeInv, TypeOK, Requests
<1>2. /\ Len(reqs') = Len(reqs) + 1 /\ reqs'[Len(reqs) + 1] = r /\ Len(reqs) \in Nat
      /\ \A i \in 1..Len(reqs) : reqs'[i] = reqs[i]
  BY <1>1, SeqFacts
<1> QED
  BY <1>2

\* A reply appended to the queue: the old ones and the new one.
LEMMA AppendReps ==
  ASSUME TypeInv, NEW v \in 0..MaxCalls, reps' = Append(reps, v)
  PROVE  /\ Len(reps) \in Nat /\ Len(reps') = Len(reps) + 1
         /\ \A i \in 1..Len(reps') :
              (i \in 1..Len(reps) /\ reps'[i] = reps[i]) \/ (i = Len(reps) + 1 /\ reps'[i] = v)
<1>1. reps \in Seq(0..MaxCalls)
  BY DEF TypeInv, TypeOK
<1>2. /\ Len(reps') = Len(reps) + 1 /\ reps'[Len(reps) + 1] = v /\ Len(reps) \in Nat
      /\ \A i \in 1..Len(reps) : reps'[i] = reps[i]
  BY <1>1, SeqFacts
<1> QED
  BY <1>2

\* What the reply taken from the mailbox and the rest say about the whole.
LEMMA TailReps ==
  ASSUME TypeInv, reps # <<>>, reps' = Tail(reps)
  PROVE  /\ Len(reps') \in Nat /\ Len(reps) = Len(reps') + 1
         /\ Head(reps) = reps[1] /\ 1 \in 1..Len(reps)
         /\ \A i \in 1..Len(reps') : i + 1 \in 1..Len(reps) /\ reps'[i] = reps[i + 1]
<1>1. reps \in Seq(0..MaxCalls)
  BY DEF TypeInv, TypeOK
<1>2. /\ Len(reps) \in Nat \ {0} /\ Head(reps) = reps[1]
      /\ Len(reps') = Len(reps) - 1
      /\ \A i \in 1..Len(reps) - 1 : reps'[i] = reps[i + 1]
  BY <1>1, SeqFacts
<1> QED
  BY <1>2

-----------------------------------------------------------------------------
(* A call that has the flag and the slot to itself                         *)

\* No command under way wants a reply, no reply is under way.
Quiet ==
  /\ \A i \in 1..Len(reqs) : ~reqs[i].reply
  /\ reps = <<>>

\* The payloads that may answer the caller's call.
Answers(p) == {call[p]} \cup {v \in {None} : call[p] \in troubled}

\* The call was joined by no other, and began with no reply still to come.
Alone(p) == call[p] \notin joined \cup late

\* All that is under way is the caller's own.
Mine(p) ==
  /\ \A i \in 1..Len(reqs) : reqs[i].reply => reqs[i].call = call[p]
  /\ \A j \in 1..Len(reps) : reps[j] \in Answers(p)

\* Where such a call and its reply are, place by place of the caller.  A signal
\* may take the caller from "wait" on with its reply still to come.
Place(p) ==
  /\ \A q \in Callers \ {p} : pc[q] = "idle"
  /\ pc[p] = "send" => Quiet /\ ~flag /\ slot = None
  /\ pc[p] = "wait" => /\ Mine(p)
                       /\ flag => slot \in Answers(p)
                       /\ ~flag => slot = None
  /\ pc[p] \in {"reset", "take"} => Mine(p) /\ slot \in Answers(p)

\* A flag that is set will be reset, or its reply came too late for that.
FlagInv == flag => stray \/ \E q \in Callers : pc[q] \in {"send", "wait", "reset"}

CallInv ==
  /\ \A p \in Callers : pc[p] # "idle" /\ Alone(p) => Place(p)
  /\ \A p \in Callers : Returned(p) /\ Alone(p) => ret[p] \in Answers(p)
  /\ FlagInv

\* Every step keeps the account of the flag.
LEMMA FlagStep ==
  ASSUME TypeInv, FlagInv, [Next]_vars
  PROVE  FlagInv'
<1> USE DEF TypeInv, TypeOK, histVars, Goto
<1>1. ASSUME NEW p \in Callers, Begin(p) \/ Send(p) \/ SendFails(p) \/ Wake(p) \/ Signal(p)
      PROVE  FlagInv'
  <2>1. /\ UNCHANGED <<flag, stray>>
        /\ \E to \in {"send", "wait", "reset"} : pc' = [pc EXCEPT ![p] = to]
    BY <1>1 DEF Begin, Send, SendFails, Wake, Signal
  <2> QED
    BY <2>1 DEF FlagInv
<1>2. ASSUME NEW p \in Callers, SendFree(p) \/ Take(p) PROVE FlagInv'
  <2>1. /\ UNCHANGED <<flag, stray>> /\ pc[p] \in {"idle", "take"}
        /\ pc' = [pc EXCEPT ![p] = "idle"]
    BY <1>2 DEF SendFree, Take
  <2> QED
    BY <2>1 DEF FlagInv
<1>3. ASSUME NEW p \in Callers, Reset(p) PROVE FlagInv'
  BY <1>3 DEF Reset, FlagInv
<1>4. CASE Store
  <2>1. pc' = pc /\ stray' = \A p \in Callers : pc[p] \in {"idle", "take"}
    BY <1>4 DEF Store, NoteStore
  <2> QED
    BY <2>1 DEF FlagInv
<1>5. CASE Server \/ UNCHANGED vars
  BY <1>5 DEF Server, Serve, ServeNull, ServeFails, ServeFree, vars, progVars, FlagInv
<1> QED
  BY <1>1, <1>2, <1>3, <1>4, <1>5 DEF Next, Caller

\* No step takes a call out of troubled, joined or late.
LEMMA HistoryGrows ==
  ASSUME TypeInv, [Next]_vars
  PROVE  /\ troubled \subseteq troubled' /\ joined \subseteq joined' /\ late \subseteq late'
<1>1. ASSUME NEW p \in Callers, Caller(p)
      PROVE  /\ troubled \subseteq troubled' /\ joined \subseteq joined' /\ late \subseteq late'
  BY <1>1 DEF Caller, Begin, NoteBegin, Send, SendFails, SendFree, Wake, Signal, Reset, Take,
              histVars
<1>2. CASE Store \/ Server \/ UNCHANGED vars
  BY <1>2 DEF Store, Server, Serve, ServeNull, ServeFails, ServeFree, vars, histVars
<1> QED
  BY <1>1, <1>2 DEF Next

\* A call keeps its answers when the caller's call stays the same.
LEMMA AnswersGrow ==
  ASSUME TypeInv, [Next]_vars, NEW p \in Callers, call'[p] = call[p]
  PROVE  Answers(p) \subseteq Answers(p)' /\ (Alone(p)' => Alone(p))
  BY HistoryGrows DEF Answers, Alone

\* Every step keeps a call that is alone in its place.
LEMMA PlaceStep ==
  ASSUME TypeInv, CallInv, [Next]_vars, NEW p \in Callers, pc'[p] # "idle", Alone(p)'
  PROVE  Place(p)'
<1>a. /\ pc \in [Callers -> {"idle", "send", "wait", "reset", "take"}]
      /\ call \in [Callers -> 0..MaxCalls] /\ ret \in [Callers -> 0..MaxCalls]
      /\ reqs \in Seq(Requests) /\ reps \in Seq(0..MaxCalls) /\ calls \in Nat
  BY BoundAssumption DEF TypeInv, TypeOK, Requests
<1>1. CASE Begin(p)
  <2> DEFINE others == {q \in Callers \ {p} : pc[q] # "idle"}
  <2>1. /\ pc[p] = "idle" /\ pc' = [pc EXCEPT ![p] = "send"] /\ call'[p] = calls + 1
        /\ slot' = None /\ UNCHANGED <<flag, reqs, reps>>
        /\ {n \in {calls + 1} : others # {}} \subseteq joined'
        /\ {n \in {calls + 1} : UnderWay} \subseteq late'
    BY <1>1, <1>a DEF Begin, NoteBegin, Goto
  <2>2. others = {} /\ ~UnderWay
    BY <2>1 DEF Alone
  <2>3. \A q \in Callers : pc[q] = "idle"
    BY <2>1, <2>2
  <2>4. Quiet /\ ~flag
    BY <2>2, <2>3 DEF UnderWay, Quiet, CallInv, FlagInv
  <2>5. Quiet' /\ ~flag'
    BY <2>1, <2>4 DEF Quiet
  <2> QED
    BY <2>1, <2>3, <2>5, <1>a DEF Place
<1>2. CASE ~Begin(p)
  <2>0. call'[p] = call[p] /\ pc[p] # "idle"
    BY <1>2, <1>a DEF Next, Caller, Begin, Send, SendFails, SendFree, Wake, Signal, Reset, Take,
                Store, Server, Serve, ServeNull, ServeFails, ServeFree, vars, progVars, Goto
  <2>1. /\ Alone(p) /\ Place(p) /\ Answers(p) \subseteq Answers(p)'
        /\ \A q \in Callers \ {p} : pc[q] = "idle"
    BY <2>0, AnswersGrow DEF CallInv, Place
  <2>2. ASSUME NEW q \in Callers \ {p}, Begin(q) PROVE FALSE
    <3>1. call[p] \in joined'
      BY <2>0, <2>2 DEF Begin, NoteBegin
    <3> QED
      BY <3>1, <2>0 DEF Alone
  <2>3. CASE Send(p)
    <3> DEFINE r == [call |-> call[p], reply |-> TRUE]
    <3>1. /\ pc[p] = "send" /\ pc' = [pc EXCEPT ![p] = "wait"] /\ reqs' = Append(reqs, r)
          /\ UNCHANGED <<slot, flag, reps, call>>
      BY <2>3 DEF Send, Goto
    <3>2. Quiet /\ ~flag /\ slot = None
      BY <3>1, <2>1 DEF Place
    <3>3. r \in Requests
      BY <2>0 DEF TypeInv, Requests
    <3>4. \A i \in 1..Len(reqs') : reqs'[i].reply => reqs'[i].call = call[p]
      <4> HIDE DEF r
      <4>1. \A i \in 1..Len(reqs') :
              (i \in 1..Len(reqs) /\ reqs'[i] = reqs[i]) \/ (i = Len(reqs) + 1 /\ reqs'[i] = r)
        BY <3>1, <3>3, AppendReqs
      <4>2. r.call = call[p]
        BY DEF r
      <4> QED
        BY <3>2, <4>1, <4>2 DEF Quiet
    <3>5. Mine(p)'
      BY <3>1, <3>2, <3>4 DEF Mine, Quiet
    <3> QED
      BY <3>1, <3>2, <3>5, <2>1, <1>a DEF Place
  <2>4. CASE SendFails(p)
    <3>1. /\ pc[p] = "send" /\ pc' = [pc EXCEPT ![p] = "wait"]
          /\ UNCHANGED <<slot, flag, reqs, reps, call>>
      BY <2>4 DEF SendFails, Goto
    <3>2. Quiet /\ ~flag /\ slot = None
      BY <3>1, <2>1 DEF Place
    <3>3. Mine(p)'
      BY <3>1, <3>2 DEF Mine, Quiet
    <3> QED
      BY <3>1, <3>2, <3>3, <2>1, <1>a DEF Place
  <2>5. CASE Wake(p) \/ Signal(p)
    <3>1. /\ pc[p] = "wait" /\ pc' = [pc EXCEPT ![p] = "reset"]
          /\ UNCHANGED <<slot, flag, reqs, reps, call>>
      BY <2>5 DEF Wake, Signal, Goto
    <3>2. Mine(p) /\ (flag => slot \in Answers(p)) /\ (~flag => slot = None)
      BY <3>1, <2>1 DEF Place
    <3>3. slot \in Answers(p)'
      <4>1. CASE flag
        BY <4>1, <3>2, <2>1
      <4>2. CASE ~flag
        <5>1. call[p] \in troubled'
          BY <2>5, <4>2 DEF Wake, Signal
        <5> QED
          BY <5>1, <4>2, <3>1, <3>2 DEF Answers
      <4> QED
        BY <4>1, <4>2
    <3>4. Mine(p)'
      BY <3>1, <3>2, <2>1 DEF Mine
    <3> QED
      BY <3>1, <3>3, <3>4, <2>1, <1>a DEF Place
  <2>6. CASE Reset(p)
    <3>1. /\ pc[p] = "reset" /\ pc' = [pc EXCEPT ![p] = "take"]
          /\ UNCHANGED <<slot, reqs, reps, call>>
      BY <2>6 DEF Reset, Goto
    <3>2. Mine(p)' /\ slot' \in Answers(p)'
      BY <3>1, <2>1 DEF Place, Mine
    <3> QED
      BY <3>1, <3>2, <2>1, <1>a DEF Place
  <2>7. CASE Take(p) \/ SendFree(p)
    BY <2>7, <1>a DEF Take, SendFree, Goto
  <2>8. ASSUME NEW q \in Callers \ {p}, Caller(q) PROVE Place(p)'
    <3>1. SendFree(q)
      BY <2>8, <2>1, <2>2 DEF Caller, Send, SendFails, Wake, Signal, Reset, Take, Goto
    <3> DEFINE r == [call |-> calls + 1, reply |-> FALSE]
    <3>2. /\ pc' = pc /\ UNCHANGED <<slot, flag, reps, call>>
          /\ reqs' = reqs \/ reqs' = Append(reqs, r)
      BY <3>1, <1>a DEF SendFree, Goto
    <3>3. r \in Requests /\ ~r.reply
      BY <3>1, <1>a, BoundAssumption DEF SendFree, Requests
    <3> HIDE DEF r
    <3>4. \A i \in 1..Len(reqs') : reqs'[i].reply => i \in 1..Len(reqs) /\ reqs'[i] = reqs[i]
      BY <3>2, <3>3, AppendReqs
    <3>5. (Quiet => Quiet') /\ (Mine(p) => Mine(p)')
      BY <3>2, <3>4, <2>1 DEF Quiet, Mine
    <3> QED
      BY <3>2, <3>5, <2>1 DEF Place
  <2>9. CASE Store
    <3>1. /\ reps # <<>> /\ reps' = Tail(reps) /\ slot' = Head(reps) /\ flag' = TRUE
          /\ UNCHANGED <<reqs, pc, call, troubled>>
      BY <2>9 DEF Store
    <3>2. /\ Head(reps) = reps[1] /\ 1 \in 1..Len(reps)
          /\ \A i \in 1..Len(reps') : i + 1 \in 1..Len(reps) /\ reps'[i] = reps[i + 1]
      BY <3>1, TailReps
    <3>3. pc[p] \in {"wait", "reset", "take"} /\ Mine(p)
      BY <3>1, <2>0, <2>1, <1>a DEF Place, Quiet
    <3>4. slot' \in Answers(p)' /\ Mine(p)'
      BY <3>1, <3>2, <3>3 DEF Mine, Answers
    <3> QED
      BY <3>1, <3>3, <3>4, <2>1 DEF Place
  <2>10. CASE Server
    <3>1. /\ reqs # <<>> /\ reqs' = Tail(reqs) /\ UNCHANGED <<slot, flag, pc, call>>
      BY <2>10 DEF Server, Serve, ServeNull, ServeFails, ServeFree
    <3>2. /\ Head(reqs) = reqs[1] /\ 1 \in 1..Len(reqs)
          /\ \A i \in 1..Len(reqs') : i + 1 \in 1..Len(reqs) /\ reqs'[i] = reqs[i + 1]
      BY <3>1, TailReqs
    <3>3. CASE Head(reqs).reply
      <4>1. Mine(p) /\ pc[p] # "send" /\ Head(reqs).call = call[p]
        BY <3>2, <3>3, <2>0, <2>1, <1>a DEF Place, Quiet, Mine
      <4>2. \A j \in 1..Len(reps') : reps'[j] \in Answers(p)'
        <5>1. PICK v \in 0..MaxCalls : /\ reps' = reps \/ reps' = Append(reps, v)
                                       /\ v \in Answers(p)'
          <6>1. CASE Serve
            BY <6>1, <4>1, <3>1, <1>a DEF Serve, Answers
          <6>2. CASE ServeNull
            BY <6>2, <4>1, <3>1, BoundAssumption DEF ServeNull, Answers, None
          <6>3. CASE ServeFails \/ ServeFree
            BY <6>3, <4>1, <3>1, <1>a DEF ServeFails, ServeFree, Answers
          <6> QED
            BY <2>10, <6>1, <6>2, <6>3 DEF Server
        <5>2. \A j \in 1..Len(reps') : (j \in 1..Len(reps) /\ reps'[j] = reps[j]) \/ reps'[j] = v
          BY <5>1, AppendReps
        <5> QED
          BY <5>1, <5>2, <4>1, <2>1 DEF Mine
      <4>3. Mine(p)'
        BY <4>1, <4>2, <3>1, <3>2 DEF Mine
      <4> QED
        BY <4>1, <4>3, <3>1, <2>1 DEF Place
    <3>4. CASE ~Head(reqs).reply
      <4>1. UNCHANGED reps
        BY <2>10, <3>4 DEF Server, Serve, ServeNull, ServeFails, ServeFree
      <4>2. (Quiet => Quiet') /\ (Mine(p) => Mine(p)')
        BY <4>1, <3>1, <3>2, <2>1 DEF Quiet, Mine
      <4> QED
        BY <4>2, <3>1, <2>1 DEF Place
    <3> QED
      BY <3>3, <3>4
  <2>11. CASE UNCHANGED vars
    <3>1. UNCHANGED <<slot, flag, reqs, reps, pc, call, troubled>>
      BY <2>11 DEF vars, progVars, histVars
    <3>2. Mine(p)' = Mine(p) /\ Quiet' = Quiet /\ Answers(p)' = Answers(p)
      BY <3>1 DEF Mine, Quiet, Answers
    <3> QED
      BY <3>1, <3>2, <2>1 DEF Place
  <2> QED
    BY <1>2, <2>3, <2>4, <2>5, <2>6, <2>7, <2>8, <2>9, <2>10, <2>11 DEF Next, Caller
<1> QED
  BY <1>1, <1>2

\* What such a call returns stays its own.
LEMMA ReturnStep ==
  ASSUME TypeInv, CallInv, [Next]_vars, NEW p \in Callers, Returned(p)', Alone(p)'
  PROVE  ret'[p] \in Answers(p)'
<1>a. /\ pc \in [Callers -> {"idle", "send", "wait", "reset", "take"}]
      /\ call \in [Callers -> 0..MaxCalls] /\ ret \in [Callers -> 0..MaxCalls]
  BY DEF TypeInv, TypeOK
<1>1. CASE Take(p)
  <2>1. pc[p] = "take" /\ call' = call /\ ret'[p] = slot
    BY <1>1, <1>a DEF Take, Goto
  <2> QED
    BY <2>1, AnswersGrow DEF CallInv, Place
<1>2. CASE ~Take(p)
  <2>1. call'[p] = call[p] /\ ret'[p] = ret[p] /\ pc[p] = "idle"
    BY <1>2, <1>a DEF Next, Caller, Begin, Send, SendFails, SendFree, Wake, Signal, Reset, Take,
                Store, Server, Serve, ServeNull, ServeFails, ServeFree, vars, progVars, Goto,
                Returned
  <2> QED
    BY <2>1, AnswersGrow DEF CallInv, Returned
<1> QED
  BY <1>1, <1>2

\* Any number of processes make remote calls: a call that no other joins, and
\* that begins with no reply to an earlier one still to come, returns its own
\* reply or, after a signal or a failed allocation, 0, whatever was interrupted,
\* lost or mixed up before it and whatever commands are sent that want no reply.
THEOREM OwnReplyWhenAlone == Spec => []OwnReply
<1>1. Init => TypeInv /\ CallInv
  BY TypeInvInit DEF Init, CallInv, FlagInv, Returned
<1>2. TypeInv /\ CallInv /\ [Next]_vars => TypeInv' /\ CallInv'
  BY TypeInvStep, FlagStep, PlaceStep, ReturnStep DEF CallInv
<1>3. CallInv => OwnReply
  BY DEF CallInv, OwnReply, Alone, Answers
<1> QED
  BY <1>1, <1>2, <1>3, PTL DEF Spec

-----------------------------------------------------------------------------
(* No reply is returned by two calls that were not in progress together     *)

\* The reply v is neither the one stored, s, nor one of those returned, t.
Unseen(v, s, t) == v # s /\ \A k \in 1..Len(t) : t[k].reply # v

\* The numbers of the calls that a command or a reply can name.
Sending == \E p \in Callers : pc[p] = "send"
Named   == IF Sending THEN 0..calls - 1 ELSE 0..calls

\* Calls in progress together are in joined.
Together ==
  \A p, q \in Callers : p # q /\ pc[p] # "idle" /\ pc[q] # "idle" => call[p] \in joined

\* The reply in the slot was stored after every call in progress had begun: if
\* one that has returned took it, that one was in progress then as well.
Takers ==
  \A k \in 1..Len(taken) : taken[k].reply = slot =>
    \A p \in Callers : pc[p] # "idle" => call[p] \in joined /\ taken[k].by \in joined

\* A call's number is in one command, one reply, the slot or the results.
Once ==
  /\ \A i, j \in 1..Len(reqs) :
       reqs[i].reply /\ reqs[j].reply /\ reqs[i].call = reqs[j].call => i = j
  /\ \A i \in 1..Len(reqs) : reqs[i].reply =>
       Unseen(reqs[i].call, slot, taken) /\ \A j \in 1..Len(reps) : reps[j] # reqs[i].call
  /\ \A i, j \in 1..Len(reps) : reps[i] = reps[j] /\ reps[i] # None => i = j
  /\ \A j \in 1..Len(reps) : reps[j] # None => Unseen(reps[j], slot, taken)

\* A call that is about to be sent is new.
Fresh ==
  /\ \A p \in Callers : pc[p] = "send" => call[p] = calls
  /\ \A i \in 1..Len(reqs) : reqs[i].reply => reqs[i].call \in Named
  /\ \A j \in 1..Len(reps) : reps[j] \in Named
  /\ slot \in Named
  /\ \A k \in 1..Len(taken) : taken[k].reply \in Named

\* Every step keeps the calls in progress together in joined.
LEMMA TogetherStep ==
  ASSUME TypeInv, Together, [Next]_vars
  PROVE  Together'
<1>a. /\ pc \in [Callers -> {"idle", "send", "wait", "reset", "take"}]
      /\ call \in [Callers -> 0..MaxCalls]
  BY DEF TypeInv, TypeOK
<1>1. ASSUME NEW c \in Callers, Begin(c) PROVE Together'
  <2> DEFINE others == {q \in Callers \ {c} : pc[q] # "idle"}
  <2>1. /\ pc' = [pc EXCEPT ![c] = "send"] /\ call' = [call EXCEPT ![c] = calls + 1]
        /\ {call[q] : q \in others} \subseteq joined'
        /\ {n \in {calls + 1} : others # {}} \subseteq joined'
    BY <1>1 DEF Begin, NoteBegin, Goto
  <2> SUFFICES ASSUME NEW p \in Callers, NEW q \in Callers, p # q, pc'[p] # "idle",
                      pc'[q] # "idle"
               PROVE  call'[p] \in joined'
    BY DEF Together
  <2>2. CASE p = c
    <3>1. q \in others /\ call'[p] = calls + 1
      BY <2>1, <2>2, <1>a
    <3> QED
      BY <3>1, <2>1
  <2>3. CASE p # c
    <3>1. p \in others /\ call'[p] = call[p]
      BY <2>1, <2>3, <1>a
    <3> QED
      BY <3>1, <2>1
  <2> QED
    BY <2>2, <2>3
<1>2. CASE ~\E c \in Callers : Begin(c)
  <2>1. \A p \in Callers : pc'[p] # "idle" => pc[p] # "idle" /\ call'[p] = call[p]
    BY <1>2, <1>a DEF Next, Caller, Send, SendFails, SendFree, Wake, Signal, Reset, Take,
                Store, Server, Serve, ServeNull, ServeFails, ServeFree, vars, progVars, Goto
  <2> QED
    BY <2>1, HistoryGrows DEF Together
<1> QED
  BY <1>1, <1>2

\* Every step but Begin, Take and Store keeps the takers of the slot.
LEMMA TakersFrame ==
  ASSUME TypeInv, Takers, ReplyOnce, [Next]_vars, UNCHANGED <<slot, taken>>,
         \A p \in Callers : pc'[p] # "idle" => pc[p] # "idle" /\ call'[p] = call[p]
  PROVE  Takers' /\ ReplyOnce'
<1>1. joined \subseteq joined'
  BY HistoryGrows
<1>2. Takers'
  BY <1>1 DEF Takers
<1>3. ReplyOnce'
  BY <1>1 DEF ReplyOnce
<1> QED
  BY <1>2, <1>3

\* Every step keeps who took the reply in the slot, and that no reply is
\* returned twice.
LEMMA TakersStep ==
  ASSUME TypeInv, Together, Once, Takers, ReplyOnce, [Next]_vars
  PROVE  Takers' /\ ReplyOnce'
<1>a. /\ pc \in [Callers -> {"idle", "send", "wait", "reset", "take"}]
      /\ call \in [Callers -> 0..MaxCalls] /\ slot \in 0..MaxCalls
      /\ taken \in Seq(Returns) /\ reps \in Seq(0..MaxCalls)
  BY DEF TypeInv, TypeOK, Returns
<1>b. joined \subseteq joined'
  BY HistoryGrows
<1>1. ASSUME NEW p \in Callers, Begin(p) PROVE Takers' /\ ReplyOnce'
  <2>1. slot' = None /\ taken' = taken
    BY <1>1 DEF Begin
  <2>2. \A k \in 1..Len(taken) : taken[k].reply # None
    <3> SUFFICES ASSUME NEW k \in 1..Len(taken) PROVE taken[k].reply # None
      OBVIOUS
    <3>1. taken[k] \in Returns
      BY <1>a
    <3> QED
      BY <3>1 DEF Returns, None
  <2> QED
    BY <2>1, <2>2, <1>b DEF Takers, ReplyOnce
<1>2. ASSUME NEW p \in Callers, Take(p) PROVE Takers' /\ ReplyOnce'
  <2> DEFINE e == [by |-> call[p], reply |-> slot]
  <2>1. /\ pc[p] = "take" /\ pc' = [pc EXCEPT ![p] = "idle"] /\ UNCHANGED <<slot, call, joined>>
        /\ taken' = IF slot = None THEN taken ELSE Append(taken, e)
    BY <1>2 DEF Take, Goto
  <2>2. CASE slot = None
    <3>1. \A q \in Callers : pc'[q] # "idle" => pc[q] # "idle" /\ call'[q] = call[q]
      BY <2>1, <1>a
    <3> QED
      BY <2>1, <2>2, <3>1, TakersFrame
  <2>3. CASE slot # None
    <3>1. e \in Returns /\ e.by = call[p] /\ e.reply = slot
      BY <2>1, <2>3, <1>a DEF TypeInv, Returns, None
    <3> HIDE DEF e
    <3>2. /\ Len(taken') = Len(taken) + 1 /\ taken'[Len(taken) + 1] = e /\ Len(taken) \in Nat
          /\ \A i \in 1..Len(taken) : taken'[i] = taken[i]
      BY <2>1, <2>3, <3>1, <1>a, SeqFacts
    <3>3. \A k \in 1..Len(taken') :
            (k \in 1..Len(taken) /\ taken'[k] = taken[k]) \/ (k = Len(taken) + 1 /\ taken'[k] = e)
      BY <3>2
    <3>4. \A k \in 1..Len(taken) : taken[k].reply = slot =>
            call[p] \in joined /\ taken[k].by \in joined
      BY <2>1 DEF Takers
    <3>5. Takers'
      <4> SUFFICES ASSUME NEW k \in 1..Len(taken'), taken'[k].reply = slot',
                          NEW q \in Callers, pc'[q] # "idle"
                   PROVE  call'[q] \in joined' /\ taken'[k].by \in joined'
        BY DEF Takers
      <4>1. q # p /\ pc[q] # "idle" /\ call[q] \in joined /\ call[p] \in joined
        BY <2>1, <1>a DEF Together
      <4> QED
        BY <2>1, <3>1, <3>3, <3>4, <4>1
    <3>6. ReplyOnce'
      <4> SUFFICES ASSUME NEW i \in 1..Len(taken'), NEW j \in 1..Len(taken'), i # j,
                          taken'[i].reply = taken'[j].reply
                   PROVE  taken'[i].by \in joined'
        BY DEF ReplyOnce
      <4>1. CASE i \in 1..Len(taken) /\ j \in 1..Len(taken)
        BY <4>1, <3>2, <2>1 DEF ReplyOnce
      <4>2. CASE i = Len(taken) + 1
        <5>1. j \in 1..Len(taken) /\ taken'[j] = taken[j] /\ taken'[i] = e
          BY <4>2, <3>2, <3>3
        <5> QED
          BY <5>1, <3>1, <3>4, <2>1
      <4>3. CASE j = Len(taken) + 1
        <5>1. i \in 1..Len(taken) /\ taken'[i] = taken[i] /\ taken'[j] = e
          BY <4>3, <3>2, <3>3
        <5> QED
          BY <5>1, <3>1, <3>4, <2>1
      <4> QED
        BY <4>1, <4>2, <4>3, <3>3
    <3> QED
      BY <3>5, <3>6
  <2> QED
    BY <2>2, <2>3
<1>3. CASE Store
  <2>1. reps # <<>> /\ slot' = Head(reps) /\ taken' = taken /\ pc' = pc /\ call' = call
    BY <1>3 DEF Store
  <2>2. slot' = reps[1] /\ 1 \in 1..Len(reps)
    BY <2>1, <1>a, SeqFacts
  <2>3. \A k \in 1..Len(taken) : taken[k].reply # slot'
    <3> SUFFICES ASSUME NEW k \in 1..Len(taken) PROVE taken[k].reply # slot'
      OBVIOUS
    <3>1. taken[k] \in Returns
      BY <1>a
    <3>2. taken[k].reply # None
      BY <3>1 DEF Returns, None
    <3> QED
      BY <3>2, <2>2 DEF Once, Unseen
  <2> QED
    BY <2>1, <2>3, <1>b DEF Takers, ReplyOnce
<1>4. ASSUME NEW p \in Callers, Caller(p), ~Begin(p), ~Take(p) PROVE Takers' /\ ReplyOnce'
  <2>1. /\ UNCHANGED <<slot, taken>>
        /\ \A q \in Callers : pc'[q] # "idle" => pc[q] # "idle" /\ call'[q] = call[q]
    BY <1>4, <1>a DEF Caller, Send, SendFails, SendFree, Wake, Signal, Reset, Goto, histVars
  <2> QED
    BY <2>1, TakersFrame
<1>5. CASE Server \/ UNCHANGED vars
  <2>1. UNCHANGED <<slot, taken, pc, call>>
    BY <1>5 DEF Server, Serve, ServeNull, ServeFails, ServeFree, vars, progVars, histVars
  <2> QED
    BY <2>1, TakersFrame
<1> QED
  BY <1>1, <1>2, <1>3, <1>4, <1>5 DEF Next

\* Every step keeps the numbers of the calls apart.
LEMMA OnceStep ==
  ASSUME TypeInv, Once, Fresh, [Next]_vars
  PROVE  Once' /\ Fresh'
<1>a. /\ pc \in [Callers -> {"idle", "send", "wait", "reset", "take"}]
      /\ call \in [Callers -> 0..MaxCalls] /\ calls \in Nat /\ slot \in 0..MaxCalls
      /\ reqs \in Seq(Requests) /\ reps \in Seq(0..MaxCalls) /\ taken \in Seq(Returns)
      /\ MaxCalls \in Nat
  BY BoundAssumption DEF TypeInv, TypeOK, Requests, Returns
<1>c. ASSUME NEW i \in 1..Len(reqs) PROVE reqs[i] \in Requests /\ reqs[i].call # None
  <2>1. reqs[i] \in Requests
    BY <1>a
  <2> QED
    BY <2>1 DEF Requests, None
<1>b. ASSUME UNCHANGED <<reqs, reps, slot, taken, calls>>,
             \A p \in Callers : pc'[p] = "send" => pc[p] = "send" /\ call'[p] = call[p]
      PROVE  Once' /\ Fresh'
  <2>1. Once'
    BY <1>b DEF Once, Unseen
  <2>2. Named \subseteq Named'
    BY <1>a, <1>b DEF Named, Sending
  <2>3. Fresh'
    BY <1>b, <2>2 DEF Fresh
  <2> QED
    BY <2>1, <2>3
<1>1. ASSUME NEW p \in Callers, Begin(p) PROVE Once' /\ Fresh'
  <2>1. /\ pc[p] = "idle" /\ pc' = [pc EXCEPT ![p] = "send"] /\ calls' = calls + 1
        /\ call' = [call EXCEPT ![p] = calls + 1]
        /\ \A q \in Callers : pc[q] # "send"
        /\ slot' = None /\ UNCHANGED <<reqs, reps, taken>>
    BY <1>1, <1>a DEF Begin, NoteBegin, Goto, MayRun
  <2>2. \A i \in 1..Len(reqs) : reqs[i].reply => reqs[i].call # None
    BY <1>c
  <2>3. Named' = Named /\ 0 \in Named
    BY <2>1, <1>a DEF Named, Sending
  <2>4. Once'
    BY <2>1, <2>2 DEF Once, Unseen
  <2>5. Fresh'
    BY <2>1, <2>3, <1>a DEF Fresh, None
  <2> QED
    BY <2>4, <2>5
<1>2. ASSUME NEW p \in Callers, Send(p) PROVE Once' /\ Fresh'
  <2> DEFINE r == [call |-> call[p], reply |-> TRUE]
  <2>1. /\ pc[p] = "send" /\ pc' = [pc EXCEPT ![p] = "wait"] /\ call[p] = calls
        /\ reqs' = Append(reqs, r) /\ UNCHANGED <<reps, slot, taken, calls, call>>
        /\ \A q \in Callers : pc'[q] # "send"
    BY <1>2, <1>a DEF Send, Goto, MayRun, Fresh, histVars
  <2>2. r \in Requests /\ r.call = calls /\ r.reply
    BY <2>1 DEF TypeInv, Requests
  <2>3. calls \notin Named /\ Named \subseteq Named' /\ calls \in Named'
    BY <2>1, <1>a DEF Named, Sending
  <2> HIDE DEF r
  <2>4. /\ Len(reqs) \in Nat /\ Len(reqs') = Len(reqs) + 1
        /\ \A i \in 1..Len(reqs') :
              (i \in 1..Len(reqs) /\ reqs'[i] = reqs[i]) \/ (i = Len(reqs) + 1 /\ reqs'[i] = r)
    BY <2>1, <2>2, AppendReqs
  <2>5. Unseen(calls, slot', taken') /\ \A j \in 1..Len(reps) : reps[j] # calls
    BY <2>1, <2>3 DEF Unseen, Fresh
  <2>6. ASSUME NEW i \in 1..Len(reqs'), NEW j \in 1..Len(reqs'), reqs'[i].reply, reqs'[j].reply,
               reqs'[i].call = reqs'[j].call
        PROVE  i = j
    <3>1. CASE i \in 1..Len(reqs) /\ reqs'[i] = reqs[i]
      <4>1. reqs[i].call # calls
        BY <3>1, <2>6, <2>3 DEF Fresh
      <4>2. j \in 1..Len(reqs) /\ reqs'[j] = reqs[j]
        BY <4>1, <3>1, <2>4, <2>6, <2>2
      <4> QED
        BY <3>1, <4>2, <2>6 DEF Once
    <3>2. CASE i = Len(reqs) + 1 /\ reqs'[i] = r
      <4>1. ~(j \in 1..Len(reqs) /\ reqs'[j] = reqs[j])
        BY <3>2, <2>2, <2>6, <2>3 DEF Fresh
      <4> QED
        BY <3>2, <4>1, <2>4
    <3> QED
      BY <3>1, <3>2, <2>4
  <2>7. \A i \in 1..Len(reqs') : reqs'[i].reply =>
          Unseen(reqs'[i].call, slot', taken') /\ \A j \in 1..Len(reps') : reps'[j] # reqs'[i].call
    BY <2>1, <2>2, <2>4, <2>5 DEF Once, Unseen
  <2>8. Once'
    BY <2>1, <2>6, <2>7 DEF Once, Unseen
  <2>9. Fresh'
    <3>1. \A i \in 1..Len(reqs') : reqs'[i].reply => reqs'[i].call \in Named'
      BY <2>2, <2>3, <2>4 DEF Fresh
    <3> QED
      BY <3>1, <2>1, <2>3 DEF Fresh
  <2> QED
    BY <2>8, <2>9
<1>3. ASSUME NEW p \in Callers, SendFails(p) \/ Wake(p) \/ Signal(p) \/ Reset(p)
      PROVE  Once' /\ Fresh'
  <2>1. UNCHANGED <<reqs, reps, slot, taken, calls, call>>
    BY <1>3 DEF SendFails, Wake, Signal, Reset, histVars
  <2>2. \A q \in Callers : pc'[q] # "send"
    BY <1>3, <1>a DEF SendFails, Wake, Signal, Reset, Goto, MayRun
  <2> QED
    BY <2>1, <2>2, <1>b
<1>4. ASSUME NEW p \in Callers, SendFree(p) PROVE Once' /\ Fresh'
  <2> DEFINE r == [call |-> calls + 1, reply |-> FALSE]
  <2>1. /\ \A q \in Callers : pc[q] # "send" /\ pc'[q] # "send"
        /\ calls' = calls + 1 /\ UNCHANGED <<reps, slot, taken, call>>
    BY <1>4, <1>a DEF SendFree, Goto, MayRun
  <2>2. Named \subseteq Named'
    BY <2>1, <1>a DEF Named, Sending
  <2>3. r \in Requests /\ ~r.reply
    BY <1>4, <1>a DEF SendFree, Requests
  <2>4. reqs' = Append(reqs, r) \/ reqs' = reqs
    BY <1>4 DEF SendFree
  <2> HIDE DEF r
  <2>5. \A i \in 1..Len(reqs') : reqs'[i].reply => i \in 1..Len(reqs) /\ reqs'[i] = reqs[i]
    BY <2>3, <2>4, AppendReqs
  <2>6. Once'
    BY <2>1, <2>5 DEF Once, Unseen
  <2>7. Fresh'
    BY <2>1, <2>2, <2>5 DEF Fresh
  <2> QED
    BY <2>6, <2>7
<1>5. ASSUME NEW p \in Callers, Take(p) PROVE Once' /\ Fresh'
  <2> DEFINE e == [by |-> call[p], reply |-> slot]
  <2>1. /\ pc[p] = "take" /\ UNCHANGED <<reqs, reps, slot, calls, call>>
        /\ \A q \in Callers : pc[q] # "send" /\ pc'[q] # "send"
        /\ taken' = IF slot = None THEN taken ELSE Append(taken, e)
    BY <1>5, <1>a DEF Take, Goto, MayRun
  <2>2. Named' = Named
    BY <2>1 DEF Named, Sending
  <2>3. slot # None => e \in Returns
    BY <2>1, <1>a DEF TypeInv, Returns, None
  <2>4. e.reply = slot
    OBVIOUS
  <2> HIDE DEF e
  <2>5. \A k \in 1..Len(taken') :
          (k \in 1..Len(taken) /\ taken'[k] = taken[k]) \/ taken'[k].reply = slot
    <3>1. CASE slot = None
      BY <3>1, <2>1
    <3>2. CASE slot # None
      <4>1. /\ Len(taken') = Len(taken) + 1 /\ taken'[Len(taken) + 1] = e /\ Len(taken) \in Nat
            /\ \A i \in 1..Len(taken) : taken'[i] = taken[i]
        BY <3>2, <2>1, <2>3, <1>a, SeqFacts
      <4> QED
        BY <4>1, <2>4
    <3> QED
      BY <3>1, <3>2
  <2>6. \A v : Unseen(v, slot, taken) => Unseen(v, slot', taken')
    BY <2>1, <2>5 DEF Unseen
  <2>7. Once'
    BY <2>1, <2>6 DEF Once
  <2>8. Fresh'
    BY <2>1, <2>2, <2>5 DEF Fresh
  <2> QED
    BY <2>7, <2>8
<1>6. CASE Store
  <2>1. /\ reps # <<>> /\ reps' = Tail(reps) /\ slot' = Head(reps)
        /\ UNCHANGED <<reqs, pc, call, calls, taken>>
    BY <1>6 DEF Store
  <2>2. /\ slot' = reps[1] /\ 1 \in 1..Len(reps) /\ Len(reps') \in Nat
        /\ \A i \in 1..Len(reps') : i + 1 \in 1..Len(reps) /\ reps'[i] = reps[i + 1]
    BY <2>1, TailReps
  <2>3. \A i \in 1..Len(reps') : reps'[i] # None => reps'[i] # slot' /\ Unseen(reps'[i], slot, taken)
    <3> SUFFICES ASSUME NEW i \in 1..Len(reps'), reps'[i] # None
                 PROVE  reps'[i] # slot' /\ Unseen(reps'[i], slot, taken)
      OBVIOUS
    <3>1. i + 1 \in 1..Len(reps) /\ reps'[i] = reps[i + 1] /\ i + 1 # 1
      BY <2>2
    <3> QED
      BY <3>1, <2>2 DEF Once
  <2>4. \A i, j \in 1..Len(reps') : reps'[i] = reps'[j] /\ reps'[i] # None => i = j
    <3> SUFFICES ASSUME NEW i \in 1..Len(reps'), NEW j \in 1..Len(reps'), reps'[i] = reps'[j],
                        reps'[i] # None
                 PROVE  i = j
      OBVIOUS
    <3>1. i + 1 = j + 1
      BY <2>2 DEF Once
    <3> QED
      BY <3>1, <2>2
  <2>5. \A i \in 1..Len(reqs) : reqs[i].reply =>
          Unseen(reqs[i].call, slot', taken') /\ \A j \in 1..Len(reps') : reps'[j] # reqs[i].call
    BY <2>1, <2>2 DEF Once, Unseen
  <2>7. Once'
    <3>1. \A j \in 1..Len(reps') : reps'[j] # None => Unseen(reps'[j], slot', taken')
      BY <2>1, <2>3 DEF Unseen
    <3> QED
      BY <2>1, <2>4, <2>5, <3>1 DEF Once
  <2>8. Fresh'
    BY <2>1, <2>2 DEF Fresh, Named, Sending
  <2> QED
    BY <2>7, <2>8
<1>7. CASE Server
  <2>1. /\ reqs # <<>> /\ reqs' = Tail(reqs)
        /\ UNCHANGED <<slot, pc, call, calls, taken>>
    BY <1>7 DEF Server, Serve, ServeNull, ServeFails, ServeFree, histVars
  <2>2. /\ Head(reqs) = reqs[1] /\ 1 \in 1..Len(reqs) /\ Len(reqs') \in Nat
        /\ \A i \in 1..Len(reqs') : i + 1 \in 1..Len(reqs) /\ reqs'[i] = reqs[i + 1]
    BY <2>1, TailReqs
  <2>3. Named' = Named /\ 0 \in Named
    BY <2>1, <1>a DEF Named, Fresh, Sending
  <2>4. \A i, j \in 1..Len(reqs') :
          reqs'[i].reply /\ reqs'[j].reply /\ reqs'[i].call = reqs'[j].call => i = j
    <3> SUFFICES ASSUME NEW i \in 1..Len(reqs'), NEW j \in 1..Len(reqs'), reqs'[i].reply,
                        reqs'[j].reply, reqs'[i].call = reqs'[j].call
                 PROVE  i = j
      OBVIOUS
    <3>1. /\ i + 1 \in 1..Len(reqs) /\ reqs'[i] = reqs[i + 1]
          /\ j + 1 \in 1..Len(reqs) /\ reqs'[j] = reqs[j + 1]
      BY <2>2
    <3>2. i + 1 = j + 1
      BY <3>1 DEF Once
    <3> QED
      BY <3>2, <2>2
  <2>5. \A v : Unseen(v, slot', taken') <=> Unseen(v, slot, taken)
    BY <2>1 DEF Unseen
  <2>6. PICK v \in 0..MaxCalls : /\ reps' = reps \/ reps' = Append(reps, v)
                                 /\ v = None \/ (reqs[1].reply /\ v = reqs[1].call)
    <3>1. None \in 0..MaxCalls /\ Head(reqs).call \in 0..MaxCalls
      <4>1. Head(reqs) \in Requests
        BY <2>2, <1>c
      <4> QED
        BY <4>1, <1>a DEF None, Requests
    <3>2. CASE Serve
      BY <3>1, <3>2, <2>2 DEF Serve
    <3>3. CASE ServeNull \/ ServeFails \/ ServeFree
      BY <3>1, <3>3 DEF ServeNull, ServeFails, ServeFree
    <3> QED
      BY <1>7, <3>2, <3>3 DEF Server
  <2>7. \A i \in 1..Len(reps') :
          \/ i \in 1..Len(reps) /\ reps'[i] = reps[i]
          \/ i = Len(reps) + 1 /\ reps'[i] = v
    BY <2>6, AppendReps
  <2>8. v # None => /\ Unseen(v, slot, taken) /\ \A j \in 1..Len(reps) : reps[j] # v
                    /\ \A i \in 1..Len(reqs') : reqs'[i].reply => reqs'[i].call # v
    <3> SUFFICES ASSUME v # None
                 PROVE  /\ Unseen(v, slot, taken) /\ \A j \in 1..Len(reps) : reps[j] # v
                        /\ \A i \in 1..Len(reqs') : reqs'[i].reply => reqs'[i].call # v
      OBVIOUS
    <3>1. reqs[1].reply /\ v = reqs[1].call
      BY <2>6
    <3>2. Unseen(v, slot, taken) /\ \A j \in 1..Len(reps) : reps[j] # v
      BY <3>1, <2>2 DEF Once
    <3>3. ASSUME NEW i \in 1..Len(reqs'), reqs'[i].reply
          PROVE  reqs'[i].call # v
      <4>1. i + 1 \in 1..Len(reqs) /\ reqs'[i] = reqs[i + 1] /\ i + 1 # 1
        BY <2>2
      <4> QED
        BY <4>1, <3>1, <3>3, <2>2 DEF Once
    <3> QED
      BY <3>2, <3>3
  <2>9. \A i \in 1..Len(reqs') : reqs'[i].reply =>
          Unseen(reqs'[i].call, slot', taken') /\ \A j \in 1..Len(reps') : reps'[j] # reqs'[i].call
    <3> SUFFICES ASSUME NEW i \in 1..Len(reqs'), reqs'[i].reply
                 PROVE  Unseen(reqs'[i].call, slot', taken') /\ \A j \in 1..Len(reps') : reps'[j] # reqs'[i].call
      OBVIOUS
    <3>1. Unseen(reqs'[i].call, slot, taken) /\ \A j \in 1..Len(reps) : reps[j] # reqs'[i].call
      BY <2>2 DEF Once
    <3>2. reqs'[i].call # None
      BY <2>2, <1>c
    <3> QED
      BY <3>1, <3>2, <2>5, <2>7, <2>8
  <2>10. \A i, j \in 1..Len(reps') : reps'[i] = reps'[j] /\ reps'[i] # None => i = j
    BY <2>7, <2>8 DEF Once
  <2>11. \A j \in 1..Len(reps') : reps'[j] # None => Unseen(reps'[j], slot', taken')
    BY <2>5, <2>7, <2>8 DEF Once
  <2>12. Once'
    BY <2>1, <2>4, <2>9, <2>10, <2>11 DEF Once
  <2>13. Fresh'
    <3>1. v \in Named
      BY <2>6, <2>2, <2>3 DEF Fresh, None
    <3> QED
      BY <2>1, <2>2, <2>3, <2>7, <3>1 DEF Fresh
  <2> QED
    BY <2>12, <2>13
<1>8. CASE UNCHANGED vars
  BY <1>8, <1>b DEF vars, progVars, histVars
<1> QED
  BY <1>1, <1>2, <1>3, <1>4, <1>5, <1>6, <1>7, <1>8 DEF Next, Caller

NumberInv == Together /\ Once /\ Fresh /\ Takers /\ ReplyOnce

\* Any number of processes make remote calls: no reply, and so no buffer that the
\* other core allocated, is returned by two calls unless both were in progress at
\* once, although a signal may end a wait and leave the reply to a later call.
THEOREM RepliesOnce == Spec => []ReplyOnce
<1>1. Init => TypeInv /\ NumberInv
  <2> SUFFICES ASSUME Init PROVE TypeInv /\ NumberInv
    OBVIOUS
  <2>1. /\ Len(reqs) = 0 /\ Len(reps) = 0 /\ Len(taken) = 0 /\ slot = 0 /\ calls = 0
        /\ \A p \in Callers : pc[p] = "idle"
    BY DEF Init, None
  <2>2. Together /\ Once /\ Takers /\ ReplyOnce
    BY <2>1 DEF Together, Once, Takers, ReplyOnce
  <2>3. Fresh
    BY <2>1 DEF Fresh, Named, Sending
  <2> QED
    BY <2>2, <2>3, TypeInvInit DEF NumberInv
<1>2. TypeInv /\ NumberInv /\ [Next]_vars => TypeInv' /\ NumberInv'
  BY TypeInvStep, TogetherStep, OnceStep, TakersStep DEF NumberInv
<1>3. NumberInv => ReplyOnce
  BY DEF NumberInv
<1> QED
  BY <1>1, <1>2, <1>3, PTL DEF Spec
=============================================================================
