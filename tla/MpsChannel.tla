----------------------------- MODULE MpsChannel ------------------------------
(***************************************************************************)
(* What a mailbox promises the cores: messages that were accepted are      *)
(* delivered in the order of acceptance, each at most once, and nothing    *)
(* else is delivered.  A channel that is not Lossy skips none of them.     *)
(***************************************************************************)
EXTENDS Naturals, Sequences

CONSTANTS
  Msgs,        \* the messages; one is accepted at most once
  Lossy        \* accepted messages may be dropped

VARIABLES accepted, delivered, next

Init == accepted = <<>> /\ delivered = <<>> /\ next = 1

\* ifx_mpsdrv_mbx_send returns OK.
Accept ==
  /\ \E m \in Msgs : accepted' = Append(accepted, m)
  /\ UNCHANGED <<delivered, next>>

\* The receiver takes the oldest message that is left.
Deliver ==
  /\ next <= Len(accepted)
  /\ delivered' = Append(delivered, accepted[next])
  /\ next' = next + 1
  /\ UNCHANGED accepted

\* Messages are dropped, and the next one is delivered.
Skip ==
  /\ Lossy
  /\ \E n \in next + 1..Len(accepted) :
       /\ delivered' = Append(delivered, accepted[n])
       /\ next' = n + 1
  /\ UNCHANGED accepted

Next == Accept \/ Deliver \/ Skip

Spec == Init /\ [][Next]_<<accepted, delivered, next>>
=============================================================================
