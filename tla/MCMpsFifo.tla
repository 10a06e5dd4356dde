------------------------------ MODULE MCMpsFifo ------------------------------
(***************************************************************************)
(* Small instances of MpsFifo.                                             *)
(***************************************************************************)
EXTENDS MpsFifo

\* The fourth word of a data message is msg_buf_len.  Taken for val1, the length
\* of a packet (less than 16 KB) has neither flag, and its low byte for msg_len.
PacketBits == [ready : {FALSE}, wrap : {FALSE}, len : {HdrLen, HdrLen + 3, HdrLen + 64}]

\* One pattern is enough where bodies are never taken for headers.
ReadyBits == [ready : {TRUE}, wrap : {FALSE}, len : {HdrLen}]

\* The state without the identity of the messages, which no step depends on.
Shape == <<[p \in DOMAIN mem |-> [mem[p] EXCEPT !.id = 0]], r, w, irq, wpc,
           [out EXCEPT !.id = 0], rpc, in, Len(sent)>>

\* Nothing is claimed of what follows a race.
BeforeRace == ~race
=============================================================================
