------------------------------- MODULE MpsFifo -------------------------------
(***************************************************************************)
(* One mailbox FIFO between the two cores (mps_tpe_device.c): the words in *)
(* shared SRAM, the read and the write index, the core that sends          *)
(* (ifx_mpsdrv_mbx_send, ifx_mpsdrv_fifo_write) and the core whose         *)
(* interrupt handler drains it (_ifx_mpsdrv_mbx_read_*Msg).                *)
(*                                                                         *)
(* Nothing but the ready bit of a header and the two indices coordinates   *)
(* the cores.  A step is one access to a header or an index, or the copy   *)
(* of a message's header or body.  Senders of one core exclude each other  *)
(* (spin_lock_irqsave in mps_tpe_linux.c), so there is one writer.         *)
(***************************************************************************)
EXTENDS Integers, Sequences

CONSTANTS
  Size,        \* fifo->size / 4: words in the FIFO
  Lens,        \* lengths, in words, of the messages sent through it
  BodyBits,    \* what a body word may look like if it is read as val1
  MaxMsgs,     \* bound: messages sent in a behaviour
  MayFail,     \* kmalloc(GFP_ATOMIC) may fail in the interrupt handler
  MayRcv,      \* a process may read too, with no interrupt while it does
  MayReset     \* CPU0 may reset CPU1, at any time

Margin == 2    \* _MPS_MIN_MARGIN_
HdrLen == 2    \* MPS_MSGHDR_LEN in words

ASSUME SizeAssumption == Size \in Nat /\ Size > Margin
ASSUME LensAssumption == Lens \subseteq {n \in Nat : HdrLen <= n /\ n <= Size}
ASSUME FlagAssumption == MayFail \in BOOLEAN /\ MayRcv \in BOOLEAN /\ MayReset \in BOOLEAN
ASSUME MaxMsgsAssumption == MaxMsgs \in Nat

\* A word of the FIFO, as the reader would see it if it took it for val1: the
\* bits msg_ready and msg_next_wrapped, the total length that msg_len gives,
\* and the message the word was copied from (0: none).
Words == [ready : BOOLEAN, wrap : BOOLEAN, len : Nat, id : Nat]

ASSUME BitsAssumption == BodyBits \subseteq [ready : BOOLEAN, wrap : BOOLEAN, len : Nat]

Zero   == [ready |-> FALSE, wrap |-> FALSE, len |-> HdrLen, id |-> 0]
Marker == [ready |-> FALSE, wrap |-> TRUE, len |-> HdrLen, id |-> 0]

VARIABLES
  mem,         \* the words, and what lies beyond the FIFO's end: see Beyond
  r, w,        \* *pread_off, *pwrite_off
  irq,         \* the reader's interrupt is pending
  wpc, out,    \* writer: where it is, the message it sends
  rpc, in,     \* reader: where it is, the length it read
  sent, got,   \* history: ids accepted by fifo_write; [id, body] read
  race         \* history: one of the races below has happened

vars == <<mem, r, w, irq, wpc, out, rpc, in, sent, got, race>>

\* The entry at p has its flags and length in its second word, val1.
Val1(p)  == mem[p + 1]
Ready(p) == Val1(p).ready

\* Words next to the FIFO belong to other mailboxes; they are modelled only so
\* that an access beyond the end is well defined.
Beyond == 8

NoMsg == [id |-> 0, len |-> HdrLen, bits |-> [ready |-> FALSE, wrap |-> FALSE, len |-> HdrLen]]

Init ==
  /\ mem = [p \in 0..Size + Beyond |-> Zero]
  /\ r = 0 /\ w = 0
  /\ irq = FALSE
  /\ wpc = "idle" /\ out = NoMsg
  /\ rpc = "idle" /\ in = 0
  /\ sent = <<>> /\ got = <<>> /\ race = FALSE

-----------------------------------------------------------------------------
(* The races.  Neither core sees how far the other is with a message, and  *)
(* some of what it can meet is not consistent.                             *)

\* fifo_write has copied the header at the read index, with its ready bit, and
\* not yet the body.
Unfinished == wpc = "body" /\ r = w

\* The entry at the read index is the next header, fifo_write has not cleared it
\* yet, and what is left there looks like a message or a wrap marker.
Uncleared ==
  /\ (wpc = "advance" /\ r = w + out.len) \/ (wpc = "clear" /\ r = w)
  /\ Ready(r) \/ Val1(r).wrap

\* The FIFO is full with both indices at the same place, and the reader has
\* cleared the ready bit of the entry there but not moved its index.
HalfReleased == r = w /\ rpc \in {"step", "rcvstep"}

\* A message is being written or read, or waits to be read.
InUse == wpc # "idle" \/ rpc # "idle" \/ Len(got) # Len(sent)

Note(met) == race' = (race \/ met)

-----------------------------------------------------------------------------
(* The sending core                                                        *)

GotoW(from, to) == wpc = from /\ wpc' = to
readerVars == <<rpc, in, got>>

\* ifx_mpsdrv_fifo_mem_available, in words.
MemAvailable == IF r > w THEN r - w ELSE Size - (w - r)

\* ifx_mpsdrv_mbx_send: the request for memory, then the message is marked
\* ready in the caller's own copy (val1 |= 0x8000).
Send ==
  /\ Len(sent) < MaxMsgs
  /\ \E n \in Lens, b \in BodyBits :
       /\ MemAvailable >= n
       /\ out' = [id |-> Len(sent) + 1, len |-> n, bits |-> b]
  /\ GotoW("idle", "entry")
  /\ UNCHANGED <<mem, r, w, irq, readerVars, sent, race>>

\* fifo_write: the entry at the write index must not be ready.
Entry ==
  /\ \/ Ready(w) /\ GotoW("entry", "idle")
     \/ ~Ready(w) /\ GotoW("entry", "compare")
  /\ UNCHANGED <<mem, r, w, irq, out, readerVars, sent, race>>

\* Fault: no margin is kept before the end of the FIFO.
CompareNoMargin ==
  /\ \/ w < r /\ GotoW("compare", "room")
     \/ w >= r /\ w + out.len > Size /\ GotoW("compare", "mark")
     \/ w >= r /\ w + out.len <= Size /\ GotoW("compare", "header")
  /\ Note(HalfReleased)
  /\ UNCHANGED <<mem, r, w, irq, out, readerVars, sent>>

\* Which side of the read index the write index is on.
Compare ==
  /\ \/ w < r /\ GotoW("compare", "room")
     \/ w >= r /\ w + out.len + Margin >= Size /\ GotoW("compare", "mark")
     \/ w >= r /\ w + out.len + Margin < Size /\ GotoW("compare", "header")
  /\ Note(HalfReleased)
  /\ UNCHANGED <<mem, r, w, irq, out, readerVars, sent>>

\* Fault: the margin for the next header is not kept.
RoomNoMargin ==
  /\ \/ w + out.len > r /\ GotoW("room", "idle")
     \/ w + out.len <= r /\ GotoW("room", "header")
  /\ UNCHANGED <<mem, r, w, irq, out, readerVars, sent, race>>

\* Below the read index, or wrapped to the start: enough words before it?
Room ==
  /\ \/ w + out.len + Margin > r /\ GotoW("room", "idle")
     \/ w + out.len + Margin <= r /\ GotoW("room", "header")
  /\ UNCHANGED <<mem, r, w, irq, out, readerVars, sent, race>>

\* No room before the end: val1 = 0x4000 at the write index.
Mark ==
  /\ GotoW("mark", "wrap")
  /\ mem' = [mem EXCEPT ![w + 1] = Marker]
  /\ UNCHANGED <<r, w, irq, out, readerVars, sent, race>>

\* *pwrite_off = 0, kept even if the write then fails.
Wrap ==
  /\ GotoW("wrap", "start")
  /\ w' = 0
  /\ UNCHANGED <<mem, r, irq, out, readerVars, sent, race>>

\* The entry at the start must not be ready either.
Start ==
  /\ \/ Ready(0) /\ GotoW("start", "idle")
     \/ ~Ready(0) /\ GotoW("start", "room")
  /\ UNCHANGED <<mem, r, w, irq, out, readerVars, sent, race>>

\* The copy loop reaches the header words; the caller's copy is marked ready.
Header ==
  /\ GotoW("header", "body")
  /\ mem' = [mem EXCEPT ![w] = [Zero EXCEPT !.id = out.id],
                        ![w + 1] = [ready |-> TRUE, wrap |-> FALSE,
                                    len |-> out.len, id |-> out.id]]
  /\ UNCHANGED <<r, w, irq, out, readerVars, sent, race>>

\* The rest of the copy loop, then val1 |= 0x8000.
Body ==
  /\ GotoW("body", "advance")
  /\ mem' = [p \in DOMAIN mem |->
               CASE p \in w + HdrLen..w + out.len - 1 ->
                      [ready |-> out.bits.ready, wrap |-> out.bits.wrap,
                       len |-> out.bits.len, id |-> out.id]
                 [] p = w + 1 -> [mem[p] EXCEPT !.ready = TRUE]
                 [] OTHER -> mem[p]]
  /\ sent' = Append(sent, out.id)
  /\ UNCHANGED <<r, w, irq, out, readerVars, race>>

Advance ==
  /\ GotoW("advance", "clear")
  /\ w' = w + out.len
  /\ UNCHANGED <<mem, r, irq, out, readerVars, sent, race>>

\* val0 = val1 = 0 in the next header.
Clear ==
  /\ GotoW("clear", "raise")
  /\ mem' = [mem EXCEPT ![w] = Zero, ![w + 1] = Zero]
  /\ UNCHANGED <<r, w, irq, out, readerVars, sent, race>>

\* Fault: a send that succeeds does not interrupt the other core.
RaiseNothing ==
  /\ GotoW("raise", "idle")
  /\ UNCHANGED <<mem, r, w, irq, out, readerVars, sent, race>>

\* The other core is interrupted.
Raise ==
  /\ GotoW("raise", "idle")
  /\ irq' = TRUE
  /\ UNCHANGED <<mem, r, w, out, readerVars, sent, race>>

Writer == Entry \/ Compare \/ Room \/ Mark \/ Wrap \/ Start \/ Header \/ Body
            \/ Advance \/ Clear \/ Raise

-----------------------------------------------------------------------------
(* The receiving core                                                      *)

GotoR(from, to) == rpc = from /\ rpc' = to
writerVars == <<wpc, out, sent>>

\* The interrupt handler acknowledges first and reads the FIFO afterwards.
Isr ==
  /\ irq
  /\ GotoR("idle", "poll")
  /\ irq' = FALSE
  /\ UNCHANGED <<mem, r, w, writerVars, in, got, race>>

\* ifx_mpsdrv_fifo_not_empty: a wrap marker resets the read index; an entry
\* that is not ready ends the loop.
Poll ==
  /\ \/ /\ Val1(r).wrap /\ GotoR("poll", "poll0")
        /\ r' = 0
     \/ /\ ~Val1(r).wrap /\ r' = r
        /\ IF Ready(r) THEN GotoR("poll", "read") ELSE GotoR("poll", "idle")
  /\ Note(Uncleared)
  /\ UNCHANGED <<mem, w, irq, writerVars, in, got>>

\* The entry at the start is not tested for a marker.
Poll0 ==
  /\ IF Ready(0) THEN GotoR("poll0", "read") ELSE GotoR("poll0", "idle")
  /\ UNCHANGED <<mem, r, w, irq, writerVars, in, got, race>>

\* ifx_mpsdrv_fifo_read makes the same tests again.  If the entry is no longer
\* ready it returns NULL, which the handler dereferences.
Read ==
  /\ r' = IF Val1(r).wrap THEN 0 ELSE r
  /\ IF Ready(r') THEN GotoR("read", "fetch") ELSE GotoR("read", "null")
  /\ UNCHANGED <<mem, w, irq, writerVars, in, got, race>>

\* kmalloc fails: break.  The message stays where it is.
NoMem ==
  /\ MayFail
  /\ GotoR("fetch", "idle")
  /\ UNCHANGED <<mem, r, w, irq, writerVars, in, got, race>>

\* The length is taken from the header and the message copied.
Copy ==
  /\ in' = Val1(r).len
  /\ got' = Append(got, [id |-> Val1(r).id,
                         body |-> IF Val1(r).len > HdrLen THEN mem[r + HdrLen].id
                                                          ELSE Val1(r).id])
  /\ Note(Unfinished)

Fetch ==
  /\ GotoR("fetch", "release")
  /\ Copy
  /\ UNCHANGED <<mem, r, w, irq, writerVars>>

\* ifx_mpsdrv_fifo_read_ptr_inc: val1 &= ~0x8000 ...  (Its test of the increment,
\* in words, against the size in bytes never fails: msg_len has eight bits.)
Release ==
  /\ GotoR("release", "step") \/ GotoR("rcvrelease", "rcvstep")
  /\ mem' = [mem EXCEPT ![r + 1].ready = FALSE]
  /\ UNCHANGED <<r, w, irq, writerVars, in, got, race>>

\* ... then *pread_off += increment.
Step ==
  /\ GotoR("step", "poll") \/ GotoR("rcvstep", "idle")
  /\ r' = r + in
  /\ UNCHANGED <<mem, w, irq, writerVars, in, got, race>>

Reader == Poll \/ Poll0 \/ Read \/ NoMem \/ Fetch \/ Release \/ Step

\* ifx_mpsdrv_mbx_rcv: a process reads one message, if there is one, with the
\* same fifo_read and read_ptr_inc, and tests the ready bit once more.
Rcv ==
  /\ MayRcv
  /\ r' = IF Val1(r).wrap THEN 0 ELSE r
  /\ IF Ready(r') THEN GotoR("idle", "rcv") ELSE GotoR("idle", "idle")
  /\ Note(Uncleared)
  /\ UNCHANGED <<mem, w, irq, writerVars, in, got>>

RcvFetch ==
  /\ \/ Ready(r) /\ GotoR("rcv", "rcvrelease") /\ Copy
     \/ ~Ready(r) /\ GotoR("rcv", "idle") /\ UNCHANGED <<in, got, race>>
  /\ UNCHANGED <<mem, r, w, irq, writerVars>>

-----------------------------------------------------------------------------
(* The reset                                                               *)

\* ifx_mpsdrv_reset, in a process of CPU0: CPU1 is stopped, wherever it is, and
\* ifx_mpsdrv_fifo_clear resets the indices and nothing else.  CPU0 itself is
\* not inside the FIFO's code.
Reset ==
  /\ MayReset
  /\ wpc = "idle" \/ rpc = "idle"
  /\ r' = 0 /\ w' = 0
  /\ wpc' = "idle" /\ rpc' = "idle"
  /\ Note(InUse)
  /\ UNCHANGED <<mem, irq, out, in, sent, got>>

-----------------------------------------------------------------------------
Next == Send \/ Writer \/ Isr \/ Reader \/ Rcv \/ RcvFetch \/ Reset

Spec == Init /\ [][Next]_vars

\* Both cores run, a pending interrupt is taken, and memory is not short for
\* ever.
Fairness ==
  /\ WF_vars(Writer)
  /\ SF_vars(Isr)
  /\ WF_vars(Poll \/ Poll0 \/ Read \/ Release \/ Step \/ RcvFetch)
  /\ SF_vars(Fetch)

FairSpec == Spec /\ Fairness

-----------------------------------------------------------------------------
(* Properties                                                              *)

WPc == {"idle", "entry", "compare", "room", "mark", "wrap", "start", "header",
        "body", "advance", "clear", "raise"}
RPc == {"idle", "poll", "poll0", "read", "null", "fetch", "release", "step",
        "rcv", "rcvrelease", "rcvstep"}

\* Every variable has its type, and both indices are inside the FIFO.
Typed ==
  /\ mem \in [0..Size + Beyond -> Words]
  /\ r \in 0..Size - 1 /\ w \in 0..Size - 1 /\ irq \in BOOLEAN
  /\ wpc \in WPc
  /\ out \in [id : Nat, len : Nat, bits : [ready : BOOLEAN, wrap : BOOLEAN, len : Nat]]
  /\ rpc \in RPc /\ in \in Nat
  /\ sent \in Seq(Nat) /\ got \in Seq([id : Nat, body : Nat])

\* The same up to the first race: a length read from a word that is no header
\* moves the read index anywhere.
TypeOK == race \in BOOLEAN /\ (race \/ Typed)

\* Neither index ever leaves room for less than a header: neither core looks at
\* a header outside the FIFO, although r and w are changed without a lock.
IndicesInFifo == w + HdrLen <= Size /\ r + HdrLen <= Size

\* A message whose ready bit is set is complete.
NoTornRead == \A i \in 1..Len(got) : got[i].body = got[i].id

\* What the reader got, as the channel sees it: a torn message is none of those
\* that were sent.
ReadIds == [i \in 1..Len(got) |-> IF got[i].body = got[i].id THEN got[i].id ELSE 0]
Channel == INSTANCE MpsChannel WITH
             Msgs <- 1..MaxMsgs, Lossy <- FALSE,
             accepted <- sent, delivered <- ReadIds, next <- Len(got) + 1

\* The FIFO implements the channel up to the first race: with both cores inside
\* its code at once, messages that fifo_write accepted are read in order, each at
\* most once, and whole, unless a core meets the other in one of the four places
\* above.
IsChannel == Channel!Init /\ [][Channel!Next \/ race']_<<sent, ReadIds, Len(got) + 1>>

\* Every accepted message is read, or there has been a race.
Delivered == \A i \in 1..MaxMsgs : Len(sent) >= i ~> Len(got) >= i \/ race
=============================================================================
