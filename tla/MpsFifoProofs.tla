---------------------------- MODULE MpsFifoProofs ----------------------------
(***************************************************************************)
(* Theorems about the mailbox FIFO, for every size and every mix of        *)
(* lengths.                                                                *)
(*                                                                         *)
(* Both cores may be inside the FIFO's code at once, and CPU1 may be reset *)
(* at any time.  Up to the first of the four races of MpsFifo the FIFO is  *)
(* a channel: the words between the read and the write index are the       *)
(* unread messages in order, in one piece or in two pieces joined by a     *)
(* wrap marker, but for what the two cores have half done.                 *)
(*                                                                         *)
(* After a race the words have no such structure; what is left for the     *)
(* data FIFO, whose messages all have four words, is that they are         *)
(* aligned, which keeps both indices inside.                               *)
(***************************************************************************)
EXTENDS MpsFifo, TLAPS

-----------------------------------------------------------------------------
(* The layout of the unread messages                                       *)

Mem == [0..Size + Beyond -> Words]
Places == [Nat -> Nat]

\* The words from p[lo] up to p[hi] are the messages lo .. hi - 1: message i
\* starts at p[i], is marked ready, and ends where the next one starts.
Message(M, p, i) ==
  /\ p[i] + HdrLen <= p[i + 1]
  /\ M[p[i] + 1].ready /\ ~M[p[i] + 1].wrap
  /\ M[p[i] + 1].len = p[i + 1] - p[i]
  /\ M[p[i] + 1].id = i
  /\ p[i] + HdrLen < p[i + 1] => M[p[i] + HdrLen].id = i

Chain(M, p, lo, hi) ==
  /\ lo <= hi
  /\ \A i \in lo..hi : \A j \in i..hi : p[i] <= p[j]
  /\ \A i \in lo..hi - 1 : Message(M, p, i)

\* The messages f .. n - 1 lie between R and W in one piece.
Straight(M, p, R, W, f, n) ==
  /\ Chain(M, p, f, n) /\ p[f] = R /\ p[n] = W
  /\ W + Margin <= Size
  /\ M[1].ready => R = 0 /\ f < n

\* Those before k lie between R and a wrap marker, the others between the start
\* of the FIFO and W.
Wrapped(M, p, q, k, R, W, f, n) ==
  /\ Chain(M, p, f, k) /\ p[f] = R
  /\ p[k] + Margin <= Size /\ M[p[k] + 1].wrap
  /\ Chain(M, q, k, n) /\ q[k] = 0 /\ q[n] = W
  /\ W = 0 \/ W + Margin <= R
  /\ M[1].ready => (R = 0 /\ f < k) \/ k < n

OnePiece(M, R, W, f, n)  == \E p \in Places : Straight(M, p, R, W, f, n)
TwoPieces(M, R, W, f, n) == \E p, q \in Places, k \in Nat : Wrapped(M, p, q, k, R, W, f, n)

Layout(M, R, W, f, n) == OnePiece(M, R, W, f, n) \/ TwoPieces(M, R, W, f, n)

\* There is room for a message of c words, and the next header, at W.
Fits(M, R, W, f, n, c) ==
  \/ OnePiece(M, R, W, f, n) /\ W + c + Margin <= Size
  \/ TwoPieces(M, R, W, f, n) /\ W + c + Margin <= R

\* The header at the write index is cleared, unless the index is at the start.
EndClear(M, W) == W # 0 => ~M[W + 1].ready /\ ~M[W + 1].wrap

-----------------------------------------------------------------------------
(* The inductive invariant                                                 *)

\* What the two cores leave for each other is not laid out at every moment: the
\* reader clears a ready bit before it moves its index, and the writer sets one
\* before the body is there and moves its index before the next header is clear.
\* The layout is therefore stated of the words as they would be without these
\* half-done steps.

Free    == Len(sent) + 1
Pending == rpc \in {"step", "rcvstep"}
Taken   == rpc \in {"release", "rcvrelease", "step", "rcvstep"}

\* The number of the message at the read index.
Oldest == IF Taken THEN Len(got) ELSE Len(got) + 1

\* The words as if the reader had not cleared the ready bit yet ...
Restored(M, R, b) == IF b THEN [M EXCEPT ![R + 1].ready = TRUE] ELSE M
Seen == Restored(mem, r, Pending)

\* ... and as if the header behind the last message were clear.
End    == IF wpc = "advance" THEN w + out.len ELSE w
Marked == wpc \in {"body", "advance", "clear"}
Cleared(M, W, b) == IF b THEN [M EXCEPT ![W + 1] = Zero] ELSE M
Ideal  == Cleared(Seen, End, Marked)

\* Between the marker and the jump to the start: the reader may have followed
\* the marker already.
Turning(M, R, W, f, n) ==
  \/ OnePiece(M, R, W, f, n) /\ M[W + 1].wrap
  \/ R = 0 /\ f = n /\ OnePiece(M, 0, 0, n, n) /\ W \in Nat /\ W + Margin <= Size

\* The layout that the writer relies on, at each of its steps.
Phase(pc, M, R, W, f, n, c) ==
  /\ pc # "wrap" => Layout(M, R, W, f, n) /\ EndClear(M, W)
  /\ pc = "wrap" => Turning(M, R, W, f, n)
  /\ pc = "mark" => OnePiece(M, R, W, f, n)
  /\ pc \in {"header", "body"} => Fits(M, R, W, f, n, c)

Unread == Phase(wpc, Ideal, r, End, Oldest, Free, out.len)

Types ==
  /\ mem \in Mem /\ r \in Nat /\ w \in Nat /\ in \in Nat
  /\ wpc \in WPc /\ rpc \in RPc \ {"null"}
  /\ out \in [id : Nat, len : Nat, bits : [ready : BOOLEAN, wrap : BOOLEAN, len : Nat]]
  /\ sent \in Seq(Nat) /\ got \in Seq([id : Nat, body : Nat])

Histories ==
  /\ \A i \in 1..Len(sent) : sent[i] = i
  /\ \A i \in 1..Len(got) : got[i].id = i /\ got[i].body = i
  /\ Len(sent) <= MaxMsgs

\* The message in hand is the next one.
Sending ==
  wpc \in {"entry", "compare", "room", "mark", "wrap", "start", "header", "body"} =>
    out.id = Free /\ out.id <= MaxMsgs /\ out.len \in Lens

\* What the writer has found out, or done, so far.
WriterInv ==
  /\ wpc = "compare" => ~mem[w + 1].ready
  /\ wpc = "start" => w = 0
  /\ wpc = "body" =>
       mem[w + 1] = [ready |-> TRUE, wrap |-> FALSE, len |-> out.len, id |-> out.id]
  /\ wpc \in {"advance", "clear"} => End > 0
  /\ wpc = "advance" => out.len >= HdrLen

\* A message that is all there is at the read index.
Found == Oldest < Free /\ ~Ideal[r + 1].wrap

\* What the reader has found out, or done, so far.
ReaderInv ==
  /\ rpc = "poll0" => r = 0
  /\ rpc \in {"read", "fetch", "rcv"} => Found \/ Unfinished
  /\ Taken => Found /\ in = Ideal[r + 1].len
  /\ Pending => ~mem[r + 1].ready

ChannelInv == Types /\ Histories /\ Sending /\ Unread /\ WriterInv /\ ReaderInv

\* A message is at the read index.
AtHead(M, R, f) ==
  /\ M[R + 1].ready /\ ~M[R + 1].wrap /\ M[R + 1].id = f
  /\ M[R + 1].len > HdrLen => M[R + HdrLen].id = f

-----------------------------------------------------------------------------
(* Lemmas about chains of messages                                         *)

USE DEF Margin, HdrLen, Beyond

\* A message is what its own words say it is.
LEMMA MessageFrame ==
  ASSUME NEW M, NEW M2, NEW p \in Places, NEW i \in Nat, Message(M, p, i),
         \A x \in Nat : p[i] <= x /\ x < p[i + 1] => M2[x] = M[x]
  PROVE  Message(M2, p, i)
  <1>1. p[i] \in Nat /\ p[i + 1] \in Nat
    BY DEF Places
  <1>2. M2[p[i] + 1] = M[p[i] + 1]
    BY <1>1 DEF Message
  <1>3. p[i] + 2 < p[i + 1] => M2[p[i] + 2] = M[p[i] + 2]
    BY <1>1
  <1> QED
    BY <1>1, <1>2, <1>3 DEF Message

\* The places of a chain lie between its ends.
LEMMA ChainBounds ==
  ASSUME NEW M, NEW p \in Places, NEW lo \in Nat, NEW hi \in Nat, Chain(M, p, lo, hi)
  PROVE  /\ lo <= hi
         /\ p[lo] \in Nat /\ p[hi] \in Nat /\ p[lo] <= p[hi]
         /\ \A i \in lo..hi - 1 :
              /\ i \in Nat /\ i + 1 \in Nat /\ p[i] \in Nat /\ p[i + 1] \in Nat
              /\ p[lo] <= p[i] /\ p[i] + 2 <= p[i + 1] /\ p[i + 1] <= p[hi]
  <1>1. lo <= hi /\ p[lo] \in Nat /\ p[hi] \in Nat /\ p[lo] <= p[hi]
    BY DEF Chain, Places
  <1>2. ASSUME NEW i \in lo..hi - 1
        PROVE  /\ i \in Nat /\ i + 1 \in Nat /\ p[i] \in Nat /\ p[i + 1] \in Nat
               /\ p[lo] <= p[i] /\ p[i] + 2 <= p[i + 1] /\ p[i + 1] <= p[hi]
    <2>1. i \in Nat /\ i + 1 \in Nat /\ i \in lo..hi /\ i + 1 \in lo..hi /\ hi \in i + 1..hi
          /\ lo \in lo..hi
      BY <1>1
    <2>2. p[lo] <= p[i] /\ p[i + 1] <= p[hi]
      BY <2>1 DEF Chain
    <2>3. p[i] + 2 <= p[i + 1]
      BY DEF Chain, Message
    <2> QED
      BY <2>1, <2>2, <2>3 DEF Places
  <1> QED
    BY <1>1, <1>2

\* A chain does not depend on the words outside it.
LEMMA ChainFrame ==
  ASSUME NEW M, NEW M2, NEW p \in Places, NEW lo \in Nat, NEW hi \in Nat, Chain(M, p, lo, hi),
         \A x \in Nat : p[lo] <= x /\ x < p[hi] => M2[x] = M[x]
  PROVE  Chain(M2, p, lo, hi)
  <1>1. ASSUME NEW i \in lo..hi - 1
        PROVE  Message(M2, p, i)
    <2>1. /\ i \in Nat /\ i + 1 \in Nat /\ p[i] \in Nat /\ p[i + 1] \in Nat
          /\ p[lo] <= p[i] /\ p[i + 1] <= p[hi] /\ p[lo] \in Nat /\ p[hi] \in Nat
      BY ChainBounds
    <2>2. Message(M, p, i)
      BY DEF Chain
    <2>3. \A x \in Nat : p[i] <= x /\ x < p[i + 1] => M2[x] = M[x]
      BY <2>1
    <2> QED
      BY <2>1, <2>2, <2>3, MessageFrame
  <1> QED
    BY <1>1 DEF Chain

\* No messages, no words.
LEMMA ChainEmpty ==
  ASSUME NEW M, NEW p \in Places, NEW n \in Nat
  PROVE  Chain(M, p, n, n)
  <1>1. \A i \in n..n : i = n
    OBVIOUS
  <1>2. p[n] \in Nat
    BY DEF Places
  <1>3. \A i \in n..n : \A j \in i..n : p[i] <= p[j]
    <2> SUFFICES ASSUME NEW i \in n..n, NEW j \in i..n
                 PROVE  p[i] <= p[j]
      OBVIOUS
    <2>1. i = n /\ j = n
      OBVIOUS
    <2> QED
      BY <2>1, <1>2
  <1>4. \A i \in n..n - 1 : FALSE
    OBVIOUS
  <1> QED
    BY <1>3, <1>4 DEF Chain

\* The rest of a chain is a chain.
LEMMA ChainTail ==
  ASSUME NEW M, NEW p \in Places, NEW lo \in Nat, NEW hi \in Nat, Chain(M, p, lo, hi), lo < hi
  PROVE  /\ Chain(M, p, lo + 1, hi)
         /\ Message(M, p, lo)
         /\ p[lo] + 2 <= p[lo + 1] /\ p[lo + 1] <= p[hi]
  <1>1. lo \in lo..hi - 1
    OBVIOUS
  <1>2. Message(M, p, lo)
    BY <1>1 DEF Chain
  <1>3. p[lo] + 2 <= p[lo + 1] /\ p[lo + 1] <= p[hi]
    BY <1>1, ChainBounds
  <1>4. Chain(M, p, lo + 1, hi)
    <2>1. \A i \in lo + 1..hi : i \in lo..hi
      OBVIOUS
    <2>2. \A i \in lo + 1..hi - 1 : i \in lo..hi - 1
      OBVIOUS
    <2> QED
      BY <2>1, <2>2 DEF Chain
  <1> QED
    BY <1>2, <1>3, <1>4

\* Message n, of c words, written at the write index.
Written(M, M2, W, n, c) ==
  /\ c \in Nat /\ c >= HdrLen /\ W <= Size
  /\ \A x \in 0..Size + Beyond : x < W \/ x >= W + c => M2[x] = M[x]
  /\ M2[W + 1].ready /\ ~M2[W + 1].wrap /\ M2[W + 1].len = c /\ M2[W + 1].id = n
  /\ c > 2 => M2[W + 2].id = n
  /\ W # 0 => (M2[1].ready => M[1].ready)

\* The chain p and, behind it, a message of c words.
Longer(M, p, lo, hi, c) ==
  \E p2 \in Places : /\ Chain(M, p2, lo, hi + 1)
                     /\ p2[lo] = p[lo] /\ p2[hi + 1] = p[hi] + c

\* A message written behind a chain makes it longer.
LEMMA ChainExtend ==
  ASSUME NEW M, NEW M2, NEW p \in Places, NEW lo \in Nat, NEW hi \in Nat, Chain(M, p, lo, hi),
         NEW c, Written(M, M2, p[hi], hi, c)
  PROVE  Longer(M2, p, lo, hi, c)
  <1>a. c \in Nat /\ c >= 2
    BY DEF Written
  <1> DEFINE p2 == [p EXCEPT ![hi + 1] = p[hi] + c]
  <1>0. p[lo] \in Nat /\ p[hi] \in Nat /\ lo <= hi
    BY ONLY Chain(M, p, lo, hi), p \in Places, lo \in Nat, hi \in Nat, ChainBounds
  <1>1. p[lo] \in Nat /\ p[hi] \in Nat /\ lo <= hi /\ hi + 1 \in Nat
    BY <1>0
  <1>2. p2 \in Places /\ p2[hi + 1] = p[hi] + c
    BY <1>1, <1>a DEF Places
  <1>3. \A i \in Nat : i # hi + 1 => p2[i] = p[i]
    BY DEF Places
  <1>4. p2[lo] = p[lo] /\ p2[hi] = p[hi]
    BY <1>1, <1>3
  <1> HIDE DEF p2
  <1>5. Chain(M2, p, lo, hi)
    <2>1. \A x \in Nat : p[lo] <= x /\ x < p[hi] => M2[x] = M[x]
      BY <1>1, SizeAssumption DEF Written
    <2> QED
      BY <2>1, ChainFrame
  <1>6. ASSUME NEW i \in lo..hi + 1, NEW j \in i..hi + 1
        PROVE  p2[i] <= p2[j]
    <2>1. i \in Nat /\ j \in Nat /\ (hi \in i..hi \/ i = hi + 1)
      BY <1>1
    <2>2. CASE j <= hi
      <3>1. i \in lo..hi /\ j \in i..hi /\ i # hi + 1 /\ j # hi + 1 /\ i \in Nat /\ j \in Nat
        BY <2>2
      <3>2. p[i] <= p[j]
        BY <3>1 DEF Chain
      <3> QED
        BY <3>1, <3>2, <1>3
    <2>3. CASE j = hi + 1 /\ i <= hi
      <3>1. i \in lo..hi /\ hi \in i..hi /\ i \in Nat /\ i # hi + 1
        BY <2>3, <1>1
      <3>2. p[i] <= p[hi] /\ p[i] \in Nat
        BY <3>1 DEF Chain, Places
      <3>3. p2[i] = p[i]
        BY <3>1, <1>3
      <3> QED
        BY <2>3, <3>2, <3>3, <1>1, <1>2, <1>a
    <2>4. CASE i = hi + 1
      <3>1. j = i
        BY <2>4
      <3> QED
        BY <3>1, <2>4, <1>1, <1>2, <1>a
    <2> QED
      BY <2>2, <2>3, <2>4
  <1>7. ASSUME NEW i \in lo..hi
        PROVE  Message(M2, p2, i)
    <2>1. CASE i < hi
      <3>1. i \in lo..hi - 1 /\ i \in Nat /\ i + 1 \in Nat /\ i # hi + 1 /\ i + 1 # hi + 1
        BY <2>1
      <3>2. Message(M2, p, i)
        BY <3>1, <1>5 DEF Chain
      <3>3. p2[i] = p[i] /\ p2[i + 1] = p[i + 1]
        BY <3>1, <1>3
      <3> QED
        BY <3>2, <3>3 DEF Message
    <2>2. CASE i = hi
      <3>1. p2[i] = p[hi] /\ p2[i + 1] = p[hi] + c
        BY <2>2, <1>2, <1>4
      <3> QED
        BY <3>1, <2>2, <1>1, <1>a DEF Message, Written
    <2> QED
      BY <2>1, <2>2
  <1>8. Chain(M2, p2, lo, hi + 1)
    <2>1. hi + 1 - 1 = hi /\ lo <= hi + 1
      BY <1>1
    <2>2. \A i \in lo..hi + 1 : \A j \in i..hi + 1 : p2[i] <= p2[j]
      BY <1>6
    <2>3. \A i \in lo..hi + 1 - 1 : Message(M2, p2, i)
      BY ONLY <2>1, <1>7
    <2> QED
      BY ONLY <2>1, <2>2, <2>3 DEF Chain
  <1> QED
    BY <1>2, <1>4, <1>8 DEF Longer

-----------------------------------------------------------------------------
(* Lemmas about the layout                                                 *)

\* Both indices are inside the FIFO, with room for a header.
LEMMA LayoutBounds ==
  ASSUME NEW M, NEW R, NEW W, NEW f \in Nat, NEW n \in Nat, Layout(M, R, W, f, n)
  PROVE  R \in Nat /\ W \in Nat /\ R + 2 <= Size /\ W + 2 <= Size /\ f <= n
  <1>1. CASE OnePiece(M, R, W, f, n)
    <2>1. PICK p \in Places : Straight(M, p, R, W, f, n)
      BY <1>1 DEF OnePiece
    <2>2. Chain(M, p, f, n) /\ p[f] = R /\ p[n] = W /\ W + 2 <= Size
      BY <2>1 DEF Straight
    <2>3. f <= n /\ R \in Nat /\ W \in Nat /\ R <= W
      BY <2>2, ChainBounds
    <2> QED
      BY <2>2, <2>3, SizeAssumption
  <1>2. CASE TwoPieces(M, R, W, f, n)
    <2>1. PICK p, q \in Places, k \in Nat : Wrapped(M, p, q, k, R, W, f, n)
      BY <1>2 DEF TwoPieces
    <2>2. /\ Chain(M, p, f, k) /\ p[f] = R /\ p[k] + 2 <= Size
          /\ Chain(M, q, k, n) /\ q[n] = W /\ (W = 0 \/ W + 2 <= R)
      BY <2>1 DEF Wrapped
    <2>3. f <= k /\ R \in Nat /\ p[k] \in Nat /\ R <= p[k]
      BY <2>2, ChainBounds
    <2>4. k <= n /\ W \in Nat
      BY <2>2, ChainBounds
    <2> QED
      BY <2>2, <2>3, <2>4, SizeAssumption
  <1> QED
    BY <1>1, <1>2 DEF Layout

\* An empty FIFO, wherever its indices are, is also one that starts at 0.
LEMMA LayoutReset ==
  ASSUME NEW M, NEW R, NEW W, NEW n \in Nat, Layout(M, R, W, n, n)
  PROVE  OnePiece(M, 0, 0, n, n)
  <1>1. M[1].ready => FALSE
    <2>1. CASE OnePiece(M, R, W, n, n)
      BY <2>1 DEF OnePiece, Straight
    <2>2. CASE TwoPieces(M, R, W, n, n)
      <3>1. PICK p, q \in Places, k \in Nat : Wrapped(M, p, q, k, R, W, n, n)
        BY <2>2 DEF TwoPieces
      <3>2. n <= k /\ k <= n
        BY <3>1 DEF Wrapped, Chain
      <3> QED
        BY <3>1, <3>2 DEF Wrapped
    <2> QED
      BY <2>1, <2>2 DEF Layout
  <1> DEFINE z == [i \in Nat |-> 0]
  <1>2. z \in Places /\ z[n] = 0
    BY DEF Places
  <1>3. Chain(M, z, n, n)
    BY <1>2, ChainEmpty
  <1>4. Straight(M, z, 0, 0, n, n)
    BY <1>1, <1>2, <1>3, SizeAssumption DEF Straight
  <1> QED
    BY <1>2, <1>4 DEF OnePiece

\* A write index that is not below the read index, at an entry that is not
\* ready: the messages are in one piece.
LEMMA LayoutAbove ==
  ASSUME NEW M, NEW R, NEW W, NEW f \in Nat, NEW n \in Nat, Layout(M, R, W, f, n),
         W >= R, ~M[W + 1].ready
  PROVE  OnePiece(M, R, W, f, n)
  <1> SUFFICES ASSUME TwoPieces(M, R, W, f, n)
               PROVE  OnePiece(M, R, W, f, n)
    BY DEF Layout
  <1>1. PICK p, q \in Places, k \in Nat : Wrapped(M, p, q, k, R, W, f, n)
    BY DEF TwoPieces
  <1>2. /\ Chain(M, p, f, k) /\ p[f] = R
        /\ Chain(M, q, k, n) /\ q[k] = 0 /\ q[n] = W /\ (W = 0 \/ W + 2 <= R)
    BY <1>1 DEF Wrapped
  <1>3. R \in Nat /\ W \in Nat /\ f <= k /\ k <= n
    <2>1. f <= k /\ k <= n
      BY <1>2 DEF Chain
    <2> QED
      BY <2>1, LayoutBounds
  <1>4. W = 0 /\ R = 0
    BY <1>2, <1>3
  <1>5. k = n
    <2> SUFFICES ASSUME k < n
                 PROVE  FALSE
      BY <1>3
    <2>1. q[k] + 2 <= q[k + 1] /\ q[k + 1] <= q[n] /\ q[k + 1] \in Nat
      <3>1. k + 1 \in Nat
        OBVIOUS
      <3> QED
        BY <3>1, <1>2, ChainTail DEF Places
    <2> QED
      BY <2>1, <1>2, <1>4
  <1>6. f = k
    <2> SUFFICES ASSUME f < k
                 PROVE  FALSE
      BY <1>3
    <2>1. Message(M, p, f)
      BY <1>2, ChainTail
    <2> QED
      BY <2>1, <1>2, <1>4 DEF Message
  <1>7. Layout(M, R, W, n, n) /\ f = n
    BY <1>5, <1>6
  <1> QED
    BY <1>7, <1>4, LayoutReset

\* A write index below the read index: the messages are in two pieces.
LEMMA LayoutBelow ==
  ASSUME NEW M, NEW R, NEW W, NEW f \in Nat, NEW n \in Nat, Layout(M, R, W, f, n), W < R
  PROVE  TwoPieces(M, R, W, f, n)
  <1> SUFFICES ASSUME OnePiece(M, R, W, f, n)
               PROVE  FALSE
    BY DEF Layout
  <1>1. PICK p \in Places : Straight(M, p, R, W, f, n)
    BY DEF OnePiece
  <1>2. Chain(M, p, f, n) /\ p[f] = R /\ p[n] = W
    BY <1>1 DEF Straight
  <1>3. R \in Nat /\ W \in Nat /\ R <= W
    BY <1>2, ChainBounds
  <1> QED
    BY <1>3

\* The marker at the write index and the jump to the start.
LEMMA LayoutWrap ==
  ASSUME NEW M, NEW R, NEW W, NEW f \in Nat, NEW n \in Nat, OnePiece(M, R, W, f, n),
         M[W + 1].wrap
  PROVE  TwoPieces(M, R, 0, f, n)
  <1>1. PICK p \in Places : Straight(M, p, R, W, f, n)
    BY DEF OnePiece
  <1> DEFINE z == [i \in Nat |-> 0]
  <1>2. z \in Places /\ z[n] = 0
    BY DEF Places
  <1>3. Chain(M, z, n, n)
    BY <1>2, ChainEmpty
  <1>4. Wrapped(M, p, z, n, R, 0, f, n)
    BY <1>1, <1>2, <1>3 DEF Straight, Wrapped
  <1> QED
    BY <1>2, <1>4 DEF TwoPieces

\* Writing the entry at the write index, without marking it ready, changes
\* nothing of the messages before it ...
LEMMA OnePieceFrame ==
  ASSUME NEW M, NEW M2, NEW R, NEW W, NEW f \in Nat, NEW n \in Nat, OnePiece(M, R, W, f, n),
         \A x \in 0..Size + 8 : x # W /\ x # W + 1 => M2[x] = M[x],
         M2[1].ready => M[1].ready
  PROVE  OnePiece(M2, R, W, f, n)
  <1>1. PICK p \in Places : Straight(M, p, R, W, f, n)
    BY DEF OnePiece
  <1>2. Chain(M, p, f, n) /\ p[n] = W /\ W + 2 <= Size
    BY <1>1 DEF Straight
  <1>3. W \in Nat
    BY <1>2, ChainBounds
  <1>4. \A x \in Nat : p[f] <= x /\ x < p[n] => M2[x] = M[x]
    BY <1>2, <1>3, SizeAssumption
  <1>5. Chain(M2, p, f, n)
    BY <1>2, <1>4, ChainFrame
  <1>6. Straight(M2, p, R, W, f, n)
    BY <1>1, <1>5 DEF Straight
  <1> QED
    BY <1>6 DEF OnePiece

\* ... nor, below the read index, of those around it.
LEMMA TwoPiecesFrame ==
  ASSUME NEW M, NEW M2, NEW R, NEW W, NEW f \in Nat, NEW n \in Nat, TwoPieces(M, R, W, f, n),
         W + 2 <= R,
         \A x \in 0..Size + 8 : x # W /\ x # W + 1 => M2[x] = M[x],
         M2[1].ready => M[1].ready
  PROVE  TwoPieces(M2, R, W, f, n)
  <1>1. PICK p, q \in Places, k \in Nat : Wrapped(M, p, q, k, R, W, f, n)
    BY DEF TwoPieces
  <1>2. /\ Chain(M, p, f, k) /\ p[f] = R /\ p[k] + 2 <= Size
        /\ Chain(M, q, k, n) /\ q[k] = 0 /\ q[n] = W
    BY <1>1 DEF Wrapped
  <1>3. R \in Nat /\ p[k] \in Nat /\ R <= p[k]
    BY <1>2, ChainBounds
  <1>4. W \in Nat
    BY <1>2, ChainBounds
  <1>5. Chain(M2, p, f, k)
    <2>1. \A x \in Nat : p[f] <= x /\ x < p[k] => M2[x] = M[x]
      BY <1>2, <1>3, <1>4, SizeAssumption
    <2> QED
      BY <1>2, <2>1, ChainFrame
  <1>6. Chain(M2, q, k, n)
    <2>1. \A x \in Nat : q[k] <= x /\ x < q[n] => M2[x] = M[x]
      BY <1>2, <1>3, <1>4, SizeAssumption
    <2> QED
      BY <1>2, <2>1, ChainFrame
  <1>7. M2[p[k] + 1] = M[p[k] + 1]
    BY <1>2, <1>3, <1>4, SizeAssumption
  <1>8. Wrapped(M2, p, q, k, R, W, f, n)
    BY <1>1, <1>5, <1>6, <1>7 DEF Wrapped
  <1> QED
    BY <1>8 DEF TwoPieces

\* A message written at the write index joins the one piece ...
LEMMA OnePieceAppend ==
  ASSUME NEW M, NEW M2, NEW R, NEW W, NEW f \in Nat, NEW n \in Nat, OnePiece(M, R, W, f, n),
         NEW c, W + c + 2 <= Size, Written(M, M2, W, n, c)
  PROVE  OnePiece(M2, R, W + c, f, n + 1)
  <1>1. PICK p \in Places : Straight(M, p, R, W, f, n)
    BY DEF OnePiece
  <1>2. Chain(M, p, f, n) /\ p[f] = R /\ p[n] = W /\ (M[1].ready => R = 0 /\ f < n)
    BY <1>1 DEF Straight
  <1>3. R \in Nat /\ W \in Nat /\ R <= W /\ f <= n
    BY <1>2, ChainBounds
  <1>4. PICK p2 \in Places : Chain(M2, p2, f, n + 1) /\ p2[f] = R /\ p2[n + 1] = W + c
    <2>1. Written(M, M2, p[n], n, c)
      BY <1>2
    <2>2. Chain(M, p, f, n)
      BY <1>2
    <2>3. Longer(M2, p, f, n, c)
      BY ONLY <2>1, <2>2, p \in Places, f \in Nat, n \in Nat, ChainExtend
    <2> QED
      BY <2>3, <1>2 DEF Longer
  <1>5. M2[1].ready => R = 0 /\ f < n + 1
    <2>1. CASE W = 0
      BY <2>1, <1>3
    <2>2. CASE W # 0
      BY <2>2, <1>2, <1>3 DEF Written
    <2> QED
      BY <2>1, <2>2
  <1>6. Straight(M2, p2, R, W + c, f, n + 1)
    BY <1>4, <1>5 DEF Straight
  <1> QED
    BY <1>6 DEF OnePiece

\* ... or the second of the two.
LEMMA TwoPiecesAppend ==
  ASSUME NEW M, NEW M2, NEW R, NEW W, NEW f \in Nat, NEW n \in Nat, TwoPieces(M, R, W, f, n),
         NEW c, W + c + 2 <= R, Written(M, M2, W, n, c)
  PROVE  TwoPieces(M2, R, W + c, f, n + 1)
  <1>1. PICK p, q \in Places, k \in Nat : Wrapped(M, p, q, k, R, W, f, n)
    BY DEF TwoPieces
  <1>2. /\ Chain(M, p, f, k) /\ p[f] = R /\ p[k] + 2 <= Size /\ M[p[k] + 1].wrap
        /\ Chain(M, q, k, n) /\ q[k] = 0 /\ q[n] = W
    BY <1>1 DEF Wrapped
  <1>3. R \in Nat /\ p[k] \in Nat /\ R <= p[k]
    BY <1>2, ChainBounds
  <1>4. W \in Nat /\ k <= n
    BY <1>2, ChainBounds
  <1>5. Chain(M2, p, f, k)
    <2>1. \A x \in Nat : p[f] <= x /\ x < p[k] => M2[x] = M[x]
      BY <1>2, <1>3, <1>4, SizeAssumption DEF Written
    <2> QED
      BY <1>2, <2>1, ChainFrame
  <1>6. M2[p[k] + 1] = M[p[k] + 1]
    BY <1>2, <1>3, <1>4, SizeAssumption DEF Written
  <1>7. PICK q2 \in Places : Chain(M2, q2, k, n + 1) /\ q2[k] = 0 /\ q2[n + 1] = W + c
    <2>1. Written(M, M2, q[n], n, c)
      BY <1>2
    <2>2. Chain(M, q, k, n)
      BY <1>2
    <2>3. Longer(M2, q, k, n, c)
      BY ONLY <2>1, <2>2, q \in Places, k \in Nat, n \in Nat, ChainExtend
    <2> QED
      BY <2>3, <1>2 DEF Longer
  <1>8. k < n + 1
    BY <1>4
  <1>9. Wrapped(M2, p, q2, k, R, W + c, f, n + 1)
    BY <1>2, <1>5, <1>6, <1>7, <1>8 DEF Wrapped
  <1> QED
    BY <1>9 DEF TwoPieces

\* The first message is released, its ready bit cleared: M2 is M but for that.
Released(M, M2, R) ==
  /\ \A x \in 0..Size + Beyond : x # R + 1 => M2[x] = M[x]
  /\ ~M2[R + 1].ready /\ M2[R + 1].wrap = M[R + 1].wrap

\* The rest of the one piece is laid out behind it ...
LEMMA OnePieceRelease ==
  ASSUME NEW M, NEW M2, NEW R, NEW W, NEW f \in Nat, NEW n \in Nat, OnePiece(M, R, W, f, n),
         f < n, Released(M, M2, R)
  PROVE  OnePiece(M2, R + M[R + 1].len, W, f + 1, n)
  <1>0. R \in Nat /\ W \in Nat /\ R + 2 <= Size /\ W + 2 <= Size /\ Size \in Nat
    BY LayoutBounds, SizeAssumption DEF Layout
  <1>a. ~M2[R + 1].ready /\ \A x \in 0..Size + 8 : x # R + 1 => M2[x] = M[x]
    BY DEF Released
  <1>1. PICK p \in Places : Straight(M, p, R, W, f, n)
    BY DEF OnePiece
  <1>2. Chain(M, p, f, n) /\ p[f] = R /\ p[n] = W /\ (M[1].ready => R = 0)
    BY <1>1 DEF Straight
  <1>3. Chain(M, p, f + 1, n) /\ Message(M, p, f) /\ p[f] + 2 <= p[f + 1]
    BY <1>2, ChainTail
  <1>4. f + 1 \in Nat /\ p[f + 1] \in Nat
    BY DEF Places
  <1>5. p[f + 1] = R + M[R + 1].len
    BY <1>2, <1>3, <1>4, <1>0 DEF Message
  <1>6. \A x \in Nat : p[f + 1] <= x /\ x < p[n] => M2[x] = M[x]
    BY <1>2, <1>3, <1>4, <1>0, <1>a
  <1>7. Chain(M2, p, f + 1, n)
    BY <1>3, <1>4, <1>6, ChainFrame
  <1>8. ~M2[1].ready
    <2>1. CASE R = 0
      BY <2>1, <1>a
    <2>2. CASE R # 0
      BY <2>2, <1>2, <1>0, <1>a
    <2> QED
      BY <2>1, <2>2
  <1>9. Straight(M2, p, R + M[R + 1].len, W, f + 1, n)
    BY <1>1, <1>5, <1>7, <1>8 DEF Straight
  <1> QED
    BY <1>9 DEF OnePiece

\* ... and so is the rest of the first of two.
LEMMA TwoPiecesRelease ==
  ASSUME NEW M, NEW M2, NEW R, NEW W, NEW f \in Nat, NEW n \in Nat, TwoPieces(M, R, W, f, n),
         f < n, ~M[R + 1].wrap, Released(M, M2, R)
  PROVE  TwoPieces(M2, R + M[R + 1].len, W, f + 1, n) /\ R + 2 <= R + M[R + 1].len
  <1>0. R \in Nat /\ W \in Nat /\ R + 2 <= Size /\ W + 2 <= Size /\ Size \in Nat
    BY LayoutBounds, SizeAssumption DEF Layout
  <1>a. ~M2[R + 1].ready /\ \A x \in 0..Size + 8 : x # R + 1 => M2[x] = M[x]
    BY DEF Released
  <1>1. PICK p, q \in Places, k \in Nat : Wrapped(M, p, q, k, R, W, f, n)
    BY DEF TwoPieces
  <1>2. /\ Chain(M, p, f, k) /\ p[f] = R /\ p[k] + 2 <= Size /\ M[p[k] + 1].wrap
        /\ Chain(M, q, k, n) /\ q[k] = 0 /\ q[n] = W
        /\ W = 0 \/ W + 2 <= R
        /\ M[1].ready => (R = 0 /\ f < k) \/ k < n
    BY <1>1 DEF Wrapped
  <1>3. f < k
    <2>1. f <= k
      BY <1>2, ChainBounds
    <2>2. f # k
      BY <1>2
    <2> QED
      BY <2>1, <2>2
  <1>4. /\ Chain(M, p, f + 1, k) /\ Message(M, p, f)
        /\ p[f] + 2 <= p[f + 1] /\ p[f + 1] <= p[k]
    BY <1>2, <1>3, ChainTail
  <1>5. f + 1 \in Nat /\ p[f + 1] \in Nat /\ p[k] \in Nat
    BY DEF Places
  <1>6. p[f + 1] = R + M[R + 1].len
    BY <1>2, <1>4, <1>5, <1>0 DEF Message
  <1>7. Chain(M2, p, f + 1, k)
    <2>1. \A x \in Nat : p[f + 1] <= x /\ x < p[k] => M2[x] = M[x]
      BY <1>2, <1>4, <1>5, <1>0, <1>a
    <2> QED
      BY <1>4, <1>5, <2>1, ChainFrame
  <1>8. Chain(M2, q, k, n)
    <2>1. \A x \in Nat : q[k] <= x /\ x < q[n] => M2[x] = M[x]
      BY <1>2, <1>0, <1>a
    <2> QED
      BY <1>2, <2>1, ChainFrame
  <1>9. M2[p[k] + 1] = M[p[k] + 1]
    BY <1>2, <1>4, <1>5, <1>0, <1>a
  <1>10. M2[1].ready => k < n
    <2>1. CASE R = 0
      BY <2>1, <1>a
    <2>2. CASE R # 0
      BY <2>2, <1>2, <1>0, <1>a
    <2> QED
      BY <2>1, <2>2
  <1>11. W = 0 \/ W + 2 <= p[f + 1]
    BY <1>2, <1>4, <1>5, <1>0
  <1>12. Wrapped(M2, p, q, k, R + M[R + 1].len, W, f + 1, n)
    BY <1>1, <1>6, <1>7, <1>8, <1>9, <1>10, <1>11 DEF Wrapped
  <1>13. R + 2 <= R + M[R + 1].len
    BY <1>2, <1>4, <1>6
  <1> QED
    BY <1>12, <1>13 DEF TwoPieces

\* A marker at the read index of one piece: there is no message left.
LEMMA OnePieceFollow ==
  ASSUME NEW M, NEW R, NEW W, NEW f \in Nat, NEW n \in Nat, OnePiece(M, R, W, f, n),
         M[R + 1].wrap
  PROVE  f = n /\ R = W
  <1>1. PICK p \in Places : Straight(M, p, R, W, f, n)
    BY DEF OnePiece
  <1>2. Chain(M, p, f, n) /\ p[f] = R /\ p[n] = W
    BY <1>1 DEF Straight
  <1>3. ~(f < n)
    <2> SUFFICES ASSUME f < n
                 PROVE  FALSE
      OBVIOUS
    <2>1. Message(M, p, f)
      BY <1>2, ChainTail
    <2> QED
      BY <2>1, <1>2 DEF Message
  <1>4. f <= n
    BY <1>2, ChainBounds
  <1> QED
    BY <1>2, <1>3, <1>4

\* A marker at the read index of two pieces: the second is all that is left.
LEMMA TwoPiecesFollow ==
  ASSUME NEW M, NEW R, NEW W, NEW f \in Nat, NEW n \in Nat, TwoPieces(M, R, W, f, n),
         M[R + 1].wrap
  PROVE  OnePiece(M, 0, W, f, n)
  <1>0. R \in Nat /\ W \in Nat /\ R + 2 <= Size
    BY LayoutBounds DEF Layout
  <1>1. PICK p, q \in Places, k \in Nat : Wrapped(M, p, q, k, R, W, f, n)
    BY DEF TwoPieces
  <1>2. /\ Chain(M, p, f, k) /\ p[f] = R
        /\ Chain(M, q, k, n) /\ q[k] = 0 /\ q[n] = W
        /\ W = 0 \/ W + 2 <= R
        /\ M[1].ready => (R = 0 /\ f < k) \/ k < n
    BY <1>1 DEF Wrapped
  <1>3. ~(f < k)
    <2> SUFFICES ASSUME f < k
                 PROVE  FALSE
      OBVIOUS
    <2>1. Message(M, p, f)
      BY <1>2, ChainTail
    <2> QED
      BY <2>1, <1>2 DEF Message
  <1>4. f = k
    <2>1. f <= k
      BY <1>2, ChainBounds
    <2> QED
      BY <2>1, <1>3
  <1>5. W + 2 <= Size
    BY <1>2, <1>0, SizeAssumption
  <1>6. Straight(M, q, 0, W, f, n)
    BY <1>2, <1>3, <1>4, <1>5 DEF Straight
  <1> QED
    BY <1>6 DEF OnePiece

\* The oldest message, if there is one and the entry is no marker, is at the read
\* index.
LEMMA LayoutOldest ==
  ASSUME NEW M, NEW R, NEW W, NEW f \in Nat, NEW n \in Nat, Layout(M, R, W, f, n),
         f < n, ~M[R + 1].wrap
  PROVE  AtHead(M, R, f)
  <1>0. R \in Nat /\ W \in Nat
    BY LayoutBounds
  <1>a. ASSUME NEW p \in Places, NEW h \in Nat, Chain(M, p, f, h), p[f] = R, f < h
        PROVE  AtHead(M, R, f)
    <2>1. Message(M, p, f)
      BY <1>a, ChainTail
    <2>2. f + 1 \in Nat /\ p[f + 1] \in Nat
      BY DEF Places
    <2>3. M[R + 1].ready /\ ~M[R + 1].wrap /\ M[R + 1].len = p[f + 1] - R /\ M[R + 1].id = f
          /\ (R + 2 < p[f + 1] => M[R + 2].id = f)
      BY <2>1, <1>a DEF Message
    <2>4. M[R + 1].len > 2 => R + 2 < p[f + 1]
      BY <2>2, <2>3, <1>0
    <2> QED
      BY <2>3, <2>4 DEF AtHead
  <1>1. CASE OnePiece(M, R, W, f, n)
    <2>1. PICK p \in Places : Straight(M, p, R, W, f, n)
      BY <1>1 DEF OnePiece
    <2> QED
      BY <1>a, <2>1 DEF Straight
  <1>2. CASE TwoPieces(M, R, W, f, n)
    <2>1. PICK p, q \in Places, k \in Nat : Wrapped(M, p, q, k, R, W, f, n)
      BY <1>2 DEF TwoPieces
    <2>2. Chain(M, p, f, k) /\ p[f] = R /\ M[p[k] + 1].wrap
      BY <2>1 DEF Wrapped
    <2>3. f <= k
      BY <2>2, ChainBounds
    <2>4. f # k
      BY <2>2
    <2>5. f < k
      BY <2>3, <2>4
    <2> QED
      BY <1>a, <2>2, <2>5
  <1> QED
    BY <1>1, <1>2 DEF Layout

\* An entry that is ready at the read index is a message.
LEMMA LayoutHead ==
  ASSUME NEW M, NEW R, NEW W, NEW f \in Nat, NEW n \in Nat, Layout(M, R, W, f, n),
         EndClear(M, W), M[R + 1].ready, ~M[R + 1].wrap \/ R = 0
  PROVE  f < n /\ ~M[R + 1].wrap
  <1>0. R \in Nat /\ W \in Nat /\ f <= n
    BY LayoutBounds
  <1>1. CASE OnePiece(M, R, W, f, n)
    <2>1. PICK p \in Places : Straight(M, p, R, W, f, n)
      BY <1>1 DEF OnePiece
    <2>2. Chain(M, p, f, n) /\ p[f] = R /\ p[n] = W /\ (M[1].ready => R = 0 /\ f < n)
      BY <2>1 DEF Straight
    <2>3. f # n
      <3> SUFFICES ASSUME f = n
                   PROVE  FALSE
        OBVIOUS
      <3>1. R = W
        BY <2>2
      <3>2. R = 0
        BY <3>1 DEF EndClear
      <3> QED
        BY <3>2, <2>2
    <2>4. f < n
      BY <1>0, <2>3
    <2>5. Message(M, p, f)
      BY <2>2, <2>4, ChainTail
    <2> QED
      BY <2>2, <2>4, <2>5 DEF Message
  <1>2. CASE TwoPieces(M, R, W, f, n)
    <2>1. PICK p, q \in Places, k \in Nat : Wrapped(M, p, q, k, R, W, f, n)
      BY <1>2 DEF TwoPieces
    <2>2. /\ Chain(M, p, f, k) /\ p[f] = R /\ M[p[k] + 1].wrap
          /\ Chain(M, q, k, n) /\ q[k] = 0 /\ q[n] = W
          /\ W = 0 \/ W + 2 <= R
          /\ M[1].ready => (R = 0 /\ f < k) \/ k < n
      BY <2>1 DEF Wrapped
    <2>3. f <= k
      BY <2>2, ChainBounds
    <2>4. k <= n
      BY <2>2, ChainBounds
    <2>5. f # k
      <3> SUFFICES ASSUME f = k
                   PROVE  FALSE
        OBVIOUS
      <3>1. R = 0 /\ W = 0
        BY <2>2, <1>0
      <3>2. k < n
        BY <3>1, <2>2, <2>3
      <3>3. q[k] + 2 <= q[k + 1] /\ q[k + 1] <= q[n]
        BY <3>2, <2>2, ChainTail
      <3>4. k + 1 \in Nat /\ q[k + 1] \in Nat
        BY DEF Places
      <3> QED
        BY <3>1, <3>3, <3>4, <2>2
    <2>6. f < k /\ f < n
      BY <2>3, <2>4, <2>5
    <2>7. Message(M, p, f)
      BY <2>2, <2>6, ChainTail
    <2> QED
      BY <2>2, <2>6, <2>7 DEF Message
  <1> QED
    BY <1>1, <1>2 DEF Layout

\* A message in one piece lies before the write index.
LEMMA OnePieceApart ==
  ASSUME NEW M, NEW R, NEW W, NEW f \in Nat, NEW n \in Nat, OnePiece(M, R, W, f, n), f < n
  PROVE  R + 2 <= W
  <1>1. PICK p \in Places : Straight(M, p, R, W, f, n)
    BY DEF OnePiece
  <1>2. Chain(M, p, f, n) /\ p[f] = R /\ p[n] = W
    BY <1>1 DEF Straight
  <1>3. p[f] + 2 <= p[f + 1] /\ p[f + 1] <= p[n]
    BY <1>2, ChainTail
  <1>4. p[f] \in Nat /\ p[f + 1] \in Nat /\ p[n] \in Nat
    BY DEF Places
  <1> QED
    BY <1>2, <1>3, <1>4

\* Clearing the entry at the write index leaves the layout as it is ...
LEMMA LayoutFrame ==
  ASSUME NEW M, NEW M2, NEW R, NEW W, NEW f \in Nat, NEW n \in Nat, Layout(M, R, W, f, n), W > 0,
         \A x \in 0..Size + 8 : x # W /\ x # W + 1 => M2[x] = M[x],
         M2[1].ready => M[1].ready
  PROVE  Layout(M2, R, W, f, n)
  <1>1. CASE OnePiece(M, R, W, f, n)
    BY <1>1, OnePieceFrame DEF Layout
  <1>2. CASE TwoPieces(M, R, W, f, n)
    <2>1. W + 2 <= R
      BY <1>2 DEF TwoPieces, Wrapped
    <2> QED
      BY <1>2, <2>1, TwoPiecesFrame DEF Layout
  <1> QED
    BY <1>1, <1>2 DEF Layout

\* ... as does a header that is not ready yet, where the message fits.
LEMMA FitsFrame ==
  ASSUME NEW M, NEW M2, NEW R, NEW W, NEW f \in Nat, NEW n \in Nat, NEW c \in Nat,
         Fits(M, R, W, f, n, c),
         \A x \in 0..Size + 8 : x # W /\ x # W + 1 => M2[x] = M[x],
         M2[1].ready => M[1].ready
  PROVE  Fits(M2, R, W, f, n, c)
  <1>1. CASE OnePiece(M, R, W, f, n) /\ W + c + 2 <= Size
    BY <1>1, OnePieceFrame DEF Fits
  <1>2. CASE TwoPieces(M, R, W, f, n) /\ W + c + 2 <= R
    <2>1. R \in Nat /\ W \in Nat
      BY <1>2, LayoutBounds DEF Layout
    <2>2. W + 2 <= R
      BY <1>2, <2>1
    <2> QED
      BY <1>2, <2>2, TwoPiecesFrame DEF Fits
  <1> QED
    BY <1>1, <1>2 DEF Fits

\* A message written where it fits is laid out with the others.
LEMMA FitsAppend ==
  ASSUME NEW M, NEW M2, NEW R, NEW W, NEW f \in Nat, NEW n \in Nat, NEW c,
         Fits(M, R, W, f, n, c), Written(M, M2, W, n, c)
  PROVE  Layout(M2, R, W + c, f, n + 1)
  <1>1. CASE OnePiece(M, R, W, f, n) /\ W + c + 2 <= Size
    BY <1>1, OnePieceAppend DEF Layout
  <1>2. CASE TwoPieces(M, R, W, f, n) /\ W + c + 2 <= R
    BY <1>2, TwoPiecesAppend DEF Layout
  <1> QED
    BY <1>1, <1>2 DEF Fits

\* M2 is M but for the word at x.
Put(M, M2, x, v) ==
  /\ M2 \in Mem /\ M2[x] = v
  /\ \A y \in 0..Size + Beyond : y # x => M2[y] = M[y]

\* Writing a word leaves an array of words.
LEMMA MemWrite ==
  ASSUME NEW M \in Mem, NEW x \in 0..Size + 8, NEW v \in Words
  PROVE  Put(M, [M EXCEPT ![x] = v], x, v)
  <1>1. [M EXCEPT ![x] = v] \in Mem
    BY DEF Mem
  <1>2. [M EXCEPT ![x] = v][x] = v
    BY DEF Mem
  <1>3. \A y \in 0..Size + 8 : y # x => [M EXCEPT ![x] = v][y] = M[y]
    BY DEF Mem
  <1> QED
    BY <1>1, <1>2, <1>3 DEF Put

\* Setting or clearing the ready bit of a word changes nothing else of it.
LEMMA ReadyBit ==
  ASSUME NEW v \in Words, NEW b \in BOOLEAN
  PROVE  /\ [v EXCEPT !.ready = b] \in Words
         /\ [v EXCEPT !.ready = b].ready = b /\ [v EXCEPT !.ready = b].wrap = v.wrap
         /\ [v EXCEPT !.ready = b].len = v.len /\ [v EXCEPT !.ready = b].id = v.id
  BY DEF Words

\* The words that the writer puts into the FIFO.
LEMMA WordsOK ==
  /\ Zero \in Words /\ Marker \in Words
  /\ ~Zero.ready /\ ~Zero.wrap /\ ~Marker.ready /\ Marker.wrap
  BY DEF Zero, Marker, Words

-----------------------------------------------------------------------------
(* What each step of the reader does to the layout the writer relies on    *)

\* Both indices are inside the FIFO, with room for a header.
LEMMA PhaseBounds ==
  ASSUME NEW pc, NEW M, NEW R, NEW W, NEW f \in Nat, NEW n \in Nat, NEW c,
         Phase(pc, M, R, W, f, n, c)
  PROVE  R \in Nat /\ W \in Nat /\ R + 2 <= Size /\ W + 2 <= Size /\ f <= n
  <1>1. CASE Layout(M, R, W, f, n)
    BY <1>1, LayoutBounds
  <1>2. CASE R = 0 /\ f = n /\ W \in Nat /\ W + 2 <= Size
    BY <1>2, SizeAssumption
  <1> QED
    BY <1>1, <1>2 DEF Phase, Turning, Layout

\* A message and the entry that the writer writes are apart.
LEMMA PhaseApart ==
  ASSUME NEW pc, NEW M, NEW R, NEW W, NEW f \in Nat, NEW n \in Nat, NEW c,
         Phase(pc, M, R, W, f, n, c), f < n
  PROVE  /\ pc = "mark" => R + 2 <= W
         /\ pc \in {"header", "body"} => R + 2 <= W \/ W + c + 2 <= R
         /\ pc # "wrap" /\ W > 0 => R + 2 <= W \/ W + 2 <= R
  <1>1. OnePiece(M, R, W, f, n) => R + 2 <= W
    BY OnePieceApart
  <1>2. TwoPieces(M, R, W, f, n) => W = 0 \/ W + 2 <= R
    BY DEF TwoPieces, Wrapped
  <1>3. R \in Nat /\ W \in Nat
    BY PhaseBounds
  <1> QED
    BY <1>1, <1>2, <1>3 DEF Phase, Fits, Layout

\* The oldest message, if the entry is no marker, is at the read index.
LEMMA PhaseOldest ==
  ASSUME NEW pc, NEW M, NEW R, NEW W, NEW f \in Nat, NEW n \in Nat, NEW c,
         Phase(pc, M, R, W, f, n, c), f < n, ~M[R + 1].wrap
  PROVE  AtHead(M, R, f)
  <1>1. Layout(M, R, W, f, n)
    BY DEF Phase, Turning, Layout
  <1> QED
    BY <1>1, LayoutOldest

\* An entry that is ready at the read index is a message.
LEMMA PhaseHead ==
  ASSUME NEW pc, NEW M, NEW R, NEW W, NEW f \in Nat, NEW n \in Nat, NEW c,
         Phase(pc, M, R, W, f, n, c), M[R + 1].ready, ~M[R + 1].wrap \/ R = 0
  PROVE  f < n /\ ~M[R + 1].wrap
  <1>1. CASE pc # "wrap"
    BY <1>1, LayoutHead DEF Phase
  <1>2. CASE OnePiece(M, R, W, f, n) /\ M[W + 1].wrap
    <2>1. PICK p \in Places : Straight(M, p, R, W, f, n)
      BY <1>2 DEF OnePiece
    <2>2. M[1].ready => f < n
      BY <2>1 DEF Straight
    <2>3. CASE M[R + 1].wrap
      <3>1. f = n /\ R = 0
        BY <1>2, <2>3, OnePieceFollow
      <3> QED
        BY <3>1, <2>2
    <2>4. CASE ~M[R + 1].wrap
      <3>1. f # n
        <4> SUFFICES ASSUME f = n
                     PROVE  FALSE
          OBVIOUS
        <4>1. R = W
          BY <2>1 DEF Straight
        <4> QED
          BY <4>1, <1>2, <2>4
      <3>2. f <= n
        BY <1>2, LayoutBounds DEF Layout
      <3> QED
        BY <3>1, <3>2, <2>4
    <2> QED
      BY <2>3, <2>4
  <1>3. CASE R = 0 /\ f = n /\ OnePiece(M, 0, 0, n, n)
    <2>1. M[1].ready => n < n
      BY <1>3 DEF OnePiece, Straight
    <2> QED
      BY <1>3, <2>1
  <1> QED
    BY <1>1, <1>2, <1>3 DEF Phase, Turning

\* The reader follows a marker to the start.
LEMMA PhaseFollow ==
  ASSUME NEW pc, NEW M, NEW R, NEW W, NEW f \in Nat, NEW n \in Nat, NEW c \in Nat,
         Phase(pc, M, R, W, f, n, c), M[R + 1].wrap
  PROVE  Phase(pc, M, 0, W, f, n, c)
  <1>0. R \in Nat /\ W \in Nat /\ R + 2 <= Size /\ W + 2 <= Size /\ Size \in Nat
    BY PhaseBounds, SizeAssumption
  <1>1. CASE pc # "wrap"
    <2>1. Layout(M, R, W, f, n) /\ EndClear(M, W)
      BY <1>1 DEF Phase
    <2>2. OnePiece(M, R, W, f, n) => R = 0
      <3> SUFFICES ASSUME OnePiece(M, R, W, f, n)
                   PROVE  R = 0
        OBVIOUS
      <3>1. R = W
        BY OnePieceFollow
      <3> QED
        BY <3>1, <2>1 DEF EndClear
    <2>3. TwoPieces(M, R, W, f, n) => OnePiece(M, 0, W, f, n)
      BY TwoPiecesFollow
    <2>4. Layout(M, 0, W, f, n)
      BY <2>1, <2>2, <2>3 DEF Layout
    <2>5. pc = "mark" => OnePiece(M, 0, W, f, n)
      BY <2>2 DEF Phase
    <2>6. Fits(M, R, W, f, n, c) => Fits(M, 0, W, f, n, c)
      <3>1. CASE OnePiece(M, R, W, f, n) /\ W + c + 2 <= Size
        BY <3>1, <2>2 DEF Fits
      <3>2. CASE TwoPieces(M, R, W, f, n) /\ W + c + 2 <= R
        <4>1. W + c + 2 <= Size
          BY <3>2, <1>0
        <4> QED
          BY <3>2, <4>1, <2>3 DEF Fits
      <3> QED
        BY <3>1, <3>2 DEF Fits
    <2> QED
      BY <1>1, <2>1, <2>4, <2>5, <2>6 DEF Phase
  <1>2. CASE pc = "wrap" /\ OnePiece(M, R, W, f, n)
    <2>1. f = n
      BY <1>2, OnePieceFollow
    <2>2. OnePiece(M, 0, 0, n, n)
      BY <1>2, <2>1, LayoutReset DEF Layout
    <2> QED
      BY <1>0, <1>2, <2>1, <2>2 DEF Phase, Turning
  <1>3. CASE pc = "wrap" /\ R = 0
    BY <1>3
  <1> QED
    BY <1>1, <1>2, <1>3 DEF Phase, Turning

\* The reader releases the oldest message.
LEMMA PhaseRelease ==
  ASSUME NEW pc, NEW M, NEW M2, NEW R, NEW W, NEW f \in Nat, NEW n \in Nat, NEW c \in Nat,
         Phase(pc, M, R, W, f, n, c), f < n, ~M[R + 1].wrap, Released(M, M2, R)
  PROVE  Phase(pc, M2, R + M[R + 1].len, W, f + 1, n, c)
  <1> DEFINE R2 == R + M[R + 1].len
  <1>0. R \in Nat /\ W \in Nat /\ R + 2 <= Size /\ W + 2 <= Size /\ Size \in Nat
    BY PhaseBounds, SizeAssumption
  <1>1. OnePiece(M, R, W, f, n) => OnePiece(M2, R2, W, f + 1, n)
    BY OnePieceRelease
  <1>2. TwoPieces(M, R, W, f, n) => TwoPieces(M2, R2, W, f + 1, n) /\ R + 2 <= R2
    BY TwoPiecesRelease
  <1>3. TwoPieces(M, R, W, f, n) => R2 \in Nat
    <2>1. TwoPieces(M2, R2, W, f + 1, n) /\ f + 1 \in Nat => R2 \in Nat
      BY LayoutBounds DEF Layout
    <2> QED
      BY <1>2, <2>1
  <1> HIDE DEF R2
  <1>4. EndClear(M, W) => EndClear(M2, W)
    <2>1. CASE W = R
      BY <2>1 DEF EndClear, Released
    <2>2. CASE W # R
      <3>1. W + 1 # R + 1 /\ W + 1 \in 0..Size + 8
        BY <2>2, <1>0
      <3>2. M2[W + 1] = M[W + 1]
        BY <3>1 DEF Released
      <3> QED
        BY <3>2 DEF EndClear
    <2> QED
      BY <2>1, <2>2
  <1>5. M[W + 1].wrap => M2[W + 1].wrap
    <2>1. CASE W = R
      BY <2>1
    <2>2. CASE W # R
      <3>1. W + 1 # R + 1 /\ W + 1 \in 0..Size + 8
        BY <2>2, <1>0
      <3> QED
        BY <3>1 DEF Released
    <2> QED
      BY <2>1, <2>2
  <1>6. Fits(M, R, W, f, n, c) => Fits(M2, R2, W, f + 1, n, c)
    <2>1. CASE OnePiece(M, R, W, f, n) /\ W + c + 2 <= Size
      BY <2>1, <1>1 DEF Fits
    <2>2. CASE TwoPieces(M, R, W, f, n) /\ W + c + 2 <= R
      <3>1. W + c + 2 <= R2
        BY <2>2, <1>0, <1>2, <1>3
      <3> QED
        BY <2>2, <3>1, <1>2 DEF Fits
    <2> QED
      BY <2>1, <2>2 DEF Fits
  <1>7. Layout(M, R, W, f, n) => Layout(M2, R2, W, f + 1, n)
    BY <1>1, <1>2 DEF Layout
  <1>8. Turning(M, R, W, f, n) => Turning(M2, R2, W, f + 1, n)
    BY <1>1, <1>5 DEF Turning
  <1>9. Phase(pc, M2, R2, W, f + 1, n, c)
    BY <1>1, <1>4, <1>6, <1>7, <1>8 DEF Phase
  <1> QED
    BY <1>9 DEF R2

-----------------------------------------------------------------------------
(* The words as they would be                                              *)

\* Setting the ready bit again changes nothing else.
LEMMA RestoredWords ==
  ASSUME NEW M \in Mem, NEW R \in Nat, R + 2 <= Size, NEW b \in BOOLEAN
  PROVE  /\ Restored(M, R, b) \in Mem
         /\ \A x \in 0..Size + 8 : x # R + 1 => Restored(M, R, b)[x] = M[x]
         /\ ~b => Restored(M, R, b) = M
         /\ Restored(M, R, b)[R + 1].wrap = M[R + 1].wrap
         /\ Restored(M, R, b)[R + 1].len = M[R + 1].len
         /\ b => Restored(M, R, b)[R + 1] = [M[R + 1] EXCEPT !.ready = TRUE]
  <1>1. CASE ~b
    BY <1>1 DEF Restored
  <1>2. CASE b
    <2> DEFINE v == [M[R + 1] EXCEPT !.ready = TRUE]
    <2>1. R + 1 \in 0..Size + 8
      BY SizeAssumption
    <2>2. M[R + 1] \in Words
      BY <2>1 DEF Mem
    <2>3. v \in Words /\ v.wrap = M[R + 1].wrap /\ v.len = M[R + 1].len
      BY <2>2, ReadyBit
    <2>4. Restored(M, R, b) = [M EXCEPT ![R + 1] = v]
      BY <1>2 DEF Restored
    <2> HIDE DEF v
    <2>5. Put(M, [M EXCEPT ![R + 1] = v], R + 1, v)
      BY <2>1, <2>3, MemWrite
    <2>6. Put(M, Restored(M, R, b), R + 1, v)
      BY <2>4, <2>5
    <2> QED
      BY <1>2, <2>3, <2>6 DEF Put, v
  <1> QED
    BY <1>1, <1>2

\* Clearing an entry changes nothing else.
LEMMA ClearedWords ==
  ASSUME NEW M \in Mem, NEW W \in Nat, W + 2 <= Size, NEW b \in BOOLEAN
  PROVE  /\ Cleared(M, W, b) \in Mem
         /\ \A x \in 0..Size + 8 : x # W + 1 => Cleared(M, W, b)[x] = M[x]
         /\ ~b => Cleared(M, W, b) = M
         /\ b => Cleared(M, W, b)[W + 1] = Zero
  <1>1. CASE ~b
    BY <1>1 DEF Cleared
  <1>2. CASE b
    <2>1. W + 1 \in 0..Size + 8
      BY SizeAssumption
    <2>2. Put(M, [M EXCEPT ![W + 1] = Zero], W + 1, Zero)
      BY <2>1, WordsOK, MemWrite
    <2>3. Cleared(M, W, b) = [M EXCEPT ![W + 1] = Zero]
      BY <1>2 DEF Cleared
    <2>4. Put(M, Cleared(M, W, b), W + 1, Zero)
      BY <2>2, <2>3
    <2> QED
      BY <1>2, <2>4 DEF Put
  <1> QED
    BY <1>1, <1>2

\* Whatever the cores are doing, both indices leave room for a header.
LEMMA Inside ==
  ASSUME ChannelInv
  PROVE  /\ r \in Nat /\ w \in Nat /\ End \in Nat /\ out.len \in Nat /\ Size \in Nat
         /\ r + 2 <= Size /\ End + 2 <= Size /\ w <= End /\ w + 2 <= Size
         /\ Len(got) \in Nat /\ Oldest \in Nat /\ Free \in Nat /\ Oldest <= Free
         /\ mem \in Mem /\ Pending \in BOOLEAN /\ Marked \in BOOLEAN
  <1>1. /\ mem \in Mem /\ w \in Nat /\ out.len \in Nat /\ Len(got) \in Nat /\ Len(sent) \in Nat
        /\ Size \in Nat
    BY SizeAssumption DEF ChannelInv, Types
  <1>2. Oldest \in Nat /\ Free \in Nat /\ End \in Nat /\ w <= End
    BY <1>1 DEF Oldest, Free, End
  <1>3. Phase(wpc, Ideal, r, End, Oldest, Free, out.len)
    BY DEF ChannelInv, Unread
  <1>4. r \in Nat /\ r + 2 <= Size /\ End + 2 <= Size /\ Oldest <= Free
    BY <1>2, <1>3, PhaseBounds
  <1>5. w + 2 <= Size
    BY <1>1, <1>2, <1>4
  <1> QED
    BY <1>1, <1>2, <1>4, <1>5 DEF Pending, Marked

\* The words of the FIFO that are as they would be.
LEMMA SeenWords ==
  ASSUME ChannelInv
  PROVE  /\ Seen \in Mem
         /\ \A x \in 0..Size + 8 : x # r + 1 => Seen[x] = mem[x]
         /\ ~Pending => Seen = mem
         /\ Seen[r + 1].wrap = mem[r + 1].wrap /\ Seen[r + 1].len = mem[r + 1].len
  <1>1. mem \in Mem /\ r \in Nat /\ r + 2 <= Size /\ Pending \in BOOLEAN
    BY Inside
  <1> QED
    BY <1>1, RestoredWords DEF Seen

\* Likewise, with the end of the messages cleared.
LEMMA IdealWords ==
  ASSUME ChannelInv
  PROVE  /\ Ideal \in Mem
         /\ \A x \in 0..Size + 8 : x # End + 1 => Ideal[x] = Seen[x]
         /\ ~Marked => Ideal = Seen
         /\ Marked => Ideal[End + 1] = Zero
  BY Inside, SeenWords, ClearedWords DEF Ideal

\* A message at the read index is apart from the entry that the writer writes.
LEMMA FoundApart ==
  ASSUME ChannelInv, Oldest < Free
  PROVE  /\ wpc = "mark" => r + 2 <= w
         /\ wpc \in {"header", "body"} => r + 2 <= w \/ w + out.len + 2 <= r
         /\ Marked => r + 2 <= End \/ End + 2 <= r
         /\ Ideal[r + 1] = Seen[r + 1]
  <1>1. Phase(wpc, Ideal, r, End, Oldest, Free, out.len)
    BY DEF ChannelInv, Unread
  <1>2. /\ wpc = "mark" => r + 2 <= End
        /\ wpc \in {"header", "body"} => r + 2 <= End \/ End + out.len + 2 <= r
        /\ wpc # "wrap" /\ End > 0 => r + 2 <= End \/ End + 2 <= r
    BY <1>1, Inside, PhaseApart
  <1>3. wpc # "advance" => End = w
    BY DEF End
  <1>4. wpc \in {"advance", "clear"} => End > 0
    BY DEF ChannelInv, WriterInv
  <1>5. Marked => r + 2 <= End \/ End + 2 <= r
    BY <1>2, <1>4, Inside DEF Marked
  <1>6. Ideal[r + 1] = Seen[r + 1]
    <2>1. CASE Marked
      <3>0. r \in Nat /\ End \in Nat /\ Size \in Nat /\ r + 2 <= Size
        BY Inside
      <3>1. r + 1 # End + 1 /\ r + 1 \in 0..Size + 8
        BY <2>1, <3>0, <1>5
      <3> QED
        BY <3>1, IdealWords
    <2>2. CASE ~Marked
      BY <2>2, IdealWords
    <2> QED
      BY <2>1, <2>2
  <1> QED
    BY <1>2, <1>3, <1>5, <1>6

\* The reader sees the message that is there.
LEMMA FoundHead ==
  ASSUME ChannelInv, Found
  PROVE  /\ AtHead(Ideal, r, Oldest)
         /\ Ideal[r + 1].len = mem[r + 1].len /\ ~mem[r + 1].wrap
         /\ ~Pending => AtHead(mem, r, Oldest)
  <1>1. AtHead(Ideal, r, Oldest)
    <2>1. Phase(wpc, Ideal, r, End, Oldest, Free, out.len) /\ Oldest < Free /\ ~Ideal[r + 1].wrap
      BY DEF ChannelInv, Unread, Found
    <2> QED
      BY <2>1, Inside, PhaseOldest
  <1>2. Ideal[r + 1] = Seen[r + 1]
    BY FoundApart DEF Found
  <1>3. Ideal[r + 1].len = mem[r + 1].len /\ ~mem[r + 1].wrap
    BY <1>2, SeenWords DEF Found
  <1>4. ASSUME ~Pending
        PROVE  AtHead(mem, r, Oldest)
    <2>1. Seen = mem
      BY <1>4, SeenWords
    <2>2. Ideal[r + 2] = mem[r + 2]
      <3>1. r + 2 \in 0..Size + 8
        BY Inside
      <3>2. CASE Marked
        <4>1. r + 2 # End + 1
          BY <3>2, FoundApart, Inside DEF Found
        <4> QED
          BY <3>1, <4>1, <2>1, IdealWords
      <3>3. CASE ~Marked
        BY <3>3, <2>1, IdealWords
      <3> QED
        BY <3>2, <3>3
    <2> QED
      BY <1>1, <1>2, <2>1, <2>2 DEF AtHead
  <1> QED
    BY <1>1, <1>3, <1>4

\* A message that is being written is ready for the reader, at the write index.
LEMMA UnfinishedHead ==
  ASSUME ChannelInv, Unfinished
  PROVE  mem[r + 1].ready /\ ~mem[r + 1].wrap /\ ~Taken
  <1>1. mem[r + 1].ready /\ ~mem[r + 1].wrap
    BY DEF ChannelInv, WriterInv, Unfinished
  <1>2. ~(Oldest < Free)
    BY FoundApart, Inside DEF Unfinished
  <1> QED
    BY <1>1, <1>2 DEF ChannelInv, ReaderInv, Found

-----------------------------------------------------------------------------
(* The writer's steps                                                      *)

\* What is left to show of a step of the writer: what the reader found is still
\* there.
LEMMA WriterRest ==
  ASSUME ChannelInv, UNCHANGED <<r, rpc, in, got>>,
         Types', Histories', Sending', Unread', WriterInv',
         Free' \in Nat, Free <= Free',
         Oldest < Free => Ideal'[r + 1] = Ideal[r + 1] /\ mem'[r + 1] = mem[r + 1],
         Unfinished => Unfinished' \/ Found'
  PROVE  ChannelInv'
  <1>1. Oldest' = Oldest /\ (Taken' <=> Taken) /\ (Pending' <=> Pending)
    BY DEF Oldest, Taken, Pending
  <1>2. Found => Found'
    <2>1. Oldest < Free => Oldest' < Free'
      BY <1>1, Inside
    <2> QED
      BY <2>1 DEF Found
  <1>3. Taken => Found /\ in = Ideal[r + 1].len
    BY DEF ChannelInv, ReaderInv
  <1>4. Taken' => Found' /\ in' = Ideal'[r' + 1].len
    BY <1>1, <1>2, <1>3 DEF Found
  <1>5. Pending' => ~mem'[r' + 1].ready
    BY <1>1, <1>3 DEF ChannelInv, ReaderInv, Pending, Taken, Found
  <1>6. rpc' \in {"read", "fetch", "rcv"} => Found' \/ Unfinished'
    BY <1>2 DEF ChannelInv, ReaderInv
  <1>7. rpc' = "poll0" => r' = 0
    BY DEF ChannelInv, ReaderInv
  <1>8. ReaderInv'
    BY <1>4, <1>5, <1>6, <1>7 DEF ReaderInv
  <1> QED
    BY <1>8 DEF ChannelInv

\* The steps that only look.
LEMMA LookingRest ==
  ASSUME ChannelInv, UNCHANGED <<mem, r, w, rpc, in, got, sent>>, ~Marked, wpc' \in WPc,
         wpc' \notin {"body", "advance", "clear"},
         out' \in [id : Nat, len : Nat, bits : [ready : BOOLEAN, wrap : BOOLEAN, len : Nat]],
         Sending', Phase(wpc', Ideal, r, w, Oldest, Free, out'.len),
         wpc' = "compare" => ~mem[w + 1].ready, wpc' = "start" => w = 0
  PROVE  ChannelInv'
  <1>1. Oldest' = Oldest /\ Free' = Free /\ Seen' = Seen
    BY DEF Oldest, Taken, Free, Seen, Pending
  <1>2. ~Marked' /\ End' = w
    BY DEF Marked, End
  <1>3. Ideal' = Ideal
    BY <1>1, <1>2 DEF Ideal, Cleared
  <1>4. Unread'
    BY <1>1, <1>2, <1>3 DEF Unread
  <1>5. Types' /\ Histories'
    BY DEF ChannelInv, Types, Histories
  <1>6. WriterInv'
    BY DEF WriterInv
  <1>7. ~Unfinished
    BY DEF Unfinished, Marked
  <1> QED
    BY <1>1, <1>3, <1>4, <1>5, <1>6, <1>7, Inside, WriterRest

\* The layout, where the writer is neither writing a message nor turning.
LEMMA Resting ==
  ASSUME ChannelInv, ~Marked, wpc # "wrap"
  PROVE  Layout(Ideal, r, w, Oldest, Free) /\ EndClear(Ideal, w) /\ Ideal = Seen
  <1>1. End = w
    BY DEF End, Marked
  <1> QED
    BY <1>1, IdealWords DEF ChannelInv, Unread, Phase

\* A message is taken for sending.
LEMMA SendStep ==
  ASSUME ChannelInv, Send
  PROVE  ChannelInv'
  <1>1. wpc = "idle" /\ wpc' = "entry" /\ Len(sent) < MaxMsgs /\ Len(sent) \in Nat
    BY DEF ChannelInv, Types, Send, GotoW
  <1>2. UNCHANGED <<mem, r, w, rpc, in, sent, got>> /\ ~Marked
    BY <1>1 DEF Send, readerVars, Marked
  <1>3. PICK n \in Lens, b \in BodyBits : out' = [id |-> Len(sent) + 1, len |-> n, bits |-> b]
    BY DEF Send
  <1>4. n \in Nat /\ b \in [ready : BOOLEAN, wrap : BOOLEAN, len : Nat]
    BY LensAssumption, BitsAssumption
  <1>5. out' \in [id : Nat, len : Nat, bits : [ready : BOOLEAN, wrap : BOOLEAN, len : Nat]]
    BY <1>1, <1>3, <1>4
  <1>6. Sending'
    BY <1>1, <1>2, <1>3, MaxMsgsAssumption DEF Sending, Free
  <1>7. Phase("entry", Ideal, r, w, Oldest, Free, out'.len)
    BY <1>1, <1>2, Resting DEF Phase
  <1> QED
    BY <1>1, <1>2, <1>5, <1>6, <1>7, LookingRest DEF WPc

\* The entry at the write index is tested.
LEMMA EntryStep ==
  ASSUME ChannelInv, Entry
  PROVE  ChannelInv'
  <1>1. /\ wpc = "entry" /\ UNCHANGED <<mem, r, w, out, rpc, in, sent, got>> /\ ~Marked
        /\ wpc' = "idle" \/ (wpc' = "compare" /\ ~mem[w + 1].ready)
    BY DEF Entry, GotoW, readerVars, Marked, Ready, Val1
  <1>2. Phase(wpc', Ideal, r, w, Oldest, Free, out'.len)
    BY <1>1, Resting DEF Phase
  <1>3. Sending'
    BY <1>1 DEF ChannelInv, Sending, Free
  <1> QED
    BY <1>1, <1>2, <1>3, LookingRest DEF WPc, ChannelInv, Types

\* The side of the read index decides the layout, unless the reader is between
\* the two halves of a release there.
LEMMA CompareStep ==
  ASSUME ChannelInv, Compare, ~race'
  PROVE  ChannelInv'
  <1>1. /\ wpc = "compare" /\ UNCHANGED <<mem, r, w, out, rpc, in, sent, got>> /\ ~Marked
        /\ \/ w < r /\ wpc' = "room"
           \/ w >= r /\ wpc' = "mark"
           \/ w >= r /\ w + out.len + 2 < Size /\ wpc' = "header"
    BY DEF Compare, GotoW, readerVars, Marked
  <1>2. Layout(Ideal, r, w, Oldest, Free) /\ EndClear(Ideal, w) /\ Ideal = Seen
    BY <1>1, Resting
  <1>3. ~mem[w + 1].ready
    BY <1>1 DEF ChannelInv, WriterInv
  <1>4. ~(r = w /\ Pending)
    BY DEF Compare, Note, HalfReleased, Pending
  <1>5. ~Seen[w + 1].ready
    <2>1. CASE Pending
      <3>1. w + 1 # r + 1 /\ w + 1 \in 0..Size + 8
        BY <2>1, <1>4, Inside
      <3> QED
        BY <3>1, <1>3, SeenWords
    <2>2. CASE ~Pending
      BY <2>2, <1>3, SeenWords
    <2> QED
      BY <2>1, <2>2
  <1>6. w >= r => OnePiece(Ideal, r, w, Oldest, Free)
    BY <1>2, <1>5, Inside, LayoutAbove
  <1>7. w >= r /\ w + out.len + 2 < Size => Fits(Ideal, r, w, Oldest, Free, out.len)
    BY <1>6, Inside DEF Fits
  <1>8. Phase(wpc', Ideal, r, w, Oldest, Free, out'.len)
    BY <1>1, <1>2, <1>6, <1>7 DEF Phase
  <1>9. Sending'
    BY <1>1 DEF ChannelInv, Sending, Free
  <1> QED
    BY <1>1, <1>8, <1>9, LookingRest DEF WPc, ChannelInv, Types

\* A message that fits below the read index goes there.
LEMMA RoomStep ==
  ASSUME ChannelInv, Room
  PROVE  ChannelInv'
  <1>1. /\ wpc = "room" /\ UNCHANGED <<mem, r, w, out, rpc, in, sent, got>> /\ ~Marked
        /\ wpc' = "idle" \/ (wpc' = "header" /\ w + out.len + 2 <= r)
    BY DEF Room, GotoW, readerVars, Marked
  <1>2. Layout(Ideal, r, w, Oldest, Free) /\ EndClear(Ideal, w)
    BY <1>1, Resting
  <1>3. w + out.len + 2 <= r => Fits(Ideal, r, w, Oldest, Free, out.len)
    <2>1. w + out.len + 2 <= r => w < r
      BY Inside
    <2> QED
      BY <2>1, <1>2, Inside, LayoutBelow DEF Fits
  <1>4. Phase(wpc', Ideal, r, w, Oldest, Free, out'.len)
    BY <1>1, <1>2, <1>3 DEF Phase
  <1>5. Sending'
    BY <1>1 DEF ChannelInv, Sending, Free
  <1> QED
    BY <1>1, <1>4, <1>5, LookingRest DEF WPc, ChannelInv, Types

\* The entry at the start is tested.
LEMMA StartStep ==
  ASSUME ChannelInv, Start
  PROVE  ChannelInv'
  <1>1. /\ wpc = "start" /\ UNCHANGED <<mem, r, w, out, rpc, in, sent, got>> /\ ~Marked
        /\ wpc' = "idle" \/ wpc' = "room"
    BY DEF Start, GotoW, readerVars, Marked
  <1>2. Phase(wpc', Ideal, r, w, Oldest, Free, out'.len)
    BY <1>1, Resting DEF Phase
  <1>3. Sending'
    BY <1>1 DEF ChannelInv, Sending, Free
  <1> QED
    BY <1>1, <1>2, <1>3, LookingRest DEF WPc, ChannelInv, Types

\* The interrupt is raised.
LEMMA RaiseStep ==
  ASSUME ChannelInv, Raise
  PROVE  ChannelInv'
  <1>1. /\ wpc = "raise" /\ UNCHANGED <<mem, r, w, out, rpc, in, sent, got>> /\ ~Marked
        /\ wpc' = "idle"
    BY DEF Raise, GotoW, readerVars, Marked
  <1>2. Phase(wpc', Ideal, r, w, Oldest, Free, out'.len)
    BY <1>1, Resting DEF Phase
  <1>3. Sending'
    BY <1>1 DEF Sending
  <1> QED
    BY <1>1, <1>2, <1>3, LookingRest DEF WPc, ChannelInv, Types

\* The write index jumps to the start, behind the marker, whether or not the
\* reader has done so already.
LEMMA WrapStep ==
  ASSUME ChannelInv, Wrap
  PROVE  ChannelInv'
  <1>1. /\ wpc = "wrap" /\ wpc' = "start" /\ w' = 0
        /\ UNCHANGED <<mem, r, out, rpc, in, sent, got>>
    BY DEF Wrap, GotoW, readerVars
  <1>2. Oldest' = Oldest /\ Free' = Free /\ Seen' = Seen
    BY <1>1 DEF Oldest, Taken, Free, Seen, Pending
  <1>3. ~Marked /\ ~Marked' /\ End = w /\ End' = 0
    BY <1>1 DEF Marked, End
  <1>4. Ideal' = Ideal
    BY <1>2, <1>3 DEF Ideal, Cleared
  <1>5. Turning(Ideal, r, w, Oldest, Free)
    BY <1>1, <1>3 DEF ChannelInv, Unread, Phase
  <1>6. Layout(Ideal, r, 0, Oldest, Free)
    <2>1. CASE OnePiece(Ideal, r, w, Oldest, Free) /\ Ideal[w + 1].wrap
      BY <2>1, Inside, LayoutWrap DEF Layout
    <2>2. CASE r = 0 /\ Oldest = Free /\ OnePiece(Ideal, 0, 0, Free, Free)
      BY <2>2 DEF Layout
    <2> QED
      BY <1>5, <2>1, <2>2 DEF Turning
  <1>7. Unread'
    BY <1>1, <1>2, <1>3, <1>4, <1>6 DEF Unread, Phase, EndClear
  <1>8. Types' /\ Histories' /\ Sending'
    BY <1>1, <1>2 DEF ChannelInv, Types, Histories, Sending, WPc
  <1>9. WriterInv'
    BY <1>1 DEF WriterInv
  <1>10. ~Unfinished
    BY <1>1 DEF Unfinished
  <1> QED
    BY <1>1, <1>2, <1>4, <1>7, <1>8, <1>9, <1>10, Inside, WriterRest

\* The write index moves behind the message.
LEMMA AdvanceStep ==
  ASSUME ChannelInv, Advance
  PROVE  ChannelInv'
  <1>1. /\ wpc = "advance" /\ wpc' = "clear" /\ w' = w + out.len
        /\ UNCHANGED <<mem, r, out, rpc, in, sent, got>>
    BY DEF Advance, GotoW, readerVars
  <1>2. Oldest' = Oldest /\ Free' = Free /\ Seen' = Seen
    BY <1>1 DEF Oldest, Taken, Free, Seen, Pending
  <1>3. Marked /\ Marked' /\ End' = End /\ w' \in Nat
    BY <1>1, Inside DEF Marked, End
  <1>4. Ideal' = Ideal
    BY <1>2, <1>3 DEF Ideal, Cleared
  <1>5. Unread'
    BY <1>1, <1>2, <1>3, <1>4 DEF ChannelInv, Unread, Phase
  <1>6. Types' /\ Histories' /\ Sending'
    BY <1>1, <1>2, <1>3 DEF ChannelInv, Types, Histories, Sending, WPc
  <1>7. WriterInv'
    BY <1>1, <1>3 DEF ChannelInv, WriterInv
  <1>8. ~Unfinished
    BY <1>1 DEF Unfinished
  <1> QED
    BY <1>1, <1>2, <1>4, <1>5, <1>6, <1>7, <1>8, Inside, WriterRest

\* Words before and behind a message are not in its body.
LEMMA Outside ==
  ASSUME NEW x \in Nat, NEW W \in Nat, NEW c \in Nat, c >= 2, x < W \/ x >= W + c
  PROVE  x \notin W + 2..W + c - 1 /\ x # W + 1
  OBVIOUS

\* A word that the writer puts elsewhere than where the reader is clearing a
\* ready bit is seen as it is; the others are seen as before.
LEMMA SeenWrite ==
  ASSUME ChannelInv, mem' \in Mem, UNCHANGED <<r, rpc>>,
         Oldest < Free => mem'[r + 1] = mem[r + 1]
  PROVE  /\ Seen' \in Mem
         /\ \A x \in 0..Size + 8 : mem'[x] = mem[x] => Seen'[x] = Seen[x]
         /\ \A x \in 0..Size + 8 : x # r + 1 \/ Free <= Oldest =>
              Seen'[x] = mem'[x] /\ Seen[x] = mem[x]
  <1>1. /\ r \in Nat /\ r + 2 <= Size /\ mem \in Mem /\ Pending \in BOOLEAN
        /\ Oldest \in Nat /\ Free \in Nat
    BY Inside
  <1>2. Pending => Oldest < Free
    BY DEF ChannelInv, ReaderInv, Pending, Taken, Found
  <1>3. Seen' = Restored(mem', r, Pending) /\ Seen = Restored(mem, r, Pending)
    BY DEF Seen, Pending
  <1>4. /\ Seen' \in Mem
        /\ \A x \in 0..Size + 8 : x # r + 1 => Seen'[x] = mem'[x] /\ Seen[x] = mem[x]
        /\ ~Pending => Seen' = mem' /\ Seen = mem
        /\ Pending => /\ Seen'[r + 1] = [mem'[r + 1] EXCEPT !.ready = TRUE]
                      /\ Seen[r + 1] = [mem[r + 1] EXCEPT !.ready = TRUE]
    BY <1>1, <1>3, RestoredWords
  <1>5. CASE Pending
    <2>1. mem'[r + 1] = mem[r + 1] /\ Oldest < Free
      BY <1>2, <1>5
    <2>2. Seen'[r + 1] = Seen[r + 1]
      BY <1>4, <1>5, <2>1
    <2>3. ~(Free <= Oldest)
      BY <1>1, <2>1
    <2>4. ASSUME NEW x \in 0..Size + 8, mem'[x] = mem[x]
          PROVE  Seen'[x] = Seen[x]
      <3>1. CASE x = r + 1
        BY <2>2, <3>1
      <3>2. CASE x # r + 1
        BY <1>4, <2>4, <3>2
      <3> QED
        BY <3>1, <3>2
    <2> QED
      BY <1>4, <2>3, <2>4
  <1>6. CASE ~Pending
    BY <1>4, <1>6
  <1> QED
    BY <1>4, <1>5, <1>6

\* The wrap marker is written at the end of the one piece.
LEMMA MarkStep ==
  ASSUME ChannelInv, Mark
  PROVE  ChannelInv'
  <1>1. /\ wpc = "mark" /\ wpc' = "wrap" /\ UNCHANGED <<r, w, out, rpc, in, sent, got>>
        /\ ~Marked /\ ~Marked' /\ End = w /\ End' = w
    BY DEF Mark, GotoW, readerVars, Marked, End
  <1>2. OnePiece(Seen, r, w, Oldest, Free) /\ Ideal = Seen
    BY <1>1, IdealWords DEF ChannelInv, Unread, Phase
  <1>3. w + 1 \in 0..Size + 8 /\ 1 \in 0..Size + 8 /\ r + 1 \in 0..Size + 8
    BY Inside
  <1>4. /\ mem' \in Mem /\ mem'[w + 1] = Marker
        /\ \A x \in 0..Size + 8 : x # w + 1 => mem'[x] = mem[x]
    <2>1. Put(mem, [mem EXCEPT ![w + 1] = Marker], w + 1, Marker)
      BY <1>3, Inside, MemWrite, WordsOK
    <2>2. Put(mem, mem', w + 1, Marker)
      BY <2>1 DEF Mark
    <2> QED
      BY <2>2 DEF Put
  <1>5. Oldest < Free => r + 1 # w + 1 /\ mem'[r + 1] = mem[r + 1]
    <2>1. Oldest < Free => r + 2 <= w
      BY <1>1, FoundApart
    <2>2. r \in Nat /\ w \in Nat
      BY Inside
    <2>3. Oldest < Free => r + 1 # w + 1
      BY <2>1, <2>2
    <2> QED
      BY <2>3, <1>3, <1>4
  <1>6. /\ \A x \in 0..Size + 8 : x # w + 1 => Seen'[x] = Seen[x]
        /\ Seen'[w + 1] = Marker
    BY <1>1, <1>3, <1>4, <1>5, Inside, SeenWrite
  <1>7. Seen'[1].ready => Seen[1].ready
    <2>1. CASE w = 0
      BY <2>1, <1>6, WordsOK
    <2>2. CASE w # 0
      <3>1. w \in Nat
        BY Inside
      <3>2. 1 # w + 1
        BY <2>2, <3>1
      <3> QED
        BY <3>2, <1>3, <1>6
    <2> QED
      BY <2>1, <2>2
  <1>8. OnePiece(Seen', r, w, Oldest, Free)
    BY <1>2, <1>6, <1>7, Inside, OnePieceFrame
  <1>9. Oldest' = Oldest /\ Free' = Free /\ Ideal' = Seen'
    BY <1>1 DEF Oldest, Taken, Free, Ideal, Cleared
  <1>10. Unread'
    BY <1>1, <1>6, <1>8, <1>9, WordsOK DEF Unread, Phase, Turning
  <1>11. Types' /\ Histories' /\ Sending'
    BY <1>1, <1>4 DEF ChannelInv, Types, Histories, Sending, Free, WPc
  <1>12. WriterInv' /\ ~Unfinished
    BY <1>1 DEF WriterInv, Unfinished
  <1>13. Oldest < Free => Ideal'[r + 1] = Ideal[r + 1] /\ mem'[r + 1] = mem[r + 1]
    BY <1>2, <1>3, <1>5, <1>6, <1>9
  <1> QED
    BY <1>1, <1>9, <1>10, <1>11, <1>12, <1>13, Inside, WriterRest

\* The header is copied, marked ready before the body is there.
LEMMA HeaderStep ==
  ASSUME ChannelInv, Header
  PROVE  ChannelInv'
  <1>1. /\ wpc = "header" /\ wpc' = "body" /\ UNCHANGED <<r, w, out, rpc, in, sent, got>>
        /\ ~Marked /\ Marked' /\ End = w /\ End' = w
    BY DEF Header, GotoW, readerVars, Marked, End
  <1>2. Fits(Seen, r, w, Oldest, Free, out.len) /\ Ideal = Seen
    BY <1>1, IdealWords DEF ChannelInv, Unread, Phase
  <1>3. /\ w \in 0..Size + 8 /\ w + 1 \in 0..Size + 8 /\ 1 \in 0..Size + 8
        /\ r + 1 \in 0..Size + 8 /\ out.id \in Nat /\ w # w + 1
    BY Inside DEF ChannelInv, Types
  <1> DEFINE A == [Zero EXCEPT !.id = out.id]
             B == [ready |-> TRUE, wrap |-> FALSE, len |-> out.len, id |-> out.id]
             M1 == [mem EXCEPT ![w] = A]
  <1>4. A \in Words /\ B \in Words /\ ~A.ready
    BY <1>3, Inside DEF Zero, Words
  <1>5. mem' = [M1 EXCEPT ![w + 1] = B]
    BY DEF Header
  <1>6. B = [ready |-> TRUE, wrap |-> FALSE, len |-> out.len, id |-> out.id]
    OBVIOUS
  <1> HIDE DEF A, B
  <1>7. Put(mem, M1, w, A)
    BY <1>3, <1>4, Inside, MemWrite
  <1> HIDE DEF M1
  <1>8. Put(M1, [M1 EXCEPT ![w + 1] = B], w + 1, B)
    BY <1>3, <1>4, <1>7, MemWrite DEF Put
  <1>9. /\ mem' \in Mem /\ mem'[w] = A /\ mem'[w + 1] = B
        /\ \A x \in 0..Size + 8 : x # w /\ x # w + 1 => mem'[x] = mem[x]
    BY <1>3, <1>5, <1>7, <1>8 DEF Put
  <1>10. Oldest < Free => r + 1 # w /\ r + 1 # w + 1 /\ mem'[r + 1] = mem[r + 1]
    <2>1. Oldest < Free => r + 2 <= w \/ w + out.len + 2 <= r
      BY <1>1, FoundApart
    <2>0. r \in Nat /\ w \in Nat /\ out.len \in Nat
      BY Inside
    <2>2. Oldest < Free => r + 1 # w /\ r + 1 # w + 1
      BY <2>0, <2>1
    <2> QED
      BY <2>2, <1>3, <1>9
  <1>11. /\ Seen' \in Mem
         /\ \A x \in 0..Size + 8 : x # w /\ x # w + 1 => Seen'[x] = Seen[x]
         /\ Seen'[w] = A
    <2>1. w # r + 1 \/ Free <= Oldest
      BY <1>10, Inside
    <2>2. /\ Seen' \in Mem
          /\ \A x \in 0..Size + 8 : mem'[x] = mem[x] => Seen'[x] = Seen[x]
          /\ w # r + 1 \/ Free <= Oldest => Seen'[w] = mem'[w]
      BY <1>1, <1>3, <1>9, <1>10, SeenWrite
    <2> QED
      BY <2>1, <2>2, <1>9
  <1>12. Ideal' = Cleared(Seen', w, TRUE)
    BY <1>1 DEF Ideal, Cleared
  <1>13. /\ \A x \in 0..Size + 8 : x # w /\ x # w + 1 => Ideal'[x] = Seen[x]
         /\ Ideal'[w] = A /\ Ideal'[w + 1] = Zero
    <2>1. /\ \A x \in 0..Size + 8 : x # w + 1 => Ideal'[x] = Seen'[x]
          /\ Ideal'[w + 1] = Zero
      BY <1>11, <1>12, Inside, ClearedWords
    <2> QED
      BY <2>1, <1>3, <1>11
  <1>14. Ideal'[1].ready => Seen[1].ready
    <2>1. CASE w = 0
      BY <2>1, <1>13, WordsOK
    <2>2. CASE w = 1
      BY <2>2, <1>4, <1>13
    <2>3. CASE w # 0 /\ w # 1
      BY <2>3, <1>3, <1>13, Inside
    <2> QED
      BY <2>1, <2>2, <2>3
  <1>15. Fits(Ideal', r, w, Oldest, Free, out.len)
    BY <1>2, <1>13, <1>14, Inside, FitsFrame
  <1>16. Oldest' = Oldest /\ Free' = Free
    BY <1>1 DEF Oldest, Taken, Free
  <1>17. Unread'
    <2>1. Layout(Ideal', r, w, Oldest, Free)
      BY <1>15 DEF Fits, Layout
    <2>2. EndClear(Ideal', w)
      BY <1>13, WordsOK DEF EndClear
    <2> QED
      BY <1>1, <1>15, <1>16, <2>1, <2>2 DEF Unread, Phase
  <1>18. Types' /\ Histories' /\ Sending'
    BY <1>1, <1>9 DEF ChannelInv, Types, Histories, Sending, Free, WPc
  <1>19. WriterInv' /\ ~Unfinished
    BY <1>1, <1>6, <1>9 DEF WriterInv, Unfinished
  <1>20. Oldest < Free => Ideal'[r + 1] = Ideal[r + 1] /\ mem'[r + 1] = mem[r + 1]
    BY <1>2, <1>3, <1>10, <1>13
  <1> QED
    BY <1>1, <1>16, <1>17, <1>18, <1>19, <1>20, Inside, WriterRest

\* The next header is cleared.
LEMMA ClearStep ==
  ASSUME ChannelInv, Clear
  PROVE  ChannelInv'
  <1>1. /\ wpc = "clear" /\ wpc' = "raise" /\ UNCHANGED <<r, w, out, rpc, in, sent, got>>
        /\ Marked /\ ~Marked' /\ End = w /\ End' = w
    BY DEF Clear, GotoW, readerVars, Marked, End
  <1>2. Layout(Ideal, r, w, Oldest, Free) /\ w > 0
    BY <1>1 DEF ChannelInv, Unread, Phase, WriterInv
  <1>3. /\ w \in 0..Size + 8 /\ w + 1 \in 0..Size + 8 /\ 1 \in 0..Size + 8
        /\ r + 1 \in 0..Size + 8 /\ w # w + 1
    BY Inside
  <1> DEFINE M1 == [mem EXCEPT ![w] = Zero]
  <1>4. mem' = [M1 EXCEPT ![w + 1] = Zero]
    BY DEF Clear
  <1>5. Put(mem, M1, w, Zero)
    BY <1>3, Inside, MemWrite, WordsOK
  <1> HIDE DEF M1
  <1>6. Put(M1, [M1 EXCEPT ![w + 1] = Zero], w + 1, Zero)
    BY <1>3, <1>5, MemWrite, WordsOK DEF Put
  <1>7. /\ mem' \in Mem /\ mem'[w] = Zero /\ mem'[w + 1] = Zero
        /\ \A x \in 0..Size + 8 : x # w /\ x # w + 1 => mem'[x] = mem[x]
    BY <1>3, <1>4, <1>5, <1>6 DEF Put
  <1>8. Oldest < Free => r + 1 # w /\ r + 1 # w + 1 /\ mem'[r + 1] = mem[r + 1]
    <2>1. Oldest < Free => r + 2 <= w \/ w + 2 <= r
      BY <1>1, FoundApart
    <2>0. r \in Nat /\ w \in Nat /\ out.len \in Nat
      BY Inside
    <2>2. Oldest < Free => r + 1 # w /\ r + 1 # w + 1
      BY <2>0, <2>1
    <2> QED
      BY <2>2, <1>3, <1>7
  <1>9. /\ \A x \in 0..Size + 8 : x # w /\ x # w + 1 => Seen'[x] = Seen[x]
        /\ Seen'[w] = Zero /\ Seen'[w + 1] = Zero
    <2>1. (w # r + 1 \/ Free <= Oldest) /\ (w + 1 # r + 1 \/ Free <= Oldest)
      BY <1>8, Inside
    <2>2. /\ \A x \in 0..Size + 8 : mem'[x] = mem[x] => Seen'[x] = Seen[x]
          /\ w # r + 1 \/ Free <= Oldest => Seen'[w] = mem'[w]
          /\ w + 1 # r + 1 \/ Free <= Oldest => Seen'[w + 1] = mem'[w + 1]
      BY <1>1, <1>3, <1>7, <1>8, SeenWrite
    <2> QED
      BY <2>1, <2>2, <1>7
  <1>10. Ideal' = Seen'
    BY <1>1 DEF Ideal, Cleared
  <1>11. \A x \in 0..Size + 8 : x # w /\ x # w + 1 => Ideal'[x] = Ideal[x]
    BY <1>1, <1>9, <1>10, IdealWords
  <1>12. Ideal'[1].ready => Ideal[1].ready
    <2>1. CASE w = 1
      BY <2>1, <1>9, <1>10, WordsOK
    <2>2. CASE w # 1
      BY <2>2, <1>2, <1>3, <1>11, Inside
    <2> QED
      BY <2>1, <2>2
  <1>13. Layout(Ideal', r, w, Oldest, Free)
    BY <1>2, <1>11, <1>12, Inside, LayoutFrame
  <1>14. EndClear(Ideal', w)
    BY <1>9, <1>10, WordsOK DEF EndClear
  <1>15. Oldest' = Oldest /\ Free' = Free
    BY <1>1 DEF Oldest, Taken, Free
  <1>16. Unread'
    BY <1>1, <1>13, <1>14, <1>15 DEF Unread, Phase
  <1>17. Types' /\ Histories' /\ Sending'
    BY <1>1, <1>7 DEF ChannelInv, Types, Histories, Sending, WPc
  <1>18. WriterInv' /\ ~Unfinished
    BY <1>1 DEF WriterInv, Unfinished
  <1>19. Oldest < Free => Ideal'[r + 1] = Ideal[r + 1] /\ mem'[r + 1] = mem[r + 1]
    BY <1>3, <1>8, <1>11
  <1> QED
    BY <1>1, <1>15, <1>16, <1>17, <1>18, <1>19, Inside, WriterRest

\* The body is copied: the message is accepted.
LEMMA BodyStep ==
  ASSUME ChannelInv, Body
  PROVE  ChannelInv'
  <1>1. /\ wpc = "body" /\ wpc' = "advance" /\ UNCHANGED <<r, w, out, rpc, in, got>>
        /\ Marked /\ Marked' /\ End = w /\ End' = w + out.len
    BY DEF Body, GotoW, readerVars, Marked, End
  <1>2. /\ Fits(Ideal, r, w, Oldest, Free, out.len)
        /\ mem[w + 1] = [ready |-> TRUE, wrap |-> FALSE, len |-> out.len, id |-> out.id]
    BY <1>1 DEF ChannelInv, Unread, Phase, WriterInv
  <1>3. /\ out.id = Free /\ out.id <= MaxMsgs /\ out.len \in Nat /\ out.len >= 2
        /\ out.bits \in [ready : BOOLEAN, wrap : BOOLEAN, len : Nat] /\ sent \in Seq(Nat)
    BY <1>1, LensAssumption DEF ChannelInv, Sending, Types
  <1> DEFINE C == [ready |-> out.bits.ready, wrap |-> out.bits.wrap,
                   len |-> out.bits.len, id |-> out.id]
             B == [mem[w + 1] EXCEPT !.ready = TRUE]
  <1>4. C \in Words /\ C.id = Free
    BY <1>3, Inside DEF Words
  <1>5. B \in Words /\ B.ready /\ ~B.wrap /\ B.len = out.len /\ B.id = Free
    <2>1. mem[w + 1] \in Words
      BY Inside DEF Mem
    <2>2. /\ B \in Words /\ B.ready = TRUE /\ B.wrap = mem[w + 1].wrap
          /\ B.len = mem[w + 1].len /\ B.id = mem[w + 1].id
      BY <2>1, ReadyBit
    <2> QED
      BY <2>2, <1>2, <1>3
  <1> HIDE DEF B
  <1>6. /\ w + 1 \in 0..Size + 8 /\ w + 2 \in 0..Size + 8 /\ 1 \in 0..Size + 8
        /\ r + 1 \in 0..Size + 8
    BY Inside
  <1>7. mem' = [p \in 0..Size + 8 |->
                  CASE p \in w + 2..w + out.len - 1 -> C
                    [] p = w + 1 -> B
                    [] OTHER -> mem[p]]
    <2>1. DOMAIN mem = 0..Size + 8
      BY Inside DEF Mem
    <2>2. mem' = [p \in DOMAIN mem |->
                    CASE p \in w + 2..w + out.len - 1 -> C
                      [] p = w + 1 -> [mem[p] EXCEPT !.ready = TRUE]
                      [] OTHER -> mem[p]]
      BY DEF Body
    <2> HIDE DEF C
    <2> QED
      BY <2>1, <2>2 DEF B
  <1> HIDE DEF C
  <1>8. /\ \A x \in 0..Size + 8 : x \in w + 2..w + out.len - 1 => mem'[x] = C
        /\ mem'[w + 1] = B
        /\ \A x \in 0..Size + 8 : x \notin w + 2..w + out.len - 1 /\ x # w + 1 => mem'[x] = mem[x]
    <2>1. w + 1 \notin w + 2..w + out.len - 1
      BY <1>3, Inside
    <2> QED
      BY <2>1, <1>6, <1>7
  <1>9. mem' \in Mem
    <2>1. ASSUME NEW x \in 0..Size + 8
          PROVE  mem'[x] \in Words
      <3>1. mem[x] \in Words
        BY Inside DEF Mem
      <3> QED
        BY <3>1, <1>4, <1>5, <1>8
    <2> QED
      BY <2>1, <1>7 DEF Mem
  <1>10. Oldest < Free => /\ r + 1 < w \/ r + 1 > w + out.len + 1
                          /\ mem'[r + 1] = mem[r + 1]
    <2>1. Oldest < Free => r + 2 <= w \/ w + out.len + 2 <= r
      BY <1>1, FoundApart
    <2>0. r \in Nat /\ w \in Nat /\ out.len \in Nat
      BY Inside
    <2>2. Oldest < Free => r + 1 < w \/ r + 1 > w + out.len + 1
      BY <2>0, <2>1
    <2>3. r + 1 < w \/ r + 1 > w + out.len + 1 =>
            r + 1 \notin w + 2..w + out.len - 1 /\ r + 1 # w + 1
      <3>0. r \in Nat /\ w \in Nat
        BY Inside
      <3>1. r + 1 > w + out.len + 1 => r + 1 >= w + out.len
        BY <1>3, <3>0
      <3>2. r + 1 \in Nat /\ w \in Nat
        BY <3>0
      <3> QED
        BY <3>1, <3>2, <1>3, Outside
    <2> QED
      BY <2>2, <2>3, <1>6, <1>8
  <1>11. /\ Seen' \in Mem
         /\ \A x \in 0..Size + 8 : mem'[x] = mem[x] => Seen'[x] = Seen[x]
         /\ \A x \in 0..Size + 8 : x # r + 1 \/ Free <= Oldest => Seen'[x] = mem'[x]
    BY <1>1, <1>9, <1>10, SeenWrite
  <1>12. \A x \in 0..Size + 8 : x # w + 1 => Ideal[x] = Seen[x]
    BY <1>1, IdealWords
  <1>13. Written(Ideal, Seen', w, Free, out.len)
    <2>1. ASSUME NEW x \in 0..Size + 8, x < w \/ x >= w + out.len
          PROVE  Seen'[x] = Ideal[x]
      <3>1. x \in Nat /\ w \in Nat
        BY <2>1, Inside
      <3>2. x \notin w + 2..w + out.len - 1 /\ x # w + 1
        BY <2>1, <3>1, <1>3, Outside
      <3> QED
        BY <3>2, <1>8, <1>11, <1>12
    <2>2. w + 1 # r + 1 \/ Free <= Oldest
      BY <1>3, <1>10, Inside
    <2>3. Seen'[w + 1] = B
      BY <2>2, <1>6, <1>8, <1>11
    <2>4. out.len > 2 => Seen'[w + 2].id = Free
      <3> SUFFICES ASSUME out.len > 2
                   PROVE  Seen'[w + 2].id = Free
        OBVIOUS
      <3>0. /\ r \in Nat /\ w \in Nat /\ out.len \in Nat
            /\ Oldest \in Nat /\ Free \in Nat
        BY Inside
      <3>1. w + 2 \in w + 2..w + out.len - 1
        BY <3>0
      <3>2. w + 2 # r + 1 \/ Free <= Oldest
        <4>1. CASE Oldest < Free
          <5>1. r + 1 < w \/ r + 1 > w + out.len + 1
            BY <4>1, <1>10
          <5> QED
            BY <5>1, <3>0
        <4> QED
          BY <4>1, <3>0
      <3>3. Seen'[w + 2] = C
        BY <3>1, <3>2, <1>6, <1>8, <1>11
      <3> QED
        BY <3>3, <1>4
    <2>5. w # 0 => Seen'[1] = Ideal[1]
      <3> SUFFICES ASSUME w # 0
                   PROVE  Seen'[1] = Ideal[1]
        OBVIOUS
      <3>1. 1 \notin w + 2..w + out.len - 1 /\ 1 # w + 1
        BY <1>3, Inside
      <3> QED
        BY <3>1, <1>6, <1>8, <1>11, <1>12
    <2>6. w <= Size
      BY Inside
    <2> QED
      BY <2>1, <2>3, <2>4, <2>5, <2>6, <1>3, <1>5 DEF Written
  <1>14. Layout(Seen', r, w + out.len, Oldest, Free + 1)
    BY <1>2, <1>13, Inside, FitsAppend
  <1>15. /\ sent' \in Seq(Nat) /\ Len(sent') = Len(sent) + 1 /\ Free' = Free + 1
         /\ \A i \in 1..Len(sent') : sent'[i] = i
    <2>1. sent' = Append(sent, Len(sent) + 1) /\ Len(sent) \in Nat
      BY <1>3 DEF Body, Free
    <2>2. \A i \in 1..Len(sent) : sent[i] = i
      BY DEF ChannelInv, Histories
    <2> QED
      BY <2>1, <2>2, <1>3 DEF Free
  <1>16. w + out.len \in Nat /\ w + out.len + 2 <= Size /\ w + out.len > 0 /\ Free + 1 \in Nat
    <2>1. Oldest \in Nat /\ Free + 1 \in Nat /\ w \in Nat /\ out.len \in Nat
      BY Inside
    <2>2. w + out.len + 2 <= Size
      BY <2>1, <1>14, LayoutBounds
    <2> QED
      BY <2>1, <2>2, <1>3
  <1>17. Ideal' = Cleared(Seen', w + out.len, TRUE)
    BY <1>1 DEF Ideal, Cleared
  <1>18. /\ \A x \in 0..Size + 8 : x # w + out.len + 1 => Ideal'[x] = Seen'[x]
         /\ Ideal'[w + out.len + 1] = Zero
    BY <1>11, <1>16, <1>17, ClearedWords
  <1>19. Layout(Ideal', r, w + out.len, Oldest, Free + 1)
    <2>1. Ideal'[1].ready => Seen'[1].ready
      BY <1>6, <1>16, <1>18
    <2>2. \A x \in 0..Size + 8 : x # w + out.len /\ x # w + out.len + 1 => Ideal'[x] = Seen'[x]
      BY <1>18
    <2> QED
      BY <2>1, <2>2, <1>14, <1>16, Inside, LayoutFrame
  <1>20. Oldest' = Oldest
    BY <1>1 DEF Oldest, Taken
  <1>21. Unread'
    BY <1>1, <1>15, <1>18, <1>19, <1>20, WordsOK DEF Unread, Phase, EndClear
  <1>22. Types' /\ Sending'
    BY <1>1, <1>9, <1>15 DEF ChannelInv, Types, Sending, WPc
  <1>23. Histories'
    BY <1>1, <1>3, <1>15 DEF ChannelInv, Histories, Free
  <1>24. WriterInv'
    BY <1>1, <1>3, <1>16 DEF WriterInv
  <1>25. Oldest < Free => Ideal'[r + 1] = Ideal[r + 1] /\ mem'[r + 1] = mem[r + 1]
    <2> SUFFICES ASSUME Oldest < Free
                 PROVE  Ideal'[r + 1] = Ideal[r + 1] /\ mem'[r + 1] = mem[r + 1]
      OBVIOUS
    <2>1. mem'[r + 1] = mem[r + 1] /\ (r + 1 < w \/ r + 1 > w + out.len + 1)
      BY <1>10
    <2>0. r \in Nat /\ w \in Nat
      BY Inside
    <2>2. r + 1 # w + out.len + 1 /\ r + 1 # w + 1
      BY <1>3, <2>0, <2>1
    <2> QED
      BY <2>1, <2>2, <1>6, <1>11, <1>12, <1>18
  <1>26. Unfinished => Found'
    <2> SUFFICES ASSUME Unfinished
                 PROVE  Found'
      OBVIOUS
    <2>0. /\ r \in Nat /\ w \in Nat /\ out.len \in Nat
          /\ Oldest \in Nat /\ Free \in Nat
      BY Inside
    <2>1. r = w /\ Free <= Oldest
      BY <2>0, <1>10 DEF Unfinished
    <2>2. Ideal'[r + 1] = B
      <3>1. r + 1 # w + out.len + 1
        BY <2>0, <2>1, <1>3
      <3> QED
        BY <2>1, <3>1, <1>6, <1>8, <1>11, <1>18
    <2>3. Oldest' < Free'
      BY <1>15, <1>20, Inside
    <2> QED
      BY <2>2, <2>3, <1>1, <1>5 DEF Found
  <1>27. Free' \in Nat /\ Free <= Free'
    <2>1. Free \in Nat
      BY Inside
    <2> QED
      BY <2>1, <1>15
  <1> QED
    BY <1>1, <1>21, <1>22, <1>23, <1>24, <1>25, <1>26, <1>27, WriterRest

-----------------------------------------------------------------------------
(* The reader's steps                                                      *)

\* What is left to show of a step of the reader: what the writer found is still
\* there.
LEMMA ReaderRest ==
  ASSUME ChannelInv, UNCHANGED <<w, wpc, out, sent>>, Types', Histories', Unread', ReaderInv',
         mem'[w + 1].ready => mem[w + 1].ready, wpc = "body" => mem'[w + 1] = mem[w + 1]
  PROVE  ChannelInv'
  <1>1. Sending' /\ End' = End
    BY DEF ChannelInv, Sending, Free, End
  <1>2. WriterInv'
    BY <1>1 DEF ChannelInv, WriterInv
  <1> QED
    BY <1>1, <1>2 DEF ChannelInv

\* The entries at the indices are inside the FIFO.
LEMMA EntriesInside ==
  ASSUME ChannelInv
  PROVE  /\ r + 1 \in 0..Size + 8 /\ w + 1 \in 0..Size + 8
         /\ r # End => r + 1 # End + 1
  <1>1. /\ r \in Nat /\ w \in Nat /\ End \in Nat /\ Size \in Nat
        /\ r + 2 <= Size /\ w + 2 <= Size
    BY Inside
  <1> QED
    BY <1>1

\* A message, or one that is being written, is at R.
HeadAt(R) == (Oldest < Free /\ ~Ideal[R + 1].wrap) \/ (wpc = "body" /\ R = w)

\* The steps that only look, and follow the wrap marker.
LEMMA ReaderLooks ==
  ASSUME ChannelInv, UNCHANGED <<mem, w, wpc, out, sent, in, got>>, ~Taken, ~Taken',
         rpc' \in RPc \ {"null"}, r' = r \/ (r' = 0 /\ Ideal[r + 1].wrap),
         rpc' = "poll0" => r' = 0, rpc' \in {"read", "fetch", "rcv"} => HeadAt(r')
  PROVE  ChannelInv'
  <1>1. ~Pending /\ ~Pending' /\ End' = End /\ Free' = Free /\ (Marked' <=> Marked)
    BY DEF Pending, Taken, End, Free, Marked
  <1>2. Oldest' = Oldest /\ Seen' = Seen
    BY <1>1 DEF Oldest, Seen, Restored
  <1>3. Ideal' = Ideal
    BY <1>1, <1>2 DEF Ideal, Cleared
  <1>4. Phase(wpc, Ideal, r, End, Oldest, Free, out.len)
    BY DEF ChannelInv, Unread
  <1>5. Phase(wpc, Ideal, r', End, Oldest, Free, out.len)
    BY <1>4, Inside, PhaseFollow
  <1>6. Unread'
    BY <1>1, <1>2, <1>3, <1>5 DEF Unread
  <1>7. Types' /\ Histories'
    BY DEF ChannelInv, Types, Histories
  <1>8. rpc' \in {"read", "fetch", "rcv"} => Found' \/ Unfinished'
    BY <1>1, <1>2, <1>3 DEF HeadAt, Found, Unfinished
  <1>9. ReaderInv'
    BY <1>1, <1>8 DEF ReaderInv
  <1> QED
    BY <1>6, <1>7, <1>9, ReaderRest

\* An entry that is ready is a message, unless it is the next header and not
\* cleared yet.
LEMMA LookAt ==
  ASSUME ChannelInv, ~Taken, NEW R, Phase(wpc, Ideal, R, End, Oldest, Free, out.len),
         mem[R + 1].ready, ~mem[R + 1].wrap \/ R = 0,
         ~(wpc \in {"advance", "clear"} /\ R = End)
  PROVE  HeadAt(R)
  <1>1. R \in Nat /\ R + 2 <= Size
    BY Inside, PhaseBounds
  <1>2. CASE Marked /\ R = End
    BY <1>2 DEF Marked, End, HeadAt
  <1>3. CASE ~(Marked /\ R = End)
    <2>0. End \in Nat /\ Size \in Nat
      BY Inside
    <2>1. R + 1 \in 0..Size + 8 /\ (R # End => R + 1 # End + 1)
      BY <1>1, <2>0
    <2>2. Seen = mem
      BY SeenWords DEF Pending, Taken
    <2>3. Ideal[R + 1] = mem[R + 1]
      BY <1>3, <2>1, <2>2, IdealWords
    <2>4. Oldest < Free /\ ~Ideal[R + 1].wrap
      BY <2>3, Inside, PhaseHead
    <2> QED
      BY <2>4 DEF HeadAt
  <1> QED
    BY <1>2, <1>3

\* A flag at the read index is one of the layout, unless it is left over in the
\* next header.
LEMMA LookHere ==
  ASSUME ChannelInv, ~Taken, ~Uncleared
  PROVE  /\ mem[r + 1].wrap => Ideal[r + 1].wrap
         /\ mem[r + 1].ready /\ ~mem[r + 1].wrap => HeadAt(r)
  <1>1. Phase(wpc, Ideal, r, End, Oldest, Free, out.len)
    BY DEF ChannelInv, Unread
  <1>2. wpc \in {"advance", "clear"} /\ r = End => ~mem[r + 1].ready /\ ~mem[r + 1].wrap
    BY DEF Uncleared, End, Ready, Val1
  <1>3. mem[r + 1].wrap => Ideal[r + 1].wrap
    <2> SUFFICES ASSUME mem[r + 1].wrap
                 PROVE  Ideal[r + 1].wrap
      OBVIOUS
    <2>1. wpc = "body" => r # End
      BY UnfinishedHead DEF Unfinished, End
    <2>2. ~(Marked /\ r = End)
      BY <1>2, <2>1 DEF Marked
    <2>3. r + 1 \in 0..Size + 8 /\ (r # End => r + 1 # End + 1)
      BY EntriesInside
    <2>4. Seen = mem
      BY SeenWords DEF Pending, Taken
    <2>5. Ideal[r + 1] = mem[r + 1]
      BY <2>2, <2>3, <2>4, IdealWords
    <2> QED
      BY <2>5
  <1>4. mem[r + 1].ready /\ ~mem[r + 1].wrap => HeadAt(r)
    BY <1>1, <1>2, LookAt
  <1> QED
    BY <1>3, <1>4

\* At the start there is never a header that is not cleared.
LEMMA LookAtStart ==
  ASSUME ChannelInv, ~Taken, r = 0 \/ Ideal[r + 1].wrap, mem[0 + 1].ready
  PROVE  HeadAt(0)
  <1>1. Phase(wpc, Ideal, r, End, Oldest, Free, out.len)
    BY DEF ChannelInv, Unread
  <1>2. Phase(wpc, Ideal, 0, End, Oldest, Free, out.len)
    BY <1>1, Inside, PhaseFollow
  <1>3. wpc \in {"advance", "clear"} => End # 0
    BY Inside DEF ChannelInv, WriterInv
  <1> QED
    BY <1>2, <1>3, LookAt

\* What the reader found is ready.
LEMMA HeadReady ==
  ASSUME ChannelInv, rpc \in {"read", "fetch", "rcv"}
  PROVE  mem[r + 1].ready /\ ~mem[r + 1].wrap /\ HeadAt(r) /\ ~Taken /\ ~Pending
  <1>1. Found \/ Unfinished
    BY DEF ChannelInv, ReaderInv
  <1>2. ~Taken /\ ~Pending
    BY DEF Taken, Pending
  <1>3. HeadAt(r)
    BY <1>1 DEF Found, Unfinished, HeadAt
  <1>4. mem[r + 1].ready /\ ~mem[r + 1].wrap
    BY <1>1, <1>2, FoundHead, UnfinishedHead DEF AtHead
  <1> QED
    BY <1>2, <1>3, <1>4

\* The interrupt is taken.
LEMMA IsrStep ==
  ASSUME ChannelInv, Isr
  PROVE  ChannelInv'
  <1>1. /\ rpc' = "poll" /\ UNCHANGED <<mem, r, w, wpc, out, sent, in, got>>
        /\ ~Taken /\ ~Taken'
    BY DEF Isr, GotoR, writerVars, Taken
  <1> QED
    BY <1>1, ReaderLooks DEF RPc

\* The entry at the read index is tested.
LEMMA PollStep ==
  ASSUME ChannelInv, Poll, ~race'
  PROVE  ChannelInv'
  <1>1. /\ UNCHANGED <<mem, w, wpc, out, sent, in, got>> /\ ~Taken /\ ~Taken' /\ ~Uncleared
        /\ \/ mem[r + 1].wrap /\ rpc' = "poll0" /\ r' = 0
           \/ ~mem[r + 1].wrap /\ mem[r + 1].ready /\ rpc' = "read" /\ r' = r
           \/ rpc' = "idle" /\ r' = r
    BY DEF Poll, GotoR, writerVars, Taken, Note, Ready, Val1
  <1>2. /\ mem[r + 1].wrap => Ideal[r + 1].wrap
        /\ mem[r + 1].ready /\ ~mem[r + 1].wrap => HeadAt(r)
    BY <1>1, LookHere
  <1> QED
    BY <1>1, <1>2, ReaderLooks DEF RPc

\* The entry at the start is tested.
LEMMA Poll0Step ==
  ASSUME ChannelInv, Poll0
  PROVE  ChannelInv'
  <1>1. /\ UNCHANGED <<mem, r, w, wpc, out, sent, in, got>> /\ ~Taken /\ ~Taken'
        /\ rpc = "poll0" /\ ((rpc' = "read" /\ mem[0 + 1].ready) \/ rpc' = "idle")
    BY DEF Poll0, GotoR, writerVars, Taken, Ready, Val1
  <1>2. r = 0
    BY <1>1 DEF ChannelInv, ReaderInv
  <1>3. rpc' = "read" => HeadAt(0)
    BY <1>1, <1>2, LookAtStart
  <1> QED
    BY <1>1, <1>2, <1>3, ReaderLooks DEF RPc

\* What was found is still there: fifo_read does not return NULL.
LEMMA ReadStep ==
  ASSUME ChannelInv, Read
  PROVE  ChannelInv'
  <1>1. rpc = "read" /\ UNCHANGED <<mem, w, wpc, out, sent, in, got>>
    BY DEF Read, GotoR, writerVars
  <1>2. mem[r + 1].ready /\ ~mem[r + 1].wrap /\ HeadAt(r) /\ ~Taken
    BY <1>1, HeadReady
  <1>3. r' = r /\ rpc' = "fetch" /\ ~Taken'
    BY <1>2 DEF Read, GotoR, Ready, Val1, Taken
  <1> QED
    BY <1>1, <1>2, <1>3, ReaderLooks DEF RPc

\* Without memory the message stays.
LEMMA NoMemStep ==
  ASSUME ChannelInv, NoMem
  PROVE  ChannelInv'
  <1>1. /\ rpc' = "idle" /\ UNCHANGED <<mem, r, w, wpc, out, sent, in, got>>
        /\ ~Taken /\ ~Taken'
    BY DEF NoMem, GotoR, writerVars, Taken
  <1> QED
    BY <1>1, ReaderLooks DEF RPc

\* A process looks at the read index.
LEMMA RcvStep ==
  ASSUME ChannelInv, Rcv, ~race'
  PROVE  ChannelInv'
  <1>1. /\ UNCHANGED <<mem, w, wpc, out, sent, in, got>> /\ ~Taken /\ ~Taken' /\ ~Uncleared
        /\ r' = IF mem[r + 1].wrap THEN 0 ELSE r
        /\ (rpc' = "rcv" /\ mem[r' + 1].ready) \/ rpc' = "idle"
    BY DEF Rcv, GotoR, writerVars, Taken, Note, Ready, Val1
  <1>2. /\ mem[r + 1].wrap => Ideal[r + 1].wrap
        /\ mem[r + 1].ready /\ ~mem[r + 1].wrap => HeadAt(r)
    BY <1>1, LookHere
  <1>3. mem[r + 1].wrap /\ mem[0 + 1].ready => HeadAt(0)
    BY <1>1, <1>2, LookAtStart
  <1>4. rpc' = "rcv" => HeadAt(r')
    BY <1>1, <1>2, <1>3
  <1> QED
    BY <1>1, <1>2, <1>4, ReaderLooks DEF RPc

\* The copy yields the oldest unread message, whole, if its body is there.
LEMMA CopyMessage ==
  ASSUME ChannelInv, rpc \in {"fetch", "rcv"}, Copy, ~race'
  PROVE  /\ Found /\ Oldest = Len(got) + 1 /\ Oldest \in Nat
         /\ in' = mem[r + 1].len /\ in' \in Nat
         /\ got' = Append(got, [id |-> Oldest, body |-> Oldest])
         /\ got' \in Seq([id : Nat, body : Nat]) /\ Len(got') = Oldest
         /\ \A i \in 1..Len(got') : got'[i].id = i /\ got'[i].body = i
  <1>1. Found /\ AtHead(mem, r, Oldest)
    <2>1. ~Unfinished
      BY DEF Copy, Note
    <2>2. Found
      BY <2>1 DEF ChannelInv, ReaderInv
    <2> QED
      BY <2>2, FoundHead DEF Pending
  <1>2. /\ mem \in Mem /\ got \in Seq([id : Nat, body : Nat]) /\ Len(got) \in Nat
        /\ Oldest = Len(got) + 1 /\ Oldest \in Nat
        /\ \A i \in 1..Len(got) : got[i].id = i /\ got[i].body = i
    BY DEF ChannelInv, Types, Histories, Oldest, Taken
  <1>3. mem[r + 1].len \in Nat
    <2>1. r + 1 \in 0..Size + 8
      BY EntriesInside
    <2>2. mem[r + 1] \in Words
      BY <1>2, <2>1 DEF Mem
    <2> QED
      BY <2>2 DEF Words
  <1>4. in' = mem[r + 1].len
    BY DEF Copy, Val1
  <1>5. mem[r + 1].id = Oldest /\ (mem[r + 1].len > 2 => mem[r + 2].id = Oldest)
    BY <1>1 DEF AtHead
  <1>6. got' = Append(got, [id |-> Oldest, body |-> Oldest])
    BY <1>5 DEF Copy, Val1
  <1>7. [id |-> Oldest, body |-> Oldest] \in [id : Nat, body : Nat]
    BY <1>2
  <1>8. got' \in Seq([id : Nat, body : Nat]) /\ Len(got') = Oldest
    BY <1>2, <1>6, <1>7
  <1>9. ASSUME NEW i \in 1..Len(got')
        PROVE  got'[i].id = i /\ got'[i].body = i
    <2>1. CASE i = Len(got) + 1
      <3>1. got'[i] = [id |-> Oldest, body |-> Oldest]
        BY <2>1, <1>2, <1>6
      <3> QED
        BY <3>1, <2>1, <1>2
    <2>2. CASE i # Len(got) + 1
      <3>1. i \in 1..Len(got)
        BY <2>2, <1>2, <1>8
      <3>2. got'[i] = got[i]
        BY <3>1, <1>2, <1>6, <1>7
      <3> QED
        BY <3>1, <3>2, <1>2
    <2> QED
      BY <2>1, <2>2
  <1> QED
    BY <1>1, <1>2, <1>3, <1>4, <1>6, <1>8, <1>9

\* What the two copies have in common.
LEMMA CopyStep ==
  ASSUME ChannelInv, rpc \in {"fetch", "rcv"}, Copy, rpc' \in {"release", "rcvrelease"},
         UNCHANGED <<mem, r, w, wpc, out, sent>>, ~race'
  PROVE  ChannelInv'
  <1>1. /\ Found /\ Oldest = Len(got) + 1 /\ in' = mem[r + 1].len /\ in' \in Nat
        /\ got' \in Seq([id : Nat, body : Nat]) /\ Len(got') = Oldest
        /\ \A i \in 1..Len(got') : got'[i].id = i /\ got'[i].body = i
    BY CopyMessage
  <1>2. ~Pending /\ ~Pending' /\ End' = End /\ Free' = Free /\ (Marked' <=> Marked)
    BY DEF Pending, End, Free, Marked
  <1>3. Oldest' = Oldest /\ Seen' = Seen
    BY <1>1, <1>2 DEF Oldest, Taken, Seen, Restored
  <1>4. Ideal' = Ideal
    BY <1>2, <1>3 DEF Ideal, Cleared
  <1>5. Unread'
    BY <1>2, <1>3, <1>4 DEF ChannelInv, Unread
  <1>6. Types' /\ Histories'
    BY <1>1 DEF ChannelInv, Types, Histories, RPc
  <1>7. in' = Ideal[r + 1].len
    BY <1>1, FoundHead
  <1>8. Found'
    BY <1>1, <1>2, <1>3, <1>4 DEF Found
  <1>9. ReaderInv'
    BY <1>2, <1>4, <1>7, <1>8 DEF ReaderInv
  <1> QED
    BY <1>5, <1>6, <1>9, ReaderRest

\* The handler copies the message.
LEMMA FetchStep ==
  ASSUME ChannelInv, Fetch, ~race'
  PROVE  ChannelInv'
  BY CopyStep DEF Fetch, GotoR, writerVars

\* A process copies the message.
LEMMA RcvFetchStep ==
  ASSUME ChannelInv, RcvFetch, ~race'
  PROVE  ChannelInv'
  <1>1. rpc = "rcv"
    BY DEF RcvFetch, GotoR
  <1>2. Ready(r)
    BY <1>1, HeadReady DEF Ready, Val1
  <1>3. Copy /\ rpc' = "rcvrelease" /\ UNCHANGED <<mem, r, w, wpc, out, sent>>
    BY <1>2 DEF RcvFetch, GotoR, writerVars
  <1> QED
    BY <1>1, <1>3, CopyStep

\* The ready bit of the message is cleared: it is taken, and still in its place.
LEMMA ReleaseStep ==
  ASSUME ChannelInv, Release
  PROVE  ChannelInv'
  <1>1. /\ rpc \in {"release", "rcvrelease"} /\ rpc' \in {"step", "rcvstep"}
        /\ UNCHANGED <<r, w, wpc, out, sent, in, got>>
    BY DEF Release, GotoR, writerVars
  <1>2. Taken /\ Taken' /\ ~Pending /\ Pending'
    BY <1>1 DEF Taken, Pending
  <1>3. Found /\ in = Ideal[r + 1].len
    BY <1>2 DEF ChannelInv, ReaderInv
  <1>4. mem[r + 1].ready
    BY <1>2, <1>3, FoundHead DEF AtHead
  <1>5. r + 1 \in 0..Size + 8 /\ w + 1 \in 0..Size + 8 /\ mem \in Mem
    BY Inside, EntriesInside
  <1> DEFINE v == [mem[r + 1] EXCEPT !.ready = FALSE]
             u == [v EXCEPT !.ready = TRUE]
  <1>6. v \in Words /\ ~v.ready /\ u = mem[r + 1]
    <2>1. mem[r + 1] \in Words
      BY <1>5 DEF Mem
    <2> QED
      BY <1>4, <2>1 DEF Words
  <1>7. mem' = [mem EXCEPT ![r + 1] = v]
    BY DEF Release
  <1> HIDE DEF u
  <1>8. /\ mem' \in Mem /\ mem'[r + 1] = v
        /\ \A x \in 0..Size + 8 : x # r + 1 => mem'[x] = mem[x]
    <2> HIDE DEF v
    <2>1. Put(mem, [mem EXCEPT ![r + 1] = v], r + 1, v)
      BY <1>5, <1>6, MemWrite
    <2>2. Put(mem, mem', r + 1, v)
      BY <2>1, <1>7
    <2> QED
      BY <2>2 DEF Put
  <1>9. Seen' = Seen
    <2>1. Seen = mem
      BY <1>2, SeenWords
    <2>2. Seen' = [mem' EXCEPT ![r + 1] = u]
      BY <1>1, <1>2, <1>8 DEF Seen, Restored, u
    <2> HIDE DEF v
    <2>3. Put(mem', [mem' EXCEPT ![r + 1] = u], r + 1, u)
      <3>1. u \in Words
        BY <1>5, <1>6 DEF Mem
      <3> QED
        BY <1>5, <1>8, <3>1, MemWrite
    <2>4. Put(mem', Seen', r + 1, u)
      BY <2>2, <2>3
    <2>5. \A x \in 0..Size + 8 : Seen'[x] = mem[x]
      BY <1>6, <1>8, <2>4 DEF Put
    <2>6. Seen' \in Mem
      BY <2>4 DEF Put
    <2>7. Seen' = [x \in 0..Size + 8 |-> Seen'[x]] /\ mem = [x \in 0..Size + 8 |-> mem[x]]
      BY <1>5, <2>6 DEF Mem
    <2> QED
      BY <2>1, <2>5, <2>7
  <1>10. /\ Oldest' = Oldest /\ Free' = Free /\ End' = End /\ (Marked' <=> Marked)
    BY <1>1, <1>2 DEF Oldest, Free, End, Marked
  <1>11. Ideal' = Ideal
    BY <1>9, <1>10 DEF Ideal, Cleared
  <1>12. Unread'
    BY <1>1, <1>10, <1>11 DEF ChannelInv, Unread
  <1>13. Types' /\ Histories'
    BY <1>1, <1>8 DEF ChannelInv, Types, Histories, RPc
  <1>14. Found'
    BY <1>1, <1>3, <1>10, <1>11 DEF Found
  <1>15. ReaderInv'
    BY <1>1, <1>3, <1>6, <1>8, <1>11, <1>14 DEF ReaderInv
  <1>16. wpc = "body" => mem'[w + 1] = mem[w + 1]
    <2> SUFFICES ASSUME wpc = "body"
                 PROVE  mem'[w + 1] = mem[w + 1]
      OBVIOUS
    <2>1. r + 2 <= w \/ w + out.len + 2 <= r
      BY <1>3, FoundApart DEF Found
    <2>2. r \in Nat /\ w \in Nat /\ out.len \in Nat
      BY Inside
    <2>3. w + 1 # r + 1
      BY <2>1, <2>2
    <2> QED
      BY <1>5, <1>8, <2>3
  <1>17. mem'[w + 1].ready => mem[w + 1].ready
    <2> HIDE DEF v
    <2> QED
      BY <1>5, <1>6, <1>8
  <1> QED
    BY <1>1, <1>12, <1>13, <1>15, <1>16, <1>17, ReaderRest

\* The read index moves behind it.
LEMMA StepStep ==
  ASSUME ChannelInv, Step
  PROVE  ChannelInv'
  <1>1. /\ Pending /\ Taken /\ ~Pending' /\ ~Taken' /\ rpc' \in {"poll", "idle"}
        /\ r' = r + in /\ UNCHANGED <<mem, w, wpc, out, sent, in, got>>
    BY DEF Step, GotoR, writerVars, Pending, Taken
  <1>2. Found /\ in = Ideal[r + 1].len /\ ~mem[r + 1].ready
    BY <1>1 DEF ChannelInv, ReaderInv
  <1>3. /\ Free' = Free /\ End' = End /\ (Marked' <=> Marked)
        /\ Oldest' = Oldest + 1
    BY <1>1, Inside DEF Free, End, Marked, Oldest
  <1>4. Seen' = mem
    BY <1>1 DEF Seen, Restored
  <1>5. Ideal' = Cleared(mem, End, Marked)
    BY <1>3, <1>4 DEF Ideal, Cleared
  <1>6. /\ \A x \in 0..Size + 8 : x # End + 1 => Ideal'[x] = mem[x]
        /\ ~Marked => Ideal' = mem
        /\ Marked => Ideal'[End + 1] = Zero
    BY <1>5, Inside, ClearedWords
  <1>7. Released(Ideal, Ideal', r)
    <2>1. ASSUME NEW x \in 0..Size + 8, x # r + 1
          PROVE  Ideal'[x] = Ideal[x]
      <3>1. Seen[x] = mem[x]
        BY <2>1, SeenWords
      <3> QED
        BY <1>6, <2>1, <3>1, IdealWords
    <2>2. Marked => r + 1 # End + 1
      <3>1. Marked => r + 2 <= End \/ End + 2 <= r
        BY <1>2, FoundApart DEF Found
      <3>2. r \in Nat /\ End \in Nat
        BY Inside
      <3> QED
        BY <3>1, <3>2
    <2>3. r + 1 \in 0..Size + 8
      BY EntriesInside
    <2>4. Ideal'[r + 1] = mem[r + 1]
      BY <1>6, <2>2, <2>3
    <2>5. Ideal[r + 1].wrap = mem[r + 1].wrap
      BY <1>2, FoundApart, SeenWords DEF Found
    <2> QED
      BY <1>2, <2>1, <2>4, <2>5 DEF Released
  <1>8. Phase(wpc, Ideal, r, End, Oldest, Free, out.len) /\ Oldest < Free /\ ~Ideal[r + 1].wrap
    BY <1>2 DEF ChannelInv, Unread, Found
  <1>9. Phase(wpc, Ideal', r + Ideal[r + 1].len, End, Oldest + 1, Free, out.len)
    BY <1>7, <1>8, Inside, PhaseRelease
  <1>10. Unread'
    BY <1>1, <1>2, <1>3, <1>9 DEF Unread
  <1>11. Types' /\ Histories'
    BY <1>1 DEF ChannelInv, Types, Histories, RPc
  <1>12. ReaderInv'
    BY <1>1 DEF ReaderInv
  <1> QED
    BY <1>1, <1>10, <1>11, <1>12, ReaderRest

\* CPU1 is reset while the FIFO is empty and nobody uses it.
LEMMA ResetStep ==
  ASSUME ChannelInv, Reset, ~race'
  PROVE  ChannelInv'
  <1>1. /\ wpc = "idle" /\ rpc = "idle" /\ Len(got) = Len(sent)
        /\ wpc' = "idle" /\ rpc' = "idle" /\ r' = 0 /\ w' = 0
        /\ UNCHANGED <<mem, out, in, sent, got>>
    BY DEF Reset, Note, InUse
  <1>2. /\ Oldest = Free /\ Oldest' = Oldest /\ Free' = Free /\ Free \in Nat
        /\ ~Pending /\ ~Pending' /\ ~Marked /\ ~Marked' /\ End' = 0
    BY <1>1, Inside DEF Oldest, Free, Taken, Pending, Marked, End
  <1>3. Ideal' = mem /\ Ideal = mem
    BY <1>1, <1>2 DEF Ideal, Cleared, Seen, Restored
  <1>4. Layout(mem, r, w, Free, Free)
    BY <1>1, <1>2, <1>3, Resting
  <1>5. Layout(mem, 0, 0, Free, Free) /\ EndClear(mem, 0)
    BY <1>2, <1>4, LayoutReset DEF Layout, EndClear
  <1>6. Unread'
    BY <1>1, <1>2, <1>3, <1>5 DEF Unread, Phase
  <1>7. Types' /\ Histories' /\ Sending'
    BY <1>1 DEF ChannelInv, Types, Histories, Sending, WPc, RPc
  <1>8. WriterInv' /\ ReaderInv'
    BY <1>1 DEF WriterInv, ReaderInv, Taken, Pending
  <1> QED
    BY <1>6, <1>7, <1>8 DEF ChannelInv

-----------------------------------------------------------------------------
(* The FIFO is a channel up to the first race                              *)

\* The FIFO starts empty and clear.
LEMMA InitChannelInv ==
  ASSUME Init
  PROVE  ChannelInv
  <1>1. Zero \in Words /\ mem \in Mem
    BY WordsOK DEF Init, Mem
  <1>2. Len(got) = 0 /\ Len(sent) = 0 /\ ~Taken /\ ~Pending /\ ~Marked /\ End = 0
    BY DEF Init, Taken, Pending, Marked, End
  <1>3. Oldest = 1 /\ Free = 1 /\ Ideal = mem
    BY <1>2 DEF Oldest, Free, Ideal, Seen, Restored, Cleared
  <1>4. Types
    BY <1>1 DEF Init, Types, NoMsg, WPc, RPc
  <1>5. Histories /\ Sending
    BY <1>2, MaxMsgsAssumption DEF Init, Histories, Sending
  <1> DEFINE z == [i \in Nat |-> 0]
  <1>6. z \in Places /\ z[1] = 0
    BY DEF Places
  <1>7. mem[1] = Zero
    BY SizeAssumption DEF Init
  <1>8. Straight(mem, z, 0, 0, 1, 1)
    BY <1>6, <1>7, ChainEmpty, WordsOK, SizeAssumption DEF Straight
  <1>9. Layout(mem, 0, 0, 1, 1) /\ EndClear(mem, 0)
    BY <1>6, <1>8 DEF Layout, OnePiece, EndClear
  <1>10. Unread
    BY <1>2, <1>3, <1>9 DEF Init, Unread, Phase
  <1>11. WriterInv /\ ReaderInv
    BY <1>2 DEF Init, WriterInv, ReaderInv
  <1> QED
    BY <1>4, <1>5, <1>10, <1>11 DEF ChannelInv

\* A race is not forgotten.
LEMMA RaceStays ==
  ASSUME [Next]_vars, race
  PROVE  race'
  BY DEF Next, vars, Send, Writer, Entry, Compare, Room, Mark, Wrap, Start, Header, Body, Advance,
         Clear, Raise, Isr, Reader, Poll, Poll0, Read, NoMem, Fetch, Copy, Release, Step, Rcv,
         RcvFetch, Reset, Note

\* Every step that is no race keeps the layout.
LEMMA NextChannelInv ==
  ASSUME ChannelInv, [Next]_vars, ~race'
  PROVE  ChannelInv'
  <1>1. CASE Writer
    BY <1>1, EntryStep, CompareStep, RoomStep, MarkStep, WrapStep, StartStep, HeaderStep,
       BodyStep, AdvanceStep, ClearStep, RaiseStep DEF Writer
  <1>2. CASE Reader
    BY <1>2, PollStep, Poll0Step, ReadStep, NoMemStep, FetchStep, ReleaseStep, StepStep
       DEF Reader
  <1>3. CASE Send \/ Isr \/ Rcv \/ RcvFetch \/ Reset
    BY <1>3, SendStep, IsrStep, RcvStep, RcvFetchStep, ResetStep
  <1>4. CASE UNCHANGED vars
    <2>1. UNCHANGED <<mem, r, w, wpc, out, rpc, in, sent, got>>
      BY <1>4 DEF vars
    <2>2. /\ Oldest' = Oldest /\ Free' = Free /\ End' = End /\ Ideal' = Ideal
          /\ (Taken' <=> Taken) /\ (Pending' <=> Pending)
      BY <2>1 DEF Oldest, Taken, Free, End, Ideal, Seen, Pending, Marked
    <2>3. Types' /\ Histories' /\ Sending'
      BY <2>1, <2>2 DEF ChannelInv, Types, Histories, Sending
    <2>4. Unread' /\ WriterInv'
      BY <2>1, <2>2 DEF ChannelInv, Unread, WriterInv
    <2>5. ReaderInv'
      BY <2>1, <2>2 DEF ChannelInv, ReaderInv, Found, Unfinished
    <2> QED
      BY <2>3, <2>4, <2>5 DEF ChannelInv
  <1> QED
    BY <1>1, <1>2, <1>3, <1>4 DEF Next

\* The unread messages lie between the indices, in order.
LaidOut == race \/ ChannelInv

\* They do until the cores meet in one of the four places: whatever the size, the
\* lengths and the interleaving.
THEOREM LayoutInvariant == Spec => []LaidOut
  <1>1. Init => LaidOut
    BY InitChannelInv DEF LaidOut
  <1>2. LaidOut /\ [Next]_vars => LaidOut'
    BY NextChannelInv, RaceStays DEF LaidOut
  <1> QED
    BY <1>1, <1>2, PTL DEF Spec

\* Both indices leave room for a header ...
InsideUntilRace == race \/ IndicesInFifo

\* ... up to a race, whatever the size and the lengths of the messages.
THEOREM ChannelIndices == Spec => []InsideUntilRace
  <1>1. LaidOut => InsideUntilRace
    BY Inside DEF LaidOut, InsideUntilRace, IndicesInFifo
  <1> QED
    BY <1>1, LayoutInvariant, PTL

\* The two flags are flags.
FlagsOK == irq \in BOOLEAN /\ race \in BOOLEAN

\* No step makes anything else of them.
LEMMA Flags == Spec => []FlagsOK
  <1>1. Init => FlagsOK
    BY DEF Init, FlagsOK
  <1>2. FlagsOK /\ [Next]_vars => FlagsOK'
    <2> SUFFICES ASSUME FlagsOK, [Next]_vars
                 PROVE  FlagsOK'
      OBVIOUS
    <2>1. irq' \in BOOLEAN
      BY DEF FlagsOK, Next, vars, Send, Writer, Entry, Compare, Room, Mark, Wrap, Start, Header,
             Body, Advance, Clear, Raise, Isr, Reader, Poll, Poll0, Read, NoMem, Fetch, Release,
             Step, Rcv, RcvFetch, Reset
    <2>2. race' \in BOOLEAN
      BY Zenon DEF FlagsOK, Next, vars, Send, Writer, Entry, Compare, Room, Mark, Wrap, Start,
             Header, Body, Advance, Clear, Raise, Isr, Reader, Poll, Poll0, Read, NoMem, Fetch,
             Copy, Release, Step, Rcv, RcvFetch, Reset, Note, HalfReleased, Uncleared, Unfinished,
             InUse
    <2> QED
      BY <2>1, <2>2 DEF FlagsOK
  <1> QED
    BY <1>1, <1>2, PTL DEF Spec

\* TypeOK: up to a race every variable has its type, and both indices are inside.
THEOREM FifoTypes == Spec => []TypeOK
  <1>1. LaidOut /\ FlagsOK => TypeOK
    <2> SUFFICES ASSUME LaidOut, FlagsOK, ~race
                 PROVE  Typed
      BY DEF TypeOK, FlagsOK
    <2>1. ChannelInv
      BY DEF LaidOut
    <2>2. r \in Nat /\ w \in Nat /\ r + 2 <= Size /\ w + 2 <= Size /\ Size \in Nat
      BY <2>1, Inside
    <2>3. r \in 0..Size - 1 /\ w \in 0..Size - 1
      BY <2>2
    <2> QED
      BY <2>1, <2>3 DEF ChannelInv, Types, Typed, Mem, FlagsOK
  <1> QED
    BY <1>1, LayoutInvariant, Flags, PTL

\* A message that is read is complete ...
WholeUntilRace == race \/ NoTornRead

\* ... up to a race: although the header is marked ready before the body is there,
\* a reader that does not meet the writer between the two gets whole messages.
THEOREM NothingTorn == Spec => []WholeUntilRace
  <1>1. LaidOut => WholeUntilRace
    BY DEF LaidOut, WholeUntilRace, ChannelInv, Histories, NoTornRead
  <1> QED
    BY <1>1, LayoutInvariant, PTL

\* The handler does not dereference NULL ...
NoNullUntilRace == race \/ rpc # "null"

\* ... up to a race: what fifo_not_empty found, fifo_read finds again.
THEOREM NeverNull == Spec => []NoNullUntilRace
  <1>1. LaidOut => NoNullUntilRace
    BY DEF LaidOut, NoNullUntilRace, ChannelInv, Types
  <1> QED
    BY <1>1, LayoutInvariant, PTL

\* A copy delivers the oldest message that was accepted and not delivered.
LEMMA CopyDelivers ==
  ASSUME ChannelInv, rpc \in {"fetch", "rcv"}, Copy, UNCHANGED sent, ~race'
  PROVE  Channel!Deliver
  <1>1. /\ Oldest < Free /\ Oldest = Len(got) + 1
        /\ got' = Append(got, [id |-> Oldest, body |-> Oldest]) /\ Len(got') = Oldest
        /\ \A i \in 1..Len(got') : got'[i].id = i /\ got'[i].body = i
    BY CopyMessage DEF Found
  <1>2. /\ Len(got) \in Nat /\ Len(sent) \in Nat /\ Free = Len(sent) + 1
        /\ \A i \in 1..Len(got) : got[i].id = i /\ got[i].body = i
        /\ \A i \in 1..Len(sent) : sent[i] = i
    BY DEF ChannelInv, Types, Histories, Free
  <1>3. sent[Len(got) + 1] = Len(got) + 1 /\ Len(got) + 1 <= Len(sent)
    BY <1>1, <1>2
  <1>4. ReadIds = [i \in 1..Len(got) |-> i]
    BY <1>2 DEF ReadIds
  <1>5. ReadIds' = [i \in 1..Len(got) + 1 |-> i]
    BY <1>1, <1>2 DEF ReadIds
  <1>6. Append([i \in 1..Len(got) |-> i], Len(got) + 1) = [i \in 1..Len(got) + 1 |-> i]
    <2> DEFINE s == [i \in 1..Len(got) |-> i]
    <2>1. s \in Seq(Nat) /\ Len(s) = Len(got)
      BY <1>2
    <2>2. Append(s, Len(got) + 1) =
            [i \in 1..Len(s) + 1 |-> IF i <= Len(s) THEN s[i] ELSE Len(got) + 1]
      BY <2>1
    <2>3. \A i \in 1..Len(got) + 1 : i <= Len(got) => s[i] = i
      BY <1>2
    <2>4. \A i \in 1..Len(got) + 1 : ~(i <= Len(got)) => i = Len(got) + 1
      BY <1>2
    <2> HIDE DEF s
    <2>5. [i \in 1..Len(s) + 1 |-> IF i <= Len(s) THEN s[i] ELSE Len(got) + 1] =
            [i \in 1..Len(got) + 1 |-> i]
      BY <2>1, <2>3, <2>4
    <2> QED
      BY <2>2, <2>5 DEF s
  <1>7. ReadIds' = Append(ReadIds, sent[Len(got) + 1])
    BY <1>3, <1>4, <1>5, <1>6
  <1>8. Len(got)' + 1 = Len(got) + 1 + 1
    BY <1>1, <1>2
  <1> QED
    BY <1>3, <1>7, <1>8 DEF Channel!Deliver

\* A body that is copied is a message accepted.
LEMMA BodyAccepts ==
  ASSUME ChannelInv, Body
  PROVE  Channel!Accept
  <1>1. out.id \in 1..MaxMsgs
    <2>1. wpc = "body" /\ Len(sent) \in Nat
      BY DEF Body, GotoW, ChannelInv, Types
    <2> QED
      BY <2>1, MaxMsgsAssumption DEF ChannelInv, Sending, Free
  <1>2. sent' = Append(sent, out.id) /\ got' = got
    BY DEF Body, readerVars
  <1>3. ReadIds' = ReadIds /\ Len(got)' + 1 = Len(got) + 1
    BY <1>2 DEF ReadIds
  <1> QED
    BY <1>1, <1>2, <1>3 DEF Channel!Accept

\* Every other step leaves the histories alone.
LEMMA ChannelStep ==
  ASSUME LaidOut, [Next]_vars
  PROVE  [Channel!Next \/ race']_<<sent, ReadIds, Len(got) + 1>>
  <1> SUFFICES ASSUME ~race'
               PROVE  [Channel!Next]_<<sent, ReadIds, Len(got) + 1>>
    OBVIOUS
  <1>0. ChannelInv
    BY RaceStays DEF LaidOut
  <1>1. CASE Body
    BY <1>0, <1>1, BodyAccepts DEF Channel!Next
  <1>2. CASE Fetch
    BY <1>0, <1>2, CopyDelivers DEF Channel!Next, Fetch, GotoR, writerVars
  <1>3. CASE RcvFetch /\ got' # got
    <2>1. rpc = "rcv" /\ Copy /\ UNCHANGED sent
      BY <1>3 DEF RcvFetch, GotoR, writerVars
    <2> QED
      BY <1>0, <2>1, CopyDelivers DEF Channel!Next
  <1>4. CASE UNCHANGED <<sent, got>>
    <2>1. ReadIds' = ReadIds /\ Len(got)' = Len(got)
      BY <1>4 DEF ReadIds
    <2> QED
      BY <1>4, <2>1
  <1>5. Body \/ Fetch \/ (RcvFetch /\ got' # got) \/ UNCHANGED <<sent, got>>
    BY DEF Next, vars, readerVars, writerVars, Send, Writer, Entry, Compare, Room, Mark, Wrap,
           Start, Header, Advance, Clear, Raise, Isr, Reader, Poll, Poll0, Read, NoMem,
           Release, Step, Rcv, RcvFetch, Reset
  <1> QED
    BY <1>1, <1>2, <1>3, <1>4, <1>5

\* IsChannel: with both cores in its code the FIFO implements the channel up to a
\* race: what fifo_write accepted is read in order, each message once and whole.
THEOREM FifoIsChannel == Spec => IsChannel
  <1>1. Init => Channel!Init
    <2> SUFFICES ASSUME Init
                 PROVE  Channel!Init
      OBVIOUS
    <2>1. got = <<>> /\ sent = <<>> /\ Len(got) = 0
      BY DEF Init
    <2>2. ReadIds = <<>>
      BY <2>1 DEF ReadIds
    <2> QED
      BY <2>1, <2>2 DEF Channel!Init
  <1>2. LaidOut /\ [Next]_vars => [Channel!Next \/ race']_<<sent, ReadIds, Len(got) + 1>>
    BY ChannelStep
  <1> QED
    BY <1>1, <1>2, LayoutInvariant, PTL DEF Spec, IsChannel

-----------------------------------------------------------------------------
(* The data FIFO, through every race and reset                             *)

\* Every message has four words (the header, the pointer and msg_buf_len), and
\* msg_buf_len does not look like a header that is ready.
DataFifo == Lens \subseteq {4} /\ \A b \in BodyBits : ~b.ready

\* A header starts at a multiple of four.
Aligned(x) == \E j \in Nat : x = 4 * j

\* Headers, old ones too, are the only words that are ready, they end inside
\* the FIFO, and their length is that of a message or, cleared, of a header.
WordAligned(x, v) ==
  /\ v.ready => Aligned(x - 1) /\ x + 5 <= Size
  /\ Aligned(x - 1) => v.len \in {HdrLen, 4}

WordsAligned(M) == \A x \in 0..Size + Beyond : WordAligned(x, M[x])

DataTypes ==
  /\ mem \in Mem /\ r \in Nat /\ w \in Nat /\ in \in Nat
  /\ wpc \in WPc /\ rpc \in RPc
  /\ out \in [id : Nat, len : Nat, bits : [ready : BOOLEAN, wrap : BOOLEAN, len : Nat]]
  /\ sent \in Seq(Nat) /\ got \in Seq([id : Nat, body : Nat])

\* The writer keeps the alignment, and a margin behind the message it writes.
DataWriter ==
  /\ Aligned(w) /\ w + Margin <= Size
  /\ wpc \notin {"idle", "clear", "raise"} => out.len = 4 /\ ~out.bits.ready
  /\ wpc \in {"header", "body", "advance"} => w + 6 <= Size

\* A reader that found an entry ready is at a header; what it adds to the read
\* index, even if the header was cleared meanwhile, leaves room for the next.
DataReader ==
  /\ r + Margin <= Size
  /\ rpc \in {"fetch", "rcv", "release", "rcvrelease", "step", "rcvstep"} =>
       Aligned(r) /\ r + 6 <= Size
  /\ rpc \in {"release", "rcvrelease", "step", "rcvstep"} => in \in {HdrLen, 4}

DataInv == DataTypes /\ WordsAligned(mem) /\ DataWriter /\ DataReader

\* The words of a message begin with its header: none of the others is one.
LEMMA AlignedSteps ==
  ASSUME NEW x \in Nat, Aligned(x)
  PROVE  /\ ~Aligned(x + 1) /\ ~Aligned(x + 2) /\ ~Aligned(x - 1) /\ Aligned(x + 4) /\ Aligned(0)
  BY DEF Aligned

\* Writing one word keeps the alignment, if the word is as it should be.
LEMMA WordsAlignedPut ==
  ASSUME NEW M, NEW M2, NEW x, NEW v, WordsAligned(M), Put(M, M2, x, v), WordAligned(x, v)
  PROVE  WordsAligned(M2) /\ M2 \in Mem
  <1> SUFFICES ASSUME NEW y \in 0..Size + 8
               PROVE  WordAligned(y, M2[y])
    BY DEF WordsAligned, Put
  <1>1. CASE y = x
    BY <1>1 DEF Put
  <1>2. CASE y # x
    BY <1>2 DEF Put, WordsAligned
  <1> QED
    BY <1>1, <1>2

\* The writer's steps that write nothing.
LEMMA DataWriterSteps ==
  ASSUME DataInv, DataFifo,
         Send \/ Entry \/ Compare \/ Room \/ Wrap \/ Start \/ Advance \/ Raise
  PROVE  DataInv'
  <1>1. /\ UNCHANGED <<mem, r, rpc, in, sent, got>>
    BY DEF Send, Entry, Compare, Room, Wrap, Start, Advance, Raise, readerVars
  <1>2. WordsAligned(mem') /\ DataReader'
    BY <1>1 DEF DataInv, DataReader
  <1>3. w \in Nat /\ r \in Nat /\ Aligned(w) /\ Aligned(0) /\ Aligned(w + 4)
        /\ w + 2 <= Size /\ r + 2 <= Size
    BY AlignedSteps DEF DataInv, DataTypes, DataWriter, DataReader
  <1>4. CASE Send
    <2>1. UNCHANGED w /\ wpc' = "entry" /\ Len(sent) \in Nat
      BY <1>4 DEF Send, GotoW, DataInv, DataTypes
    <2>2. PICK n \in Lens, b \in BodyBits : out' = [id |-> Len(sent) + 1, len |-> n, bits |-> b]
      BY <1>4 DEF Send
    <2>3. n = 4 /\ ~b.ready /\ b \in [ready : BOOLEAN, wrap : BOOLEAN, len : Nat]
      BY BitsAssumption DEF DataFifo
    <2>4. /\ out' \in [id : Nat, len : Nat, bits : [ready : BOOLEAN, wrap : BOOLEAN, len : Nat]]
          /\ out'.len = 4 /\ ~out'.bits.ready
      BY <2>1, <2>2, <2>3
    <2>5. DataTypes'
      BY <1>1, <2>1, <2>4 DEF DataInv, DataTypes, WPc
    <2>6. DataWriter'
      BY <1>3, <2>1, <2>4 DEF DataWriter
    <2> QED
      BY <1>2, <2>5, <2>6 DEF DataInv
  <1>5. CASE Entry \/ Compare \/ Room \/ Wrap \/ Start \/ Advance \/ Raise
    <2>1. /\ UNCHANGED out /\ wpc # "idle"
          /\ \/ w' = w /\ wpc' \in {"compare", "room", "mark"}
                /\ wpc \in {"entry", "compare", "start"}
             \/ w' = w /\ wpc' = "idle"
             \/ w' = w /\ wpc' = "header" /\ wpc = "compare" /\ w + out.len + 2 < Size
             \/ w' = w /\ wpc' = "header" /\ wpc = "room" /\ w + out.len + 2 <= r
             \/ w' = 0 /\ wpc' = "start" /\ wpc = "wrap"
             \/ w' = w + out.len /\ wpc' = "clear" /\ wpc = "advance"
      BY <1>5 DEF Entry, Compare, Room, Wrap, Start, Advance, Raise, GotoW
    <2>2. /\ wpc \notin {"idle", "clear", "raise"} => out.len = 4 /\ ~out.bits.ready
          /\ wpc = "advance" => w + 6 <= Size
      BY DEF DataInv, DataWriter
    <2>3. /\ Aligned(w') /\ w' \in Nat /\ w' + 2 <= Size
          /\ wpc' = "header" => w' + 6 <= Size
          /\ wpc' \in {"compare", "room", "mark", "idle", "header", "start", "clear"}
          /\ wpc' \notin {"idle", "clear", "raise"} => out'.len = 4 /\ ~out'.bits.ready
      BY <1>3, <2>1, <2>2, SizeAssumption
    <2>4. DataTypes'
      BY <1>1, <2>1, <2>3 DEF DataInv, DataTypes, WPc
    <2>5. DataWriter'
      BY <2>3 DEF DataWriter
    <2> QED
      BY <1>2, <2>4, <2>5 DEF DataInv
  <1> QED
    BY <1>4, <1>5

\* What is left to show of a step of the writer that writes.
LEMMA DataWriterWrites ==
  ASSUME DataInv, UNCHANGED <<r, w, out, rpc, in, got>>, sent' \in Seq(Nat), mem' \in Mem,
         WordsAligned(mem'), wpc' \in WPc,
         wpc' \in {"raise"} \/ wpc \notin {"idle", "clear", "raise"},
         wpc' \in {"header", "body", "advance"} => w + 6 <= Size
  PROVE  DataInv'
  <1>1. DataTypes'
    BY DEF DataInv, DataTypes
  <1>2. DataWriter'
    BY DEF DataInv, DataWriter
  <1>3. DataReader'
    BY DEF DataInv, DataReader
  <1> QED
    BY <1>1, <1>2, <1>3 DEF DataInv

\* The writer's steps that write.
LEMMA DataWriterMem ==
  ASSUME DataInv, DataFifo, Mark \/ Header \/ Body \/ Clear
  PROVE  DataInv'
  <1>1. /\ mem \in Mem /\ w \in Nat /\ Aligned(w) /\ w + 2 <= Size /\ sent \in Seq(Nat)
        /\ out.id \in Nat /\ out.len \in Nat
        /\ out.bits \in [ready : BOOLEAN, wrap : BOOLEAN, len : Nat] /\ WordsAligned(mem)
    BY DEF DataInv, DataTypes, DataWriter
  <1>2. w \in 0..Size + 8 /\ w + 1 \in 0..Size + 8 /\ (w + 1) - 1 = w /\ Size \in Nat
    <2>1. w \in Nat /\ w + 2 <= Size
      BY <1>1
    <2> QED
      BY <2>1, SizeAssumption
  <1>3. ~Aligned(w - 1) /\ ~Aligned(w + 1) /\ ~Aligned(w + 2)
    BY <1>1, AlignedSteps
  <1>4. UNCHANGED <<r, w, out, rpc, in, got>>
    BY DEF Mark, Header, Body, Clear, readerVars
  <1>5. CASE Mark
    <2>1. wpc = "mark" /\ wpc' = "wrap" /\ mem' = [mem EXCEPT ![w + 1] = Marker] /\ sent' = sent
      BY <1>5 DEF Mark, GotoW
    <2>2. Put(mem, [mem EXCEPT ![w + 1] = Marker], w + 1, Marker)
      BY <1>1, <1>2, MemWrite, WordsOK
    <2>3. Put(mem, mem', w + 1, Marker)
      BY <2>1, <2>2
    <2>4. WordAligned(w + 1, Marker)
      BY DEF Marker, WordAligned
    <2>5. WordsAligned(mem') /\ mem' \in Mem
      BY <1>1, <2>3, <2>4, WordsAlignedPut
    <2> QED
      BY <1>1, <1>4, <2>1, <2>5, DataWriterWrites DEF WPc
  <1>6. CASE Clear
    <2> DEFINE M1 == [mem EXCEPT ![w] = Zero]
    <2>1. /\ wpc = "clear" /\ wpc' = "raise" /\ mem' = [M1 EXCEPT ![w + 1] = Zero]
          /\ sent' = sent
      BY <1>6 DEF Clear, GotoW
    <2>2. WordAligned(w, Zero) /\ WordAligned(w + 1, Zero)
      BY DEF Zero, WordAligned
    <2>3. Put(mem, M1, w, Zero)
      BY <1>1, <1>2, MemWrite, WordsOK
    <2> HIDE DEF M1
    <2>4. WordsAligned(M1) /\ M1 \in Mem
      BY <1>1, <2>2, <2>3, WordsAlignedPut
    <2>5. Put(M1, [M1 EXCEPT ![w + 1] = Zero], w + 1, Zero)
      BY <1>2, <2>4, MemWrite, WordsOK
    <2>6. Put(M1, mem', w + 1, Zero)
      BY <2>1, <2>5
    <2>7. WordsAligned(mem') /\ mem' \in Mem
      BY <2>2, <2>4, <2>6, WordsAlignedPut
    <2> QED
      BY <1>1, <1>4, <2>1, <2>7, DataWriterWrites DEF WPc
  <1>7. CASE Header
    <2> DEFINE A == [Zero EXCEPT !.id = out.id]
               B == [ready |-> TRUE, wrap |-> FALSE, len |-> out.len, id |-> out.id]
               M1 == [mem EXCEPT ![w] = A]
    <2>1. /\ wpc = "header" /\ wpc' = "body" /\ mem' = [M1 EXCEPT ![w + 1] = B]
          /\ sent' = sent
      BY <1>7 DEF Header, GotoW
    <2>2. out.len = 4 /\ w + 6 <= Size
      BY <2>1 DEF DataInv, DataWriter
    <2>3. /\ A \in Words /\ WordAligned(w, A)
          /\ B \in Words /\ WordAligned(w + 1, B)
      <3>1. A \in Words /\ ~A.ready /\ A.len = 2 /\ B \in Words /\ B.len = 4
        BY <1>1, <2>2 DEF Zero, Words
      <3>2. Aligned((w + 1) - 1) /\ w + 1 + 5 <= Size
        BY <1>1, <1>2, <2>2
      <3> HIDE DEF A, B
      <3> QED
        BY <3>1, <3>2 DEF WordAligned
    <2> HIDE DEF A, B
    <2>4. Put(mem, M1, w, A)
      BY <1>1, <1>2, <2>3, MemWrite
    <2> HIDE DEF M1
    <2>5. WordsAligned(M1) /\ M1 \in Mem
      BY <1>1, <2>3, <2>4, WordsAlignedPut
    <2>6. Put(M1, [M1 EXCEPT ![w + 1] = B], w + 1, B)
      BY <1>2, <2>3, <2>5, MemWrite
    <2>7. Put(M1, mem', w + 1, B)
      BY <2>1, <2>6
    <2>8. WordsAligned(mem') /\ mem' \in Mem
      BY <2>3, <2>5, <2>7, WordsAlignedPut
    <2> QED
      BY <1>1, <1>4, <2>1, <2>2, <2>8, DataWriterWrites DEF WPc
  <1>8. CASE Body
    <2>1. wpc = "body" /\ wpc' = "advance" /\ sent' = Append(sent, out.id)
      BY <1>8 DEF Body, GotoW
    <2>2. out.len = 4 /\ ~out.bits.ready /\ w + 6 <= Size
      BY <2>1 DEF DataInv, DataWriter
    <2> DEFINE C == [ready |-> out.bits.ready, wrap |-> out.bits.wrap,
                     len |-> out.bits.len, id |-> out.id]
               B == [mem[w + 1] EXCEPT !.ready = TRUE]
    <2>3. C \in Words /\ ~C.ready
      BY <1>1, <2>2 DEF Words
    <2>4. B \in Words /\ B.len = mem[w + 1].len
      <3>1. mem[w + 1] \in Words
        BY <1>1, <1>2 DEF Mem
      <3> QED
        BY <3>1, ReadyBit
    <2>5. DOMAIN mem = 0..Size + 8
      BY <1>1 DEF Mem
    <2>6. mem' = [p \in 0..Size + 8 |->
                    CASE p \in w + 2..w + out.len - 1 -> C
                      [] p = w + 1 -> B
                      [] OTHER -> mem[p]]
      <3>1. mem' = [p \in DOMAIN mem |->
                      CASE p \in w + 2..w + out.len - 1 -> C
                        [] p = w + 1 -> [mem[p] EXCEPT !.ready = TRUE]
                        [] OTHER -> mem[p]]
        BY <1>8 DEF Body
      <3> HIDE DEF C
      <3> QED
        BY <3>1, <2>5
    <2> HIDE DEF B, C
    <2>7. \A x \in w + 2..w + out.len - 1 : x = w + 2 \/ x = w + 3
      BY <1>1, <2>2
    <2>8. w + 1 \notin w + 2..w + out.len - 1
      BY <1>1, <2>2
    <2>9. ASSUME NEW x \in 0..Size + 8
          PROVE  /\ x \in w + 2..w + out.len - 1 => mem'[x] = C
                 /\ x = w + 1 => mem'[x] = B
                 /\ x \notin w + 2..w + out.len - 1 /\ x # w + 1 => mem'[x] = mem[x]
      BY <2>6, <2>8
    <2>10. ASSUME NEW x \in 0..Size + 8
           PROVE  mem'[x] \in Words /\ WordAligned(x, mem'[x])
      <3>1. mem[x] \in Words /\ WordAligned(x, mem[x])
        BY <1>1 DEF Mem, WordsAligned
      <3>2. CASE x \in w + 2..w + out.len - 1
        <4>1. mem'[x] = C
          BY <2>9, <3>2
        <4>2. x - 1 = w + 1 \/ x - 1 = w + 2
          BY <1>1, <2>7, <3>2
        <4>3. ~Aligned(x - 1)
          BY <1>3, <4>2
        <4> QED
          BY <2>3, <4>1, <4>3 DEF WordAligned
      <3>3. CASE x = w + 1
        <4>1. mem'[x] = B
          BY <2>9, <3>3
        <4>2. x - 1 = w /\ x + 5 <= Size
          BY <1>1, <2>2, <3>3
        <4>3. mem[x].len \in {2, 4}
          BY <1>1, <3>1, <4>2 DEF WordAligned
        <4>4. B.len \in {2, 4}
          BY <2>4, <3>3, <4>3
        <4> QED
          BY <1>1, <2>4, <4>1, <4>2, <4>4 DEF WordAligned
      <3>4. CASE x \notin w + 2..w + out.len - 1 /\ x # w + 1
        <4>1. mem'[x] = mem[x]
          BY <2>9, <3>4
        <4> QED
          BY <3>1, <4>1
      <3> QED
        BY <3>2, <3>3, <3>4
    <2>11. mem' \in Mem /\ WordsAligned(mem')
      BY <2>6, <2>10 DEF Mem, WordsAligned
    <2>12. sent' \in Seq(Nat)
      BY <1>1, <2>1
    <2> QED
      BY <1>4, <2>1, <2>2, <2>11, <2>12, DataWriterWrites DEF WPc
  <1> QED
    BY <1>5, <1>6, <1>7, <1>8

\* A reader that finds an entry ready is at a header inside the FIFO.
LEMMA ReadyHeader ==
  ASSUME DataInv, NEW x \in Nat, x + 2 <= Size, mem[x + 1].ready
  PROVE  Aligned(x) /\ x + 6 <= Size
  <1>1. x + 1 \in 0..Size + 8 /\ (x + 1) - 1 = x
    BY SizeAssumption
  <1>2. Aligned((x + 1) - 1) /\ x + 1 + 5 <= Size
    BY <1>1 DEF DataInv, WordsAligned, WordAligned
  <1> QED
    BY <1>1, <1>2

\* What is left to show of a step of the reader.
LEMMA DataReaderRest ==
  ASSUME DataInv, UNCHANGED <<w, wpc, out, sent>>, mem' \in Mem, WordsAligned(mem'),
         r' \in Nat, in' \in Nat, got' \in Seq([id : Nat, body : Nat]), rpc' \in RPc, DataReader'
  PROVE  DataInv'
  <1>1. DataTypes'
    BY DEF DataInv, DataTypes
  <1>2. DataWriter'
    BY DEF DataInv, DataWriter
  <1> QED
    BY <1>1, <1>2 DEF DataInv

\* The reader's steps up to the copy.
LEMMA DataReaderLooks ==
  ASSUME DataInv, Isr \/ Poll \/ Poll0 \/ Read \/ NoMem \/ Rcv
  PROVE  DataInv'
  <1>1. UNCHANGED <<mem, w, wpc, out, sent, in, got>>
    BY DEF Isr, Poll, Poll0, Read, NoMem, Rcv, writerVars
  <1>2. /\ mem \in Mem /\ WordsAligned(mem) /\ r \in Nat /\ r + 2 <= Size /\ in \in Nat
        /\ got \in Seq([id : Nat, body : Nat])
    BY DEF DataInv, DataTypes, DataReader
  <1>3. /\ r' = r \/ r' = 0
        /\ \/ rpc' \in {"idle", "poll", "poll0", "read", "null"}
           \/ rpc' \in {"fetch", "rcv"} /\ mem[r' + 1].ready
    BY DEF Isr, Poll, Poll0, Read, NoMem, Rcv, GotoR, Ready, Val1
  <1>4. r' \in Nat /\ r' + 2 <= Size
    BY <1>2, <1>3, SizeAssumption
  <1>5. mem[r' + 1].ready => Aligned(r') /\ r' + 6 <= Size
    BY <1>4, ReadyHeader
  <1>6. DataReader'
    BY <1>3, <1>4, <1>5 DEF DataReader
  <1> QED
    BY <1>1, <1>2, <1>3, <1>4, <1>6, DataReaderRest DEF RPc

\* The copy, whatever became of the message meanwhile.
LEMMA DataCopy ==
  ASSUME DataInv, rpc \in {"fetch", "rcv"}, Copy
  PROVE  in' \in {2, 4} /\ in' \in Nat /\ got' \in Seq([id : Nat, body : Nat])
  <1>1. /\ mem \in Mem /\ r \in Nat /\ Aligned(r) /\ r + 6 <= Size
        /\ got \in Seq([id : Nat, body : Nat])
    BY DEF DataInv, DataTypes, DataReader
  <1>2. r + 1 \in 0..Size + 8 /\ r + 2 \in 0..Size + 8 /\ (r + 1) - 1 = r
    BY <1>1, SizeAssumption
  <1>3. mem[r + 1] \in Words /\ mem[r + 2] \in Words
    BY <1>1, <1>2 DEF Mem
  <1>4. mem[r + 1].id \in Nat /\ mem[r + 2].id \in Nat
    BY <1>3 DEF Words
  <1>5. mem[r + 1].len \in {2, 4}
    BY <1>1, <1>2 DEF DataInv, WordsAligned, WordAligned
  <1>6. in' = mem[r + 1].len
    BY DEF Copy, Val1
  <1> DEFINE e == [id |-> mem[r + 1].id,
                   body |-> IF mem[r + 1].len > 2 THEN mem[r + 2].id ELSE mem[r + 1].id]
  <1>7. e \in [id : Nat, body : Nat]
    BY <1>4
  <1>8. got' = Append(got, e)
    BY DEF Copy, Val1
  <1> HIDE DEF e
  <1>9. got' \in Seq([id : Nat, body : Nat])
    BY <1>1, <1>7, <1>8
  <1> QED
    BY <1>5, <1>6, <1>9

\* The reader's steps from the copy on.
LEMMA DataReaderTakes ==
  ASSUME DataInv, Fetch \/ RcvFetch \/ Release \/ Step
  PROVE  DataInv'
  <1>1. UNCHANGED <<w, wpc, out, sent>>
    BY DEF Fetch, RcvFetch, Release, Step, writerVars
  <1>2. /\ mem \in Mem /\ WordsAligned(mem) /\ r \in Nat /\ r + 2 <= Size /\ in \in Nat
        /\ got \in Seq([id : Nat, body : Nat])
    BY DEF DataInv, DataTypes, DataReader
  <1>3. rpc \in {"fetch", "rcv", "release", "rcvrelease", "step", "rcvstep"}
    BY DEF Fetch, RcvFetch, Release, Step, GotoR
  <1>4. Aligned(r) /\ r + 6 <= Size
    BY <1>3 DEF DataInv, DataReader
  <1>5. CASE (Fetch \/ RcvFetch) /\ Copy
    <2>1. rpc \in {"fetch", "rcv"} /\ rpc' \in {"release", "rcvrelease", "idle"}
          /\ UNCHANGED <<mem, r>>
      BY <1>5 DEF Fetch, RcvFetch, GotoR
    <2>2. in' \in {2, 4} /\ in' \in Nat /\ got' \in Seq([id : Nat, body : Nat])
      BY <1>5, <2>1, DataCopy
    <2>3. DataReader'
      BY <1>2, <1>4, <2>1, <2>2 DEF DataReader
    <2> QED
      BY <1>1, <1>2, <2>1, <2>2, <2>3, DataReaderRest DEF RPc
  <1>6. CASE RcvFetch /\ UNCHANGED <<in, got>>
    <2>1. rpc' \in {"idle", "rcvrelease"} /\ UNCHANGED <<mem, r>> /\ (rpc' = "rcvrelease" => Copy)
      BY <1>6 DEF RcvFetch, GotoR
    <2>2. CASE rpc' = "idle"
      <3>1. DataReader'
        BY <1>2, <2>1, <2>2 DEF DataReader
      <3> QED
        BY <1>1, <1>2, <1>6, <2>1, <2>2, <3>1, DataReaderRest DEF RPc
    <2> QED
      BY <1>5, <1>6, <2>1, <2>2
  <1>7. CASE Release
    <2> DEFINE v == [mem[r + 1] EXCEPT !.ready = FALSE]
    <2>1. /\ rpc \in {"release", "rcvrelease"} /\ rpc' \in {"step", "rcvstep"}
          /\ UNCHANGED <<r, in, got>> /\ mem' = [mem EXCEPT ![r + 1] = v]
      BY <1>7 DEF Release, GotoR
    <2>2. r + 1 \in 0..Size + 8 /\ (r + 1) - 1 = r
      BY <1>2, SizeAssumption
    <2>3. mem[r + 1] \in Words /\ mem[r + 1].len \in {2, 4}
      BY <1>2, <1>4, <2>2 DEF Mem, WordsAligned, WordAligned
    <2>4. v \in Words /\ v.ready = FALSE /\ v.len = mem[r + 1].len
      BY <2>3, ReadyBit
    <2> HIDE DEF v
    <2>5. Put(mem, [mem EXCEPT ![r + 1] = v], r + 1, v)
      BY <1>2, <2>2, <2>4, MemWrite
    <2>6. Put(mem, mem', r + 1, v)
      BY <2>1, <2>5
    <2>7. WordAligned(r + 1, v)
      BY <2>3, <2>4 DEF WordAligned
    <2>8. WordsAligned(mem') /\ mem' \in Mem
      BY <1>2, <2>6, <2>7, WordsAlignedPut
    <2>9. DataReader'
      BY <1>2, <1>4, <2>1 DEF DataInv, DataReader
    <2> QED
      BY <1>1, <1>2, <2>1, <2>8, <2>9, DataReaderRest DEF RPc
  <1>8. CASE Step
    <2>1. /\ rpc \in {"step", "rcvstep"} /\ rpc' \in {"poll", "idle"}
          /\ UNCHANGED <<mem, in, got>> /\ r' = r + in
      BY <1>8 DEF Step, GotoR
    <2>2. in \in {2, 4}
      BY <2>1 DEF DataInv, DataReader
    <2>3. r' \in Nat /\ r' + 2 <= Size
      BY <1>2, <1>4, <2>1, <2>2, SizeAssumption
    <2>4. DataReader'
      BY <2>1, <2>3 DEF DataReader
    <2> QED
      BY <1>1, <1>2, <2>1, <2>3, <2>4, DataReaderRest DEF RPc
  <1>9. (Fetch => Copy) /\ (RcvFetch => Copy \/ UNCHANGED <<in, got>>)
    BY DEF Fetch, RcvFetch
  <1> QED
    BY <1>5, <1>6, <1>7, <1>8, <1>9

\* A reset at any moment resets both indices and leaves every word as it is.
LEMMA DataReset ==
  ASSUME DataInv, Reset
  PROVE  DataInv'
  <1>1. /\ r' = 0 /\ w' = 0 /\ wpc' = "idle" /\ rpc' = "idle"
        /\ UNCHANGED <<mem, out, in, sent, got>>
    BY DEF Reset
  <1>2. Aligned(0) /\ 0 + 2 <= Size
    BY SizeAssumption DEF Aligned
  <1>3. DataTypes'
    BY <1>1 DEF DataInv, DataTypes, WPc, RPc
  <1>4. DataWriter' /\ DataReader'
    BY <1>1, <1>2 DEF DataWriter, DataReader
  <1> QED
    BY <1>1, <1>3, <1>4 DEF DataInv

\* The empty FIFO is aligned.
LEMMA InitDataInv ==
  ASSUME Init
  PROVE  DataInv
  <1>1. mem = [p \in 0..Size + 8 |-> Zero] /\ Zero \in Words /\ ~Zero.ready /\ Zero.len = 2
    BY WordsOK DEF Init, Zero
  <1>2. mem \in Mem
    BY <1>1 DEF Mem
  <1>3. WordsAligned(mem)
    BY <1>1 DEF WordsAligned, WordAligned
  <1>4. DataTypes
    BY <1>2 DEF Init, DataTypes, NoMsg, WPc, RPc
  <1>5. Aligned(0) /\ 0 + 2 <= Size
    BY SizeAssumption DEF Aligned
  <1>6. DataWriter /\ DataReader
    BY <1>5 DEF Init, DataWriter, DataReader
  <1> QED
    BY <1>3, <1>4, <1>6 DEF DataInv

\* Every step of either core keeps the alignment.
LEMMA NextDataInv ==
  ASSUME DataInv, DataFifo, [Next]_vars
  PROVE  DataInv'
  <1>1. CASE Send \/ Writer
    BY <1>1, DataWriterSteps, DataWriterMem DEF Writer
  <1>2. CASE Isr \/ Reader \/ Rcv \/ RcvFetch
    BY <1>2, DataReaderLooks, DataReaderTakes DEF Reader
  <1>3. CASE Reset
    BY <1>3, DataReset
  <1>4. CASE UNCHANGED vars
    BY <1>4 DEF vars, DataInv, DataTypes, DataWriter, DataReader
  <1> QED
    BY <1>1, <1>2, <1>3, <1>4 DEF Next

\* The alignment of the data FIFO, through every race and reset.
THEOREM AlignmentInvariant ==
  ASSUME DataFifo
  PROVE  Spec => []DataInv
  <1>1. Init => DataInv
    BY InitDataInv
  <1>2. DataInv /\ [Next]_vars => DataInv'
    BY NextDataInv
  <1> QED
    BY <1>1, <1>2, PTL DEF Spec

\* IndicesInFifo of the data FIFO: whatever races the cores have, and although
\* CPU1 may be reset at any moment, neither core looks at a header outside the
\* FIFO.
THEOREM DataIndices ==
  ASSUME DataFifo
  PROVE  Spec => []IndicesInFifo
  <1>1. DataInv => IndicesInFifo
    BY DEF DataInv, DataTypes, DataWriter, DataReader, IndicesInFifo
  <1> QED
    BY <1>1, AlignmentInvariant, PTL

\* Typed, for the data FIFO, likewise through every race.
THEOREM DataFifoTypes ==
  ASSUME DataFifo
  PROVE  Spec => []Typed
  <1>1. DataInv /\ FlagsOK => Typed
    <2> SUFFICES ASSUME DataInv, FlagsOK
                 PROVE  Typed
      OBVIOUS
    <2>1. r \in 0..Size - 1 /\ w \in 0..Size - 1
      BY SizeAssumption DEF DataInv, DataTypes, DataWriter, DataReader
    <2> QED
      BY <2>1 DEF DataInv, DataTypes, Typed, Mem, FlagsOK
  <1> QED
    BY <1>1, AlignmentInvariant, Flags, PTL
=============================================================================
