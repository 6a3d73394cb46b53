-------------------------------- MODULE TcpCn --------------------------------
(***************************************************************************)
(* The messages of a TCP chunnel (tcp/src/lib.rs): TcpCn::send writes a    *)
(* length header and the body of each message with as many try_writes as   *)
(* it takes, TcpCn::recv reassembles messages from try_reads into the      *)
(* slots of the caller's buffer.  The byte stream is a sequence of units   *)
(* <<message, position>>; the first Hdr positions are the header, whose    *)
(* content is the message's length.  TCP neither loses nor reorders.       *)
(*                                                                         *)
(* tokio's try_read clears readiness only if it fails with WouldBlock, so  *)
(* that readable() returns at once after a read that was short.            *)
(***************************************************************************)
EXTENDS Integers, Sequences

CONSTANTS Hdr,        \* units in a header (4 bytes in the code)
          Size,       \* [message number -> length]: the messages that send is given
          MaxSize,    \* the longest message that recv accepts (8192)
          Cap,        \* bound: units in the socket's buffer
          Slots,      \* msgs_capacity
          MayCut      \* the sender may vanish in the middle of a message

VARIABLES msg,        \* sender: the message being written
          wrote,      \* ... and how many units of it are
          closed,     \* ... it has closed the connection
          stream,     \* units in the socket's buffer
          ready,      \* the receiving socket is believed readable
          pc,         \* receiver: "idle", "readable", "read", "error", "panic"
          hdr,        \* the units in len_buf
          body,       \* the units of the message being read, after its header
          expect,     \* its length, or 0 between messages
          slots,      \* whole messages in msgs_buf[..tot_msgs]
          got         \* messages returned by recv

vars == <<msg, wrote, closed, stream, ready, pc, hdr, body, expect, slots, got>>
receiver == <<pc, hdr, body, expect, slots, got>>

Msgs == DOMAIN Size
Units(m) == [p \in 1..(Hdr + Size[m]) |-> <<m, p>>]

Init ==
    /\ msg = 1 /\ wrote = 0 /\ closed = FALSE
    /\ stream = <<>> /\ ready = FALSE
    /\ pc = "idle" /\ hdr = <<>> /\ body = <<>> /\ expect = 0
    /\ slots = <<>> /\ got = <<>>

-----------------------------------------------------------------------------
(* TcpCn::send *)

\* The header and the body are written by separate loops: no try_write crosses from one to
\* the other, or to the next message.
Chunk == IF wrote < Hdr THEN Hdr - wrote ELSE Hdr + Size[msg] - wrote
Written(w) == IF w = Hdr + Size[msg] THEN msg' = msg + 1 /\ wrote' = 0
                                     ELSE wrote' = w /\ UNCHANGED msg
\* A mutant: a short try_write is taken for a complete one.
WriteShort ==
    /\ ~closed /\ msg \in Msgs
    /\ \E n \in 1..Chunk :
         /\ Len(stream) + n <= Cap
         /\ stream' = stream \o SubSeq(Units(msg), wrote + 1, wrote + n)
         /\ Written(wrote + Chunk)
    /\ ready' = TRUE
    /\ UNCHANGED <<closed, receiver>>
Write ==
    /\ ~closed /\ msg \in Msgs
    /\ \E n \in 1..Chunk :
         /\ Len(stream) + n <= Cap
         /\ stream' = stream \o SubSeq(Units(msg), wrote + 1, wrote + n)
         /\ Written(wrote + n)
    /\ ready' = TRUE
    /\ UNCHANGED <<closed, receiver>>

\* The sender's process goes away, between messages unless MayCut.
Close ==
    /\ ~closed
    /\ MayCut \/ (msg \notin Msgs)
    /\ closed' = TRUE /\ ready' = TRUE
    /\ UNCHANGED <<msg, wrote, stream, receiver>>

-----------------------------------------------------------------------------
(* TcpCn::recv *)

Call ==
    /\ pc = "idle"
    /\ pc' = "readable" /\ hdr' = <<>> /\ body' = <<>> /\ expect' = 0 /\ slots' = <<>>
    /\ UNCHANGED <<msg, wrote, closed, stream, ready, got>>

Readable ==
    /\ pc = "readable" /\ ready
    /\ pc' = "read"
    /\ UNCHANGED <<msg, wrote, closed, stream, ready, hdr, body, expect, slots, got>>

\* recv returns the messages it has.
Return(ms) ==
    /\ pc' = "idle" /\ got' = got \o ms
    /\ hdr' = <<>> /\ body' = <<>> /\ expect' = 0 /\ slots' = <<>>

Least(x, y) == IF x < y THEN x ELSE y
WouldBlock == stream = <<>> /\ ~closed
Eof == stream = <<>> /\ closed
Taken(n) == stream' = SubSeq(stream, n + 1, Len(stream)) /\ UNCHANGED ready

\* try_read into the rest of the body.
MessageOf(units) == units[1][1]
ReadBody ==
    /\ pc = "read" /\ expect > 0 /\ stream # <<>>
    /\ LET n == Least(Len(stream), expect - Len(body))
           b == body \o SubSeq(stream, 1, n)
           ms == Append(slots, b) IN
       /\ Taken(n)
       /\ \/ /\ Len(b) = expect /\ Len(ms) = Slots
             /\ Return(ms)
          \/ /\ Len(b) = expect /\ Len(ms) < Slots
             /\ slots' = ms /\ body' = <<>> /\ expect' = 0
             /\ UNCHANGED <<pc, hdr, got>>
          \/ /\ Len(b) < expect
             /\ body' = b /\ pc' = "readable"
             /\ UNCHANGED <<hdr, expect, slots, got>>
    /\ UNCHANGED <<msg, wrote, closed>>

\* A mutant: a body that has not come yet is given up.
BlockBodyReturns ==
    /\ pc = "read" /\ expect > 0 /\ WouldBlock
    /\ ready' = FALSE
    /\ Return(slots)
    /\ UNCHANGED <<msg, wrote, closed, stream>>
\* "we cannot return here, having received a header but not its message".
BlockBody ==
    /\ pc = "read" /\ expect > 0 /\ WouldBlock
    /\ ready' = FALSE /\ pc' = "readable"
    /\ UNCHANGED <<msg, wrote, closed, stream, hdr, body, expect, slots, got>>

\* Ok(0) within a body is unreachable!().
EofBody ==
    /\ pc = "read" /\ expect > 0 /\ Eof
    /\ pc' = "panic"
    /\ UNCHANGED <<msg, wrote, closed, stream, ready, hdr, body, expect, slots, got>>

\* The length that four units give: a message's if they are its header, or else anything.
Lengths(h) ==
    IF \E m \in Msgs : h = SubSeq(Units(m), 1, Hdr)
    THEN {Size[MessageOf(h)]} ELSE 0..(MaxSize + 1)
ReadHeader ==
    /\ pc = "read" /\ expect = 0 /\ stream # <<>>
    /\ LET n == Least(Len(stream), Hdr - Len(hdr))
           h == hdr \o SubSeq(stream, 1, n) IN
       /\ Taken(n)
       /\ \/ /\ Len(h) < Hdr
             /\ hdr' = h /\ pc' = "readable"
             /\ UNCHANGED expect
          \/ /\ Len(h) = Hdr
             /\ hdr' = <<>>
             /\ \E l \in Lengths(h) :
                  IF l \in 1..MaxSize THEN expect' = l /\ UNCHANGED pc
                                      ELSE pc' = "error" /\ UNCHANGED expect
    /\ UNCHANGED <<msg, wrote, closed, body, slots, got>>

\* Nothing more for now: return what there is, if there is something.
BlockHeader ==
    /\ pc = "read" /\ expect = 0 /\ WouldBlock
    /\ ready' = FALSE
    /\ IF slots # <<>> THEN Return(slots)
       ELSE pc' = "readable" /\ UNCHANGED <<hdr, body, expect, slots, got>>
    /\ UNCHANGED <<msg, wrote, closed, stream>>

\* A mutant: the end of the stream is unexpected between messages too.
EofHeaderPanics ==
    /\ pc = "read" /\ expect = 0 /\ Eof
    /\ pc' = "panic"
    /\ UNCHANGED <<msg, wrote, closed, stream, ready, hdr, body, expect, slots, got>>
\* "connection closed by peer"
EofHeader ==
    /\ pc = "read" /\ expect = 0 /\ Eof
    /\ pc' = "error"
    /\ UNCHANGED <<msg, wrote, closed, stream, ready, hdr, body, expect, slots, got>>

Recv ==
    \/ Call \/ Readable \/ ReadBody \/ BlockBody \/ EofBody
    \/ ReadHeader \/ BlockHeader \/ EofHeader
Next == Write \/ Close \/ Recv

Spec == Init /\ [][Next]_vars

-----------------------------------------------------------------------------
TypeOK ==
    /\ msg \in 1..(Len(Size) + 1) /\ wrote \in 0..(Hdr + MaxSize)
    /\ Len(stream) <= Cap
    /\ pc \in {"idle", "readable", "read", "error", "panic"}
    /\ Len(hdr) < Hdr /\ expect \in 0..MaxSize /\ Len(body) <= expect
    /\ Len(slots) < Slots \/ slots = <<>>

\* What recv has assembled is what send was given: the same messages, whole and in the same
\* order, however the stream was cut into reads and writes.
Assembled == got \o slots
Framed ==
    \A i \in DOMAIN Assembled :
        i \in Msgs /\ Assembled[i] = SubSeq(Units(i), Hdr + 1, Hdr + Size[i])

\* recv reaches its unreachable!() (lib.rs:398) only if the sender went away within the body of
\* a message: the end of the stream between messages, or within a header, is an error.
PanicIfCut == pc = "panic" => closed /\ wrote >= Hdr

\* What MCProgress relates: a message that was written is returned.
Sent(m) == msg > m
Returned(m) == Len(got) >= m
=============================================================================
