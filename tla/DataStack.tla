------------------------------ MODULE DataStack ------------------------------
(***************************************************************************)
(* Bursts through a stack of chunnels that hold no state, over a socket.   *)
(* The caller of recv lends a buffer of slots, and takes the messages at   *)
(* the front of what it is returned.  A socket reads into the caller's     *)
(* slots, reusing a message it finds there as memory; the chunnels above   *)
(* it (ProjectLeft, SerializeCn, Base64Cn, EitherCn) read into slots of    *)
(* their own and move what they could decode into the caller's.            *)
(***************************************************************************)
EXTENDS Integers, Sequences, SequencesExt

CONSTANTS Task,        \* tasks that call recv
          Stacks,      \* the stacks: sequences of layers, the socket first
          Kinds,       \* the kinds that one of the messages may be of; the rest are good
          Size,        \* the size of each message
          Slots,       \* the slots of each caller's buffer
          Burst,       \* messages per send
          None

VARIABLES stack,       \* the stack of this connection
          kind,        \* of each message, its kind
          pending,     \* messages of the send in progress that are not yet sent
          next,        \* the next message to send
          sk,          \* what the socket holds
          buf,         \* of each task: the slots of its buffer
          returned,    \* the messages returned, in order
          came,        \* the messages that came to the socket
          failed       \* the bursts that a failing recv took from the socket

vars == <<stack, kind, pending, next, sk, buf, returned, came, failed>>

MaxMsg == Len(Size)
Fresh == [i \in 1..Slots |-> None]

TypeOK ==
    /\ stack \in Stacks /\ kind \in [1..MaxMsg -> Kinds \cup {"good"}] /\ next \in 1..(MaxMsg + 1)
    /\ ToSet(pending) \cup ToSet(sk) \cup came \subseteq 1..MaxMsg
    /\ buf \in [Task -> [1..Slots -> [id : 1..MaxMsg, len : 1..Max(ToSet(Size))] \cup {None}]]

Init ==
    /\ stack \in Stacks
    /\ \E m \in 1..MaxMsg, k \in Kinds :
          kind = [n \in 1..MaxMsg |-> IF n = m THEN k ELSE "good"]
    /\ pending = <<>> /\ next = 1 /\ sk = <<>> /\ buf = [t \in Task |-> Fresh]
    /\ returned = <<>> /\ came = {} /\ failed = {}

Bad == [udp |-> "none", unix |-> "unnamed", steered |-> "none", project |-> "none",
        bincode |-> "nobincode", base64 |-> "nobase64", left |-> "right", right |-> "left"]

-----------------------------------------------------------------------------
(* send *)

\* SerializeCn serializes the whole burst before it sends any of it.
Serialized(burst) ==
    IF "bincode" \in ToSet(stack) /\ \E m \in ToSet(burst) : kind[m] = "unserializable"
    THEN <<>> ELSE burst

Send ==
    /\ pending = <<>> /\ next <= MaxMsg
    /\ LET burst == [i \in 1..Min({Burst, MaxMsg - next + 1}) |-> next + i - 1]
       IN  /\ pending' = Serialized(burst)
           /\ next' = next + Len(burst)
    /\ UNCHANGED <<stack, kind, sk, buf, returned, came, failed>>

\* UdpSk sends the burst's messages one by one; an error ends the call.
SendTo ==
    /\ pending # <<>>
    /\ \/ /\ sk' = Append(sk, Head(pending)) /\ came' = came \cup {Head(pending)}
          /\ pending' = Tail(pending)
       \/ pending' = <<>> /\ UNCHANGED <<sk, came>>
    /\ UNCHANGED <<stack, kind, next, buf, returned, failed>>

-----------------------------------------------------------------------------
(* recv *)

\* A slot that holds a message lends its memory, however small it is.
PeelOne(slot, m) ==
    [id |-> m, len |-> IF slot = None THEN Size[m] ELSE Min({slot.len, Size[m]})]

\* The rest of the slots are filled while the socket has something.
PeelRest(b, s) ==
    [i \in 1..Len(b) |-> IF i <= Len(s) THEN PeelOne(b[i], s[i]) ELSE b[i]]

UdpRecvOverwrites(b, s) ==
    [slots |-> IF Len(s) = 1 THEN PeelRest(b, s) ELSE PeelRest(b, Tail(s)), ret |-> Slots,
     took |-> Min({Slots, Len(s)}), err |-> FALSE]
UdpRecv(b, s) ==
    [slots |-> <<PeelOne(b[1], s[1])>> \o PeelRest(Tail(b), Tail(s)), ret |-> Slots,
     took |-> Min({Slots, Len(s)}), err |-> FALSE]

\* The same, but a message from a socket without a name is an error.
Unnamed(s) == {i \in 1..Min({Slots, Len(s)}) : kind[s[i]] = "unnamed"}
UnixRecv(b, s) ==
    IF Unnamed(s) = {} THEN UdpRecv(b, s)
    ELSE [slots |-> PeelRest(b, SubSeq(s, 1, Min(Unnamed(s)) - 1)), ret |-> 0,
          took |-> Min(Unnamed(s)), err |-> TRUE]

\* A steered connection has its own channel, whose messages it moves into the slots.
RecvChannelBurst(b, s) ==
    LET n == Min({Slots, Len(s)})
    IN  [slots |-> [i \in 1..Slots |-> IF i <= n THEN PeelOne(None, s[i]) ELSE b[i]],
         ret |-> Slots, took |-> n, err |-> FALSE]

Bottom(b, s) ==
    CASE stack[1] = "udp" -> UdpRecv(b, s)
      [] stack[1] = "unix" -> UnixRecv(b, s)
      [] stack[1] = "steered" -> RecvChannelBurst(b, s)

\* map_while(Option::take): the messages at the front of what was returned.
TakeWhile(r) ==
    LET holes == {i \in 1..r.ret : r.slots[i] = None}
    IN  SubSeq(r.slots, 1, IF holes = {} THEN r.ret ELSE Min(holes) - 1)

\* The messages that a layer reads are moved into b, up to the first that it refuses.
Moved(r, b, refused) ==
    LET p == TakeWhile(r)
        bad == {i \in 1..Len(p) : kind[p[i].id] = refused}
        n == IF bad = {} THEN Len(p) ELSE Min(bad) - 1
    IN  [slots |-> [i \in 1..Slots |-> IF i <= n THEN p[i] ELSE b[i]], ret |-> n,
         took |-> r.took, err |-> bad # {}]

\* ProjectLeft returns the whole buffer, the others what they have filled.
ProjectRecv(r, b) == [Moved(r, b, "none") EXCEPT !.ret = Slots]
SerializeRecvAll(r, b) == [Moved(r, b, "nobincode") EXCEPT !.ret = Slots]
SerializeRecv(r, b) == Moved(r, b, "nobincode")
Base64Recv(r, b) == Moved(r, b, "nobase64")
LeftRecv(r, b) == Moved(r, b, "right")
RightRecv(r, b) == Moved(r, b, "left")

Layer(l, r, b) ==
    CASE r.err -> [r EXCEPT !.slots = b]
      [] l = "project" -> ProjectRecv(r, b)
      [] l = "bincode" -> SerializeRecv(r, b)
      [] l = "base64" -> Base64Recv(r, b)
      [] l = "left" -> LeftRecv(r, b)
      [] l = "right" -> RightRecv(r, b)

\* Each layer but the last reads into slots of its own.
Through(t) ==
    LET lent(i) == IF i = Len(stack) THEN buf[t] ELSE Fresh
    IN  FoldLeft(LAMBDA r, i : IF i = 1 THEN r ELSE Layer(stack[i], r, lent(i)),
                 Bottom(lent(1), sk), [i \in 1..Len(stack) |-> i])

Recv(t) ==
    LET r == Through(t)
        got == IF r.err THEN <<>> ELSE TakeWhile(r)
    IN
    /\ sk # <<>>
    /\ sk' = SubSeq(sk, r.took + 1, Len(sk))
    /\ returned' = returned \o got
    /\ buf' = [buf EXCEPT ![t] = [i \in 1..Slots |-> IF i <= Len(got) THEN None ELSE r.slots[i]]]
    /\ failed' = IF r.err THEN failed \cup {ToSet(SubSeq(sk, 1, r.took))} ELSE failed
    /\ UNCHANGED <<stack, kind, pending, next, came>>

Next == Send \/ SendTo \/ \E t \in Task : Recv(t)

Spec == Init /\ [][Next]_vars
-----------------------------------------------------------------------------
Refused(m) == \E i \in 1..Len(stack) : kind[m] = Bad[stack[i]]

\* A UnixSk used without a chunnel above it, that gets a message without a sender's name,
\* leaves messages in the caller's slots.
SlotsSpoiled == stack = <<"unix">> /\ \E m \in 1..MaxMsg : Refused(m)

\* Messages are returned whole, once and in the order they came, whatever the layers, if the
\* caller takes what it is returned.
ReturnedWhole ==
    ~SlotsSpoiled =>
        /\ \A i \in 1..Len(returned) : returned[i].len = Size[returned[i].id]
        /\ \A i, j \in 1..Len(returned) : i < j => returned[i].id < returned[j].id

\* A message that left the socket was returned, or was lost with the burst of a message that
\* a layer refuses.
LostOnlyWithRefused ==
    ~SlotsSpoiled =>
        /\ came = ToSet(sk) \cup {returned[i].id : i \in 1..Len(returned)} \cup UNION failed
        /\ \A b \in failed : \E m \in b : Refused(m)
=============================================================================
