----------------------------- MODULE AcceptLoop -----------------------------
(***************************************************************************)
(* A listener over one datagram socket: AddrSteer (bertha/src/util.rs)     *)
(* demultiplexes datagrams into one channel per peer address, a stream of  *)
(* new connections; AndThenConcurrent (and_then_concurrent.rs) runs the    *)
(* negotiation future of each connection next to that stream, all in one   *)
(* task.  The connections it yields belong to the application, which may   *)
(* drop them; a later datagram of that address is then a new connection.   *)
(*                                                                         *)
(* The task sleeps until a waker fires, so the model keeps the wakers: the *)
(* socket's (wk) is registered only by a poll of the stream that returned  *)
(* Pending, and a future's only by polling that future.                    *)
(***************************************************************************)
EXTENDS Integers, Sequences

CONSTANTS Addr,
          MaxMsg,      \* bound: datagrams a peer sends
          Need,        \* datagrams a connection's negotiation consumes
          MayDrop      \* addresses whose connection the application may drop

VARIABLES sent,        \* datagrams sent, by address
          sk,          \* the socket's receive queue: <<address, number>>
          known,       \* AddrSteer's map has a sender for this address
          live,        \* ... and its receiver is alive
          chan,        \* datagrams waiting in the connection's channel
          fut,         \* the connection's future in FuturesUnordered
          used,        \* datagrams the future has consumed
          rx,          \* numbers handed to a connection of the address, in order
          lost,        \* datagrams dropped with a connection
          pc,          \* the task: "sleep", or its place in poll_next
          wk,          \* the task's waker is registered with the socket
          notified     \* the task is scheduled again

vars == <<sent, sk, known, live, chan, fut, used, rx, lost, pc, wk, notified>>

Init ==
    /\ sent = [a \in Addr |-> 0]
    /\ sk = <<>>
    /\ known = [a \in Addr |-> FALSE]
    /\ live = [a \in Addr |-> FALSE]
    /\ chan = [a \in Addr |-> <<>>]
    /\ fut = [a \in Addr |-> "none"]
    /\ used = [a \in Addr |-> 0]
    /\ rx = [a \in Addr |-> <<>>]
    /\ lost = [a \in Addr |-> 0]
    /\ pc = "poll" /\ wk = FALSE /\ notified = FALSE

\* A datagram reaches the socket and fires its waker, if there is one.
Arrive(a) ==
    /\ sent[a] < MaxMsg
    /\ sent' = [sent EXCEPT ![a] = @ + 1]
    /\ sk' = Append(sk, <<a, sent[a] + 1>>)
    /\ notified' = (notified \/ wk)
    /\ wk' = FALSE
    /\ UNCHANGED <<known, live, chan, fut, used, rx, lost, pc>>

-----------------------------------------------------------------------------
IsNew(a) == ~known[a] \/ ~live[a]

ToExistingQuiet(a, n) ==
    /\ ~IsNew(a)
    /\ chan' = [chan EXCEPT ![a] = Append(@, n)]
    /\ UNCHANGED <<known, live, fut, used, pc, notified>>

\* The datagram goes to the channel of its connection; a future asleep there is woken.
ToExisting(a, n) ==
    /\ ~IsNew(a)
    /\ chan' = [chan EXCEPT ![a] = Append(@, n)]
    /\ fut' = [fut EXCEPT ![a] = IF @ = "idle" THEN "woken" ELSE @]
    /\ notified' = (notified \/ fut[a] = "idle")
    /\ UNCHANGED <<known, live, used, pc>>

ToNewUnsent(a, n, next) ==
    /\ IsNew(a)
    /\ known' = [known EXCEPT ![a] = TRUE]
    /\ live' = [live EXCEPT ![a] = TRUE]
    /\ chan' = [chan EXCEPT ![a] = IF known[a] THEN <<>> ELSE <<n>>]
    /\ fut' = [fut EXCEPT ![a] = "new"]
    /\ used' = [used EXCEPT ![a] = 0]
    /\ pc' = next
    /\ UNCHANGED notified

\* No connection, or its receiver was dropped and the send fails: make one, send (again).
ToNew(a, n, next) ==
    /\ IsNew(a)
    /\ known' = [known EXCEPT ![a] = TRUE]
    /\ live' = [live EXCEPT ![a] = TRUE]
    /\ chan' = [chan EXCEPT ![a] = <<n>>]
    /\ fut' = [fut EXCEPT ![a] = "new"]          \* futs.push: wakes nobody
    /\ used' = [used EXCEPT ![a] = 0]
    /\ pc' = next
    /\ UNCHANGED notified

\* One turn of the stream's loop; it ends with a new connection.
Steer(here, next) ==
    /\ pc = here /\ sk # <<>>
    /\ LET a == Head(sk)[1]  n == Head(sk)[2]
       IN ToExisting(a, n) \/ ToNew(a, n, next)
    /\ sk' = Tail(sk)
    /\ UNCHANGED <<sent, rx, lost, wk>>

\* The socket is empty: the stream registers the waker and is Pending.
SteerPending(here, next) ==
    /\ pc = here /\ sk = <<>>
    /\ wk' = TRUE
    /\ pc' = next
    /\ UNCHANGED <<sent, sk, known, live, chan, fut, used, rx, lost, notified>>

InFuts(a) == fut[a] \in {"new", "idle", "woken"}
PollStream == \/ Steer("poll", "futs")
              \/ SteerPending("poll", IF \E a \in Addr : InFuts(a) THEN "futs" ELSE "sleep")

\* Poll a future that is new or was woken: it takes what its channel holds.
PollFut(a) ==
    /\ pc = "futs" /\ fut[a] \in {"new", "woken"}
    /\ LET k == IF Len(chan[a]) < Need[a] - used[a] THEN Len(chan[a]) ELSE Need[a] - used[a]
           ready == used[a] + k = Need[a]
       IN /\ rx' = [rx EXCEPT ![a] = @ \o SubSeq(chan[a], 1, k)]
          /\ chan' = [chan EXCEPT ![a] = SubSeq(@, k + 1, Len(@))]
          /\ used' = [used EXCEPT ![a] = @ + k]
          /\ fut' = [fut EXCEPT ![a] = IF ready THEN "done" ELSE "idle"]
          /\ pc' = IF ready THEN "poll" ELSE pc      \* the caller asks for the next item
    /\ UNCHANGED <<sent, sk, known, live, lost, wk, notified>>

\* All futures are pending: check the stream once more, then return Pending.
FutsPending ==
    /\ pc = "futs" /\ \A a \in Addr : fut[a] \notin {"new", "woken"}
    /\ pc' = "again"
    /\ UNCHANGED <<sent, sk, known, live, chan, fut, used, rx, lost, wk, notified>>

PollStreamAgain == Steer("again", "sleep") \/ SteerPending("again", "sleep")

Wake ==
    /\ pc = "sleep" /\ notified
    /\ pc' = "poll" /\ notified' = FALSE
    /\ UNCHANGED <<sent, sk, known, live, chan, fut, used, rx, lost, wk>>

-----------------------------------------------------------------------------
AppRecvLast(a) ==
    /\ fut[a] = "done" /\ live[a] /\ chan[a] # <<>>
    /\ rx' = [rx EXCEPT ![a] = Append(@, chan[a][Len(chan[a])])]
    /\ chan' = [chan EXCEPT ![a] = SubSeq(@, 1, Len(@) - 1)]
    /\ UNCHANGED <<sent, sk, known, live, fut, used, lost, pc, wk, notified>>

\* The application receives from, and drops, a connection that was yielded.
AppRecv(a) ==
    /\ fut[a] = "done" /\ live[a] /\ chan[a] # <<>>
    /\ rx' = [rx EXCEPT ![a] = @ \o chan[a]]
    /\ chan' = [chan EXCEPT ![a] = <<>>]
    /\ UNCHANGED <<sent, sk, known, live, fut, used, lost, pc, wk, notified>>

DropConn(a) ==
    /\ a \in MayDrop /\ fut[a] = "done" /\ live[a]
    /\ live' = [live EXCEPT ![a] = FALSE]
    /\ lost' = [lost EXCEPT ![a] = @ + Len(chan[a])]
    /\ chan' = [chan EXCEPT ![a] = <<>>]
    /\ UNCHANGED <<sent, sk, known, fut, used, rx, pc, wk, notified>>

Task == PollStream \/ (\E a \in Addr : PollFut(a)) \/ FutsPending \/ PollStreamAgain \/ Wake
Next == Task \/ \E a \in Addr : Arrive(a) \/ AppRecv(a) \/ DropConn(a)

Spec == Init /\ [][Next]_vars

-----------------------------------------------------------------------------
TypeOK ==
    /\ sent \in [Addr -> 0..MaxMsg]
    /\ \A i \in 1..Len(sk) : sk[i] \in Addr \X (1..MaxMsg)
    /\ known \in [Addr -> BOOLEAN] /\ live \in [Addr -> BOOLEAN]
    /\ \A a \in Addr : /\ chan[a] \in Seq(1..MaxMsg) /\ rx[a] \in Seq(1..MaxMsg)
                       /\ used[a] \in 0..Need[a] /\ lost[a] \in 0..MaxMsg
    /\ fut \in [Addr -> {"none", "new", "idle", "woken", "done"}]
    /\ pc \in {"poll", "futs", "again", "sleep"}
    /\ wk \in BOOLEAN /\ notified \in BOOLEAN

InSk(a) == {i \in 1..Len(sk) : sk[i][1] = a}

\* Every datagram that reached the socket is still queued there, once and in order, was given
\* to a connection of its address, or was in the channel of a connection the application
\* dropped: the one that finds the receiver gone is sent again to the connection it creates.
NoDatagramVanishes ==
    \A a \in Addr :
      /\ {sk[i][2] : i \in InSk(a)} = (Len(chan[a]) + Len(rx[a]) + lost[a] + 1)..sent[a]
      /\ \A i, j \in InSk(a) : i < j => sk[i][2] < sk[j][2]

\* The connections of an address see its datagrams in the order they arrived, none twice.
SteeredInOrder ==
    \A a \in Addr : LET s == rx[a] \o chan[a]
                    IN \A i \in 1..(Len(s) - 1) : s[i] < s[i + 1]

\* Datagrams are waiting for a future only while that future is going to be polled: an idle
\* future has an empty channel.
IdleHasNothingToDo == \A a \in Addr : fut[a] = "idle" => chan[a] = <<>>

-----------------------------------------------------------------------------
\* "the stream is polled concurrently with the futures returned by `f`"
\* (and_then_concurrent.rs:14-15): a peer that sent enough for its negotiation is accepted.
EveryPeerAccepted ==
    \A a \in Addr : (sent[a] >= Need[a]) ~> (fut[a] = "done")
=============================================================================
