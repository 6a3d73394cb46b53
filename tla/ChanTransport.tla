--------------------------- MODULE ChanTransport ---------------------------
(***************************************************************************)
(* The in-memory transport of chan_transport.rs: RendezvousChannel, whose  *)
(* listeners register at an address and whose clients are handed to the    *)
(* listener through a channel of one, and the ChanChunnel connections.     *)
(*                                                                         *)
(* One address.  Listeners are numbered in the order of their listen; each *)
(* replaces the one before it in the map, whose stream goes on with the    *)
(* connections it was already promised.  Only the direction from the       *)
(* client to the listener's end is modelled: the other is its mirror.      *)
(* `link` (Chan::link_conditions) may hold one segment back and sends it   *)
(* after the next one, as the tests' links do.                             *)
(***************************************************************************)
EXTENDS Integers, Sequences, Functions

CONSTANTS
    Client,         \* clients, each of which connects once
    MaxListen,      \* the number of calls of listen
    MaxMsg,         \* segments that a client sends
    Size,           \* channel_size
    Slots           \* the slots of the receiver's buffer

VARIABLES
    current,        \* the listener in the map, 0 if there is none
    listeners,      \* the listeners whose stream is not dropped
    offered,        \* [listener -> sequence of clients in its channel of one]
    pc,             \* [client -> "idle", "wait", "open", "error", "closed"]
    at,             \* [client -> the listener whose sender it holds]
    accepted,       \* clients whose connection the listener's application has
    chan,           \* [client -> the channel to the listener's end]
    n_sent,         \* [client -> segments given to send]
    held,           \* [client -> the segment that link holds back, 0 if none]
    got             \* [client -> what the listener's end received]

vars == <<current, listeners, offered, pc, at, accepted, chan, n_sent, held, got>>

Listener == 1..MaxListen

Init ==
    /\ current = 0 /\ listeners = {} /\ accepted = {}
    /\ offered = [l \in Listener |-> <<>>]
    /\ pc = [c \in Client |-> "idle"]
    /\ at = [c \in Client |-> 0]
    /\ chan = [c \in Client |-> <<>>]
    /\ n_sent = [c \in Client |-> 0]
    /\ held = [c \in Client |-> 0]
    /\ got = [c \in Client |-> <<>>]

Listen ==
    /\ current < MaxListen
    /\ current' = current + 1
    /\ listeners' = listeners \union {current + 1}
    /\ UNCHANGED <<offered, pc, at, accepted, chan, n_sent, held, got>>

\* The application drops a listener's stream: its channel closes and what is in it is dropped.
DropListener(l) ==
    /\ l \in listeners
    /\ listeners' = listeners \ {l}
    /\ offered' = [offered EXCEPT ![l] = <<>>]
    /\ UNCHANGED <<current, pc, at, accepted, chan, n_sent, held, got>>

\* connect looks the address up when it is called; the channels are made when it is polled.
Connect(c) ==
    /\ pc[c] = "idle"
    /\ pc' = [pc EXCEPT ![c] = IF current = 0 THEN "error" ELSE "wait"]
    /\ at' = [at EXCEPT ![c] = current]
    /\ UNCHANGED <<current, listeners, offered, accepted, chan, n_sent, held, got>>

\* A mutant: the connection is offered with try_send, whose failure is not looked at.
NotifyTry(c) ==
    /\ pc[c] = "wait"
    /\ pc' = [pc EXCEPT ![c] = "open"]
    /\ offered' = [offered EXCEPT ![at[c]] =
                      IF at[c] \in listeners /\ @ = <<>> THEN <<c>> ELSE @]
    /\ UNCHANGED <<current, listeners, at, accepted, chan, n_sent, held, got>>

\* notify_listener.send: waits for room in the channel, fails if the stream is gone.
Notify(c) ==
    /\ pc[c] = "wait"
    /\ \/ /\ at[c] \in listeners /\ offered[at[c]] = <<>>
          /\ offered' = [offered EXCEPT ![at[c]] = <<c>>]
          /\ pc' = [pc EXCEPT ![c] = "open"]
       \/ /\ at[c] \notin listeners
          /\ pc' = [pc EXCEPT ![c] = "error"]
          /\ UNCHANGED offered
    /\ UNCHANGED <<current, listeners, at, accepted, chan, n_sent, held, got>>

\* A mutant: a listener hands out one connection, as the one of Chan does.
AcceptOne(l) ==
    /\ l \in listeners /\ offered[l] # <<>> /\ accepted = {}
    /\ accepted' = accepted \union {Head(offered[l])}
    /\ offered' = [offered EXCEPT ![l] = <<>>]
    /\ UNCHANGED <<current, listeners, pc, at, chan, n_sent, held, got>>

\* The listener's stream returns a connection.
Accept(l) ==
    /\ l \in listeners /\ offered[l] # <<>>
    /\ accepted' = accepted \union {Head(offered[l])}
    /\ offered' = [offered EXCEPT ![l] = <<>>]
    /\ UNCHANGED <<current, listeners, pc, at, chan, n_sent, held, got>>

\* The other end of c's channel still exists.
PeerAlive(c) == c \in accepted \/ offered[at[c]] = <<c>>

\* ChanChunnel::send of one segment: link may hold it back; afterwards it is asked for what it
\* deferred.  Sending waits for room, so the step is taken when there is room for all of it.
Send(c) ==
    LET n == n_sent[c] + 1 IN
    /\ pc[c] = "open" /\ PeerAlive(c) /\ n <= MaxMsg
    /\ n_sent' = [n_sent EXCEPT ![c] = n]
    /\ \/ /\ held[c] = 0 /\ n < MaxMsg                  \* link(Some(d)) = None: deferred
          /\ held' = [held EXCEPT ![c] = n]
          /\ UNCHANGED chan
       \/ LET out == IF held[c] = 0 THEN <<n>> ELSE <<n, held[c]>> IN
          /\ Len(chan[c]) + Len(out) <= Size
          /\ chan' = [chan EXCEPT ![c] = @ \o out]
          /\ held' = [held EXCEPT ![c] = 0]
    /\ UNCHANGED <<current, listeners, offered, pc, at, accepted, got>>

\* The client drops its end; what is in the channel can still be received.
Close(c) ==
    /\ pc[c] = "open"
    /\ pc' = [pc EXCEPT ![c] = "closed"]
    /\ UNCHANGED <<current, listeners, offered, at, accepted, chan, n_sent, held, got>>

\* A mutant: recv reports the sender gone before it has drained the channel.
RecvClosed(c) ==
    /\ c \in accepted /\ chan[c] # <<>>
    /\ got' = [got EXCEPT ![c] = IF pc[c] = "closed" THEN @ ELSE @ \o chan[c]]
    /\ chan' = [chan EXCEPT ![c] = <<>>]
    /\ UNCHANGED <<current, listeners, offered, pc, at, accepted, n_sent, held>>

\* ChanChunnel::recv at the listener's end: waits for one, then takes what is there, up to the
\* slots of the buffer.
Recv(c) ==
    LET k == IF Len(chan[c]) < Slots THEN Len(chan[c]) ELSE Slots IN
    /\ c \in accepted /\ chan[c] # <<>>
    /\ got' = [got EXCEPT ![c] = @ \o SubSeq(chan[c], 1, k)]
    /\ chan' = [chan EXCEPT ![c] = SubSeq(@, k + 1, Len(@))]
    /\ UNCHANGED <<current, listeners, offered, pc, at, accepted, n_sent, held>>

Next ==
    \/ Listen
    \/ \E l \in Listener : DropListener(l) \/ Accept(l)
    \/ \E c \in Client : Connect(c) \/ Notify(c) \/ Send(c) \/ Close(c) \/ Recv(c)

Spec == Init /\ [][Next]_vars

-----------------------------------------------------------------------------
TypeOK ==
    /\ current \in 0..MaxListen /\ listeners \subseteq Listener
    /\ \A l \in Listener : Len(offered[l]) <= 1
    /\ \A c \in Client : Len(chan[c]) <= Size

\* A client that was told it is connected has a peer: the listener that it found has the
\* connection, or will be given it, unless that listener's stream was dropped.  It never
\* depends on a listener that has since replaced it in the map.
ConnectedHasPeer ==
    \A c \in Client : pc[c] \in {"open", "closed"} =>
        c \in accepted \/ offered[at[c]] = <<c>> \/ at[c] \notin listeners

\* Nothing that a client sent is lost, returned twice or invented, whatever link defers, as long
\* as its peer exists; closing the client's end loses nothing that is in the channel.
NothingLost ==
    \A c \in Client :
        LET all == got[c] \o chan[c] \o (IF held[c] = 0 THEN <<>> ELSE <<held[c]>>) IN
        Len(all) = n_sent[c] /\ Range(all) = 1..n_sent[c]

\* What MCProgress waits for: a client's call of connect returns if the listener it found
\* keeps accepting, and two clients do not wait for each other in the channel of one.
Returned(c) == pc[c] \in {"open", "closed", "error"}
=============================================================================
