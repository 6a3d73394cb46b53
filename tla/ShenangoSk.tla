----------------------------- MODULE ShenangoSk -----------------------------
(***************************************************************************)
(* A listening socket of the shenango chunnel, and the connections that    *)
(* its receive thread makes, one per remote address.  The application's    *)
(* requests reach the shenango runtime, which is started once, through a   *)
(* channel without a buffer; a connection's datagrams reach it through a   *)
(* bounded channel, in which the thread blocks when it is full.            *)
(***************************************************************************)
EXTENDS Integers, Sequences, FiniteSets, SequencesExt

CONSTANTS Caller,      \* the threads of the application that listen or dial
          Remote,      \* the remote addresses
          MaxMsg,      \* bound: datagrams sent by a remote
          MaxConn,     \* bound: connections made
          Cap,         \* the capacity of a connection's channel
          Slots,       \* the slots of every call of recv
          MayDrop,     \* the application may drop connections
          MayClose,    \* ... and the stream of connections
          None

VARIABLES runtime,     \* "off", "up"
          asks,        \* of each caller: what it waits for
          sent,        \* of each remote: how many datagrams it sent
          wire,        \* the datagrams not yet read from the socket
          remotes,     \* of each remote: the connection it is mapped to, or 0
          chan,        \* the connections made: the remote, the queue, whether it is alive
          conns,       \* the connections not yet taken from the stream
          stream,      \* the application has the stream of connections
          pc,          \* the receive thread: "off", "read", "push", "panic"
          hand,        \* the datagram it is about to pass on
          got,         \* of each connection: what recv returned
          lost         \* ghost: datagrams that were queued in a connection that was dropped

vars == <<runtime, asks, sent, wire, remotes, chan, conns, stream, pc, hand, got, lost>>

TypeOK ==
    /\ runtime \in {"off", "up"} /\ asks \in [Caller -> {"idle", "start", "rendezvous", "done"}]
    /\ sent \in [Remote -> 0..MaxMsg] /\ remotes \in [Remote -> 0..Len(chan)]
    /\ Len(chan) <= MaxConn /\ Len(got) = Len(chan) /\ stream \in BOOLEAN
    /\ \A c \in DOMAIN chan : chan[c].alive \in BOOLEAN /\ Len(chan[c].q) <= Cap
    /\ pc \in {"off", "read", "push", "panic"} /\ ToSet(conns) \subseteq DOMAIN chan

Init ==
    /\ runtime = "off" /\ asks = [t \in Caller |-> "idle"]
    /\ sent = [r \in Remote |-> 0] /\ wire = <<>> /\ remotes = [r \in Remote |-> 0]
    /\ chan = <<>> /\ conns = <<>> /\ stream = FALSE /\ pc = "off" /\ hand = None
    /\ got = <<>> /\ lost = {}

socket == <<sent, wire, remotes, chan, conns, stream, pc, hand, got, lost>>

\* Under a lock: whoever comes first starts the runtime, the others use it.
RuntimeStart(t) ==
    /\ asks[t] = "idle"
    /\ runtime' = "up" /\ asks' = [asks EXCEPT ![t] = "rendezvous"]
    /\ UNCHANGED socket

\* The runtime's main thread takes the request to listen and starts the threads of the socket.
\* (Another's request is to dial; its socket is not the one modelled.)
StartListen(t) ==
    /\ runtime = "up" /\ asks[t] = "rendezvous"
    /\ asks' = [asks EXCEPT ![t] = "done"]
    /\ IF \A u \in Caller : asks[u] # "done"
         THEN pc' = "read" /\ stream' = TRUE ELSE UNCHANGED <<pc, stream>>
    /\ UNCHANGED <<runtime, sent, wire, remotes, chan, conns, hand, got, lost>>

Arrive(r) ==
    /\ pc # "off" /\ sent[r] < MaxMsg
    /\ sent' = [sent EXCEPT ![r] = @ + 1] /\ wire' = Append(wire, <<r, sent[r] + 1>>)
    /\ UNCHANGED <<runtime, asks, remotes, chan, conns, stream, pc, hand, got, lost>>

\* A new connection for remote r, with q in its channel.  Nobody may be there to take it.
NewConn(r, q) ==
    /\ Len(chan) < MaxConn
    /\ chan' = Append(chan, [from |-> r, q |-> q, alive |-> TRUE])
    /\ conns' = Append(conns, Len(chan) + 1) /\ got' = Append(got, <<>>)
    /\ remotes' = [remotes EXCEPT ![r] = Len(chan) + 1]

\* A datagram is read; an unknown remote gets a connection.
ReadFrom ==
    /\ pc = "read" /\ wire # <<>>
    /\ hand' = Head(wire) /\ wire' = Tail(wire)
    /\ IF remotes[Head(wire)[1]] # 0 THEN pc' = "push" /\ UNCHANGED <<remotes, chan, conns, got>>
       ELSE IF stream THEN pc' = "push" /\ NewConn(Head(wire)[1], <<>>)
       ELSE pc' = "panic" /\ UNCHANGED <<remotes, chan, conns, got>>
    /\ UNCHANGED <<runtime, asks, sent, stream, lost>>

\* Mutant of Push: the datagram that finds its connection dropped is lost.
PushForgets ==
    /\ pc = "push"
    /\ LET c == remotes[hand[1]] IN
       IF chan[c].alive
         THEN /\ Len(chan[c].q) < Cap
              /\ chan' = [chan EXCEPT ![c].q = Append(@, hand)]
              /\ UNCHANGED remotes
         ELSE remotes' = [remotes EXCEPT ![hand[1]] = 0] /\ UNCHANGED chan
    /\ pc' = "read" /\ hand' = None
    /\ UNCHANGED <<runtime, asks, sent, wire, conns, stream, got, lost>>

\* Mutant of Push: the connection of a known remote is taken to be alive.
PushUnwraps ==
    /\ pc = "push"
    /\ LET c == remotes[hand[1]] IN
       IF chan[c].alive
         THEN /\ Len(chan[c].q) < Cap
              /\ chan' = [chan EXCEPT ![c].q = Append(@, hand)]
              /\ pc' = "read" /\ hand' = None
         ELSE pc' = "panic" /\ UNCHANGED <<chan, hand>>
    /\ UNCHANGED <<runtime, asks, sent, wire, remotes, conns, stream, got, lost>>

\* The datagram goes to its connection when there is room; if that was dropped, to a new one.
Push ==
    /\ pc = "push"
    /\ LET c == remotes[hand[1]] IN
       IF chan[c].alive
         THEN /\ Len(chan[c].q) < Cap
              /\ chan' = [chan EXCEPT ![c].q = Append(@, hand)]
              /\ pc' = "read" /\ hand' = None
              /\ UNCHANGED <<remotes, conns, got>>
         ELSE IF stream THEN NewConn(hand[1], <<hand>>) /\ pc' = "read" /\ hand' = None
              ELSE pc' = "panic" /\ UNCHANGED <<remotes, chan, conns, got, hand>>
    /\ UNCHANGED <<runtime, asks, sent, wire, stream, lost>>

\* The application takes the next connection, and receives from those it has taken.
Accept ==
    /\ stream /\ conns # <<>>
    /\ conns' = Tail(conns)
    /\ UNCHANGED <<runtime, asks, sent, wire, remotes, chan, stream, pc, hand, got, lost>>

Taken(c) == c \in DOMAIN chan /\ chan[c].alive /\ c \notin ToSet(conns)

\* Mutant of Recv: the newest datagram first.
RecvLast(c) ==
    /\ Taken(c) /\ chan[c].q # <<>>
    /\ got' = [got EXCEPT ![c] = Append(@, Last(chan[c].q))]
    /\ chan' = [chan EXCEPT ![c].q = Front(@)]
    /\ UNCHANGED <<runtime, asks, sent, wire, remotes, conns, stream, pc, hand, lost>>

\* One datagram is awaited; those that are there besides are taken along while there are slots.
Recv(c) ==
    /\ Taken(c) /\ chan[c].q # <<>>
    /\ LET n == IF Len(chan[c].q) < Slots THEN Len(chan[c].q) ELSE Slots
       IN /\ got' = [got EXCEPT ![c] = @ \o SubSeq(chan[c].q, 1, n)]
          /\ chan' = [chan EXCEPT ![c].q = SubSeq(@, n + 1, Len(@))]
    /\ UNCHANGED <<runtime, asks, sent, wire, remotes, conns, stream, pc, hand, lost>>

\* The receivers of C are dropped, and what is queued in them.
Dropped(C) ==
    /\ chan' = [c \in DOMAIN chan |-> IF c \in C THEN [chan[c] EXCEPT !.q = <<>>, !.alive = FALSE]
                                      ELSE chan[c]]
    /\ lost' = lost \cup UNION {ToSet(chan[c].q) : c \in C}

DropConn(c) ==
    /\ MayDrop /\ Taken(c) /\ Dropped({c})
    /\ UNCHANGED <<runtime, asks, sent, wire, remotes, conns, stream, pc, hand, got>>

DropStream ==
    /\ MayClose /\ stream
    /\ stream' = FALSE /\ conns' = <<>> /\ Dropped(ToSet(conns))
    /\ UNCHANGED <<runtime, asks, sent, wire, remotes, pc, hand, got>>

Next ==
    \/ \E t \in Caller : RuntimeStart(t) \/ StartListen(t)
    \/ \E r \in Remote : Arrive(r)
    \/ ReadFrom \/ Push \/ Accept \/ DropStream
    \/ \E c \in DOMAIN chan : Recv(c) \/ DropConn(c)

Spec == Init /\ [][Next]_vars

----------------------------------------------------------------------------

\* Every datagram is waiting in the socket, in the thread's hands, queued, returned, or was queued
\* in a connection that the application dropped.
DatagramKept ==
    \A r \in Remote : \A n \in 1..sent[r] :
      \/ <<r, n>> \in ToSet(wire) \cup lost \/ hand = <<r, n>>
      \/ \E c \in DOMAIN chan : <<r, n>> \in ToSet(chan[c].q) \cup ToSet(got[c])

\* A remote's datagrams are returned in order and once, over all the connections made for it.
RemoteInOrder ==
    LET seen == FlattenSeq(got)
        of(r) == SelectSeq(seen, LAMBDA m : m[1] = r)
    IN \A r \in Remote : \A i, j \in DOMAIN of(r) : i < j => of(r)[i][2] < of(r)[j][2]

\* The receive thread dies only if the application has dropped the stream of connections.
ThreadLives == stream => pc \in {"read", "push"}
=============================================================================
