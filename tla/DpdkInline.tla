----------------------------- MODULE DpdkInline -----------------------------
(***************************************************************************)
(* The connections of one thread over its DPDK receive queue:              *)
(* dpdk-direct/src/dpdk_inline.  Nobody polls the queue in the background: *)
(* whichever connection or stream is polled takes packets off it, keeps    *)
(* its own, and stashes the others for the connections they belong to.     *)
(* A packet of an unknown flow on the listening port becomes a new stash   *)
(* and a message to the stream of connections.                             *)
(*                                                                         *)
(* The thread runs either a listener or a socket that is not connected,    *)
(* and connections of its own to a server.                                 *)
(***************************************************************************)
EXTENDS Integers, Sequences, SequencesExt

CONSTANTS Remote,    \* clients
          Server,    \* the address connect is called with
          None,      \* "no remote address"
          LocalPort, \* the port listened on
          Ephemeral, \* ephemeral_ports
          Burst,     \* RECEIVE_BURST_SIZE
          Cap,       \* capacity of new_conn_notifier
          ClosedCap, \* capacity of conn_closed_notifier
          MaxPkt, MaxConnect  \* bounds: packets, calls of connect

VARIABLES kind,      \* what the thread listens with: "stream" or "socket"
          nic,       \* the receive queue
          stash,     \* rx_packets_for_ports
          conns,     \* live connections
          newq, closedq, conn_count,   \* the stream's channels and counter
          pool,      \* free ephemeral ports
          stuck,     \* the thread is blocked in a send that nobody can make room for
          stream_err,\* the stream has ended with an error
          n_pkt, n_connect,
          last,      \* last packet delivered of each flow
          delivery   \* the latest delivery: the connection and the packet

vars == <<kind, nic, stash, conns, newq, closedq, conn_count, pool, stuck, stream_err,
          n_pkt, n_connect, last, delivery>>

Port == Ephemeral \cup {LocalPort}
Addr == Remote \cup {Server}

Slot(p, a) == [port |-> p, src |-> a, q |-> <<>>]
Cn(p, a, nc, from) == [port |-> p, src |-> a, new_conns |-> nc, from |-> from]
TheSocket == Cn(LocalPort, None, FALSE, "socket")

Init ==
    /\ kind \in {"stream", "socket"}
    /\ nic = <<>>
    /\ stash = IF kind = "socket" THEN <<Slot(LocalPort, None)>> ELSE <<>>
    /\ conns = IF kind = "socket" THEN {TheSocket} ELSE {}
    /\ newq = <<>> /\ closedq = 0 /\ conn_count = 0
    /\ pool = IF kind = "socket" THEN Ephemeral \ {LocalPort} ELSE Ephemeral
    /\ stuck = FALSE /\ stream_err = FALSE
    /\ n_pkt = 0 /\ n_connect = 0
    /\ last = [f \in Port \X Addr |-> 0]
    /\ delivery = <<>>

\* A packet arrives: from a client, or from the server to a connection's port.
Arrive(p, a) ==
    /\ n_pkt < MaxPkt /\ Len(nic) < Burst
    /\ \/ p = LocalPort /\ a \in Remote
       \/ a = Server /\ \E c \in conns : c.port = p /\ c.from = "connect"
    /\ n_pkt' = n_pkt + 1
    /\ nic' = Append(nic, [port |-> p, src |-> a, n |-> n_pkt'])
    /\ UNCHANGED <<kind, stash, conns, newq, closedq, conn_count, pool, stuck, stream_err,
                   n_connect, last, delivery>>

-----------------------------------------------------------------------------
Push(st, i, m) == [st EXCEPT ![i].q = Append(@, m)]
SlotOf(st, p, a) == SelectInSeq(st, LAMBDA s : s.port = p /\ s.src = a)
SlotOfPort(st, p) == SelectInSeq(st, LAMBDA s : s.port = p)
NewStash(st, m) == Append(st, [Slot(m.port, m.src) EXCEPT !.q = <<m>>])

\* try_recv_burst_stash_only, one packet: try_send fails when the channel is full, and the rest
\* of the burst is lost with the error.
StashOneRenotify(notify, acc, m) ==
    IF acc.err THEN acc
    ELSE LET i == SlotOf(acc.st, m.port, m.src) IN
         [acc EXCEPT !.st = IF i > 0 THEN Push(@, i, m) ELSE NewStash(@, m),
                     !.nq = IF notify /\ Len(@) < Cap THEN Append(@, m.src) ELSE @,
                     !.err = notify /\ Len(acc.nq) >= Cap]
StashOne(notify, acc, m) ==
    LET i == SlotOf(acc.st, m.port, m.src)
        full == notify /\ Len(acc.nq) >= Cap
    IN  IF acc.err THEN acc
        ELSE IF i > 0 THEN [acc EXCEPT !.st = Push(@, i, m)]
        ELSE [acc EXCEPT !.st = NewStash(@, m),
                         !.nq = IF notify /\ ~full THEN Append(@, m.src) ELSE @,
                         !.err = full]
StashOnly(notify) ==
    FoldLeft(LAMBDA acc, m : StashOne(notify, acc, m),
             [st |-> stash, nq |-> newq, err |-> FALSE], nic)

\* try_recv_burst, one packet, for a connection that takes at most max.
RecvUnconnected(c, max, acc, m) ==
    LET i == SlotOfPort(acc.st, m.port) IN
    IF m.port = c.port /\ Len(acc.ret) < max THEN [acc EXCEPT !.ret = Append(@, m)]
    ELSE IF i > 0 THEN [acc EXCEPT !.st = Push(@, i, m)]
    ELSE acc

RecvConnected(c, max, acc, m) ==
    LET i == SlotOf(acc.st, m.port, m.src)
        mine == m.port = c.port /\ m.src = c.src
        full == c.new_conns /\ Len(acc.nq) >= Cap
    IN  IF mine /\ Len(acc.ret) < max THEN [acc EXCEPT !.ret = Append(@, m)]
        ELSE IF i > 0 THEN [acc EXCEPT !.st = Push(@, i, m)]
        ELSE IF mine THEN [acc EXCEPT !.st = NewStash(@, m)]
        ELSE IF SlotOfPort(acc.st, m.port) = 0 THEN acc
        ELSE [acc EXCEPT !.st = NewStash(@, m),
                         !.nq = IF c.new_conns /\ ~full THEN Append(@, m.src) ELSE @,
                         !.block = full]               \* nc.send waits for room

RecvOne(c, max, acc, m) ==
    IF acc.block THEN acc
    ELSE IF c.src = None THEN RecvUnconnected(c, max, acc, m)
    ELSE RecvConnected(c, max, acc, m)

RecvBurst(c, max) ==
    FoldLeft(LAMBDA acc, m : RecvOne(c, max, acc, m),
             [st |-> stash, nq |-> newq, ret |-> <<>>, block |-> FALSE], nic)

OwnSlotByPort(c) == SelectInSeq(stash, LAMBDA s : s.port = c.port /\ s.q # <<>>)
\* The stash a connection is served from before it touches the queue.
OwnSlot(c) ==
    SelectInSeq(stash, LAMBDA s : s.port = c.port /\ (c.src = None \/ s.src = c.src) /\ s.q # <<>>)

Deliver(c, ms) ==
    IF ms = <<>> THEN UNCHANGED <<last, delivery>>
    ELSE /\ last' = [f \in DOMAIN last |->
                       FoldLeft(LAMBDA l, m : IF <<m.port, m.src>> = f THEN m.n ELSE l, last[f], ms)]
         /\ delivery' = <<c, ms>>

-----------------------------------------------------------------------------
(***************************************************************************)
(* DpdkInlineCn::recv, ::send and drop.                                    *)
(***************************************************************************)
RecvStashed(c, max) ==
    /\ ~stuck /\ c \in conns /\ OwnSlot(c) > 0
    /\ LET i == OwnSlot(c)
           k == IF Len(stash[i].q) < max THEN Len(stash[i].q) ELSE max
       IN  /\ Deliver(c, SubSeq(stash[i].q, 1, k))
           /\ stash' = [stash EXCEPT ![i].q = SubSeq(@, k + 1, Len(@))]
    /\ UNCHANGED <<kind, nic, conns, newq, closedq, conn_count, pool, stuck, stream_err,
                   n_pkt, n_connect>>

RecvQueueFirst(c, max) ==
    /\ ~stuck /\ c \in conns /\ nic # <<>>
    /\ LET r == RecvBurst(c, max) IN
       /\ stash' = r.st /\ newq' = r.nq /\ stuck' = r.block
       /\ Deliver(c, r.ret)
    /\ nic' = <<>>
    /\ UNCHANGED <<kind, conns, closedq, conn_count, pool, stream_err, n_pkt, n_connect>>
Recv(c, max) ==
    /\ ~stuck /\ c \in conns /\ OwnSlot(c) = 0 /\ nic # <<>>
    /\ LET r == RecvBurst(c, max) IN
       /\ stash' = r.st /\ newq' = r.nq /\ stuck' = r.block
       /\ Deliver(c, r.ret)
    /\ nic' = <<>>
    /\ UNCHANGED <<kind, conns, closedq, conn_count, pool, stream_err, n_pkt, n_connect>>

Send(c) ==
    /\ ~stuck /\ c \in conns /\ nic # <<>>
    /\ LET r == StashOnly(c.new_conns) IN stash' = r.st /\ newq' = r.nq
    /\ nic' = <<>>
    /\ UNCHANGED <<kind, conns, closedq, conn_count, pool, stuck, stream_err, n_pkt,
                   n_connect, last, delivery>>

DeregisterKeeps(c) == stash
\* deregister_flow_buffer: a connected one gives up its stash, the socket only empties it.
Deregister(c) ==
    IF c.src = None THEN [i \in DOMAIN stash |-> IF stash[i].port = c.port
                                                 THEN [stash[i] EXCEPT !.q = <<>>] ELSE stash[i]]
    ELSE SelectSeq(stash, LAMBDA s : ~(s.port = c.port /\ s.src = c.src))

DropSilent(c) ==
    /\ ~stuck /\ c \in conns
    /\ conns' = conns \ {c}
    /\ stash' = Deregister(c)
    /\ pool' = IF c.from = "stream" THEN pool ELSE pool \cup {c.port}
    /\ UNCHANGED <<kind, nic, newq, closedq, conn_count, stuck, stream_err, n_pkt, n_connect,
                   last, delivery>>
Drop(c) ==
    /\ ~stuck /\ c \in conns
    /\ conns' = conns \ {c}
    /\ stash' = Deregister(c)
    /\ pool' = IF c.from = "stream" THEN pool ELSE pool \cup {c.port}
    /\ closedq' = IF c.from = "stream" /\ closedq < ClosedCap THEN closedq + 1 ELSE closedq
    /\ stuck' = (c.from = "stream" /\ closedq >= ClosedCap)
    /\ UNCHANGED <<kind, nic, newq, conn_count, stream_err, n_pkt, n_connect, last, delivery>>

(***************************************************************************)
(* connect, and listen_non_accept after the socket was dropped.            *)
(***************************************************************************)
Connect(p) ==
    /\ ~stuck /\ n_connect < MaxConnect /\ p \in pool
    /\ n_connect' = n_connect + 1
    /\ pool' = pool \ {p}
    /\ stash' = Append(stash, Slot(p, Server))
    /\ conns' = conns \cup {Cn(p, Server, kind = "stream", "connect")}
    /\ UNCHANGED <<kind, nic, newq, closedq, conn_count, stuck, stream_err, n_pkt, last, delivery>>

ListenNonAccept ==
    /\ ~stuck /\ kind = "socket" /\ LocalPort \in pool /\ n_connect < MaxConnect
    /\ n_connect' = n_connect + 1
    /\ pool' = pool \ {LocalPort}
    /\ stash' = Append(stash, Slot(LocalPort, None))
    /\ conns' = conns \cup {TheSocket}
    /\ UNCHANGED <<kind, nic, newq, closedq, conn_count, stuck, stream_err, n_pkt, last, delivery>>

(***************************************************************************)
(* StreamState::get_next.                                                  *)
(***************************************************************************)
Accept(nq) ==
    /\ conns' = conns \cup {Cn(LocalPort, Head(nq), TRUE, "stream")}
    /\ conn_count' = conn_count + 1
    /\ newq' = Tail(nq)

\* No connection yet: the stream looks at the queue itself.
PollFirst ==
    /\ ~stuck /\ kind = "stream" /\ ~stream_err /\ conn_count = 0
    /\ nic # <<>> \/ newq # <<>>
    /\ LET r == StashOnly(TRUE) IN
       /\ stash' = r.st
       /\ stream_err' = r.err
       /\ IF r.err \/ r.nq = <<>> THEN newq' = r.nq /\ UNCHANGED <<conns, conn_count>>
          ELSE Accept(r.nq)
    /\ nic' = <<>>
    /\ UNCHANGED <<kind, closedq, pool, stuck, n_pkt, n_connect, last, delivery>>

\* A connection found a flow ...
PollNew ==
    /\ ~stuck /\ kind = "stream" /\ ~stream_err /\ conn_count > 0 /\ newq # <<>>
    /\ Accept(newq)
    /\ UNCHANGED <<kind, nic, stash, closedq, pool, stuck, stream_err, n_pkt, n_connect,
                   last, delivery>>

\* ... or was closed.
PollClosed ==
    /\ ~stuck /\ kind = "stream" /\ ~stream_err /\ conn_count > 0 /\ newq = <<>> /\ closedq > 0
    /\ closedq' = closedq - 1
    /\ conn_count' = conn_count - 1
    /\ UNCHANGED <<kind, nic, stash, conns, newq, pool, stuck, stream_err, n_pkt, n_connect,
                   last, delivery>>

Next ==
    \/ \E p \in Port, a \in Addr : Arrive(p, a)
    \/ \E c \in conns, max \in 1..2 : RecvStashed(c, max) \/ Recv(c, max)
    \/ \E c \in conns : Send(c) \/ Drop(c)
    \/ \E p \in pool : Connect(p)
    \/ ListenNonAccept
    \/ PollFirst \/ PollNew \/ PollClosed

Spec == Init /\ [][Next]_vars

-----------------------------------------------------------------------------
Packet == [port : Port, src : Addr, n : 1..MaxPkt]
TypeOK ==
    /\ kind \in {"stream", "socket"}
    /\ \A i \in DOMAIN nic : nic[i] \in Packet
    /\ \A i \in DOMAIN stash : stash[i].port \in Port /\ stash[i].src \in Addr \cup {None}
    /\ \A c \in conns : c.port \in Port /\ c.src \in Addr \cup {None}
    /\ \A i \in DOMAIN newq : newq[i] \in Addr
    /\ closedq \in 0..ClosedCap /\ conn_count \in Nat
    /\ pool \subseteq Port
    /\ stuck \in BOOLEAN /\ stream_err \in BOOLEAN
    /\ last \in [Port \X Addr -> 0..MaxPkt]

\* Whoever takes packets off the queue, a connection is handed those of its own flow only.
RightConnection ==
    delivery # <<>> =>
        \A i \in DOMAIN delivery[2] :
            LET c == delivery[1] m == delivery[2][i] IN
            m.port = c.port /\ (c.src # None => m.src = c.src)

\* A flow's packets are delivered in the order they arrived, through the stash or not.
FlowInOrder == \A f \in DOMAIN last : last'[f] >= last[f]

\* No client is forgotten: a client whose packets are stashed has a connection, or the stream
\* has been told of it.
FlowFound ==
    kind = "stream" =>
        \A i \in DOMAIN stash : stash[i].port = LocalPort /\ stash[i].q # <<>> =>
            \/ \E c \in conns : c.port = LocalPort /\ c.src = stash[i].src
            \/ \E j \in DOMAIN newq : newq[j] = stash[i].src

\* The stream knows when it is the last one that can look at the queue: its counter is the
\* number of connections it has handed out that are alive, and of those it will hear of.
CountIsExact ==
    ~stuck => conn_count = Cardinality({c \in conns : c.from = "stream"}) + closedq

\* A flow is announced once: no peer is in the channel twice, so a channel with room for every peer
\* never blocks the thread that drains it (dpdk_state.rs:419), nor ends the stream (:555).
AnnouncedOnce ==
    /\ ~stuck /\ ~stream_err
    /\ \A i, j \in DOMAIN newq : newq[i] = newq[j] => i = j
=============================================================================
