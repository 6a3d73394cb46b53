------------------------------ MODULE QuicConn ------------------------------
(***************************************************************************)
(* The QUIC chunnel, between a client and a server: send and recv complete *)
(* the handshake if need be, and exchange datagrams through the state that *)
(* quiche keeps.  Every call holds the connection's lock until it returns, *)
(* also while it waits for a packet; nothing serves quiche's timers.       *)
(* quiche and the network below (Receive, Drained) are external: a client  *)
(* is established after one flight of the server's, the server after two   *)
(* of the client's; the network keeps the order and loses nothing.         *)
(***************************************************************************)
EXTENDS Integers, Sequences, FiniteSets, SequencesExt

CONSTANTS Script,    \* Script[e]: the calls of each task of end e, in order
          Burst,     \* the messages in a call of send
          Cap,       \* the capacity of quiche's queue of datagrams to send
          Slots      \* the slots of every call of recv

VARIABLES pc,        \* of each end and task: where its call is
          calls,     \* of each end and task: the calls left
          lock,      \* of each end: the task that holds the lock, or 0
          left,      \* of each end and task: messages of the burst not passed to quiche
          flights,   \* of each end: handshake flights received
          out,       \* of each end: the packets that quiche has to send
          dgrams,    \* of each end: the datagrams queued to send
          wire,      \* of each end: the packets on their way to it
          inbox,     \* of each end: datagrams received and not taken
          made,      \* of each end: how many messages were given to send
          dropped,   \* ghost, of each end: messages that did not fit quiche's queue
          got        \* ghost, of each end: what recv has returned, in order

vars == <<pc, calls, lock, left, flights, out, dgrams, wire, inbox, made, dropped, got>>

End == {"client", "server"}
Peer(e) == CHOOSE p \in End : p # e
Task(e) == DOMAIN Script[e]
Flight == 0   \* a packet of the handshake; the others are datagrams

Established(e) == flights[e] >= IF e = "client" THEN 1 ELSE 2

TypeOK ==
    /\ \A e \in End :
         /\ \A t \in Task(e) : /\ pc[e][t] \in {"idle", "lock", "hs", "hsrecv", "send", "recv", "take"}
                               /\ left[e][t] \in 0..Burst
         /\ lock[e] \in Task(e) \cup {0} /\ flights[e] \in 0..2 /\ Len(dgrams[e]) <= Cap
         /\ Len(inbox[e]) <= made[Peer(e)] /\ dropped[e] \subseteq 1..made[e]

Init ==
    /\ pc = [e \in End |-> [t \in Task(e) |-> "idle"]] /\ calls = Script
    /\ lock = [e \in End |-> 0] /\ left = [e \in End |-> [t \in Task(e) |-> 0]]
    /\ flights = [e \in End |-> 0]
    /\ out = [e \in End |-> IF e = "client" THEN <<Flight>> ELSE <<>>]
    /\ dgrams = [e \in End |-> <<>>] /\ wire = [e \in End |-> <<>>]
    /\ inbox = [e \in End |-> <<>>] /\ made = [e \in End |-> 0]
    /\ dropped = [e \in End |-> {}] /\ got = [e \in End |-> <<>>]

Goto(e, t, p) == pc' = [pc EXCEPT ![e][t] = p]

\* quic_send_drain: everything quiche has goes to the network, d being the queued datagrams.
Drained(e, d) ==
    /\ wire' = [wire EXCEPT ![Peer(e)] = @ \o out[e] \o d]
    /\ out' = [out EXCEPT ![e] = <<>>]

Call(e, t) ==
    /\ pc[e][t] = "idle" /\ calls[e][t] # <<>>
    /\ Goto(e, t, "lock")
    /\ left' = [left EXCEPT ![e][t] = IF Head(calls[e][t]) = "send" THEN Burst ELSE 0]
    /\ UNCHANGED <<calls, lock, flights, out, dgrams, wire, inbox, made, dropped, got>>

Lock(e, t) ==
    /\ pc[e][t] = "lock" /\ lock[e] = 0
    /\ lock' = [lock EXCEPT ![e] = t] /\ Goto(e, t, "hs")
    /\ UNCHANGED <<calls, left, flights, out, dgrams, wire, inbox, made, dropped, got>>

\* Mutant of Handshake: waits without sending what there is to send.
HandshakeWaits(e, t) ==
    /\ pc[e][t] = "hs"
    /\ Goto(e, t, IF Established(e) THEN Head(calls[e][t]) ELSE "hsrecv")
    /\ UNCHANGED <<calls, lock, left, flights, out, dgrams, wire, inbox, made, dropped, got>>

\* quic_complete_handshake: send what there is to send, then wait, until established.
Handshake(e, t) ==
    /\ pc[e][t] = "hs"
    /\ IF Established(e)
         THEN Goto(e, t, Head(calls[e][t])) /\ UNCHANGED <<out, dgrams, wire>>
         ELSE /\ Drained(e, dgrams[e]) /\ dgrams' = [dgrams EXCEPT ![e] = <<>>]
              /\ Goto(e, t, "hsrecv")
    /\ UNCHANGED <<calls, lock, left, flights, inbox, made, dropped, got>>

\* quiche takes n packets from the network.
Receive(e, n) ==
    LET ps == SubSeq(wire[e], 1, n)
        hs == Len(SelectSeq(ps, LAMBDA p : p = Flight))
    IN /\ wire' = [wire EXCEPT ![e] = SubSeq(@, n + 1, Len(@))]
       /\ flights' = [flights EXCEPT ![e] = @ + hs]
       /\ out' = [out EXCEPT ![e] = IF hs > 0 /\ ~Established(e) /\ (e = "client" \/ flights[e] = 0)
                                    THEN Append(@, Flight) ELSE @]
       /\ inbox' = [inbox EXCEPT ![e] = @ \o SelectSeq(ps, LAMBDA p : p # Flight)]

\* The handshake waits for one packet.
HandshakeRecv(e, t) ==
    /\ pc[e][t] = "hsrecv" /\ wire[e] # <<>>
    /\ Receive(e, 1) /\ Goto(e, t, "hs")
    /\ UNCHANGED <<calls, lock, left, dgrams, made, dropped, got>>

\* The next message of the burst: if quiche's queue is full it is drained, and the message, which
\* dgram_send_vec has consumed, is not sent.
Push(e, t) ==
    /\ pc[e][t] = "send" /\ left[e][t] > 0
    /\ left' = [left EXCEPT ![e][t] = @ - 1]
    /\ made' = [made EXCEPT ![e] = @ + 1]
    /\ IF Len(dgrams[e]) < Cap
         THEN /\ dgrams' = [dgrams EXCEPT ![e] = Append(@, made[e] + 1)]
              /\ UNCHANGED <<out, wire, dropped>>
         ELSE /\ Drained(e, dgrams[e]) /\ dgrams' = [dgrams EXCEPT ![e] = <<>>]
              /\ dropped' = [dropped EXCEPT ![e] = @ \cup {made[e] + 1}]
    /\ UNCHANGED <<pc, calls, lock, flights, inbox, got>>

\* The call returns, after a last quic_send_drain.
Ends(e, t) ==
    /\ Drained(e, dgrams[e]) /\ dgrams' = [dgrams EXCEPT ![e] = <<>>]
    /\ lock' = [lock EXCEPT ![e] = 0] /\ Goto(e, t, "idle")
    /\ calls' = [calls EXCEPT ![e][t] = Tail(@)]

SendReturns(e, t) ==
    /\ pc[e][t] = "send" /\ left[e][t] = 0 /\ Ends(e, t)
    /\ UNCHANGED <<left, flights, inbox, made, dropped, got>>

\* recv waits for packets unless quiche has datagrams.
Recv(e, t) ==
    /\ pc[e][t] = "recv" /\ Goto(e, t, "take")
    /\ IF inbox[e] # <<>>
         THEN UNCHANGED <<flights, out, wire, inbox>>
         ELSE wire[e] # <<>> /\ \E n \in 1..Slots : n <= Len(wire[e]) /\ Receive(e, n)
    /\ UNCHANGED <<calls, lock, left, dgrams, made, dropped, got>>

\* Mutant of Take: the datagrams that do not fit are thrown away.
TakeFirst(e, t) ==
    /\ pc[e][t] = "take" /\ inbox[e] # <<>>
    /\ got' = [got EXCEPT ![e] = Append(@, Head(inbox[e]))]
    /\ inbox' = [inbox EXCEPT ![e] = <<>>]
    /\ Ends(e, t)
    /\ UNCHANGED <<left, flights, made, dropped>>

\* The datagrams that fit are returned; if there is none, recv waits again.
Take(e, t) ==
    /\ pc[e][t] = "take"
    /\ IF inbox[e] = <<>>
         THEN Goto(e, t, "recv") /\ UNCHANGED <<calls, lock, out, dgrams, wire, inbox, got>>
         ELSE LET n == IF Len(inbox[e]) < Slots THEN Len(inbox[e]) ELSE Slots
              IN /\ got' = [got EXCEPT ![e] = @ \o SubSeq(inbox[e], 1, n)]
                 /\ inbox' = [inbox EXCEPT ![e] = SubSeq(@, n + 1, Len(@))]
                 /\ Ends(e, t)
    /\ UNCHANGED <<left, flights, made, dropped>>

Step(e, t) ==
    \/ Call(e, t) \/ Lock(e, t) \/ Handshake(e, t) \/ HandshakeRecv(e, t)
    \/ Push(e, t) \/ SendReturns(e, t) \/ Recv(e, t) \/ Take(e, t)

Next == \E e \in End : \E t \in Task(e) : Step(e, t)

Spec == Init /\ [][Next]_vars

----------------------------------------------------------------------------

Datagrams(s) == SelectSeq(s, LAMBDA p : p # Flight)

\* Over a network that keeps packets and their order, the messages given to send reach the peer's
\* recv in order, none twice, and the only ones missing are those that found quiche's queue full.
DatagramsKept ==
    \A e \in End :
      got[e] \o inbox[e] \o Datagrams(wire[e]) \o dgrams[Peer(e)]
        = SelectSeq([i \in 1..made[Peer(e)] |-> i], LAMBDA i : i \notin dropped[Peer(e)])

\* What MCProgress shows: every call returns.
AllReturned == \A e \in End : \A t \in Task(e) : calls[e][t] = <<>>
=============================================================================
