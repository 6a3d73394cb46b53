------------------------------- MODULE TlsConn -------------------------------
(***************************************************************************)
(* The TLS chunnel over a transport that keeps messages and their order,   *)
(* between a client and a server.  send and recv complete the handshake if *)
(* need be; every call holds the lock of the TLS state until it returns,   *)
(* also while it waits.  rustls (Process) is external: the client is done  *)
(* after the server's flight, and then has its own last flight to write;   *)
(* the server is done after that, and then has session tickets to write.   *)
(* A packet is a sequence of records: Flight, or the number of a message.  *)
(***************************************************************************)
EXTENDS Integers, Sequences, SequencesExt

CONSTANTS Script,    \* Script[e]: the calls of each task of end e, in order
          Burst,     \* the messages in a call of send
          Slots      \* the slots of every call of recv

VARIABLES pc,        \* of each end and task: where its call is
          calls,     \* of each end and task: the calls left
          lock,      \* of each end: the task that holds the lock, or 0
          flights,   \* of each end: flights of the handshake received
          out,       \* of each end: records that rustls has to write
          plain,     \* of each end: plaintext that was not read
          wire,      \* of each end: the packets on their way to it
          made,      \* of each end: how many messages were given to send
          got,       \* of each end: what recv has returned: each a sequence of messages
          failed     \* of each end: a call has failed

vars == <<pc, calls, lock, flights, out, plain, wire, made, got, failed>>

End == {"client", "server"}
Peer(e) == CHOOSE p \in End : p # e
Task(e) == DOMAIN Script[e]
Flight == 0

Handshaking(e, f) == f < IF e = "client" THEN 1 ELSE 2

TypeOK ==
    \A e \in End :
      /\ \A t \in Task(e) : pc[e][t] \in {"idle", "lock", "hs", "hsrecv", "ready", "done"}
      /\ lock[e] \in Task(e) \cup {0} /\ flights[e] \in 0..3
      /\ ToSet(plain[e]) \subseteq 1..made[Peer(e)] /\ failed[e] \in BOOLEAN

Init ==
    /\ pc = [e \in End |-> [t \in Task(e) |-> "idle"]] /\ calls = Script
    /\ lock = [e \in End |-> 0] /\ flights = [e \in End |-> 0]
    /\ out = [e \in End |-> IF e = "client" THEN <<Flight>> ELSE <<>>]
    /\ plain = [e \in End |-> <<>>] /\ wire = [e \in End |-> <<>>]
    /\ made = [e \in End |-> 0] /\ got = [e \in End |-> <<>>] /\ failed = [e \in End |-> FALSE]

Goto(e, t, p) == pc' = [pc EXCEPT ![e][t] = p]

Call(e, t) ==
    /\ pc[e][t] = "idle" /\ calls[e][t] # <<>> /\ Goto(e, t, "lock")
    /\ UNCHANGED <<calls, lock, flights, out, plain, wire, made, got, failed>>

\* "ready" is a call that found the handshake complete.
Lock(e, t) ==
    /\ pc[e][t] = "lock" /\ lock[e] = 0
    /\ lock' = [lock EXCEPT ![e] = t]
    /\ Goto(e, t, IF Handshaking(e, flights[e]) THEN "hs" ELSE "ready")
    /\ UNCHANGED <<calls, flights, out, plain, wire, made, got, failed>>

\* Mutant of HandshakeWrite: reads without writing first.
HandshakeWriteNothing(e, t) ==
    /\ pc[e][t] = "hs" /\ Goto(e, t, "hsrecv")
    /\ UNCHANGED <<calls, lock, flights, out, plain, wire, made, got, failed>>

\* complete_handshake: what rustls wants to write goes out in one message, ...
HandshakeWrite(e, t) ==
    /\ pc[e][t] = "hs" /\ Goto(e, t, "hsrecv")
    /\ wire' = IF out[e] = <<>> THEN wire ELSE [wire EXCEPT ![Peer(e)] = Append(@, out[e])]
    /\ out' = [out EXCEPT ![e] = <<>>]
    /\ UNCHANGED <<calls, lock, flights, plain, made, got, failed>>

IsData(r) == r # Flight

\* rustls reads a packet: its state after it.
Process(e, f, packet) ==
    LET n == Len(packet) - Len(SelectSeq(packet, IsData))
    IN [flights |-> f + n,
        out |-> IF n > 0 /\ Handshaking(e, f) THEN <<Flight>> ELSE <<>>,
        plain |-> SelectSeq(packet, IsData)]

\* ... and one message is read, until the handshake is over: "done" is a call that completed it.
HandshakeRead(e, t) ==
    /\ pc[e][t] = "hsrecv" /\ wire[e] # <<>>
    /\ LET s == Process(e, flights[e], Head(wire[e]))
       IN /\ flights' = [flights EXCEPT ![e] = s.flights]
          /\ out' = [out EXCEPT ![e] = @ \o s.out]
          /\ plain' = [plain EXCEPT ![e] = @ \o s.plain]
          /\ Goto(e, t, IF Handshaking(e, s.flights) THEN "hs" ELSE "done")
    /\ wire' = [wire EXCEPT ![e] = Tail(@)]
    /\ UNCHANGED <<calls, lock, made, got, failed>>

Ends(e, t) ==
    /\ lock' = [lock EXCEPT ![e] = 0] /\ Goto(e, t, "idle")
    /\ calls' = [calls EXCEPT ![e][t] = Tail(@)]

\* Every message of the burst is a packet; the first takes along what was still to be written.
Send(e, t) ==
    /\ pc[e][t] \in {"ready", "done"} /\ Head(calls[e][t]) = "send"
    /\ wire' = [wire EXCEPT ![Peer(e)] =
                  @ \o [i \in 1..Burst |-> (IF i = 1 THEN out[e] ELSE <<>>) \o <<made[e] + i>>]]
    /\ made' = [made EXCEPT ![e] = @ + Burst] /\ out' = [out EXCEPT ![e] = <<>>]
    /\ Ends(e, t)
    /\ UNCHANGED <<flights, plain, got, failed>>

Returns(e, ms) == got' = [got EXCEPT ![e] = @ \o ms]

\* Mutant of Leftover: what came with the handshake is not looked for.
LeftoverNone(e, t) == FALSE

\* The call that completed the handshake has plaintext already.
Leftover(e, t) == pc[e][t] = "done" /\ plain[e] # <<>>

RecvLeftover(e, t) ==
    /\ pc[e][t] = "done" /\ Head(calls[e][t]) = "recv" /\ Leftover(e, t)
    /\ Returns(e, <<plain[e]>>) /\ plain' = [plain EXCEPT ![e] = <<>>] /\ Ends(e, t)
    /\ UNCHANGED <<flights, out, wire, made, failed>>

\* Packets are awaited; each must give plaintext, all of which becomes one message.
Recv(e, t) ==
    /\ pc[e][t] \in {"ready", "done"} /\ Head(calls[e][t]) = "recv" /\ ~Leftover(e, t)
    /\ wire[e] # <<>>
    /\ \E n \in 1..Slots :
         /\ n <= Len(wire[e])
         /\ LET ps == SubSeq(wire[e], 1, n)
                data == [i \in 1..n |-> (IF i = 1 THEN plain[e] ELSE <<>>) \o SelectSeq(ps[i], IsData)]
                ok == \A i \in 1..n : data[i] # <<>>
            IN /\ failed' = [failed EXCEPT ![e] = @ \/ ~ok]
               /\ IF ok THEN Returns(e, data) ELSE UNCHANGED got
         /\ wire' = [wire EXCEPT ![e] = SubSeq(@, n + 1, Len(@))]
    /\ plain' = [plain EXCEPT ![e] = <<>>]
    /\ Ends(e, t)
    /\ UNCHANGED <<flights, out, made>>

Step(e, t) ==
    \/ Call(e, t) \/ Lock(e, t) \/ HandshakeWrite(e, t) \/ HandshakeRead(e, t)
    \/ Send(e, t) \/ RecvLeftover(e, t) \/ Recv(e, t)

Next == \E e \in End : \E t \in Task(e) : Step(e, t)

Spec == Init /\ [][Next]_vars

----------------------------------------------------------------------------

\* If the server does not send before it has received, messages are returned one by one and in
\* order, the first one included that arrives together with the end of the handshake, and no recv
\* fails for want of plaintext.
MessagesWhole ==
    \A e \in End : /\ ~failed[e]
                   /\ \A i \in DOMAIN got[e] : got[e][i] = <<i>>

\* What MCProgress shows: every call returns.
AllReturned == \A e \in End : \A t \in Task(e) : calls[e][t] = <<>>
=============================================================================
