------------------------------ MODULE Transfer ------------------------------
(***************************************************************************)
(* The downloads of throughput-bench.  A client asks for a number of bytes *)
(* in packets of some size; the server sends them, then a fin which it     *)
(* repeats until it hears from the client; a client that has the fin says  *)
(* so once and ends.  Requests are repeated until a first packet comes.    *)
(*                                                                         *)
(* The program has this protocol six times, for the path the packets take: *)
(* "chunnel" (run_clients of using_chunnel_connection.rs), "plain"         *)
(* (run_clients_no_bertha: no negotiation and no barrier), "dpdk"          *)
(* (dpdk_inline_raw.rs), "shenango" (shenango_raw.rs), "shenangort"        *)
(* (shenangort.rs: the server waits for all clients) and "tcp"             *)
(* (kernel_tcp_raw.rs: nothing is lost and nothing repeated).              *)
(*                                                                         *)
(* The packets to a client, and those to the server from it, keep their    *)
(* order.  A packet is the number of its bytes, the fin is Fin.            *)
(***************************************************************************)
EXTENDS Integers, Sequences, FiniteSets, SequencesExt

CONSTANTS
    Paths,
    NumClients, Threads,
    Size, Pkt,      \* bytes asked for, bytes of a packet
    Burst,          \* 16: packets the server sends before it yields
    MaxRetx,        \* bound: requests repeated; 50, with shenango
    MaxLost,        \* bound: packets lost
    MayFail,        \* a client may fail to connect
    Spaced          \* clients ask one after the other

VARIABLES
    path,
    cpc,        \* a client: "connect", "barrier", "first", "read", "done", "failed"
    got, pkts,  \* what it has counted
    retx,       \* requests it has repeated
    gave_up,    \* it has returned before the fin
    up, down,   \* packets on their way to the server, and to the client
    spc,        \* its connection at the server: "none", "adding", "waiting", "send", "fin", "done"
    remaining,  \* bytes left to send
    lost,       \* packets lost
    lost_fin,   \* ... a fin among them
    active, wg, \* shenangort: activated_clients, and the server's WaitGroup
    report      \* the total of a run, or -1

vars == <<path, cpc, got, pkts, retx, gave_up, up, down, spc, remaining, lost, lost_fin, active, wg,
          report>>
client == <<cpc, got, pkts, retx, gave_up>>
server == <<spc, remaining, active, wg>>
net == <<up, down, lost, lost_fin>>

Fin == 0
FinLen == 1
Shenango == path \in {"shenango", "shenangort"}
Thread == 1..Threads
Min2(a, b) == IF a < b THEN a ELSE b

-----------------------------------------------------------------------------
(* run_clients *)

\* A mutant: the remainder is left out.
ShareEven(t) == NumClients \div Threads

\* The clients of a thread, if there are more clients than threads.
Share(t) == NumClients \div Threads + (IF t <= NumClients % Threads THEN 1 ELSE 0)

Spawned(t) == IF NumClients > Threads THEN Share(t) ELSE IF t <= NumClients THEN 1 ELSE 0

\* The clients are <<thread, number>>.
Client == UNION {{t} \X (1..Spawned(t)) : t \in Thread}

TypeOK ==
    /\ path \in Paths
    /\ cpc \in [Client -> {"connect", "barrier", "first", "read", "done", "failed"}]
    /\ got \in [Client -> Nat] /\ pkts \in [Client -> Nat] /\ retx \in [Client -> 0..MaxRetx]
    /\ gave_up \subseteq Client
    /\ up \in [Client -> Seq({"req", "ack"})] /\ down \in [Client -> Seq(0..Pkt)]
    /\ spc \in [Client -> {"none", "adding", "waiting", "send", "fin", "done"}]
    /\ remaining \in [Client -> 0..Size]
    /\ lost \in 0..MaxLost /\ lost_fin \in BOOLEAN
    /\ active \in 0..NumClients /\ wg \in Int /\ report \in Int

Init ==
    /\ path \in Paths
    /\ cpc = [c \in Client |-> "connect"]
    /\ got = [c \in Client |-> 0] /\ pkts = [c \in Client |-> 0] /\ retx = [c \in Client |-> 0]
    /\ gave_up = {}
    /\ up = [c \in Client |-> <<>>] /\ down = [c \in Client |-> <<>>]
    /\ spc = [c \in Client |-> "none"] /\ remaining = [c \in Client |-> 0]
    /\ lost = 0 /\ lost_fin = FALSE /\ active = 0 /\ wg = 0 /\ report = -1

Goto(c, p) == cpc' = [cpc EXCEPT ![c] = p]
SendUp(c, m) == up' = [up EXCEPT ![c] = Append(@, m)]

\* connect, and the negotiation
Connect(c) ==
    /\ path # "plain" /\ ~Shenango /\ cpc[c] = "connect"
    /\ Goto(c, "barrier")
    /\ UNCHANGED <<path, got, pkts, retx, gave_up, net, server, report>>

\* With shenango, every client in its own thread.
ConnectShenango(c) ==
    /\ Shenango /\ cpc[c] = "connect"
    /\ Goto(c, "barrier")
    /\ UNCHANGED <<path, got, pkts, retx, gave_up, net, server, report>>

\* run_clients_no_bertha: the request follows at once.
ConnectPlain(c) ==
    /\ path = "plain" /\ cpc[c] = "connect"
    /\ Goto(c, "first") /\ SendUp(c, "req")
    /\ UNCHANGED <<path, got, pkts, retx, gave_up, down, lost, lost_fin, server, report>>

\* An error: the other clients of the thread are dropped (try_collect); with shenango a client is
\* a thread of its own.
ConnectFails(c) ==
    /\ MayFail /\ cpc[c] = "connect"
    /\ cpc' = [d \in Client |->
                    IF d = c \/ (~Shenango /\ d[1] = c[1] /\ cpc[d] # "done") THEN "failed" ELSE cpc[d]]
    /\ UNCHANGED <<path, got, pkts, retx, gave_up, net, server, report>>

\* A mutant: the barrier is not waited for.
NoBarrier == TRUE

\* Barrier::new(num_clients), WaitGroup::add(num_clients): all have come.
Opened == Cardinality({c \in Client : cpc[c] \notin {"connect", "failed"}}) = NumClients

Start(c) ==
    /\ cpc[c] = "barrier" /\ Opened
    /\ Goto(c, "first") /\ SendUp(c, "req")
    /\ UNCHANGED <<path, got, pkts, retx, gave_up, down, lost, lost_fin, server, report>>

-----------------------------------------------------------------------------
(* The client. *)

\* The request is repeated until something has come.
Retransmit(c) ==
    /\ cpc[c] = "first" /\ path # "tcp" /\ retx[c] < MaxRetx
    /\ retx' = [retx EXCEPT ![c] = @ + 1]
    /\ SendUp(c, "req")
    /\ UNCHANGED <<path, cpc, got, pkts, gave_up, down, lost, lost_fin, server, report>>

\* Shenango's clients give up, with nothing ...
GiveUp(c) ==
    /\ cpc[c] = "first" /\ Shenango /\ retx[c] = MaxRetx
    /\ Goto(c, "done") /\ gave_up' = gave_up \union {c}
    /\ UNCHANGED <<path, got, pkts, retx, net, server, report>>

\* ... and one_client of shenangort after 15 seconds, with what it has.
TimeOut(c) ==
    /\ cpc[c] = "read" /\ path = "shenangort" /\ lost > 0
    /\ Goto(c, "done") /\ gave_up' = gave_up \union {c}
    /\ UNCHANGED <<path, got, pkts, retx, net, server, report>>

Len1(m) == IF m = Fin THEN FinLen ELSE m

\* A packet is taken from the network and counted.
Count(c) ==
    /\ down[c] # <<>>
    /\ got' = [got EXCEPT ![c] = @ + Len1(Head(down[c]))]
    /\ pkts' = [pkts EXCEPT ![c] = @ + 1]
    /\ down' = [down EXCEPT ![c] = Tail(@)]
    /\ UNCHANGED <<path, retx, gave_up, lost, lost_fin, server, report>>

\* The fin is answered, and ends the client.
Took(c, m) ==
    IF m = Fin THEN Goto(c, "done") /\ SendUp(c, "ack") ELSE Goto(c, "read") /\ UNCHANGED up

\* run_client_inner
Recv(c) ==
    /\ path \in {"chunnel", "plain"} /\ cpc[c] \in {"first", "read"}
    /\ Count(c) /\ Took(c, Head(down[c]))

\* run_client of dpdk_inline_raw.rs
RecvDpdk(c) ==
    /\ path = "dpdk" /\ cpc[c] \in {"first", "read"}
    /\ Count(c) /\ Took(c, Head(down[c]))

\* run_client of kernel_tcp_raw.rs
RecvTcp(c) ==
    /\ path = "tcp" /\ cpc[c] \in {"first", "read"}
    /\ Count(c) /\ Took(c, Head(down[c]))

\* With shenango another thread takes the first packet, and does not look whether it is the fin.
RecvFirst(c) ==
    /\ Shenango /\ cpc[c] = "first"
    /\ Count(c) /\ Goto(c, "read") /\ UNCHANGED up

RecvShenango(c) ==
    /\ path = "shenango" /\ cpc[c] = "read"
    /\ Count(c) /\ Took(c, Head(down[c]))

RecvShenangort(c) ==
    /\ path = "shenangort" /\ cpc[c] = "read"
    /\ Count(c) /\ Took(c, Head(down[c]))

\* The threads are joined, and what the clients counted is summed up.
Report ==
    /\ report = -1 /\ \A c \in Client : cpc[c] = "done"
    /\ report' = MapThenSumSet(LAMBDA c : got[c], Client)
    /\ UNCHANGED <<path, client, net, server>>

-----------------------------------------------------------------------------
(* The server. *)

STo(c, p) == spc' = [spc EXCEPT ![c] = p]

\* The connection's first message; validate_message has nothing against it.
Request(c, p) ==
    /\ spc[c] = "none" /\ up[c] # <<>> /\ Head(up[c]) = "req"
    /\ up' = [up EXCEPT ![c] = Tail(@)]
    /\ remaining' = [remaining EXCEPT ![c] = Size]
    /\ STo(c, p)
    /\ UNCHANGED <<path, client, down, lost, lost_fin, report>>

\* The threads of run_server take connections, each for itself.
Accept(c) == path = "chunnel" /\ Request(c, "send") /\ UNCHANGED <<active, wg>>
AcceptPlain(c) == path = "plain" /\ Request(c, "send") /\ UNCHANGED <<active, wg>>
AcceptDpdk(c) == path = "dpdk" /\ Request(c, "send") /\ UNCHANGED <<active, wg>>
AcceptTcp(c) == path = "tcp" /\ Request(c, "send") /\ UNCHANGED <<active, wg>>
AcceptShenango(c) == path = "shenango" /\ Request(c, "send") /\ UNCHANGED <<active, wg>>

\* one_server_thread: the first client's thread announces the others ...
Activate(c) ==
    /\ path = "shenangort" /\ active = 0
    /\ Request(c, "adding")
    /\ active' = NumClients
    /\ UNCHANGED wg

\* A mutant: it announces too few.
OthersLess == NumClients - 2

Others == NumClients - 1

\* ... in a second step.
AddOthers(c) ==
    /\ spc[c] = "adding"
    /\ wg' = wg + Others
    /\ STo(c, "waiting")
    /\ UNCHANGED <<path, client, net, remaining, active, report>>

Join(c) ==
    /\ path = "shenangort" /\ active # 0
    /\ Spaced => \A d \in Client : spc[d] # "adding"
    /\ Request(c, "waiting")
    /\ wg' = wg - 1
    /\ UNCHANGED active

\* wg.wait()
Go(c) ==
    /\ spc[c] = "waiting" /\ wg = 0
    /\ STo(c, "send")
    /\ UNCHANGED <<path, client, net, remaining, active, wg, report>>

\* A mutant: every packet is a full one.
PacketsFull(n, rem) == [i \in 1..Min2(n, (rem + Pkt - 1) \div Pkt) |-> Pkt]

\* The sizes of the next n packets.
Packets(n, rem) ==
    [i \in 1..Min2(n, (rem + Pkt - 1) \div Pkt) |-> Min2(Pkt, rem - (i - 1) * Pkt)]

SendPackets(c, n) ==
    LET ps == Packets(n, remaining[c])
    IN /\ spc[c] = "send" /\ remaining[c] > 0
       /\ down' = [down EXCEPT ![c] = @ \o ps]
       /\ remaining' = [remaining EXCEPT ![c] = @ - Min2(n * Pkt, @)]
       /\ UNCHANGED <<path, client, up, spc, lost, lost_fin, active, wg, report>>

\* server_thread_inner
Send(c) == path \in {"chunnel", "plain"} /\ SendPackets(c, Burst)
SendDpdk(c) == path = "dpdk" /\ SendPackets(c, Burst)
SendTcp(c) == path = "tcp" /\ SendPackets(c, 1)
SendShenango(c) == path = "shenango" /\ SendPackets(c, 1)
SendShenangort(c) == path = "shenangort" /\ SendPackets(c, 1)

SendFin(c) == down' = [down EXCEPT ![c] = Append(@, Fin)]

FirstFin(c) ==
    /\ spc[c] = "send" /\ remaining[c] = 0
    /\ SendFin(c) /\ STo(c, "fin")
    /\ UNCHANGED <<path, client, up, lost, lost_fin, remaining, active, wg, report>>

\* The time is over and nothing was heard; fins are repeated one at a time (a bound).
FinAgain(c) ==
    /\ spc[c] = "fin" /\ path # "tcp" /\ ~Contains(down[c], Fin)
    /\ SendFin(c)
    /\ UNCHANGED <<path, client, up, lost, lost_fin, server, report>>

\* A mutant: the server does not wait for an answer.
AnsweredUnheard(c) ==
    /\ spc[c] = "fin"
    /\ STo(c, "done")
    /\ active' = IF path = "shenangort" THEN active - 1 ELSE active
    /\ UNCHANGED <<path, client, net, remaining, wg, report>>

\* Any message will do for an answer; over TCP it can only be the fin that is sent back.
Answered(c) ==
    /\ spc[c] = "fin" /\ up[c] # <<>>
    /\ up' = [up EXCEPT ![c] = Tail(@)]
    /\ STo(c, "done")
    /\ active' = IF path = "shenangort" THEN active - 1 ELSE active
    /\ UNCHANGED <<path, client, down, lost, lost_fin, remaining, wg, report>>

-----------------------------------------------------------------------------
LoseDown(c) ==
    /\ path # "tcp" /\ lost < MaxLost /\ down[c] # <<>>
    /\ lost' = lost + 1 /\ lost_fin' = (lost_fin \/ Head(down[c]) = Fin)
    /\ down' = [down EXCEPT ![c] = Tail(@)]
    /\ UNCHANGED <<path, client, up, server, report>>

LoseUp(c) ==
    /\ path # "tcp" /\ lost < MaxLost /\ up[c] # <<>>
    /\ lost' = lost + 1
    /\ up' = [up EXCEPT ![c] = Tail(@)]
    /\ UNCHANGED <<path, client, down, lost_fin, server, report>>

Step(c) ==
    \/ Connect(c) \/ ConnectShenango(c) \/ ConnectPlain(c) \/ Start(c) \/ Retransmit(c)
    \/ Recv(c) \/ RecvDpdk(c) \/ RecvTcp(c) \/ RecvFirst(c) \/ RecvShenango(c) \/ RecvShenangort(c)
    \/ Accept(c) \/ AcceptPlain(c) \/ AcceptDpdk(c) \/ AcceptTcp(c) \/ AcceptShenango(c)
    \/ Activate(c) \/ AddOthers(c) \/ Join(c) \/ Go(c)
    \/ Send(c) \/ SendDpdk(c) \/ SendTcp(c) \/ SendShenango(c) \/ SendShenangort(c)
    \/ FirstFin(c) \/ FinAgain(c) \/ Answered(c)

Next ==
    \/ \E c \in Client :
            Step(c) \/ ConnectFails(c) \/ GiveUp(c) \/ TimeOut(c) \/ LoseDown(c) \/ LoseUp(c)
    \/ Report

Spec == Init /\ [][Next]_vars

-----------------------------------------------------------------------------
\* If nothing was lost, a client that ends has counted what it asked for and one fin, and the
\* total is that of all clients (run_client_inner, run_clients).
WholeDownload ==
    lost = 0 /\ gave_up = {} =>
        /\ \A c \in Client :
              cpc[c] = "done" => got[c] = Size + FinLen /\ pkts[c] = (Size + Pkt - 1) \div Pkt + 1
        /\ report # -1 => report = NumClients * (Size + FinLen)

\* No client asks before all are connected, and none asks if one has failed (start_barrier).
StartTogether ==
    path # "plain" /\ (\E c \in Client : cpc[c] \in {"first", "read", "done"}) =>
        \A c \in Client : cpc[c] \notin {"connect", "failed"}

\* A server that ends has been heard by its client, or will be; but the repeated request that it
\* takes for the answer may leave its client without the fin, if that was lost.
FinHeard ==
    \A c \in Client :
        spc[c] = "done" =>
            \/ cpc[c] = "done" \/ Contains(down[c], Fin)
            \/ retx[c] > 0 /\ lost_fin
            \/ Shenango /\ cpc[c] = "read" /\ retx[c] > 0   \* its first packet was the fin

\* shenangort: the WaitGroup's counter is never below zero, if clients ask one after the other.
CounterKept == Spaced => wg >= 0

Ended == report # -1 /\ \A c \in Client : spc[c] = "done"
=============================================================================
