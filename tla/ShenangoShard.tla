--------------------------- MODULE ShenangoShard ---------------------------
(***************************************************************************)
(* The sharded key-value service of shenango-bertha/src/lib.rs, from the   *)
(* negotiation to the responses: a canonical server that negotiates and    *)
(* tells the shards of every client it has accepted (picked_blocking), the *)
(* shards, and clients that get the shard list with the reply (ext_info)   *)
(* and then send to the shards themselves.                                 *)
(*                                                                         *)
(* Every connection is a thread.  A client that waits for a reply starts a *)
(* new thread every two seconds, and the old ones are not stopped: each    *)
(* still waits for a datagram on the connection, and will take one.        *)
(*                                                                         *)
(* Datagrams are lost and reordered.  A client is "shard"                  *)
(* (new_shardclient), "unfit" (the same, with a stack that does not match),*)
(* "zero" or "stale" (negotiate_client_nonce, with a shard list of its     *)
(* own, and a nonce that the server takes or refuses), or "fiat"           *)
(* (new_fiat_client, with servers that skip negotiation).                  *)
(***************************************************************************)
EXTENDS Integers, Sequences, FiniteSets

CONSTANTS
    Client, ShardId, Kinds,
    MaxTries,   \* bound: offers of a client
    MaxSend,    \* bound: transmissions of a request
    MaxReq,     \* bound: requests of a client
    MaxLost,    \* bound: datagrams lost
    MayFail,    \* a shard may be unreachable
    None

VARIABLES
    kind,
    cl,         \* a client: "start", "wait", "open", "refused", "failed" (no connection),
                \* "error" (do_req has returned one) or "stuck" (do_req will not return)
    tries,      \* threads it has started to negotiate
    waiting,    \* ... those that wait in recv
    success,    \* CheckZeroRttNegotiationReply's flag
    n_sent,     \* transmissions of the request in hand
    req, dest,  \* requests begun; the shard of the one in hand, if any
    answered,   \* requests answered
    up,         \* datagrams to the canonical server
    down,       \* datagrams to the client
    data,       \* datagrams to a shard: <<shard, request, transmission>>
    srv,        \* the canonical server's thread for a client: "none", "picked", "est"
    dialing,    \* picked_blocking: shards whose thread has not started
    wg,         \* ... shards whose thread is not done
    nonces,     \* ServerNonce and ServerNonceAck on their way: <<kind, client, shard>>
    failed,     \* clients for which a shard was not reached
    known,      \* the shards' pending_negotiated_connections
    conn,       \* a shard's thread for a client: "none", "inject" or "est"
    injected,   \* InjectOne's message
    served,     \* what a shard's perconn has executed: <<client, shard, request>>
    dropped,    \* requests that a shard has discarded
    lost

vars == <<kind, cl, tries, waiting, success, n_sent, req, dest, answered, up, down, data, srv,
          dialing, wg, nonces, failed, known, conn, injected, served, dropped, lost>>
client == <<kind, cl, tries, waiting, success, n_sent, req, dest, answered>>
canonical == <<srv, dialing, wg, failed>>
shards == <<known, conn, injected, served, dropped>>
net == <<up, down, data, nonces>>

-----------------------------------------------------------------------------
(* Stacks: a chunnel is <<capability, its ext_info>>. *)

ServerStack == <<<<"ShardFns", "shard list">>, <<"ReliabilityNeg", None>>, <<"()", None>>>>
ClientStack == <<"ShardFns", "ReliabilityNeg", "()">>

\* A mutant: the tail's replaces the head's.
CollectExtInfoTail(s) == [g \in {"()"} |-> None]

\* A map, into which the head's entry goes first and the tail's after it.
CollectExtInfo(s) ==
    [g \in {s[i][1] : i \in DOMAIN s} |->
        LET last == CHOOSE i \in DOMAIN s :
                        s[i][1] = g /\ \A j \in DOMAIN s : s[j][1] = g => j <= i
        IN s[last][2]]

\* What the chunnels of a stack are told: the first of a capability takes its entry.
DistributeExtInfo(s, info) ==
    [i \in DOMAIN s |->
        IF s[i] \in DOMAIN info /\ \A j \in 1..(i - 1) : s[j] # s[i] THEN info[s[i]] ELSE None]

\* ClientShardChunnelClient: connect_wrap fails if it was not told the shards.
ConnectWrap(told) == told[1] # None

-----------------------------------------------------------------------------
TypeOK ==
    /\ kind \in [Client -> Kinds]
    /\ cl \in [Client -> {"start", "wait", "open", "refused", "failed", "error", "stuck"}]
    /\ tries \in [Client -> 0..MaxTries] /\ waiting \in [Client -> SUBSET (1..MaxTries)]
    /\ success \in [Client -> BOOLEAN]
    /\ n_sent \in [Client -> 0..MaxSend] /\ req \in [Client -> 0..MaxReq]
    /\ dest \in [Client -> ShardId \union {None}] /\ answered \in [Client -> SUBSET (1..MaxReq)]
    /\ \A c \in Client :
        /\ up[c] \subseteq {"offer", "nonce"} \X (1..MaxTries)
        /\ down[c] \subseteq {"ok", "err", "ack", "options", "resp"} \X Nat \X Nat
        /\ data[c] \subseteq ShardId \X (1..MaxReq) \X (1..MaxSend)
    /\ srv \in [Client -> {"none", "picked", "est"}]
    /\ dialing \in [Client -> SUBSET ShardId] /\ wg \in [Client -> SUBSET ShardId]
    /\ nonces \subseteq {"nonce", "ack"} \X Client \X ShardId
    /\ failed \subseteq Client /\ known \in [ShardId -> SUBSET Client]
    /\ conn \in [Client \X ShardId -> {"none", "inject", "est"}]
    /\ \A e \in Client \X ShardId :
        injected[e] = None \/ injected[e] \in (1..MaxReq) \X (1..MaxSend)
    /\ served \subseteq Client \X ShardId \X (1..MaxReq)
    /\ dropped \subseteq Client \X (1..MaxReq)
    /\ lost \in 0..MaxLost

Init ==
    /\ kind \in [Client -> Kinds] /\ \A b, c \in Client : kind[b] = "fiat" => kind[c] = "fiat"
    /\ cl = [c \in Client |-> "start"]
    /\ tries = [c \in Client |-> 0] /\ waiting = [c \in Client |-> {}]
    /\ success = [c \in Client |-> FALSE]
    /\ n_sent = [c \in Client |-> 0] /\ req = [c \in Client |-> 0]
    /\ dest = [c \in Client |-> None] /\ answered = [c \in Client |-> {}]
    /\ up = [c \in Client |-> {}] /\ down = [c \in Client |-> {}] /\ data = [c \in Client |-> {}]
    /\ srv = [c \in Client |-> "none"]
    /\ dialing = [c \in Client |-> {}] /\ wg = [c \in Client |-> {}]
    /\ nonces = {} /\ failed = {} /\ known = [s \in ShardId |-> {}]
    /\ conn = [e \in Client \X ShardId |-> "none"] /\ injected = [e \in Client \X ShardId |-> None]
    /\ served = {} /\ dropped = {} /\ lost = 0

Cl(c, p) == cl' = [cl EXCEPT ![c] = p]
Up(c, m) == up' = [up EXCEPT ![c] = @ \union {m}]
Down(c, m) == down' = [down EXCEPT ![c] = @ \union {m}]
Take(c, m) == down' = [down EXCEPT ![c] = @ \ {m}]

-----------------------------------------------------------------------------
(* The client: negotiation. *)

\* try_negotiate_offer_loop: the first try, and another when two seconds have passed.
TryOnce(c) ==
    /\ kind[c] \in {"shard", "unfit"} /\ cl[c] \in {"start", "wait"} /\ tries[c] < MaxTries
    /\ Cl(c, "wait")
    /\ tries' = [tries EXCEPT ![c] = @ + 1]
    /\ waiting' = [waiting EXCEPT ![c] = @ \union {tries[c] + 1}]
    /\ Up(c, <<"offer", tries[c] + 1>>)
    /\ UNCHANGED <<kind, success, n_sent, req, dest, answered, down, data, nonces, canonical,
                   shards, lost>>

\* negotiate_client_fetch_nonce: check_apply, distribute_ext_info, connect_wrap.
Applied(m) ==
    IF m[1] = "ok" /\ ConnectWrap(DistributeExtInfo(ClientStack, CollectExtInfo(ServerStack)))
    THEN "open" ELSE "failed"

\* A mutant: the timer's trigger is taken for the reply's.
NewestNot(c, t) == t < tries[c]

Newest(c, t) == t = tries[c]

\* A thread's recv returns.  If it is not the newest, nobody is told.
RecvReply(c, t) ==
    /\ t \in waiting[c]
    /\ \E m \in down[c] :
        /\ Take(c, m)
        /\ IF cl[c] = "wait" /\ Newest(c, t) THEN Cl(c, Applied(m)) ELSE UNCHANGED cl
    /\ waiting' = [waiting EXCEPT ![c] = @ \ {t}]
    /\ UNCHANGED <<kind, tries, success, n_sent, req, dest, answered, up, data, nonces, canonical,
                   shards, lost>>

\* negotiate_client_nonce, negotiate_client_fixed_stack, and re_negotiate after a refusal
SendNonce(c) ==
    /\ kind[c] \in {"zero", "stale"} /\ cl[c] \in {"start", "refused"} /\ tries[c] < MaxTries
    /\ Cl(c, "open")
    /\ tries' = [tries EXCEPT ![c] = @ + 1]
    /\ success' = [success EXCEPT ![c] = FALSE]
    /\ Up(c, <<"nonce", tries[c] + 1>>)
    /\ UNCHANGED <<kind, waiting, n_sent, req, dest, answered, down, data, nonces, canonical,
                   shards, lost>>

\* new_fiat_client
Fiat(c) ==
    /\ kind[c] = "fiat" /\ cl[c] = "start"
    /\ Cl(c, "open")
    /\ UNCHANGED <<kind, tries, waiting, success, n_sent, req, dest, answered, net, canonical,
                   shards, lost>>

-----------------------------------------------------------------------------
(* The client: requests, one at a time (do_req over KvReliability). *)

InHand(c) == cl[c] = "open" /\ dest[c] # None

\* ClientShardClientConnection::send; a key may belong to any of the shards.
SendReq(c, s) ==
    /\ cl[c] = "open" /\ ~InHand(c) /\ req[c] < MaxReq
    /\ req' = [req EXCEPT ![c] = @ + 1] /\ n_sent' = [n_sent EXCEPT ![c] = 1]
    /\ dest' = [dest EXCEPT ![c] = s]
    /\ data' = [data EXCEPT ![c] = @ \union {<<s, req[c] + 1, 1>>}]
    /\ UNCHANGED <<kind, cl, tries, waiting, success, answered, up, down, nonces, canonical,
                   shards, lost>>

Retransmit(c) ==
    /\ InHand(c) /\ n_sent[c] < MaxSend
    /\ n_sent' = [n_sent EXCEPT ![c] = @ + 1]
    /\ data' = [data EXCEPT ![c] = @ \union {<<dest[c], req[c], n_sent[c] + 1>>}]
    /\ UNCHANGED <<kind, cl, tries, waiting, success, req, dest, answered, up, down, nonces,
                   canonical, shards, lost>>

\* CheckZeroRttNegotiationReply::recv looks for the answer to the nonce.
Checking(c) == kind[c] \in {"zero", "stale"} /\ ~success[c]

\* KvReliability receives only while it sends.  A reply to an offer that was repeated is no
\* response, and ends the request with an error (SerializeProject::recv).  A late response to an
\* earlier request makes send return, and then nobody receives the one that is waited for.
Recv(c) ==
    /\ InHand(c)
    /\ \E m \in down[c] :
        /\ Take(c, m)
        /\ success' = [success EXCEPT ![c] = @ \/ (Checking(c) /\ m[1] = "ack")]
        /\ cl' = [cl EXCEPT ![c] = CASE m[1] = "options" -> "refused"
                                    [] m[1] = "ok" -> "error"
                                    [] m[1] = "resp" /\ m[2] # req[c] -> "stuck"
                                    [] OTHER -> "open"]
        /\ answered' = [answered EXCEPT ![c] = IF m[1] = "resp" /\ m[2] = req[c]
                                                THEN @ \union {m[2]} ELSE @]
        /\ dest' = [dest EXCEPT ![c] = IF m[1] = "ack" THEN @ ELSE None]
    /\ UNCHANGED <<kind, tries, waiting, n_sent, req, up, data, nonces, canonical, shards, lost>>

-----------------------------------------------------------------------------
(* The canonical server: negotiate_server_connection, per client. *)

Reject(c, m) ==
    /\ kind[c] = "unfit" \/ (kind[c] = "stale" /\ m[2] = 1)
    /\ Down(c, <<IF m[1] = "offer" THEN "err" ELSE "options", m[2], 0>>)
    /\ UNCHANGED <<srv, dialing, wg>>

\* One-rtt: call_negotiate_picked starts a thread for every shard.
PickOffer(c, m) ==
    /\ kind[c] = "shard" /\ m[1] = "offer"
    /\ srv' = [srv EXCEPT ![c] = "picked"]
    /\ dialing' = [dialing EXCEPT ![c] = ShardId] /\ wg' = [wg EXCEPT ![c] = ShardId]
    /\ UNCHANGED down

\* Zero-rtt: the nonce is serialized without an ext_info map, so that picked_blocking, which
\* expects one, returns with a warning; no shard is told.
PickNonce(c, m) ==
    /\ kind[c] = "zero" \/ (kind[c] = "stale" /\ m[2] > 1)
    /\ srv' = [srv EXCEPT ![c] = "est"]
    /\ Down(c, <<"ack", m[2], 0>>)
    /\ UNCHANGED <<dialing, wg>>

Negotiate(c) ==
    /\ srv[c] = "none"
    /\ \E m \in up[c] :
        /\ up' = [up EXCEPT ![c] = @ \ {m}]
        /\ Reject(c, m) \/ PickOffer(c, m) \/ PickNonce(c, m)
    /\ UNCHANGED <<client, data, nonces, failed, shards, lost>>

\* picked_blocking's thread for a shard: dial and send ...
Dial(c, s) ==
    /\ s \in dialing[c]
    /\ dialing' = [dialing EXCEPT ![c] = @ \ {s}]
    /\ nonces' = nonces \union {<<"nonce", c, s>>}
    /\ UNCHANGED <<client, up, down, data, srv, wg, failed, shards, lost>>

\* ... dial fails: the thread ends without wg.done() ...
DialFails(c, s) ==
    /\ MayFail /\ s \in dialing[c]
    /\ dialing' = [dialing EXCEPT ![c] = @ \ {s}]
    /\ failed' = failed \union {c}
    /\ UNCHANGED <<client, net, srv, wg, shards, lost>>

\* ... send fails: with it.
SendFails(c, s) ==
    /\ MayFail /\ s \in dialing[c]
    /\ dialing' = [dialing EXCEPT ![c] = @ \ {s}] /\ wg' = [wg EXCEPT ![c] = @ \ {s}]
    /\ failed' = failed \union {c}
    /\ UNCHANGED <<client, net, srv, shards, lost>>

\* A mutant: wg.done() is forgotten.
GotAckForgets(c, s) ==
    /\ <<"ack", c, s>> \in nonces
    /\ nonces' = nonces \ {<<"ack", c, s>>}
    /\ UNCHANGED <<client, up, down, data, srv, dialing, wg, failed, shards, lost>>

GotAck(c, s) ==
    /\ <<"ack", c, s>> \in nonces
    /\ nonces' = nonces \ {<<"ack", c, s>>}
    /\ wg' = [wg EXCEPT ![c] = @ \ {s}]
    /\ UNCHANGED <<client, up, down, data, srv, dialing, failed, shards, lost>>

\* A mutant: the threads are not waited for.
WaitNot(c) == TRUE

Wait(c) == wg[c] = {}

\* wg.wait() returns, the reply goes out and the connection is returned.
Reply(c) ==
    /\ srv[c] = "picked" /\ Wait(c)
    /\ srv' = [srv EXCEPT ![c] = "est"]
    /\ Down(c, <<"ok", CHOOSE n \in 1..MaxTries : <<"ok", n, 0>> \notin down[c], 0>>)
    /\ UNCHANGED <<client, up, data, nonces, dialing, wg, failed, shards, lost>>

\* serve_canonical: what comes now is parsed as a request.  If that fails (it depends on the bytes)
\* the loop and the connection end, and the next datagram starts a new one.
ServeCanonical(c) ==
    /\ srv[c] = "est"
    /\ \E m \in up[c] : up' = [up EXCEPT ![c] = @ \ {m}]
    /\ srv' \in {srv, [srv EXCEPT ![c] = "none"]}
    /\ UNCHANGED <<client, down, data, nonces, dialing, wg, failed, shards, lost>>

-----------------------------------------------------------------------------
(* A shard: negotiate_server, or skip_neg. *)

\* A ServerNonce, on a connection of its own (process_nonces_connection waits for more).
ServerNonce(c, s) ==
    /\ <<"nonce", c, s>> \in nonces
    /\ known' = [known EXCEPT ![s] = @ \union {c}]
    /\ nonces' = (nonces \ {<<"nonce", c, s>>}) \union {<<"ack", c, s>>}
    /\ UNCHANGED <<client, up, down, data, canonical, conn, injected, served, dropped, lost>>

\* The client's datagram starts a connection if the shard was told of it, and is returned by
\* the connection's first recv; otherwise it is no NegotiateMsg and is discarded.
FirstData(c, s) ==
    /\ conn[<<c, s>>] = "none" /\ kind[c] # "fiat"
    /\ \E m \in data[c] :
        /\ m[1] = s /\ data' = [data EXCEPT ![c] = @ \ {m}]
        /\ IF c \in known[s]
           THEN /\ conn' = [conn EXCEPT ![<<c, s>>] = "inject"]
                /\ injected' = [injected EXCEPT ![<<c, s>>] = <<m[2], m[3]>>]
                /\ UNCHANGED dropped
           ELSE dropped' = dropped \union {<<c, m[2]>>} /\ UNCHANGED <<conn, injected>>
    /\ UNCHANGED <<client, up, down, nonces, canonical, known, served, lost>>

SkipNeg(c, s) ==
    /\ conn[<<c, s>>] = "none" /\ kind[c] = "fiat" /\ \E m \in data[c] : m[1] = s
    /\ conn' = [conn EXCEPT ![<<c, s>>] = "est"]
    /\ UNCHANGED <<client, net, canonical, known, injected, served, dropped, lost>>

\* The k-th transmission of request n
Perconn(c, s, n, k) ==
    /\ served' = served \union {<<c, s, n>>}
    /\ Down(c, <<"resp", n, k>>)

\* A mutant: the message is not put back.
InjectNothing(c, s) ==
    /\ conn[<<c, s>>] = "inject"
    /\ conn' = [conn EXCEPT ![<<c, s>>] = "est"]
    /\ injected' = [injected EXCEPT ![<<c, s>>] = None]
    /\ UNCHANGED <<client, net, canonical, known, served, dropped, lost>>

\* InjectOne::recv, the first time
Inject(c, s) ==
    /\ conn[<<c, s>>] = "inject"
    /\ conn' = [conn EXCEPT ![<<c, s>>] = "est"]
    /\ injected' = [injected EXCEPT ![<<c, s>>] = None]
    /\ Perconn(c, s, injected[<<c, s>>][1], injected[<<c, s>>][2])
    /\ UNCHANGED <<client, up, data, nonces, canonical, known, dropped, lost>>

ShardRecv(c, s) ==
    /\ conn[<<c, s>>] = "est"
    /\ \E m \in data[c] :
        /\ m[1] = s /\ data' = [data EXCEPT ![c] = @ \ {m}]
        /\ Perconn(c, s, m[2], m[3])
    /\ UNCHANGED <<client, up, nonces, canonical, known, conn, injected, dropped, lost>>

-----------------------------------------------------------------------------
Lose(c) ==
    /\ lost < MaxLost /\ lost' = lost + 1
    /\ \/ \E m \in up[c] : up' = [up EXCEPT ![c] = @ \ {m}] /\ UNCHANGED <<down, data, nonces>>
       \/ \E m \in down[c] : Take(c, m) /\ UNCHANGED <<up, data, nonces>>
       \/ \E m \in data[c] : data' = [data EXCEPT ![c] = @ \ {m}] /\ UNCHANGED <<up, down, nonces>>
       \/ \E m \in nonces : nonces' = nonces \ {m} /\ UNCHANGED <<up, down, data>>
    /\ UNCHANGED <<client, canonical, shards>>

Progress(c) ==
    \/ SendNonce(c) \/ Fiat(c) \/ Recv(c) \/ Negotiate(c) \/ Reply(c) \/ ServeCanonical(c)
    \/ \E t \in 1..MaxTries : RecvReply(c, t)
    \/ \E s \in ShardId : \/ Dial(c, s) \/ GotAck(c, s) \/ ServerNonce(c, s)
                        \/ FirstData(c, s) \/ SkipNeg(c, s) \/ Inject(c, s) \/ ShardRecv(c, s)

Next ==
    \E c \in Client :
        \/ Progress(c) \/ TryOnce(c) \/ Retransmit(c) \/ Lose(c)
        \/ \E s \in ShardId : SendReq(c, s) \/ DialFails(c, s) \/ SendFails(c, s)

Spec == Init /\ [][Next]_vars

-----------------------------------------------------------------------------
\* A client that has negotiated is known to every shard before it can send there, unless one of
\* them could not be reached, and its requests are not discarded.  (This is not so for zero-rtt
\* clients, of which the shards are never told.)
ShardsTold ==
    \A c \in Client \ failed :
        kind[c] = "shard" /\ cl[c] = "open" =>
            /\ \A s \in ShardId : c \in known[s]
            /\ \A d \in dropped : d[1] # c

\* A client that the server accepts opens its connection: the shard list reaches the chunnel that
\* needs it.
AcceptedOpens == \A c \in Client : cl[c] = "failed" => kind[c] = "unfit"

\* What a shard takes from the network is executed, the datagram that started the connection too.
TakenIsServed ==
    \A c \in Client : \A n \in 1..MaxReq :
        \/ n > req[c] \/ n \in answered[c] \/ <<c, n>> \in dropped
        \/ \E s \in ShardId : \/ <<c, s, n>> \in served
                           \/ (injected[<<c, s>>] # None /\ injected[<<c, s>>][1] = n)
        \/ \E m \in data[c] : m[2] = n
        \/ lost > 0

\* A client waits in vain for its reply only if it was lost, if a shard could not be reached, or
\* if a thread given up after two seconds has taken it.
WaitsForReply ==
    \A c \in Client :
        cl[c] = "wait" /\ srv[c] = "est" =>
            \/ \E m \in down[c] : m[1] = "ok"
            \/ lost > 0 \/ tries[c] > 1

Served(c) == kind[c] \in {"zero", "stale"} \/ cl[c] = "failed" \/ answered[c] = 1..MaxReq
=============================================================================
