------------------------------ MODULE Sharding ------------------------------
(***************************************************************************)
(* A sharded key-value service: the canonical server (shard-ctl/src/       *)
(* server.rs, or shard_raw.rs) and its shards (kvstore/src/server),        *)
(* clients that send everything to the canonical address and clients that  *)
(* shard by themselves (shard-ctl/src/client.rs, static_client.rs) with    *)
(* the shard list they find in Redis (redis_util.rs).                      *)
(*                                                                         *)
(* A shard takes a client's datagrams only if the canonical server told it *)
(* the client's nonce before (negotiate/server.rs): `known` is the shards' *)
(* pending_negotiated_connections.  A request is <<client, number, key>>;  *)
(* a key is a sequence of bytes, of which the sharding functions take the  *)
(* first four: they panic on a shorter one.                                *)
(***************************************************************************)
EXTENDS Integers, Sequences, FiniteSets

CONSTANTS Client,
          Direct,      \* the clients that have ClientShardChunnelClient in their stack
          Key,
          Raw, OFFSET, \* the canonical server is a ShardCanonicalServerRaw<.., OFFSET>
          MayFail,     \* Redis, or a connection to a shard, may fail
          IdleExit,    \* serve_canonical's recv timeout may elapse (serve_lb has none)
          MaxReq       \* bound: requests of a client

VARIABLES redis,       \* the ShardInfo is in Redis
          srv,         \* the canonical server's connection with this client
          todo,        \* shards `picked` has still to hear from
          failed,      \* clients whose `picked` met an error
          known,
          plan,        \* where the client sends
          sent,        \* requests so far
          inbox,       \* the canonical connection's queue
          direct,      \* what the client sent to the shard itself
          fwd,         \* the request the canonical server forwarded, by shard
          served,      \* requests a shard has executed
          answered     \* requests the client has a response to

vars == <<redis, srv, todo, failed, known, plan, sent, inbox, direct, fwd, served, answered>>
setup == <<redis, todo, failed, known>>

NumShards == 2
Shard == 0..(NumShards - 1)
None == <<>>

Init ==
    /\ redis = FALSE
    /\ srv = [c \in Client |-> "none"]
    /\ todo = [c \in Client |-> {}]
    /\ failed = {}
    /\ known = [s \in Shard |-> {}]
    /\ plan = [c \in Client |-> "none"]
    /\ sent = [c \in Client |-> 0]
    /\ inbox = [c \in Client |-> <<>>]
    /\ direct = [c \in Client |-> [s \in Shard |-> <<>>]]
    /\ fwd = [c \in Client |-> None]
    /\ served = [s \in Shard |-> {}]
    /\ answered = [c \in Client |-> {}]

Srv(c, l) == srv' = [srv EXCEPT ![c] = l]

(***************************************************************************)
(* The sharding function, for two shards.  hash ^= b; hash *= FNV_64_PRIME *)
(* (an odd number), wrapping: the low bit of the hash is the low bit of    *)
(* FNV1_64_INIT (1) plus those of the four bytes.                          *)
(***************************************************************************)
Hash(w) == (1 + w[1] + w[2] + w[3] + w[4]) % 2

\* bincode's layout of a Msg up to the key (kvstore/src/msg.rs, pinned by its bincode_test):
\* id (8 bytes), op (4 bytes), the key's length (8 bytes, little endian), the key.
Encoded(m) == <<m[2], 0, 0, 0, 0, 0, 0, 0>> \o <<0, 0, 0, 0>>
              \o <<Len(m[3]), 0, 0, 0, 0, 0, 0, 0>> \o m[3]

\* shard_fn of the two canonical servers.
ServerShardFn(m) ==
    Hash(IF Raw THEN SubSeq(Encoded(m), OFFSET + 1, OFFSET + 4) ELSE m[3]) % NumShards

\* shard_fn of the clients: an index into the list that starts with the canonical address.
ClientShardOffByOne(m) == ((Hash(m[3]) % NumShards) + 1) % NumShards
ClientShardFn(m) == ((Hash(m[3]) % NumShards) + 1) - 1

\* key[0..4] is out of range.
TooShort(k) == Len(k) < 4

(***************************************************************************)
(* ShardCanonicalServer::picked, then connect_wrap, in the negotiation     *)
(* future of one client.                                                   *)
(***************************************************************************)
Offer(c) ==
    /\ srv[c] = "none"
    /\ Srv(c, "picked")
    /\ UNCHANGED <<setup, plan, sent, inbox, direct, fwd, served, answered>>

\* redis_insert.  When it fails, no shard is told and the handshake goes on.
Insert(c) ==
    /\ srv[c] = "picked"
    /\ redis' = TRUE
    /\ todo' = [todo EXCEPT ![c] = Shard]
    /\ Srv(c, "nonces")
    /\ UNCHANGED <<failed, known, plan, sent, inbox, direct, fwd, served, answered>>

InsertFails(c) ==
    /\ MayFail /\ srv[c] = "picked"
    /\ failed' = failed \cup {c}
    /\ Srv(c, "nonces")
    /\ UNCHANGED <<redis, todo, known, plan, sent, inbox, direct, fwd, served, answered>>

\* One branch of join_all: the shard stores the nonce, then acknowledges it.
Nonce(c, s) ==
    /\ srv[c] = "nonces" /\ s \in todo[c]
    /\ known' = [known EXCEPT ![s] = @ \cup {c}]
    /\ todo' = [todo EXCEPT ![c] = @ \ {s}]
    /\ UNCHANGED <<redis, srv, failed, plan, sent, inbox, direct, fwd, served, answered>>

\* The connection or the send fails: a warning, and that shard is not told.
NonceFails(c, s) ==
    /\ MayFail /\ srv[c] = "nonces" /\ s \in todo[c]
    /\ failed' = failed \cup {c}
    /\ todo' = [todo EXCEPT ![c] = @ \ {s}]
    /\ UNCHANGED <<redis, srv, known, plan, sent, inbox, direct, fwd, served, answered>>

\* call_negotiate_picked was awaited: the reply goes out.
ReplyFirst(c) ==
    /\ srv[c] = "nonces"
    /\ Srv(c, "connect")
    /\ plan' = [plan EXCEPT ![c] = "query"]
    /\ UNCHANGED <<setup, sent, inbox, direct, fwd, served, answered>>
Reply(c) ==
    /\ srv[c] = "nonces" /\ todo[c] = {}
    /\ Srv(c, "connect")
    /\ plan' = [plan EXCEPT ![c] = "query"]
    /\ UNCHANGED <<setup, sent, inbox, direct, fwd, served, answered>>

\* connect_wrap connects to every shard and negotiates with it.
Connect(c) ==
    /\ srv[c] = "connect"
    /\ Srv(c, "serve")
    /\ UNCHANGED <<setup, plan, sent, inbox, direct, fwd, served, answered>>

\* One shard cannot be reached: the error is an item of the stream of connections, and
\* try_for_each_concurrent ends with it, dropping every connection.
ConnectFails(c) ==
    /\ MayFail /\ srv[c] = "connect"
    /\ srv' = [d \in Client |-> "closed"]
    /\ fwd' = [d \in Client |-> None]
    /\ UNCHANGED <<setup, plan, sent, inbox, direct, served, answered>>

(***************************************************************************)
(* The client.  redis_query retries for five seconds, then the plan is the *)
(* canonical address alone; `Nothing` in its place sends there as well.    *)
(***************************************************************************)
Query(c) ==
    /\ plan[c] = "query"
    /\ plan' = [plan EXCEPT ![c] = IF c \in Direct /\ redis THEN "direct" ELSE "canonical"]
    /\ UNCHANGED <<setup, srv, sent, inbox, direct, fwd, served, answered>>

\* Redis fails: connect_wrap returns the error, and there is no connection.
QueryFails(c) ==
    /\ MayFail /\ plan[c] = "query" /\ c \in Direct
    /\ plan' = [plan EXCEPT ![c] = "failed"]
    /\ UNCHANGED <<setup, srv, sent, inbox, direct, fwd, served, answered>>

Send(c, k) ==
    /\ plan[c] \in {"direct", "canonical"} /\ sent[c] < MaxReq
    /\ plan[c] = "direct" => ~TooShort(k)
    /\ sent' = [sent EXCEPT ![c] = @ + 1]
    /\ LET m == <<c, sent[c] + 1, k>>
       IN IF plan[c] = "direct"
          THEN /\ direct' = [direct EXCEPT ![c][ClientShardFn(m)] = Append(@, m)]
               /\ UNCHANGED inbox
          ELSE /\ inbox' = [inbox EXCEPT ![c] = Append(@, m)]
               /\ UNCHANGED direct
    /\ UNCHANGED <<setup, srv, plan, fwd, served, answered>>

\* A client that shards by itself panics on a short key.
SendPanics(c, k) ==
    /\ plan[c] = "direct" /\ sent[c] < MaxReq /\ TooShort(k)
    /\ plan' = [plan EXCEPT ![c] = "failed"]
    /\ UNCHANGED <<setup, srv, sent, inbox, direct, fwd, served, answered>>

(***************************************************************************)
(* serve_one of a shard: on the client's own connection, which exists if   *)
(* its nonce is known (other datagrams are discarded), ...                 *)
(***************************************************************************)
ShardRecv(c, s) ==
    /\ direct[c][s] # <<>>
    /\ LET m == Head(direct[c][s])
       IN IF c \in known[s]
          THEN /\ served' = [served EXCEPT ![s] = @ \cup {m}]
               /\ answered' = [answered EXCEPT ![c] = @ \cup {m[2]}]
          ELSE UNCHANGED <<served, answered>>
    /\ direct' = [direct EXCEPT ![c][s] = Tail(@)]
    /\ UNCHANGED <<setup, srv, plan, sent, inbox, fwd>>

(***************************************************************************)
(* ... and on the canonical server's: recv of                              *)
(* ShardCanonicalServerConnection with a single slot.                      *)
(***************************************************************************)
Forward(c) ==
    /\ srv[c] = "serve" /\ inbox[c] # <<>>
    /\ Raw \/ ~TooShort(Head(inbox[c])[3])
    /\ fwd' = [fwd EXCEPT ![c] = Head(inbox[c])]
    /\ inbox' = [inbox EXCEPT ![c] = Tail(@)]
    /\ Srv(c, "wait")
    /\ UNCHANGED <<setup, plan, sent, direct, served, answered>>

\* A short key: the panic unwinds the task that serves every connection.
ForwardPanics(c) ==
    /\ srv[c] = "serve" /\ inbox[c] # <<>>
    /\ ~Raw /\ TooShort(Head(inbox[c])[3])
    /\ inbox' = [inbox EXCEPT ![c] = Tail(@)]
    /\ srv' = [d \in Client |-> "closed"]
    /\ fwd' = [d \in Client |-> None]
    /\ UNCHANGED <<setup, plan, sent, direct, served, answered>>

\* The shard it hashes to executes the request, its response goes back to the client.
ReturnElsewhere(c) ==
    /\ srv[c] = "wait" /\ fwd[c] # None
    /\ LET s == ServerShardFn(fwd[c])
       IN served' = [served EXCEPT ![s] = @ \cup {fwd[c]}]
    /\ fwd' = [fwd EXCEPT ![c] = None]
    /\ Srv(c, "serve")
    /\ UNCHANGED <<setup, plan, sent, inbox, direct, answered>>
Return(c) ==
    /\ srv[c] = "wait" /\ fwd[c] # None
    /\ LET s == ServerShardFn(fwd[c])
       IN served' = [served EXCEPT ![s] = @ \cup {fwd[c]}]
    /\ answered' = [answered EXCEPT ![c] = @ \cup {fwd[c][2]}]
    /\ fwd' = [fwd EXCEPT ![c] = None]
    /\ Srv(c, "serve")
    /\ UNCHANGED <<setup, plan, sent, inbox, direct>>

\* Nothing from the client, or from the shard, for 500 ms: the connection loop exits.  The
\* shard may have executed the request already.
Timeout(c) ==
    /\ IdleExit /\ srv[c] \in {"serve", "wait"}
    /\ Srv(c, "closed")
    /\ fwd' = [fwd EXCEPT ![c] = None]
    /\ \/ UNCHANGED served
       \/ /\ fwd[c] # None
          /\ served' = [served EXCEPT ![ServerShardFn(fwd[c])] = @ \cup {fwd[c]}]
    /\ UNCHANGED <<setup, plan, sent, inbox, direct, answered>>

\* A request for a closed connection makes a new one, where it is no NegotiateMsg.
Discard(c) ==
    /\ srv[c] = "closed" /\ inbox[c] # <<>>
    /\ inbox' = [inbox EXCEPT ![c] = Tail(@)]
    /\ UNCHANGED <<setup, srv, plan, sent, direct, fwd, served, answered>>

ServerStep(c) ==
    \/ Insert(c) \/ Reply(c) \/ Connect(c) \/ Forward(c) \/ ForwardPanics(c)
    \/ Return(c) \/ Discard(c)
    \/ \E s \in Shard : Nonce(c, s) \/ ShardRecv(c, s)
ClientStep(c) == Offer(c) \/ Query(c) \/ \E k \in Key : Send(c, k) \/ SendPanics(c, k)
Fault(c) == \/ InsertFails(c) \/ QueryFails(c) \/ ConnectFails(c) \/ Timeout(c)
            \/ \E s \in Shard : NonceFails(c, s)

Next == \E c \in Client : ServerStep(c) \/ ClientStep(c) \/ Fault(c)

Spec == Init /\ [][Next]_vars

-----------------------------------------------------------------------------
Request == Client \X (1..MaxReq) \X Key

TypeOK ==
    /\ redis \in BOOLEAN
    /\ srv \in [Client -> {"none", "picked", "nonces", "connect", "serve", "wait", "closed"}]
    /\ todo \in [Client -> SUBSET Shard]
    /\ failed \subseteq Client
    /\ known \in [Shard -> SUBSET Client]
    /\ plan \in [Client -> {"none", "query", "direct", "canonical", "failed"}]
    /\ sent \in [Client -> 0..MaxReq]
    /\ \A c \in Client :
         /\ inbox[c] \in Seq(Request)
         /\ \A s \in Shard : direct[c][s] \in Seq(Request)
         /\ fwd[c] \in Request \cup {None}
         /\ answered[c] \subseteq 1..sent[c]
    /\ served \in [Shard -> SUBSET Request]

\* Requests on one key are executed by one shard, whoever sent them and whether they came
\* straight to the shard or through the canonical server: client.rs and server.rs compute
\* the same index although their lists are shifted by one.
OneShardPerKey ==
    \A s, t \in Shard : \A m \in served[s], n \in served[t] : m[3] = n[3] => s = t

\* A client that shards by itself is expected by every shard before it can send there: its
\* reply is sent after `picked` has heard from all of them (unless picked met an error, which
\* it only logs; then the client's requests are discarded).
DirectIsExpected ==
    \A c \in Client \ failed : plan[c] = "direct" => \A s \in Shard : c \in known[s]

-----------------------------------------------------------------------------
\* What MCProgress waits for: without failures and idle exits every request is answered.
Answered(c) == answered[c] = 1..MaxReq
=============================================================================
