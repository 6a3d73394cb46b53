------------------------------ MODULE Handshake ------------------------------
(***************************************************************************)
(* One-shot negotiation: negotiate_client, its zero-rtt variant and        *)
(* re_negotiate (bertha/src/negotiate/client.rs) against the connections   *)
(* of negotiate_server (negotiate/server.rs), over a datagram link that    *)
(* reorders and, if Lossy, loses.                                          *)
(*                                                                         *)
(* What the stacks contain is abstract here (module StackAlgorithms): the  *)
(* server finds a client's offers compatible or not, and each nonce that   *)
(* a client presents acceptable or not, the one that re_negotiate picked   *)
(* from the server's options included.  Arrival at the server and          *)
(* processing are one step: AddrSteer keeps one FIFO channel per client    *)
(* address.  A connection that fails at the server is dropped, and the     *)
(* next datagram from that address begins a new one.                       *)
(***************************************************************************)
EXTENDS Integers, FiniteSets

CONSTANTS Client,
          ZeroRtt,      \* clients that start from a nonce they hold
          Compatible,   \* clients whose offers match the server's stack
          StaleNonce,   \* <<client, n>>: the nonces, a client's n-th, that the server refuses
          Proxied,      \* clients whose stack a canonical server announces (ServerNonce)
          MaxSend,      \* bound: offers a client sends
          MaxData,      \* bound: application messages a client sends
          Lossy,
          Faults        \* what may fail: "send" of a connection, "wrap" (apply, connect_wrap)

VARIABLES cl,        \* a client's position
          n_offer,   \* offers sent; nonces, for a zero-rtt client
          n_data,    \* application messages sent
          success,   \* CheckZeroRttNegotiationReply's flag
          c2s, s2c,  \* datagrams in flight: <<kind, number>>
          srv,       \* the server's connection for a client's address
          pending,   \* pending_negotiated_connections
          app_rx,    \* what reached the server's application, for each client
          cl_rx,     \* what reached the client's application
          broken     \* history: clients that were accepted and then lost their connection

vars == <<cl, n_offer, n_data, success, c2s, s2c, srv, pending, app_rx, cl_rx, broken>>

Kind == {"offer", "nonce", "data"}
Answer == {"reply_ok", "reply_err", "options", "ack", "resp"}

Init ==
    /\ cl = [c \in Client |-> "start"]
    /\ n_offer = [c \in Client |-> 0]
    /\ n_data = [c \in Client |-> 0]
    /\ success = [c \in Client |-> FALSE]
    /\ c2s = [c \in Client |-> {}]
    /\ s2c = [c \in Client |-> {}]
    /\ srv = [c \in Client |-> "none"]
    /\ pending = {}
    /\ app_rx = [c \in Client |-> {}]
    /\ cl_rx = [c \in Client |-> {}]
    /\ broken = {}

clients == <<cl, n_offer, n_data, success, cl_rx>>
server == <<srv, pending, app_rx, broken>>

ToServer(c, m) == c2s' = [c2s EXCEPT ![c] = @ \cup {m}]
ToClient(c, m) == s2c' = [s2c EXCEPT ![c] = @ \cup {m}]

(***************************************************************************)
(* The client.                                                             *)
(***************************************************************************)
\* negotiate_client: send the offers; again whenever two seconds pass without a reply.
SendOffer(c) ==
    /\ c \notin ZeroRtt /\ c \notin Proxied
    /\ cl[c] \in {"start", "wait"} /\ n_offer[c] < MaxSend
    /\ cl' = [cl EXCEPT ![c] = "wait"]
    /\ n_offer' = [n_offer EXCEPT ![c] = @ + 1]
    /\ ToServer(c, <<"offer", n_offer[c] + 1>>)
    /\ UNCHANGED <<n_data, success, cl_rx, s2c, server>>

\* try_once returns the first message, whatever it is; only a ServerReply is understood.  None
\* of the stacks in it may apply, and connect_wrap may fail.
RecvReply(c) ==
    /\ cl[c] = "wait"
    /\ \E m \in s2c[c] :
         /\ s2c' = [s2c EXCEPT ![c] = @ \ {m}]
         /\ \/ m[1] = "reply_ok" /\ cl' = [cl EXCEPT ![c] = "open"]
            \/ /\ m[1] # "reply_ok" \/ "wrap" \in Faults
               /\ cl' = [cl EXCEPT ![c] = "failed"]
    /\ UNCHANGED <<n_offer, n_data, success, cl_rx, c2s, server>>

SendNonceAgain(c) ==
    /\ c \in ZeroRtt
    /\ cl[c] \in {"start", "refused", "open"} /\ n_offer[c] < MaxSend
    /\ cl' = [cl EXCEPT ![c] = "open"]
    /\ n_offer' = [n_offer EXCEPT ![c] = @ + 1]
    /\ success' = [success EXCEPT ![c] = FALSE]
    /\ ToServer(c, <<"nonce", n_offer[c] + 1>>)
    /\ UNCHANGED <<n_data, cl_rx, s2c, server>>

\* negotiate_client_nonce sends the nonce and returns a connection at once, if connect_wrap does.
SendNonce(c) ==
    /\ c \in ZeroRtt
    /\ \/ cl[c] = "start"
       \/ cl[c] = "refused" /\ n_offer[c] < MaxSend    \* re_negotiate
    /\ \/ cl' = [cl EXCEPT ![c] = "open"]
       \/ "wrap" \in Faults /\ cl' = [cl EXCEPT ![c] = "failed"]
    /\ n_offer' = [n_offer EXCEPT ![c] = @ + 1]
    /\ success' = [success EXCEPT ![c] = FALSE]
    /\ ToServer(c, <<"nonce", n_offer[c] + 1>>)
    /\ UNCHANGED <<n_data, cl_rx, s2c, server>>

\* The nonce does not apply to the stack, or none of the server's options does (re_negotiate).
NoStack(c) ==
    /\ c \in ZeroRtt /\ cl[c] \in {"start", "refused"} /\ "wrap" \in Faults
    /\ cl' = [cl EXCEPT ![c] = "failed"]
    /\ UNCHANGED <<n_offer, n_data, success, cl_rx, c2s, s2c, server>>

\* A client that the canonical server negotiated for talks to the shard without more ado.
Proxy(c) ==
    /\ c \in Proxied /\ cl[c] = "start"
    /\ cl' = [cl EXCEPT ![c] = "open"]
    /\ pending' = pending \cup {c}          \* ServerNonce, acknowledged to the proxy
    /\ UNCHANGED <<n_offer, n_data, success, cl_rx, c2s, s2c, srv, app_rx, broken>>

SendData(c) ==
    /\ cl[c] = "open" /\ n_data[c] < MaxData
    /\ n_data' = [n_data EXCEPT ![c] = @ + 1]
    /\ ToServer(c, <<"data", n_data[c] + 1>>)
    /\ UNCHANGED <<cl, n_offer, success, cl_rx, s2c, server>>

\* recv of an open connection; a zero-rtt one checks for the answer to its nonce first.
Checking(c) == c \in ZeroRtt /\ ~success[c]
RecvOpen(c) ==
    /\ cl[c] = "open"
    /\ \E m \in s2c[c] :
         /\ s2c' = [s2c EXCEPT ![c] = @ \ {m}]
         /\ \/ /\ Checking(c) /\ m[1] = "ack"
               /\ success' = [success EXCEPT ![c] = TRUE]
               /\ UNCHANGED <<cl, cl_rx>>
            \/ /\ Checking(c) /\ m[1] \in {"options", "reply_ok", "reply_err"}
               /\ cl' = [cl EXCEPT ![c] = "refused"]
               /\ UNCHANGED <<success, cl_rx>>
            \/ /\ ~Checking(c) \/ m[1] = "resp"
               /\ cl_rx' = [cl_rx EXCEPT ![c] = @ \cup {m}]
               /\ UNCHANGED <<cl, success>>
    /\ UNCHANGED <<n_offer, n_data, c2s, server>>

(***************************************************************************)
(* The server: negotiate_server_connection for the client's address, until *)
(* it returns the connection to the application.                           *)
(***************************************************************************)
Negotiating(c) == srv[c] \in {"none", "nego"}
VerdictAny(c, m) == TRUE
\* monomorphize finds a pair of stacks.
Verdict(c, m) == IF m[1] = "offer" THEN c \in Compatible ELSE <<c, m[2]>> \notin StaleNonce

\* A mutant: whether the address was announced is not asked.
PreNegotiatedAny(c, m) ==
    /\ srv' = [srv EXCEPT ![c] = "est"]
    /\ app_rx' = [app_rx EXCEPT ![c] = @ \cup {m}]
    /\ UNCHANGED <<s2c, pending, broken>>
\* The address is announced by a nonce: apply it, hand the message to the application.
PreNegotiated(c, m) ==
    /\ c \in pending
    /\ \/ /\ srv' = [srv EXCEPT ![c] = "est"]
          /\ app_rx' = [app_rx EXCEPT ![c] = @ \cup {m}]
       \/ /\ "wrap" \in Faults
          /\ srv' = [srv EXCEPT ![c] = "none"]
          /\ UNCHANGED app_rx
    /\ UNCHANGED <<s2c, pending, broken>>

\* A mutant: every nonce is acknowledged.
ReplyAck(c, m) ==
    IF m[1] = "nonce" THEN <<"ack", m[2]>>
    ELSE <<IF Verdict(c, m) THEN "reply_ok" ELSE "reply_err", m[2]>>
\* What an offer or a nonce is answered with.
Reply(c, m) ==
    <<CASE m[1] = "offer" /\ Verdict(c, m)  -> "reply_ok"
        [] m[1] = "offer" /\ ~Verdict(c, m) -> "reply_err"
        [] m[1] = "nonce" /\ Verdict(c, m)  -> "ack"
        [] m[1] = "nonce" /\ ~Verdict(c, m) -> "options", m[2]>>

AnsweredIfOk(c, m) ==
    /\ c \notin pending /\ m[1] \in {"offer", "nonce"}
    /\ srv' = [srv EXCEPT ![c] = IF Verdict(c, m) THEN "wrap" ELSE "nego"]
    /\ IF Verdict(c, m) THEN ToClient(c, Reply(c, m)) ELSE UNCHANGED s2c
    /\ UNCHANGED <<pending, app_rx, broken>>

AnsweredOpen(c, m) ==
    /\ c \notin pending /\ m[1] \in {"offer", "nonce"}
    /\ srv' = [srv EXCEPT ![c] = "wrap"]
    /\ ToClient(c, Reply(c, m))
    /\ UNCHANGED <<pending, app_rx, broken>>

\* An offer or a nonce is answered; if the stacks match the connection is wrapped next.
Answered(c, m) ==
    /\ c \notin pending /\ m[1] \in {"offer", "nonce"}
    /\ \/ /\ srv' = [srv EXCEPT ![c] = IF Verdict(c, m) THEN "wrap" ELSE "nego"]
          /\ ToClient(c, Reply(c, m))
       \/ /\ "send" \in Faults
          /\ srv' = [srv EXCEPT ![c] = "none"]
          /\ UNCHANGED s2c
    /\ UNCHANGED <<pending, app_rx, broken>>

\* Anything else is discarded.
Discarded(c, m) ==
    /\ c \notin pending /\ m[1] = "data"
    /\ srv' = [srv EXCEPT ![c] = "nego"]
    /\ UNCHANGED <<s2c, pending, app_rx, broken>>

ServerRecv(c) ==
    /\ Negotiating(c)
    /\ \E m \in c2s[c] :
         /\ c2s' = [c2s EXCEPT ![c] = @ \ {m}]
         /\ PreNegotiated(c, m) \/ Answered(c, m) \/ Discarded(c, m)
    /\ UNCHANGED clients

\* connect_wrap, after the client was told: the connection is returned to the application, or it
\* fails and goes, with any datagrams that are in its channel already.
WrapConn(c) ==
    /\ srv[c] = "wrap"
    /\ \/ /\ srv' = [srv EXCEPT ![c] = "est"]
          /\ UNCHANGED <<c2s, broken>>
       \/ /\ "wrap" \in Faults
          /\ srv' = [srv EXCEPT ![c] = "none"]
          /\ broken' = broken \cup {c}
          /\ \E gone \in SUBSET c2s[c] : c2s' = [c2s EXCEPT ![c] = @ \ gone]
    /\ UNCHANGED <<clients, s2c, pending, app_rx>>

\* The application answers data; what else reaches an open connection it only sees.
AppRecv(c) ==
    /\ srv[c] = "est"
    /\ \E m \in c2s[c] :
         /\ c2s' = [c2s EXCEPT ![c] = @ \ {m}]
         /\ app_rx' = [app_rx EXCEPT ![c] = @ \cup {m}]
         /\ IF m[1] = "data" THEN ToClient(c, <<"resp", m[2]>>) ELSE UNCHANGED s2c
    /\ UNCHANGED <<clients, srv, pending, broken>>

Lose(c) ==
    /\ Lossy
    /\ \/ \E m \in c2s[c] : /\ m[1] # "offer" \/ m[2] < MaxSend
                            /\ c2s' = [c2s EXCEPT ![c] = @ \ {m}] /\ UNCHANGED s2c
       \/ \E m \in s2c[c] : /\ m[2] < MaxSend
                            /\ s2c' = [s2c EXCEPT ![c] = @ \ {m}] /\ UNCHANGED c2s
    /\ UNCHANGED <<clients, server>>

ClientStep(c) == SendOffer(c) \/ RecvReply(c) \/ SendNonce(c) \/ NoStack(c) \/ Proxy(c)
                 \/ SendData(c) \/ RecvOpen(c)
ServerStep(c) == ServerRecv(c) \/ WrapConn(c) \/ AppRecv(c)
Next == \E c \in Client : ClientStep(c) \/ ServerStep(c) \/ Lose(c)

Spec == Init /\ [][Next]_vars

-----------------------------------------------------------------------------
TypeOK ==
    /\ cl \in [Client -> {"start", "wait", "open", "refused", "failed"}]
    /\ n_offer \in [Client -> 0..MaxSend]
    /\ n_data \in [Client -> 0..MaxData]
    /\ success \in [Client -> BOOLEAN]
    /\ srv \in [Client -> {"none", "nego", "wrap", "est"}]
    /\ pending \subseteq Proxied /\ broken \subseteq Client
    /\ \A c \in Client : /\ c2s[c] \subseteq Kind \X Nat /\ app_rx[c] \subseteq Kind \X Nat
                         /\ s2c[c] \subseteq Answer \X Nat /\ cl_rx[c] \subseteq Answer \X Nat

\* A client that believes negotiation succeeded has a peer that agreed to a stack that matches
\* and returns the connection, or is about to, although replies are delayed and offers repeated.
\* What can leave it alone is connect_wrap at the server, which fails after the reply is sent
\* (server.rs:242-246, 278-282).
Peer(c) == srv[c] \in {"wrap", "est"} \/ c \in broken
OpenOnBothSides ==
    \A c \in Client :
      /\ cl[c] = "open" /\ c \notin ZeroRtt \cup Proxied => Peer(c) /\ c \in Compatible
      /\ success[c] => Peer(c)

\* The server's application never hears from a client whose offers do not match, nor from one
\* that presented only nonces that are refused: an offer that it repeats, because the refusal
\* was lost or late, is refused again, and data that a zero-rtt client sends at once is
\* discarded (server.rs:177-187, 217-289).
NothingFromRefused ==
    \A c \in Client \ Proxied :
      app_rx[c] # {} => IF c \in ZeroRtt THEN \E n \in 1..n_offer[c] : <<c, n>> \notin StaleNonce
                        ELSE c \in Compatible

\* However often it is refused, what a zero-rtt client takes for the fate of its nonce is the
\* fate of the nonce it presented last: no answer to an earlier one is left to come.
FateOfLastNonce ==
    \A c \in ZeroRtt : /\ cl[c] = "refused" => <<c, n_offer[c]>> \in StaleNonce
                       /\ success[c] => <<c, n_offer[c]>> \notin StaleNonce

-----------------------------------------------------------------------------
\* What MCProgress waits for.  negotiate_client returns: "It will block until the remote end
\* completes the negotiation handshake" (client.rs:122).  Holds if nothing is lost, however
\* late it is, and the server's sends do not fail; a lost reply is never repeated, since the
\* retransmitted offer reaches the application.
HasReturned(c) == cl[c] \in {"open", "failed"}

\* A zero-rtt client learns the fate of its last nonce: it is accepted, is refused and out of
\* nonces, or has no stack to go on with.
Settled(c) == success[c] \/ cl[c] \in {"refused", "failed"}
=============================================================================
