-------------------------- MODULE ConnectionProofs --------------------------
(***************************************************************************)
(* Proofs about the opening of a connection and the change of the path     *)
(* under it.  Handshake, for any clients and any number of repeated        *)
(* offers, over a link that delays, reorders and loses; DatapathSwap, as   *)
(* Swap, for any number of threads and transitions; DatapathLock, as Lock, *)
(* for any connections; IoKernel, as Iok, for any callers and restarts of  *)
(* the kernel; ChanTransport, as Ch, for any clients, listeners and        *)
(* segments; DpdkThreads, as Thr, for any threads and ports.               *)
(***************************************************************************)
EXTENDS Handshake, Sequences, TLAPS

Plain == Client \ (ZeroRtt \cup Proxied)

\* The inductive invariant, for a client c.  What the client believes follows from what the
\* server sent, and that from the state of the server's connection, which goes back only when it
\* breaks.
Typed(c) ==
    /\ cl[c] \in {"start", "wait", "open", "refused", "failed"}
    /\ n_offer[c] \in Nat /\ n_data[c] \in Nat /\ success[c] \in BOOLEAN
    /\ srv[c] \in {"none", "nego", "wrap", "est"}
    /\ c2s[c] \subseteq Kind \X Nat /\ s2c[c] \subseteq Answer \X Nat
\* What a client sends depends on how it negotiates.
Says(c) ==
    /\ \A m \in c2s[c] : m[1] = "nonce" => c \in ZeroRtt
    /\ \A m \in c2s[c] : m[1] = "offer" => c \notin ZeroRtt
    /\ cl[c] = "refused" => c \in ZeroRtt
    /\ c \in pending => c \in Proxied
\* An answer in flight tells what the server did.
AnswersMean(c) ==
    \A m \in s2c[c] : /\ m[1] = "reply_ok" => Peer(c) /\ c \in Compatible
                      /\ m[1] = "ack" => Peer(c) /\ <<c, m[2]>> \notin StaleNonce
                      /\ m[1] = "options" => <<c, m[2]>> \in StaleNonce
                      /\ m[1] \in {"reply_ok", "reply_err"} => c \notin ZeroRtt
Believes(c) ==
    /\ cl[c] = "open" /\ c \in Plain => Peer(c) /\ c \in Compatible
    /\ success[c] => Peer(c)
\* The server opens a connection only for a client that it accepts.
Accepted(c) == IF c \in ZeroRtt THEN \E n \in 1..n_offer[c] : <<c, n>> \notin StaleNonce
               ELSE c \in Compatible
Opened(c) ==
    c \notin Proxied => (srv[c] \in {"wrap", "est"} \/ app_rx[c] # {} => Accepted(c))
\* The last nonce of a zero-rtt client is on its way, or the answer to it is, or neither: the next
\* one is sent only when both are gone.
Fate(a) == a[1] \in {"ack", "options"}
OneNonce(c) ==
    /\ \A m \in c2s[c] : m[1] = "nonce" =>
         m[2] = n_offer[c] /\ n_offer[c] >= 1 /\ cl[c] \notin {"start", "refused"} /\ ~success[c]
    /\ \A a \in s2c[c] : Fate(a) =>
         a[2] = n_offer[c] /\ cl[c] \notin {"start", "refused"} /\ ~success[c]
    /\ \A m \in c2s[c], a \in s2c[c] : ~(m[1] = "nonce" /\ Fate(a))
    /\ \A a, b \in s2c[c] : Fate(a) /\ Fate(b) => a = b
    /\ cl[c] = "refused" => <<c, n_offer[c]>> \in StaleNonce
    /\ success[c] => <<c, n_offer[c]>> \notin StaleNonce
CInv(c) == Typed(c) /\ Says(c) /\ AnswersMean(c) /\ Believes(c) /\ Opened(c)
           /\ (c \in ZeroRtt => OneNonce(c))
Domains ==
    /\ DOMAIN cl = Client /\ DOMAIN n_offer = Client /\ DOMAIN success = Client
    /\ DOMAIN c2s = Client /\ DOMAIN s2c = Client /\ DOMAIN srv = Client
    /\ DOMAIN app_rx = Client /\ DOMAIN n_data = Client
IInv == Domains /\ \A c \in Client : CInv(c)

\* A step of client c, or of the server for it, leaves the others alone.
Same(d) ==
    /\ cl'[d] = cl[d] /\ n_offer'[d] = n_offer[d] /\ n_data'[d] = n_data[d]
    /\ success'[d] = success[d] /\ c2s'[d] = c2s[d] /\ s2c'[d] = s2c[d]
    /\ srv'[d] = srv[d] /\ app_rx'[d] = app_rx[d]
    /\ d \in pending' => d \in pending
    /\ d \in broken' <=> d \in broken
OnlyOf(c) == Domains' /\ \A d \in Client \ {c} : Same(d)

-----------------------------------------------------------------------------

\* Nothing has been sent or believed in the initial state.
LEMMA InitIInv == Init => IInv
  BY DEF Init, IInv, Domains, CInv, Typed, Says, AnswersMean, Believes, Opened, OneNonce,
         Kind, Answer, Plain

\* The invariant of a client speaks of nothing but that client.
LEMMA SameCInv ==
    ASSUME NEW d \in Client, CInv(d), Same(d)
    PROVE  CInv(d)'
  <1>1. Typed(d)' /\ Says(d)'
    BY DEF CInv, Same, Typed, Says
  <1>2. AnswersMean(d)' /\ Believes(d)'
    BY Zenon DEF CInv, Same, AnswersMean, Believes, Peer
  <1>3. Opened(d)'
    BY Zenon DEF CInv, Same, Opened, Accepted
  <1>4. d \in ZeroRtt => OneNonce(d)'
    BY Zenon DEF CInv, Same, OneNonce
  <1> QED
    BY <1>1, <1>2, <1>3, <1>4, Zenon DEF CInv

\* Every step is a step of one client or of its connection at the server.
LEMMA StepOnlyOf ==
    ASSUME IInv, NEW c \in Client, ClientStep(c) \/ ServerStep(c) \/ Lose(c)
    PROVE  OnlyOf(c)
  <1> USE DEF IInv, Domains, OnlyOf, Same, ToServer, ToClient, server, clients
  <1>1. CASE SendOffer(c) \/ RecvReply(c) \/ SendNonce(c) \/ NoStack(c)
    BY <1>1 DEF SendOffer, RecvReply, SendNonce, NoStack
  <1>2. CASE Proxy(c) \/ SendData(c) \/ RecvOpen(c)
    BY <1>2 DEF Proxy, SendData, RecvOpen
  <1>3. CASE ServerRecv(c)
    BY <1>3 DEF ServerRecv, PreNegotiated, Answered, Discarded
  <1>4. CASE WrapConn(c) \/ AppRecv(c) \/ Lose(c)
    BY <1>4 DEF WrapConn, AppRecv, Lose
  <1> QED
    BY <1>1, <1>2, <1>3, <1>4, Zenon DEF ClientStep, ServerStep

\* What is known of client c before a step.
LEMMA Before ==
    ASSUME IInv, NEW c \in Client
    PROVE  /\ Domains /\ Typed(c) /\ Says(c) /\ AnswersMean(c) /\ Believes(c) /\ Opened(c)
           /\ (c \in ZeroRtt => OneNonce(c))
  BY Zenon DEF IInv, CInv

\* The client sends an offer or a nonce (negotiate_client, negotiate_client_nonce).
LEMMA SendCInv ==
    ASSUME IInv, NEW c \in Client, SendOffer(c) \/ SendNonce(c) \/ SendData(c) \/ Proxy(c)
    PROVE  CInv(c)'
  <1>1. CASE SendOffer(c)
    <2> DEFINE m == <<"offer", n_offer[c] + 1>>
    <2>1. /\ c \notin ZeroRtt /\ cl[c] \in {"start", "wait"} /\ cl'[c] = "wait"
          /\ n_offer'[c] = n_offer[c] + 1 /\ c2s'[c] = c2s[c] \cup {m}
          /\ UNCHANGED <<n_data, success, s2c, srv, pending, app_rx, broken>>
      BY <1>1, Before, Zenon DEF SendOffer, ToServer, server, Domains
    <2>2. m \in Kind \X Nat /\ m[1] = "offer" /\ n_offer[c] + 1 \in Nat
      BY Before DEF Typed, Kind
    <2> HIDE DEF m
    <2>3. Typed(c)'
      BY <2>1, <2>2, Before, Zenon DEF Typed
    <2>4. Says(c)'
      BY <2>1, <2>2, Before, Zenon DEF Says
    <2>5. AnswersMean(c)' /\ Believes(c)' /\ Opened(c)'
      BY <2>1, Before, Zenon DEF AnswersMean, Believes, Opened, Accepted, Peer
    <2> QED
      BY <2>1, <2>3, <2>4, <2>5, Zenon DEF CInv
  <1>2. CASE SendNonce(c)
    <2> DEFINE m == <<"nonce", n_offer[c] + 1>>
    <2>1. /\ c2s'[c] = c2s[c] \cup {m} /\ cl'[c] \in {"open", "failed"}
          /\ n_offer'[c] = n_offer[c] + 1
          /\ success'[c] = FALSE /\ c \in ZeroRtt /\ cl[c] \in {"start", "refused"}
          /\ UNCHANGED <<n_data, s2c, srv, pending, app_rx, broken>>
      BY <1>2, Before, Zenon DEF SendNonce, ToServer, server, Domains
    <2>2. /\ m \in Kind \X Nat /\ m[1] = "nonce" /\ m[2] = n_offer[c] + 1 /\ n_offer[c] \in Nat
          /\ n_offer[c] + 1 >= 1 /\ n_offer[c] + 1 \in Nat
          /\ \A n \in 1..n_offer[c] : n \in 1..(n_offer[c] + 1)
      BY Before DEF Typed, Kind
    <2> HIDE DEF m
    <2>3. Typed(c)'
      BY <2>1, <2>2, Before, Zenon DEF Typed
    <2>4. Says(c)'
      BY <2>1, <2>2, Before, Zenon DEF Says
    <2>5. AnswersMean(c)' /\ Believes(c)'
      BY <2>1, Before, Zenon DEF AnswersMean, Believes, Plain, Peer
    <2>6. Opened(c)'
      BY <2>1, <2>2, Before, Zenon DEF Opened, Accepted
    <2>7. OneNonce(c)'
      <3>1. /\ \A x \in c2s[c] : x[1] # "nonce"
            /\ \A x \in s2c[c] : ~Fate(x)
        BY <2>1, Before, Zenon DEF OneNonce
      <3> QED
        BY <2>1, <2>2, <3>1, Zenon DEF OneNonce
    <2> QED
      BY <2>3, <2>4, <2>5, <2>6, <2>7, Zenon DEF CInv
  <1>3. CASE SendData(c)
    <2> DEFINE m == <<"data", n_data[c] + 1>>
    <2>1. /\ c2s'[c] = c2s[c] \cup {m} /\ n_data'[c] = n_data[c] + 1
          /\ UNCHANGED <<cl, n_offer, success, s2c, srv, pending, app_rx, broken>>
      BY <1>3, Before, Zenon DEF SendData, ToServer, server, Domains
    <2>2. m \in Kind \X Nat /\ m[1] = "data" /\ n_data[c] + 1 \in Nat
      BY Before DEF Typed, Kind
    <2> HIDE DEF m
    <2>3. Typed(c)'
      BY <2>1, <2>2, Before, Zenon DEF Typed
    <2>4. Says(c)' /\ AnswersMean(c)' /\ Believes(c)' /\ Opened(c)'
      BY <2>1, <2>2, Before, Zenon DEF Says, AnswersMean, Believes, Opened, Accepted, Peer
    <2>5. c \in ZeroRtt => OneNonce(c)'
      BY <2>1, <2>2, Before, Zenon DEF OneNonce
    <2> QED
      BY <2>3, <2>4, <2>5, Zenon DEF CInv
  <1>4. CASE Proxy(c)
    <2>1. /\ c \in Proxied /\ cl[c] = "start" /\ cl'[c] = "open" /\ pending' = pending \cup {c}
          /\ UNCHANGED <<n_offer, n_data, success, c2s, s2c, srv, app_rx, broken>>
      BY <1>4, Before, Zenon DEF Proxy, Domains
    <2>2. Typed(c)' /\ Says(c)'
      BY <2>1, Before, Zenon DEF Typed, Says
    <2>3. AnswersMean(c)' /\ Believes(c)' /\ Opened(c)'
      BY <2>1, Before, Zenon DEF AnswersMean, Believes, Opened, Plain, Peer
    <2>4. c \in ZeroRtt => OneNonce(c)'
      BY <2>1, Before, Zenon DEF OneNonce
    <2> QED
      BY <2>2, <2>3, <2>4, Zenon DEF CInv
  <1> QED
    BY <1>1, <1>2, <1>3, <1>4, Zenon

\* Fewer messages in flight keep what is said of them, while the connection stays as it is.
LEMMA FewerCInv ==
    ASSUME IInv, NEW c \in Client, c2s'[c] \subseteq c2s[c], s2c'[c] \subseteq s2c[c],
           UNCHANGED <<n_offer, n_data, srv, pending, app_rx, broken>>, success'[c] \in BOOLEAN,
           cl'[c] \in {"start", "wait", "open", "refused", "failed"},
           cl'[c] = "refused" => c \in ZeroRtt, Believes(c)',
           c \in ZeroRtt => OneNonce(c)'
    PROVE  CInv(c)'
  <1>1. Typed(c)'
    BY Before, Zenon DEF Typed
  <1>2. Says(c)'
    BY Before, Zenon DEF Says
  <1>3. AnswersMean(c)' /\ Opened(c)'
    BY Before, Zenon DEF AnswersMean, Opened, Accepted, Peer
  <1> QED
    BY <1>1, <1>2, <1>3, Zenon DEF CInv

\* The client takes an answer (negotiate_client, CheckZeroRttNegotiationReply), gives up, or a
\* message is lost.
LEMMA TakeCInv ==
    ASSUME IInv, NEW c \in Client, RecvReply(c) \/ NoStack(c) \/ RecvOpen(c) \/ Lose(c)
    PROVE  CInv(c)'
  <1>1. CASE RecvReply(c)
    <2> PICK m \in s2c[c] :
          /\ s2c'[c] = s2c[c] \ {m}
          /\ (m[1] = "reply_ok" /\ cl'[c] = "open") \/ cl'[c] = "failed"
      BY <1>1, Before, Zenon DEF RecvReply, Domains
    <2>1. /\ cl[c] = "wait"
          /\ UNCHANGED <<n_offer, n_data, success, c2s, srv, pending, app_rx, broken>>
      BY <1>1, Zenon DEF RecvReply, server
    <2>2. cl'[c] = "open" => Peer(c) /\ c \in Compatible
      BY Before, Zenon DEF AnswersMean
    <2>3. Believes(c)' /\ success'[c] \in BOOLEAN
      BY <2>1, <2>2, Before, Zenon DEF Believes, Typed, Peer
    <2>4. c \in ZeroRtt => OneNonce(c)'
      BY <2>1, Before, Zenon DEF OneNonce
    <2> QED
      BY <2>1, <2>3, <2>4, FewerCInv, Zenon
  <1>2. CASE NoStack(c)
    <2>1. /\ cl'[c] = "failed" /\ c \in ZeroRtt /\ cl[c] \in {"start", "refused"}
          /\ UNCHANGED <<n_offer, n_data, success, c2s, s2c, srv, pending, app_rx, broken>>
      BY <1>2, Before, Zenon DEF NoStack, server, Domains
    <2>2. Believes(c)' /\ success'[c] \in BOOLEAN
      BY <2>1, Before, Zenon DEF Believes, Typed, Peer
    <2>3. OneNonce(c)'
      BY <2>1, Before, Zenon DEF OneNonce
    <2> QED
      BY <2>1, <2>2, <2>3, FewerCInv, Zenon
  <1>3. CASE RecvOpen(c)
    <2> PICK m \in s2c[c] :
          /\ s2c'[c] = s2c[c] \ {m}
          /\ \/ /\ Checking(c) /\ m[1] = "ack"
                /\ success'[c] = TRUE /\ cl' = cl
             \/ /\ Checking(c) /\ m[1] \in {"options", "reply_ok", "reply_err"}
                /\ cl'[c] = "refused" /\ success' = success
             \/ UNCHANGED <<cl, success>>
      BY <1>3, Before, Zenon DEF RecvOpen, Domains
    <2>1. cl[c] = "open" /\ UNCHANGED <<n_offer, n_data, c2s, srv, pending, app_rx, broken>>
      BY <1>3, Zenon DEF RecvOpen, server
    <2>2. success[c] \in BOOLEAN
      BY Before, Zenon DEF Typed
    <2>3. CASE /\ Checking(c) /\ m[1] \in {"options", "reply_ok", "reply_err"}
               /\ cl'[c] = "refused" /\ success' = success
      <3>1. c \in ZeroRtt /\ m[1] = "options" /\ Fate(m)
        BY <2>3, Before, Zenon DEF Checking, AnswersMean, Fate
      <3>2. /\ \A x \in s2c'[c] : ~Fate(x)
            /\ \A x \in c2s[c] : x[1] # "nonce"
            /\ m[2] = n_offer[c] /\ <<c, n_offer[c]>> \in StaleNonce
        BY <3>1, Before, Zenon DEF OneNonce, AnswersMean
      <3>3. OneNonce(c)'
        BY <2>1, <2>3, <3>1, <3>2, Before, Zenon DEF OneNonce
      <3>4. Believes(c)'
        BY <2>1, <2>3, <3>1, Before, Zenon DEF Believes, Peer
      <3> QED
        BY <2>1, <2>2, <2>3, <3>1, <3>3, <3>4, FewerCInv, Zenon
    <2>4. CASE Checking(c) /\ m[1] = "ack" /\ success'[c] = TRUE /\ cl' = cl
      <3>1. Believes(c)'
        BY <2>1, <2>4, Before, Zenon DEF Believes, AnswersMean, Peer
      <3>2. /\ c \in ZeroRtt /\ Fate(m) /\ <<c, m[2]>> \notin StaleNonce
        BY <2>4, Before, Zenon DEF Fate, Checking, AnswersMean
      <3>3. /\ \A x \in s2c'[c] : ~Fate(x)
            /\ \A x \in c2s[c] : x[1] # "nonce"
            /\ m[2] = n_offer[c] /\ <<c, n_offer[c]>> \notin StaleNonce
        BY <3>2, Before, Zenon DEF OneNonce
      <3>4. OneNonce(c)'
        BY <2>1, <2>4, <3>2, <3>3, Zenon DEF OneNonce
      <3> QED
        BY <2>1, <2>2, <2>4, <3>1, <3>4, FewerCInv, Zenon
    <2>5. CASE UNCHANGED <<cl, success>>
      <3>1. Believes(c)'
        BY <2>1, <2>5, Before, Zenon DEF Believes, Peer
      <3>2. c \in ZeroRtt => OneNonce(c)'
        BY <2>1, <2>5, Before, Zenon DEF OneNonce
      <3> QED
        BY <2>1, <2>2, <2>5, <3>1, <3>2, FewerCInv, Zenon
    <2> QED
      BY <2>3, <2>4, <2>5, Zenon
  <1>4. CASE Lose(c)
    <2>1. /\ c2s'[c] \subseteq c2s[c] /\ s2c'[c] \subseteq s2c[c]
          /\ UNCHANGED <<cl, n_offer, n_data, success, srv, pending, app_rx, broken>>
      BY <1>4, Before, Zenon DEF Lose, clients, server, Domains
    <2>2. /\ Believes(c)' /\ success'[c] \in BOOLEAN /\ (cl'[c] = "refused" => c \in ZeroRtt)
          /\ cl'[c] \in {"start", "wait", "open", "refused", "failed"}
      BY <2>1, Before, Zenon DEF Believes, Typed, Says, Peer
    <2>3. c \in ZeroRtt => OneNonce(c)'
      BY <2>1, Before, Zenon DEF OneNonce
    <2> QED
      BY <2>1, <2>2, <2>3, FewerCInv, Zenon
  <1> QED
    BY <1>1, <1>2, <1>3, <1>4, Zenon

\* connect_wrap at the server ends, or fails and takes the connection with it.
LEMMA WrapCInv ==
    ASSUME IInv, NEW c \in Client, WrapConn(c)
    PROVE  CInv(c)'
  <1>1. /\ srv[c] = "wrap" /\ c2s'[c] \subseteq c2s[c]
        /\ \/ srv'[c] = "est" /\ broken' = broken
           \/ srv'[c] = "none" /\ c \in broken'
        /\ UNCHANGED <<cl, n_offer, n_data, success, s2c, pending, app_rx>>
    BY Before, Zenon DEF WrapConn, clients, Domains
  <1>2. Peer(c)'
    BY <1>1, Zenon DEF Peer
  <1>3. Typed(c)' /\ Says(c)'
    BY <1>1, Before, Zenon DEF Typed, Says
  <1>4. AnswersMean(c)' /\ Believes(c)'
    BY <1>1, <1>2, Before, Zenon DEF AnswersMean, Believes
  <1>5. Opened(c)'
    BY <1>1, Before, Zenon DEF Opened, Accepted
  <1>6. c \in ZeroRtt => OneNonce(c)'
    BY <1>1, Before, Zenon DEF OneNonce
  <1> QED
    BY <1>3, <1>4, <1>5, <1>6, Zenon DEF CInv

\* The server's application takes a message and answers data.
LEMMA AppCInv ==
    ASSUME IInv, NEW c \in Client, AppRecv(c)
    PROVE  CInv(c)'
  <1> PICK m \in c2s[c] : /\ c2s'[c] = c2s[c] \ {m}
                          /\ \/ m[1] = "data" /\ s2c'[c] = s2c[c] \cup {<<"resp", m[2]>>}
                             \/ s2c'[c] = s2c[c]
    BY Before DEF AppRecv, ToClient, Domains
  <1>1. srv[c] = "est" /\ UNCHANGED <<cl, n_offer, n_data, success, srv, pending, broken>>
    BY Zenon DEF AppRecv, clients
  <1>2. m \in Kind \X Nat
    BY Before, Zenon DEF Typed
  <1>3. \A x \in s2c'[c] : x \in s2c[c] \/ (x[1] = "resp" /\ x \in Answer \X Nat)
    BY <1>2 DEF Answer
  <1>4. Typed(c)'
    BY <1>1, <1>3, Before, Zenon DEF Typed
  <1>5. Says(c)' /\ Believes(c)' /\ Opened(c)'
    BY <1>1, Before, Zenon DEF Says, Believes, Opened, Accepted, Peer
  <1>6. AnswersMean(c)'
    BY <1>1, <1>3, Before, Zenon DEF AnswersMean, Peer
  <1>7. c \in ZeroRtt => OneNonce(c)'
    <2>1. \A x \in s2c'[c] : Fate(x) => x \in s2c[c]
      BY <1>3, Zenon DEF Fate
    <2> QED
      BY <1>1, <2>1, Before, Zenon DEF OneNonce
  <1> QED
    BY <1>4, <1>5, <1>6, <1>7, Zenon DEF CInv

\* What the answer of the server says.
LEMMA ReplySays ==
    ASSUME IInv, NEW c \in Client, NEW m \in c2s[c], m[1] \in {"offer", "nonce"},
           NEW a, a = Reply(c, m)
    PROVE  /\ a \in Answer \X Nat /\ a[2] = m[2] /\ a[1] # "resp"
           /\ a[1] = "reply_ok" => m[1] = "offer" /\ Verdict(c, m)
           /\ a[1] = "reply_err" => m[1] = "offer"
           /\ a[1] = "ack" => m[1] = "nonce" /\ Verdict(c, m)
           /\ a[1] = "options" => m[1] = "nonce" /\ ~Verdict(c, m)
  <1> DEFINE k == CASE m[1] = "offer" /\ Verdict(c, m)  -> "reply_ok"
                    [] m[1] = "offer" /\ ~Verdict(c, m) -> "reply_err"
                    [] m[1] = "nonce" /\ Verdict(c, m)  -> "ack"
                    [] m[1] = "nonce" /\ ~Verdict(c, m) -> "options"
  <1>1. a = <<k, m[2]>>
    BY Zenon DEF Reply
  <1>2. /\ m[1] = "offer" /\ Verdict(c, m) => k = "reply_ok"
        /\ m[1] = "offer" /\ ~Verdict(c, m) => k = "reply_err"
        /\ m[1] = "nonce" /\ Verdict(c, m) => k = "ack"
        /\ m[1] = "nonce" /\ ~Verdict(c, m) => k = "options"
    BY Zenon
  <1> HIDE DEF k
  <1>3. m[2] \in Nat /\ k \in Answer
    BY <1>2, Before, Zenon DEF Typed, Answer
  <1>4. a \in Answer \X Nat /\ a[1] = k /\ a[2] = m[2]
    BY <1>1, <1>3
  <1> QED
    BY <1>2, <1>4, Zenon

\* The server answers, or hands a message on (negotiate_server_connection).
LEMMA ServerCInv ==
    ASSUME IInv, NEW c \in Client, ServerRecv(c)
    PROVE  CInv(c)'
  <1> PICK m \in c2s[c] : /\ c2s'[c] = c2s[c] \ {m}
                          /\ PreNegotiated(c, m) \/ Answered(c, m) \/ Discarded(c, m)
    BY Before, Zenon DEF ServerRecv, Domains
  <1>0. srv[c] \in {"none", "nego"} /\ UNCHANGED <<cl, n_offer, n_data, success>>
    BY Zenon DEF ServerRecv, Negotiating, clients
  <1>b. broken' = broken /\ (Peer(c) => c \in broken)
    BY <1>0, Zenon DEF Peer, PreNegotiated, Answered, Discarded
  <1>p. Peer(c) => Peer(c)'
    BY <1>b, Zenon DEF Peer
  <1>1. CASE PreNegotiated(c, m)
    <2>1. c \in Proxied /\ srv'[c] \in {"none", "est"} /\ UNCHANGED <<s2c, pending>>
      BY <1>1, Before, Zenon DEF PreNegotiated, Domains, Says
    <2>2. Typed(c)' /\ Says(c)'
      BY <1>0, <2>1, Before, Zenon DEF Typed, Says
    <2>3. Believes(c)' /\ Opened(c)' /\ AnswersMean(c)'
      BY <1>0, <1>p, <2>1, Before, Zenon DEF Believes, Opened, Plain, AnswersMean
    <2>4. c \in ZeroRtt => OneNonce(c)'
      BY <1>0, <2>1, Before, Zenon DEF OneNonce
    <2> QED
      BY <2>2, <2>3, <2>4, Zenon DEF CInv
  <1>2. CASE /\ Answered(c, m) /\ UNCHANGED s2c /\ srv'[c] = "none"
    <2>1. UNCHANGED <<pending, app_rx>>
      BY <1>2, Zenon DEF Answered
    <2>2. Typed(c)' /\ Says(c)'
      BY <1>0, <1>2, <2>1, Before, Zenon DEF Typed, Says
    <2>3. Believes(c)' /\ Opened(c)' /\ AnswersMean(c)'
      BY <1>0, <1>p, <1>2, <2>1, Before, Zenon DEF Believes, Opened, Accepted, AnswersMean
    <2>4. c \in ZeroRtt => OneNonce(c)'
      BY <1>0, <1>2, Before, Zenon DEF OneNonce
    <2> QED
      BY <2>2, <2>3, <2>4, Zenon DEF CInv
  <1>3. CASE Answered(c, m) /\ ToClient(c, Reply(c, m))
                  /\ srv'[c] = IF Verdict(c, m) THEN "wrap" ELSE "nego"
    <2> DEFINE a == Reply(c, m)
    <2>0. m[1] \in {"offer", "nonce"} /\ UNCHANGED <<pending, app_rx>>
      BY <1>3, Zenon DEF Answered
    <2>r. /\ a \in Answer \X Nat /\ a[2] = m[2] /\ a[1] # "resp"
          /\ a[1] = "reply_ok" => m[1] = "offer" /\ Verdict(c, m)
          /\ a[1] = "reply_err" => m[1] = "offer"
          /\ a[1] = "ack" => m[1] = "nonce" /\ Verdict(c, m)
          /\ a[1] = "options" => m[1] = "nonce" /\ ~Verdict(c, m)
      BY <2>0, ReplySays, Zenon
    <2>1. s2c'[c] = s2c[c] \cup {a}
      BY <1>3, Before, Zenon DEF ToClient, Domains
    <2> HIDE DEF a
    <2>2. /\ m[1] = "offer" => c \notin ZeroRtt /\ (Verdict(c, m) => c \in Compatible)
          /\ m[1] = "nonce" => c \in ZeroRtt /\ (Verdict(c, m) <=> <<c, m[2]>> \notin StaleNonce)
      BY Before, Zenon DEF Verdict, Says
    <2>3. Verdict(c, m) => Peer(c)'
      BY <1>3, Zenon DEF Peer
    <2>4. Typed(c)'
      BY <1>0, <1>3, <2>1, <2>r, Before, Zenon DEF Typed
    <2>5. Says(c)'
      BY <1>0, <2>0, Before, Zenon DEF Says
    <2>6. Believes(c)'
      BY <1>0, <1>p, Before, Zenon DEF Believes
    <2>7. Opened(c)'
      <3>1. m[1] = "nonce" => m[2] \in 1..n_offer[c]
        <4>1. m[1] = "nonce" => m[2] = n_offer[c] /\ n_offer[c] >= 1 /\ n_offer[c] \in Nat
          BY <2>2, Before, Zenon DEF OneNonce, Typed
        <4> QED
          BY <4>1
      <3>2. Verdict(c, m) => Accepted(c)'
        BY <1>0, <2>0, <2>2, <3>1, Zenon DEF Accepted
      <3> QED
        BY <1>0, <1>3, <2>0, <3>2, Before, Zenon DEF Opened, Accepted
    <2>8. AnswersMean(c)'
      <3>1. \A x \in s2c'[c] : x \in s2c[c] \/ x = a
        BY <2>1, Zenon
      <3>2. \A x \in s2c[c] :
              /\ x[1] = "reply_ok" => Peer(c)' /\ c \in Compatible
              /\ x[1] = "ack" => Peer(c)' /\ <<c, x[2]>> \notin StaleNonce
              /\ x[1] = "options" => <<c, x[2]>> \in StaleNonce
              /\ x[1] \in {"reply_ok", "reply_err"} => c \notin ZeroRtt
        BY <1>p, Before, Zenon DEF AnswersMean
      <3> QED
        BY <2>r, <2>2, <2>3, <3>1, <3>2, Zenon DEF AnswersMean
    <2>9. c \in ZeroRtt => OneNonce(c)'
      <3> HAVE c \in ZeroRtt
      <3>1. m[1] = "nonce" /\ OneNonce(c)
        BY <2>0, <2>2, Before, Zenon
      <3>2. /\ m[2] = n_offer[c] /\ cl[c] \notin {"start", "refused"} /\ ~success[c]
            /\ \A x \in s2c[c] : ~Fate(x)
        BY <3>1, Zenon DEF OneNonce
      <3>3. \A x \in c2s'[c] : x[1] # "nonce"
        <4>1. \A x \in c2s[c] : x \in Kind \X Nat
          BY Before, Zenon DEF Typed
        <4>2. \A x \in c2s[c] : x[1] = "nonce" => x = m
          <5> TAKE x \in c2s[c]
          <5>1. x \in Kind \X Nat /\ m \in Kind \X Nat
            BY <4>1
          <5>2. x[1] = "nonce" => x[1] = m[1] /\ x[2] = m[2]
            BY <3>1, <3>2, Zenon DEF OneNonce
          <5> QED
            BY <5>1, <5>2
        <4> QED
          BY <4>2, Zenon
      <3>4. /\ \A x \in s2c'[c] : Fate(x) => x = a
            /\ a[2] = n_offer[c]
        BY <2>1, <2>r, <3>2, Zenon
      <3> QED
        BY <1>0, <3>1, <3>2, <3>3, <3>4, Zenon DEF OneNonce
    <2> QED
      BY <2>4, <2>5, <2>6, <2>7, <2>8, <2>9, Zenon DEF CInv
  <1>4. CASE Discarded(c, m)
    <2>1. srv'[c] = "nego" /\ UNCHANGED <<s2c, pending, app_rx>>
      BY <1>4, Before, Zenon DEF Discarded, Domains
    <2>2. Typed(c)' /\ Says(c)'
      BY <1>0, <2>1, Before, Zenon DEF Typed, Says
    <2>3. Believes(c)' /\ Opened(c)' /\ AnswersMean(c)'
      BY <1>0, <1>p, <2>1, Before, Zenon DEF Believes, Opened, Accepted, AnswersMean
    <2>4. c \in ZeroRtt => OneNonce(c)'
      BY <1>0, <2>1, Before, Zenon DEF OneNonce
    <2> QED
      BY <2>2, <2>3, <2>4 DEF CInv
  <1>5. Answered(c, m) => \/ UNCHANGED s2c /\ srv'[c] = "none"
                          \/ /\ ToClient(c, Reply(c, m))
                             /\ srv'[c] = IF Verdict(c, m) THEN "wrap" ELSE "nego"
    BY Before, Zenon DEF Answered, Domains
  <1> QED
    BY <1>1, <1>2, <1>3, <1>4, <1>5, Zenon

\* Every step preserves the invariant.
LEMMA NextIInv == IInv /\ [Next]_vars => IInv'
  <1> SUFFICES ASSUME IInv, [Next]_vars PROVE IInv'
    BY Zenon
  <1>1. CASE UNCHANGED vars
    <2>1. Domains' /\ \A d \in Client : Same(d)
      BY <1>1, Zenon DEF vars, Same, IInv, Domains
    <2> QED
      BY <2>1, SameCInv, Zenon DEF IInv
  <1>2. CASE Next
    <2> PICK c \in Client : ClientStep(c) \/ ServerStep(c) \/ Lose(c)
      BY <1>2, Zenon DEF Next
    <2>1. OnlyOf(c)
      BY StepOnlyOf, Zenon
    <2>2. CInv(c)'
      BY SendCInv, TakeCInv, AppCInv, WrapCInv, ServerCInv, Zenon DEF ClientStep, ServerStep
    <2>3. \A d \in Client \ {c} : CInv(d)'
      BY <2>1, SameCInv, Zenon DEF OnlyOf, IInv
    <2> QED
      BY <2>1, <2>2, <2>3, Zenon DEF OnlyOf, IInv
  <1> QED
    BY <1>1, <1>2, Zenon

-----------------------------------------------------------------------------

\* negotiate_client returns a connection only if the server agreed to a stack that matches and
\* wraps its side of it, has done so, or failed to after it had replied; a zero-rtt client takes
\* its nonce for accepted only if the same is true of it (client.rs, server.rs:242-246, 278-282).
THEOREM OpenMeansOpen == Spec => []OpenOnBothSides
  <1>1. IInv => OpenOnBothSides
    BY Zenon DEF IInv, CInv, Believes, OpenOnBothSides, Plain
  <1> QED
    BY <1>1, InitIInv, NextIInv, PTL DEF Spec

\* However often it repeats its offers, a client without a matching stack never reaches the
\* server's application, and a zero-rtt client does not before it has presented a nonce that is
\* accepted (server.rs:177-187, 217-289).
THEOREM RefusedStayOut == Spec => []NothingFromRefused
  <1>1. IInv => NothingFromRefused
    BY Zenon DEF IInv, CInv, Opened, Accepted, NothingFromRefused
  <1> QED
    BY <1>1, InitIInv, NextIInv, PTL DEF Spec

\* However often a zero-rtt client is refused and presents another nonce, what it is told is the
\* fate of the last one (client.rs:77-118, 402-463).
THEOREM FatesAreOfTheLast ==
    ASSUME ZeroRtt \subseteq Client
    PROVE  Spec => []FateOfLastNonce
  <1>1. IInv => FateOfLastNonce
    BY Zenon DEF IInv, CInv, OneNonce, FateOfLastNonce
  <1> QED
    BY <1>1, InitIInv, NextIInv, PTL DEF Spec

-----------------------------------------------------------------------------
(* The swap of the datapath under open connections: the barrier and the channels keep
   every thread off a datapath that is torn down, if each thread has one connection.  (With two,
   the update of one that was not polled since the last transition lets its thread through: TLC
   shows it in the run swap_twice.) *)

CONSTANTS Thread, Trig, Obj, Owner, Streams, MaxSwap, MayFail
VARIABLES flag, waiting, pc, obj, gen, up, dp, chan, todo, parked
Swap == INSTANCE DatapathSwap

OneEach ==
    /\ Trig \in Thread /\ Streams = {} /\ Owner \in [Obj -> Thread]
    /\ \A o, p \in Obj : Owner[o] = Owner[p] => o = p

Others == Thread \ {Trig}

\* The inductive invariant.  UseIsLive needs to know where the threads are in each phase of the
\* transition: nobody passes the barrier before everybody has come (Waiting), and between the
\* barrier and the first update everybody is blocked on an empty channel (Blocked), because
\* only who is waiting for an update has one (Pending).
Steps == {"run", "using", "resend", "barrier", "recv", "sync", "down", "start", "conns",
          "streams", "failed"}
USE DEF Steps
Types ==
    /\ flag \in BOOLEAN /\ up \in BOOLEAN
    /\ waiting \subseteq Thread
    /\ pc \in [Thread -> Steps]
    /\ obj \in [Thread -> Obj] /\ \A t \in Thread : Owner[obj[t]] = t
    /\ gen \in Nat \ {0} /\ dp \in [Obj -> Nat] /\ chan \in [Obj -> Nat]
    /\ todo \subseteq Obj
Phases ==
    /\ flag <=> pc[Trig] \in {"sync", "down", "start", "conns", "failed"}
    /\ pc[Trig] \notin {"start", "failed"} => up
    /\ pc[Trig] \notin {"barrier", "recv"}
    /\ pc[Trig] # "conns" => todo = {}
    /\ \A t \in Others : pc[t] \in {"run", "using", "resend", "barrier", "recv"}
Waiting == \A t \in waiting : pc[t] \in {"barrier", "sync"}
Blocked == pc[Trig] \in {"down", "start", "failed"} => \A t \in Others : pc[t] = "recv"
Pending ==
    \A t \in Others :
      /\ chan[obj[t]] # 0 => pc[t] = "recv" /\ chan[obj[t]] = gen
                             /\ pc[Trig] \notin {"down", "start", "failed"}
      /\ obj[t] \in todo => pc[t] = "recv" /\ chan[obj[t]] = 0
Live == \A t \in Others : pc[t] # "recv" => dp[obj[t]] = gen
Own ==
    /\ pc[Trig] \in {"run", "using", "resend", "streams"} =>
         \/ chan[obj[Trig]] = 0 /\ dp[obj[Trig]] = gen
         \/ chan[obj[Trig]] = gen /\ (pc[Trig] = "using" => dp[obj[Trig]] = gen)
    /\ pc[Trig] = "conns" /\ obj[Trig] \notin todo => chan[obj[Trig]] = gen
SwapInv == Types /\ Phases /\ Waiting /\ Blocked /\ Pending /\ Live /\ Own

-----------------------------------------------------------------------------

\* Before the first transition everybody is on the first datapath.
LEMMA InitSwap ==
    ASSUME OneEach, Swap!Init
    PROVE  SwapInv
  <1>1. Types
    <2>1. obj \in [Thread -> Obj] /\ \A t \in Thread : Owner[obj[t]] = t
      BY Zenon DEF Swap!Init
    <2>2. dp \in [Obj -> Nat] /\ chan \in [Obj -> Nat] /\ gen \in Nat \ {0}
      BY DEF Swap!Init
    <2> QED
      BY <2>1, <2>2, Zenon DEF Swap!Init, Types
  <1> QED
    BY <1>1, Zenon DEF OneEach, Swap!Init, SwapInv, Types, Phases, Waiting, Blocked, Pending, Live, Own,
           Others

\* Between two operations: one ends, or a send that waits is left or polled again.
Idles(t) ==
    \/ Swap!Done(t) \/ Swap!Park(t) \/ Swap!SendDone(t)
    \/ \E o \in Obj : Swap!Resume(t, o)

\* maybe_swap_datapath with the flag down, and the steps that do not look at the flag.
LEMMA SwapPoll ==
    ASSUME OneEach, SwapInv, NEW t \in Thread, (\E o \in Obj : Swap!Poll(t, o)) \/ Idles(t)
    PROVE  SwapInv'
  <1>1. CASE Idles(t)
    <2>0. PICK v \in {"run", "resend"} :
            /\ pc[t] \in {"run", "using", "resend"} /\ pc' = [pc EXCEPT ![t] = v]
            /\ UNCHANGED <<flag, waiting, obj, gen, up, dp, chan, todo>>
      <3>1. CASE Swap!Done(t) \/ Swap!Park(t) \/ Swap!SendDone(t)
        BY <3>1, Zenon DEF Swap!Done, Swap!Park, Swap!SendDone, Swap!Goto
      <3>2. ASSUME NEW o \in Obj, Swap!Resume(t, o) PROVE obj' = obj
        BY <3>2 DEF Swap!Resume, OneEach, SwapInv, Types
      <3> QED
        BY <1>1, <3>1, <3>2, Zenon DEF Idles, Swap!Resume, Swap!Goto
    <2>1. Types'
      BY <2>0, Zenon DEF SwapInv, Types
    <2>2. Phases' /\ Waiting' /\ Blocked'
      BY <2>0 DEF OneEach, SwapInv, Types, Phases, Waiting, Blocked, Others
    <2>3. Pending'
      BY <2>0 DEF OneEach, SwapInv, Types, Phases, Blocked, Pending, Others
    <2>4. Live'
      BY <2>0 DEF OneEach, SwapInv, Types, Phases, Blocked, Pending, Live, Others
    <2>5. Own'
      BY <2>0 DEF OneEach, SwapInv, Types, Phases, Own, Others
    <2> QED
      BY <2>1, <2>2, <2>3, <2>4, <2>5, Zenon DEF SwapInv
  <1>2. ASSUME NEW o \in Obj, Swap!Poll(t, o) PROVE SwapInv'
    <2>1. o = obj[t] /\ pc[t] = "run" /\ ~flag /\ UNCHANGED <<flag, waiting, obj, gen, up, todo>>
      BY <1>2 DEF Swap!Poll, OneEach, SwapInv, Types
    <2>2. /\ dp' = [dp EXCEPT ![o] = IF chan[o] # 0 THEN chan[o] ELSE @]
          /\ chan' = [chan EXCEPT ![o] = 0]
          /\ pc' = [pc EXCEPT ![t] = "using"]
      BY <1>2, Zenon DEF Swap!Poll, Swap!Goto
    <2>3. Types'
      BY <2>1, <2>2, Zenon DEF SwapInv, Types
    <2>4. \A u, v \in Thread : obj[u] = obj[v] => u = v
      BY Zenon DEF SwapInv, Types
    <2>5. Phases' /\ Waiting' /\ Blocked'
      BY <2>1, <2>2 DEF OneEach, SwapInv, Types, Phases, Waiting, Blocked, Others
    <2>6. Pending'
      BY <2>1, <2>2, <2>4 DEF OneEach, SwapInv, Types, Phases, Pending, Others
    <2>7. Live'
      BY <2>1, <2>2, <2>4 DEF OneEach, SwapInv, Types, Pending, Live, Others
    <2>8. Own'
      BY <2>1, <2>2, <2>4 DEF OneEach, SwapInv, Types, Phases, Own, Others
    <2> QED
      BY <2>3, <2>5, <2>6, <2>7, <2>8, Zenon DEF SwapInv
  <1> QED
    BY <1>1, <1>2, Zenon

\* With the flag up: to the barrier, and from the channel behind it.
LEMMA SwapBarrier ==
    ASSUME OneEach, SwapInv, NEW t \in Thread,
           (\E o \in Obj : Swap!PollSwap(t, o)) \/ Swap!EnterBarrier(t) \/ Swap!Recv(t)
    PROVE  SwapInv'
  <1>0. \A u, v \in Thread : obj[u] = obj[v] => u = v
    BY Zenon DEF SwapInv, Types
  <1>1. ASSUME NEW o \in Obj, Swap!PollSwap(t, o) PROVE SwapInv'
    <2>1. obj' = obj /\ t # Trig
      BY <1>1 DEF Swap!PollSwap, OneEach, SwapInv, Types, Phases
    <2>2. Types'
      BY <1>1, <2>1, Zenon DEF Swap!PollSwap, Swap!Goto, SwapInv, Types
    <2>3. Phases' /\ Waiting' /\ Blocked'
      BY <1>1, <2>1
      DEF OneEach, Swap!PollSwap, Swap!Goto, SwapInv, Types, Phases, Waiting, Blocked, Others
    <2>4. Pending'
      BY <1>1, <2>1
      DEF OneEach, Swap!PollSwap, Swap!Goto, SwapInv, Types, Phases, Blocked, Pending, Others
    <2>5. Live'
      BY <1>1, <2>1
      DEF OneEach, Swap!PollSwap, Swap!Goto, SwapInv, Types, Phases, Blocked, Pending, Live, Others
    <2>6. Own'
      BY <1>1, <2>1
      DEF OneEach, Swap!PollSwap, Swap!Goto, SwapInv, Types, Phases, Own, Others
    <2> QED
      BY <2>2, <2>3, <2>4, <2>5, <2>6, Zenon DEF SwapInv
  <1>2. CASE Swap!EnterBarrier(t) /\ Swap!BarrierOpens(t)
    <2>1. /\ \A u \in Thread : pc[u] \in {"barrier", "sync"}
          /\ waiting' = {} /\ UNCHANGED <<flag, obj, gen, up, dp, chan, todo>>
          /\ pc' = [u \in Thread |-> Swap!After(u)]
      BY <1>2 DEF Swap!EnterBarrier, Swap!Arrive, Swap!BarrierOpens, SwapInv, Types, Waiting
    <2>2. pc[Trig] = "sync" /\ \A u \in Others : pc[u] = "barrier"
      BY <2>1, Zenon DEF OneEach, SwapInv, Phases, Others
    <2>3. pc'[Trig] = "down" /\ \A u \in Others : pc'[u] = "recv"
      BY <2>1, <2>2, Zenon DEF OneEach, Swap!After, Others
    <2>4. Types'
      BY <2>1, Zenon DEF Swap!After, SwapInv, Types
    <2>5. \A u \in Others : chan[obj[u]] = 0 /\ obj[u] \notin todo
      BY <2>2, Zenon DEF SwapInv, Pending
    <2> QED
      BY <2>1, <2>2, <2>3, <2>4, <2>5, Zenon
      DEF OneEach, SwapInv, Phases, Waiting, Blocked, Pending, Live, Own, Others
  <1>3. CASE Swap!EnterBarrier(t) /\ ~Swap!BarrierOpens(t)
    <2>1. waiting' = waiting \cup {t} /\ UNCHANGED <<flag, pc, obj, gen, up, dp, chan, todo>>
          /\ pc[t] \in {"barrier", "sync"}
      BY <1>3, Zenon DEF Swap!EnterBarrier, Swap!Arrive
    <2> QED
      BY <2>1 DEF SwapInv, Types, Phases, Waiting, Blocked, Pending, Live, Own
  <1>4. CASE Swap!Recv(t)
    <2>1. /\ t \in Others /\ pc[t] = "recv" /\ chan[obj[t]] = gen /\ gen # 0
          /\ pc[Trig] \notin {"down", "start", "failed"} /\ obj[t] \notin todo
      BY <1>4, Zenon DEF Swap!Recv, SwapInv, Types, Phases, Pending, Others
    <2>2. /\ dp' = [dp EXCEPT ![obj[t]] = gen] /\ chan' = [chan EXCEPT ![obj[t]] = 0]
          /\ pc' = [pc EXCEPT ![t] = "using"] /\ UNCHANGED <<flag, waiting, obj, gen, up, todo>>
      BY <1>4, <2>1, Zenon DEF Swap!Recv, Swap!Goto
    <2>3. Types'
      BY <2>1, <2>2, Zenon DEF SwapInv, Types
    <2>4. Phases' /\ Waiting' /\ Blocked'
      BY <2>1, <2>2 DEF OneEach, SwapInv, Types, Phases, Waiting, Blocked, Others
    <2>5. Pending' /\ Live'
      BY <1>0, <2>1, <2>2 DEF OneEach, SwapInv, Types, Pending, Live, Others
    <2>6. Own'
      BY <1>0, <2>1, <2>2 DEF OneEach, SwapInv, Types, Own, Others
    <2> QED
      BY <2>3, <2>4, <2>5, <2>6, Zenon DEF SwapInv
  <1> QED
    BY <1>1, <1>2, <1>3, <1>4, Zenon DEF Swap!EnterBarrier

\* trigger_transition, up to and including the new datapath.
LEMMA SwapSwitch ==
    ASSUME OneEach, SwapInv, Swap!Trigger \/ Swap!ShutDown \/ Swap!Start
    PROVE  SwapInv'
  <1>1. CASE Swap!Trigger
    <2>1. Types'
      BY <1>1, Zenon DEF Swap!Trigger, Swap!Goto, SwapInv, Types
    <2>2. Phases' /\ Waiting' /\ Blocked'
      BY <1>1
      DEF OneEach, Swap!Trigger, Swap!Goto, SwapInv, Types, Phases, Waiting, Blocked, Others
    <2>3. Pending'
      BY <1>1
      DEF OneEach, Swap!Trigger, Swap!Goto, SwapInv, Types, Phases, Blocked, Pending, Others
    <2>4. Live'
      BY <1>1
      DEF OneEach, Swap!Trigger, Swap!Goto, SwapInv, Types, Phases, Blocked, Pending, Live, Others
    <2>5. Own'
      BY <1>1
      DEF OneEach, Swap!Trigger, Swap!Goto, SwapInv, Types, Phases, Own, Others
    <2> QED
      BY <2>1, <2>2, <2>3, <2>4, <2>5, Zenon DEF SwapInv
  <1>2. CASE Swap!ShutDown \/ (Swap!Start /\ pc'[Trig] = "failed")
    <2>0. PICK v \in {"start", "failed"} :
            /\ pc[Trig] \in {"down", "start"} /\ pc' = [pc EXCEPT ![Trig] = v]
            /\ up' \in BOOLEAN /\ UNCHANGED <<flag, waiting, obj, gen, dp, chan, todo>>
      <3>1. pc \in [Thread -> Steps] /\ up \in BOOLEAN /\ Trig \in Thread
        BY Zenon DEF OneEach, SwapInv, Types
      <3>2. CASE Swap!ShutDown
        BY <3>1, <3>2, Zenon DEF Swap!ShutDown, Swap!Goto
      <3>3. CASE Swap!Start /\ pc'[Trig] = "failed"
        BY <3>1, <3>3, Zenon DEF Swap!Start, Swap!Goto
      <3> QED
        BY <1>2, <3>2, <3>3, Zenon
    <2>1. Types'
      BY <2>0, Zenon DEF SwapInv, Types
    <2>2. Phases' /\ Waiting' /\ Blocked'
      BY <2>0 DEF OneEach, SwapInv, Types, Phases, Waiting, Blocked, Others
    <2>3. Pending'
      BY <2>0 DEF OneEach, SwapInv, Types, Phases, Blocked, Pending, Others
    <2>4. Live'
      BY <2>0 DEF OneEach, SwapInv, Types, Phases, Blocked, Pending, Live, Others
    <2>5. Own'
      BY <2>0 DEF OneEach, SwapInv, Types, Phases, Own, Others
    <2> QED
      BY <2>1, <2>2, <2>3, <2>4, <2>5 DEF SwapInv
  <1>3. CASE Swap!Start /\ pc'[Trig] # "failed"
    <2>1. /\ pc[Trig] = "start" /\ pc' = [pc EXCEPT ![Trig] = "conns"]
          /\ gen' = gen + 1 /\ up' = TRUE /\ todo' = Obj
          /\ UNCHANGED <<flag, waiting, obj, dp, chan>>
      BY <1>3, Zenon DEF Swap!Start, Swap!Goto, Swap!Conns, OneEach, SwapInv, Types
    <2>2. \A t \in Others : pc[t] = "recv" /\ chan[obj[t]] = 0 /\ pc'[t] = "recv"
      BY <2>1 DEF OneEach, SwapInv, Types, Blocked, Pending, Others
    <2>3. Types'
      <3>1. gen' \in Nat \ {0}
        BY <2>1 DEF SwapInv, Types
      <3>2. pc' \in [Thread -> Steps]
        BY <2>1, Zenon DEF SwapInv, Types
      <3> QED
        BY <2>1, <3>1, <3>2, Zenon DEF SwapInv, Types
    <2>4. pc'[Trig] = "conns"
      BY <2>1 DEF OneEach, SwapInv, Types
    <2>5. Phases' /\ Waiting' /\ Blocked'
      BY <2>1, <2>2, <2>4, Zenon DEF OneEach, SwapInv, Types, Phases, Waiting, Blocked, Others
    <2>6. Pending' /\ Live' /\ Own'
      BY <2>1, <2>2, <2>3, <2>4, Zenon DEF OneEach, Types, Pending, Live, Own, Others
    <2> QED
      BY <2>3, <2>5, <2>6, Zenon DEF SwapInv
  <1> QED
    BY <1>1, <1>2, <1>3, Zenon

\* The updates are sent, and the transition returns.
LEMMA SwapUpdate ==
    ASSUME OneEach, SwapInv, (\E o \in Obj : Swap!Update(o)) \/ Swap!Complete \/ Swap!Return
    PROVE  SwapInv'
  <1>1. ASSUME NEW o \in Obj, Swap!Update(o) PROVE SwapInv'
    <2>1. /\ pc[Trig] = "conns" /\ o \in todo /\ chan[o] = 0
          /\ chan' = [chan EXCEPT ![o] = gen] /\ todo' = todo \ {o}
          /\ UNCHANGED <<flag, waiting, pc, obj, gen, up, dp>>
      BY <1>1, Zenon DEF Swap!Update, SwapInv, Phases
    <2>2. Types'
      BY <2>1, Zenon DEF SwapInv, Types
    <2>3. Phases' /\ Waiting' /\ Blocked'
      BY <2>1, Zenon
      DEF OneEach, SwapInv, Types, Phases, Waiting, Blocked, Others
    <2>4. Pending'
      BY <2>1
      DEF OneEach, SwapInv, Types, Phases, Blocked, Pending, Others
    <2>5. Live'
      BY <2>1, Zenon
      DEF OneEach, SwapInv, Types, Phases, Blocked, Pending, Live, Others
    <2>6. Own'
      BY <2>1, Zenon
      DEF OneEach, SwapInv, Types, Phases, Own, Others
    <2> QED
      BY <2>2, <2>3, <2>4, <2>5, <2>6, Zenon DEF SwapInv
  <1>2. CASE Swap!Complete
    <2>1. Types'
      BY <1>2, Zenon DEF Swap!Complete, Swap!Goto, OneEach, SwapInv, Types
    <2>2. Phases' /\ Waiting' /\ Blocked'
      BY <1>2
      DEF OneEach, Swap!Complete, Swap!Goto, SwapInv, Types, Phases, Waiting, Blocked, Others
    <2>3. Pending'
      BY <1>2
      DEF OneEach, Swap!Complete, Swap!Goto, SwapInv, Types, Phases, Blocked, Pending, Others
    <2>4. Live'
      BY <1>2
      DEF OneEach, Swap!Complete, Swap!Goto, SwapInv, Types, Phases, Blocked, Pending, Live, Others
    <2>5. Own'
      BY <1>2
      DEF OneEach, Swap!Complete, Swap!Goto, SwapInv, Types, Phases, Own, Others
    <2> QED
      BY <2>1, <2>2, <2>3, <2>4, <2>5, Zenon DEF SwapInv
  <1>3. CASE Swap!Return
    <2>1. Types'
      BY <1>3, Zenon DEF Swap!Return, Swap!Goto, SwapInv, Types
    <2>2. Phases' /\ Waiting' /\ Blocked'
      BY <1>3
      DEF OneEach, Swap!Return, Swap!Goto, SwapInv, Types, Phases, Waiting, Blocked, Others
    <2>3. Pending'
      BY <1>3
      DEF OneEach, Swap!Return, Swap!Goto, SwapInv, Types, Phases, Blocked, Pending, Others
    <2>4. Live'
      BY <1>3
      DEF OneEach, Swap!Return, Swap!Goto, SwapInv, Types, Phases, Blocked, Pending, Live, Others
    <2>5. Own'
      BY <1>3
      DEF OneEach, Swap!Return, Swap!Goto, SwapInv, Types, Phases, Own, Others
    <2> QED
      BY <2>1, <2>2, <2>3, <2>4, <2>5 DEF SwapInv
  <1> QED
    BY <1>1, <1>2, <1>3, Zenon

\* Every step preserves the invariant.
LEMMA NextSwap ==
    ASSUME OneEach, SwapInv, [Swap!Next]_Swap!vars
    PROVE  SwapInv'
  <1>1. CASE UNCHANGED Swap!vars
    BY <1>1 DEF Swap!vars, SwapInv, Types, Phases, Waiting, Blocked, Pending, Live, Own
  <1>2. CASE Swap!Transition
    BY <1>2, SwapSwitch, SwapUpdate, Zenon DEF Swap!Transition
  <1>3. ASSUME NEW t \in Thread, Swap!Polling(t) PROVE SwapInv'
    BY <1>3, SwapPoll, SwapBarrier, Zenon DEF Swap!Polling, Idles
  <1> QED
    BY <1>1, <1>2, <1>3, Zenon DEF Swap!Next

-----------------------------------------------------------------------------

\* With one connection for each thread, no thread is ever in an operation on a datapath that
\* is being torn down or was replaced, through any number of transitions, also when one of them
\* fails: the "safety postcondition" of wait_trigger_synchronize (mod.rs:183-206), kept up to
\* the end.  A send that had to wait is not polled while there is no datapath.
THEOREM NobodyUsesTheDead ==
    ASSUME OneEach
    PROVE  Swap!Spec => []Swap!UseIsLive
  <1>1. SwapInv => Swap!UseIsLive
    <2> SUFFICES ASSUME SwapInv, NEW t \in Thread, pc[t] \in {"using", "resend"}
                 PROVE  up /\ (pc[t] = "using" => dp[obj[t]] = gen)
      BY Zenon DEF Swap!UseIsLive
    <2>1. CASE t = Trig
      BY <2>1, Zenon DEF SwapInv, Phases, Own
    <2>2. CASE t # Trig
      BY <2>2, Zenon DEF SwapInv, Types, Phases, Blocked, Live, Others
    <2> QED
      BY <2>1, <2>2, Zenon
  <1> QED
    BY <1>1, InitSwap, NextSwap, PTL DEF Swap!Spec

-----------------------------------------------------------------------------
(* No update is lost, however many connections and streams a thread has *)

Registered == Trig \in Thread /\ Streams \subseteq Obj /\ Owner \in [Obj -> Thread]

\* The inductive invariant of the updates.  An object whose update is neither sent nor owed is
\* on the newest datapath with an empty channel (Sent): an older update cannot be taken after a
\* newer one, because send waits until it was taken.  Only the thread that triggers is ever at
\* a step of the transition (Places).
Owed == todo \cup (IF pc[Trig] = "conns" THEN Streams ELSE {})
Places ==
    /\ flag <=> pc[Trig] \in {"sync", "down", "start", "conns", "failed"}
    /\ pc[Trig] \notin {"barrier", "recv"}
    /\ pc[Trig] \notin {"conns", "streams"} => todo = {}
    /\ \A t \in Others : pc[t] \in {"run", "using", "resend", "barrier", "recv"}
Sent == \A o \in Obj \ Owed : chan[o] = gen \/ (chan[o] = 0 /\ dp[o] = gen)
KeptInv == Types /\ Waiting /\ Places /\ Sent

\* What is in the channel of o, if anything is, is taken.
Takes(o) ==
    /\ chan' = [chan EXCEPT ![o] = 0]
    /\ dp' = [dp EXCEPT ![o] = IF chan[o] # 0 THEN chan[o] ELSE @]

\* Everybody starts on the first datapath, with nothing to take.
LEMMA InitKept ==
    ASSUME Registered, Swap!Init
    PROVE  KeptInv
  <1>1. Types
    <2>1. obj \in [Thread -> Obj] /\ \A t \in Thread : Owner[obj[t]] = t
      BY DEF Swap!Init
    <2>2. dp \in [Obj -> Nat] /\ chan \in [Obj -> Nat] /\ gen \in Nat \ {0}
      BY DEF Swap!Init
    <2>3. waiting \subseteq Thread /\ todo \subseteq Obj /\ pc \in [Thread -> {"run"}]
      BY Zenon DEF Swap!Init
    <2>4. flag \in BOOLEAN /\ up \in BOOLEAN
      BY Zenon DEF Swap!Init
    <2> QED
      BY <2>1, <2>2, <2>3, <2>4, Zenon DEF Types
  <1> QED
    BY <1>1, Zenon DEF Registered, Swap!Init, KeptInv, Waiting, Places, Sent, Others

\* An update that is taken is the newest, or the object's own is still owed.
LEMMA TakeKept ==
    ASSUME KeptInv, NEW o \in Obj, gen' = gen, Owed' = Owed, Takes(o)
    PROVE  Sent' /\ chan' \in [Obj -> Nat] /\ dp' \in [Obj -> Nat]
  <1>1. chan' \in [Obj -> Nat] /\ dp' \in [Obj -> Nat]
    BY Zenon DEF KeptInv, Types, Takes
  <1>2. ASSUME NEW p \in Obj \ Owed PROVE chan'[p] = gen \/ (chan'[p] = 0 /\ dp'[p] = gen)
    BY DEF KeptInv, Types, Sent, Takes
  <1> QED
    BY <1>1, <1>2, Zenon DEF Sent

\* The steps of a thread that polls.
LEMMA PollKept ==
    ASSUME Registered, KeptInv, NEW t \in Thread, Swap!Polling(t)
    PROVE  KeptInv'
  <1> USE DEF KeptInv
  <1>1. ASSUME NEW o \in Obj, Swap!Poll(t, o) PROVE KeptInv'
    <2>1. /\ pc[t] = "run" /\ Owner[o] = t /\ UNCHANGED <<flag, waiting, gen, up, todo>>
          /\ obj' = [obj EXCEPT ![t] = o] /\ pc' = [pc EXCEPT ![t] = "using"]
      BY <1>1, Zenon DEF Swap!Poll, Swap!Goto
    <2>2. Owed' = Owed
      BY <2>1, Zenon DEF Owed, Types, Registered
    <2>3. Sent' /\ chan' \in [Obj -> Nat] /\ dp' \in [Obj -> Nat]
      <3>1. Takes(o) /\ gen' = gen
        BY <1>1, Zenon DEF Swap!Poll, Takes
      <3> QED
        BY <2>2, <3>1, TakeKept, Zenon
    <2>4. Types'
      BY <2>1, <2>3, Zenon DEF Types
    <2>5. Waiting' /\ Places'
      BY <2>1 DEF Registered, Types, Waiting, Places, Others
    <2> QED
      BY <2>3, <2>4, <2>5, Zenon
  <1>2. ASSUME NEW o \in Obj, Swap!PollSwap(t, o) PROVE KeptInv'
    <2>1. /\ pc[t] = "run" /\ Owner[o] = t /\ flag
          /\ UNCHANGED <<flag, waiting, gen, up, dp, chan, todo>>
          /\ obj' = [obj EXCEPT ![t] = o] /\ pc' = [pc EXCEPT ![t] = "barrier"]
      BY <1>2, Zenon DEF Swap!PollSwap, Swap!Goto
    <2>2. t # Trig
      BY <2>1, Zenon DEF Places
    <2>3. Types'
      BY <2>1, Zenon DEF Types
    <2>4. Waiting' /\ Places' /\ Owed' = Owed
      BY <2>1, <2>2 DEF Registered, Types, Waiting, Places, Others, Owed
    <2> QED
      BY <2>1, <2>3, <2>4, Zenon DEF Sent
  <1>3. CASE Swap!EnterBarrier(t) /\ Swap!BarrierOpens(t)
    <2>1. /\ \A u \in Thread : pc[u] \in {"barrier", "sync"}
          /\ waiting' = {} /\ UNCHANGED <<flag, obj, gen, up, dp, chan, todo>>
          /\ pc' = [u \in Thread |-> Swap!After(u)]
      BY <1>3 DEF Swap!EnterBarrier, Swap!Arrive, Swap!BarrierOpens, Types, Waiting
    <2>2. pc[Trig] = "sync" /\ \A u \in Others : pc[u] = "barrier"
      BY <2>1, Zenon DEF Registered, Places, Others
    <2>3. pc'[Trig] = "down" /\ \A u \in Others : pc'[u] = "recv"
      BY <2>1, <2>2, Zenon DEF Registered, Swap!After, Others
    <2>4. Types'
      BY <2>1, Zenon DEF Swap!After, Types
    <2>5. Waiting' /\ Places' /\ Owed' = Owed
      BY <2>1, <2>2, <2>3, Zenon DEF Waiting, Places, Owed
    <2> QED
      BY <2>1, <2>4, <2>5, Zenon DEF Sent
  <1>4. CASE Swap!EnterBarrier(t) /\ ~Swap!BarrierOpens(t)
    <2>1. waiting' = waiting \cup {t} /\ UNCHANGED <<flag, pc, obj, gen, up, dp, chan, todo>>
          /\ pc[t] \in {"barrier", "sync"}
      BY <1>4, Zenon DEF Swap!EnterBarrier, Swap!Arrive
    <2> QED
      BY <2>1 DEF Types, Waiting, Places, Sent, Owed
  <1>5. CASE Swap!Recv(t)
    <2>1. /\ pc[t] = "recv" /\ chan[obj[t]] # 0 /\ UNCHANGED <<flag, waiting, obj, gen, up, todo>>
          /\ pc' = [pc EXCEPT ![t] = "using"] /\ obj[t] \in Obj
      BY <1>5, Zenon DEF Swap!Recv, Swap!Goto, Types
    <2>2. t # Trig
      BY <2>1, Zenon DEF Places
    <2>3. Owed' = Owed
      BY <2>1, <2>2, Zenon DEF Owed, Types, Registered
    <2>4. Sent' /\ chan' \in [Obj -> Nat] /\ dp' \in [Obj -> Nat]
      <3>1. Takes(obj[t]) /\ gen' = gen
        BY <1>5, <2>1, Zenon DEF Swap!Recv, Takes
      <3> QED
        BY <2>1, <2>3, <3>1, TakeKept, Zenon
    <2>5. Types'
      BY <2>1, <2>4, Zenon DEF Types
    <2>6. Waiting' /\ Places'
      BY <2>1, <2>2 DEF Registered, Types, Waiting, Places, Others
    <2> QED
      BY <2>4, <2>5, <2>6, Zenon
  <1>6. CASE Idles(t)
    <2>1. PICK v \in {"run", "resend"} :
            /\ pc[t] \in {"run", "using", "resend"} /\ pc' = [pc EXCEPT ![t] = v]
            /\ UNCHANGED <<flag, waiting, gen, up, dp, chan, todo>>
      <3>1. CASE Swap!Done(t) \/ Swap!Park(t) \/ Swap!SendDone(t)
        BY <3>1, Zenon DEF Swap!Done, Swap!Park, Swap!SendDone, Swap!Goto
      <3> QED
        BY <1>6, <3>1, Zenon DEF Idles, Swap!Resume, Swap!Goto
    <2>2. obj' = obj \/ \E o \in Obj : Owner[o] = t /\ obj' = [obj EXCEPT ![t] = o]
      BY <1>6, Zenon DEF Idles, Swap!Done, Swap!Park, Swap!SendDone, Swap!Resume
    <2>3. Types'
      BY <2>1, <2>2, Zenon DEF Types
    <2>4. Waiting' /\ Places' /\ Owed' = Owed
      BY <2>1 DEF Registered, Types, Waiting, Places, Others, Owed
    <2> QED
      BY <2>1, <2>3, <2>4, Zenon DEF Sent
  <1> QED
    BY <1>1, <1>2, <1>3, <1>4, <1>5, <1>6, Zenon DEF Swap!Polling, Idles

\* The steps of trigger_transition.
LEMMA TransitionKept ==
    ASSUME Registered, KeptInv, Swap!Transition
    PROVE  KeptInv'
  <1> USE DEF KeptInv
  <1>1. CASE Swap!Trigger \/ Swap!ShutDown \/ (Swap!Start /\ pc'[Trig] = "failed")
    <2>1. /\ UNCHANGED <<waiting, obj, gen, dp, chan, todo>> /\ up' \in BOOLEAN
          /\ \/ pc[Trig] = "run" /\ flag' = TRUE /\ pc' = [pc EXCEPT ![Trig] = "sync"]
             \/ /\ pc[Trig] \in {"down", "start"} /\ flag' = flag
                /\ \E v \in {"start", "failed"} : pc' = [pc EXCEPT ![Trig] = v]
      <3>1. pc \in [Thread -> Steps] /\ up \in BOOLEAN /\ Trig \in Thread
        BY Zenon DEF Registered, Types
      <3>2. CASE Swap!Trigger
        BY <3>1, <3>2, Zenon DEF Swap!Trigger, Swap!Goto
      <3>3. CASE Swap!ShutDown
        BY <3>1, <3>3, Zenon DEF Swap!ShutDown, Swap!Goto
      <3>4. CASE Swap!Start /\ pc'[Trig] = "failed"
        BY <3>1, <3>4, Zenon DEF Swap!Start, Swap!Goto
      <3> QED
        BY <1>1, <3>2, <3>3, <3>4, Zenon
    <2>2. Types'
      <3>1. flag' \in BOOLEAN /\ up' \in BOOLEAN
        BY <2>1, Zenon DEF Types
      <3>2. pc' \in [Thread -> Steps]
        BY <2>1 DEF Types
      <3> QED
        BY <2>1, <3>1, <3>2, Zenon DEF Types
    <2>3. Waiting' /\ Places' /\ Owed' = Owed
      BY <2>1 DEF Registered, Types, Waiting, Places, Others, Owed
    <2> QED
      BY <2>1, <2>2, <2>3, Zenon DEF Sent
  <1>2. CASE Swap!Start /\ pc'[Trig] # "failed"
    <2>0. up' = TRUE
      BY <1>2, Zenon DEF Swap!Start, Swap!Goto, Registered, Types
    <2>1. /\ pc[Trig] = "start" /\ gen' = gen + 1 /\ todo' = Obj \ Streams
          /\ pc' = [pc EXCEPT ![Trig] = "conns"] /\ UNCHANGED <<flag, waiting, obj, dp, chan>>
      BY <1>2, Zenon DEF Swap!Start, Swap!Goto, Swap!Conns, Registered, Types
    <2>2. Types'
      <3>1. flag' \in BOOLEAN /\ up' \in BOOLEAN
        BY <2>0, <2>1, Zenon DEF Types
      <3>2. gen' \in Nat \ {0} /\ todo' \subseteq Obj
        BY <2>1 DEF Types
      <3>3. pc' \in [Thread -> Steps]
        BY <2>1, Zenon DEF Types, Registered
      <3> QED
        BY <2>1, <3>1, <3>2, <3>3, Zenon DEF Types
    <2>3. Waiting' /\ Places' /\ Obj \subseteq Owed'
      BY <2>1 DEF Registered, Types, Waiting, Places, Others, Owed
    <2> QED
      BY <2>2, <2>3, Zenon DEF Sent
  <1>3. ASSUME NEW o \in Obj, Swap!Update(o) PROVE KeptInv'
    <2>1. /\ pc[Trig] \in {"conns", "streams"} /\ o \in todo /\ chan[o] = 0
          /\ chan' = [chan EXCEPT ![o] = gen] /\ todo' = todo \ {o}
          /\ UNCHANGED <<flag, waiting, pc, obj, gen, up, dp>>
      BY <1>3, Zenon DEF Swap!Update
    <2>2. Types'
      BY <2>1, Zenon DEF Types
    <2>3. Waiting' /\ Places'
      BY <2>1, Zenon DEF Waiting, Places
    <2>4. ASSUME NEW p \in Obj \ Owed'
          PROVE  chan'[p] = gen' \/ (chan'[p] = 0 /\ dp'[p] = gen')
      <3>1. CASE p = o
        BY <2>1, <3>1, Zenon DEF Types
      <3>2. CASE p # o
        BY <2>1, <2>4, <3>2 DEF Types, Sent, Owed
      <3> QED
        BY <3>1, <3>2, Zenon
    <2> QED
      BY <2>2, <2>3, <2>4, Zenon DEF Sent
  <1>4. CASE Swap!Complete \/ Swap!Return
    <2>1. /\ UNCHANGED <<waiting, obj, gen, up, dp, chan>> /\ todo = {}
          /\ \/ /\ pc[Trig] = "conns" /\ flag' = FALSE /\ todo' = Streams
                /\ pc' = [pc EXCEPT ![Trig] = "streams"]
             \/ /\ pc[Trig] = "streams" /\ flag' = flag /\ todo' = {}
                /\ pc' = [pc EXCEPT ![Trig] = "run"]
      BY <1>4, Zenon DEF Swap!Complete, Swap!Return, Swap!Goto
    <2>2. Types'
      <3>1. flag' \in BOOLEAN /\ up' \in BOOLEAN
        BY <2>1, Zenon DEF Types
      <3> QED
        BY <2>1, <3>1 DEF Types, Registered
    <2>3. Waiting' /\ Places' /\ Owed' = Owed
      BY <2>1 DEF Registered, Types, Waiting, Places, Others, Owed
    <2> QED
      BY <2>1, <2>2, <2>3, Zenon DEF Sent
  <1> QED
    BY <1>1, <1>2, <1>3, <1>4, Zenon DEF Swap!Transition

\* Whatever connections and streams the threads have, an object is on the newest datapath, or
\* its update is in its channel or will be sent: trigger_transition neither overwrites nor skips
\* an update that was not taken (switcher_lockfree/mod.rs).
THEOREM UpdatesAreKept ==
    ASSUME Registered
    PROVE  Swap!Spec => []Swap!NoUpdateLost
  <1>1. KeptInv /\ [Swap!Next]_Swap!vars => KeptInv'
    <2>1. KeptInv /\ UNCHANGED Swap!vars => KeptInv'
      <3> SUFFICES ASSUME KeptInv, UNCHANGED Swap!vars PROVE KeptInv'
        BY Zenon
      <3>1. Types'
        BY Zenon DEF Swap!vars, KeptInv, Types
      <3>2. Waiting' /\ Places' /\ Sent'
        BY Zenon DEF Swap!vars, KeptInv, Waiting, Places, Sent, Owed
      <3> QED
        BY <3>1, <3>2, Zenon DEF KeptInv
    <2> QED
      BY <2>1, PollKept, TransitionKept, Zenon DEF Swap!Next
  <1>2. KeptInv => Swap!NoUpdateLost
    BY Zenon DEF KeptInv, Sent, Owed, Swap!NoUpdateLost
  <1> QED
    BY <1>1, <1>2, InitKept, PTL DEF Swap!Spec

-----------------------------------------------------------------------------
(* DatapathLock, as Lock, for any connections and transitions *)

CONSTANTS Conn, MultiThread
VARIABLES rd, snd, wr, preempt, sent, trig
Lock == INSTANCE DatapathLock

\* The inductive invariant.  The lock is held by readers or by the writer; and on one thread
\* the join's two halves are polled together, so that a preemption message is not taken before
\* the lock is asked for (Together), which is what makes the reader's next call wait.
LockTypes ==
    /\ rd \in [Conn -> {"idle", "want", "hold"}] /\ snd \in [Conn -> {"idle", "want", "hold"}]
    /\ wr \in [Conn -> {"no", "queued", "held"}]
    /\ preempt \subseteq Conn /\ sent \subseteq Conn
Excludes == \A c \in Conn : wr[c] = "held" => rd[c] # "hold" /\ snd[c] # "hold"
Together ==
    ~MultiThread => \A c \in Conn : /\ c \in sent => wr[c] # "no"
                                    /\ rd[c] = "hold" /\ wr[c] = "queued" => c \in preempt
LockInv == LockTypes /\ Excludes /\ Together

\* Every step of a connection and of the transition keeps the invariant.
LEMMA LockStep ==
    ASSUME LockInv, [Lock!Next]_(Lock!vars)
    PROVE  LockInv'
  <1> USE DEF LockInv, LockTypes, Excludes, Together
  <1>1. ASSUME NEW c \in Conn, Lock!Call(c) \/ Lock!Granted(c)
        PROVE  LockInv'
    BY <1>1, Zenon DEF Lock!Call, Lock!Granted, Lock!Acquired
  <1>2. ASSUME NEW c \in Conn, Lock!Receive(c)
        PROVE  LockInv'
    BY <1>2, Zenon DEF Lock!Receive
  <1>3. ASSUME NEW c \in Conn, Lock!Preempt(c)
        PROVE  LockInv'
    BY <1>3, Zenon DEF Lock!Preempt, Lock!Acquired
  <1>4. ASSUME NEW c \in Conn, Lock!JoinPolled(c)
        PROVE  LockInv'
    <2>1. CASE MultiThread
      BY <1>4, <2>1 DEF Lock!JoinPolled, Lock!SendPreempt, Lock!Request
    <2>2. CASE ~MultiThread
      <3>1. /\ preempt' = IF c \in sent THEN preempt ELSE preempt \cup {c}
            /\ sent' = IF c \in preempt THEN sent ELSE sent \cup {c}
            /\ wr' = [wr EXCEPT ![c] = IF wr[c] = "no" THEN "queued" ELSE wr[c]]
            /\ rd' = rd /\ snd' = snd
        BY <1>4, <2>2, Zenon DEF Lock!JoinPolled, Lock!SendPreempt, Lock!Request
      <3>2. c \notin sent \/ wr[c] # "no"
        BY <2>2, Zenon
      <3>3. LockTypes'
        BY <3>1, Zenon
      <3>4. Excludes'
        BY <3>1, Zenon
      <3>5. Together'
        BY <3>1, <3>2, <2>2, Zenon
      <3> QED
        BY <3>3, <3>4, <3>5, Zenon
    <2> QED
      BY <2>1, <2>2, Zenon
  <1>5. ASSUME NEW c \in Conn, Lock!Grant(c)
        PROVE  LockInv'
    BY <1>5, Zenon DEF Lock!Grant
  <1>6. CASE Lock!Trigger \/ UNCHANGED Lock!vars
    BY <1>6, Zenon DEF Lock!Trigger, Lock!vars
  <1>7. CASE Lock!Replace
    BY <1>7, Zenon DEF Lock!Replace
  <1>8. ASSUME NEW c \in Conn, Lock!Sender(c)
        PROVE  LockInv'
    BY <1>8, Zenon DEF Lock!Sender, Lock!SendCall, Lock!SendGranted, Lock!SendDone, Lock!Acquired
  <1> QED
    BY <1>1, <1>2, <1>3, <1>4, <1>5, <1>6, <1>7, <1>8, Zenon DEF Lock!Next, Lock!Reader

\* The invariant holds of every reachable state.
LEMMA LockAlways == Lock!Spec => []LockInv
  <1>1. Lock!Init => LockInv
    BY Zenon DEF Lock!Init, LockInv, LockTypes, Excludes, Together
  <1> QED
    BY <1>1, LockStep, PTL DEF Lock!Spec

\* A connection is not replaced under the recv or the send that is inside of it, on one thread or
\* several (switcher_lock.rs: the write guards are all held when the connections are made anew).
THEOREM HeldAreNotReplaced == Lock!Spec => [][Lock!NotReplacedWhileHeld]_(Lock!vars)
  <1>1. LockInv /\ [Lock!Next]_(Lock!vars) => [Lock!NotReplacedWhileHeld]_(Lock!vars)
    <2> SUFFICES ASSUME LockInv, Lock!Next, NEW c \in Conn, dp'[c] # dp[c]
                 PROVE  rd[c] # "hold" /\ snd[c] # "hold"
      BY Zenon DEF Lock!NotReplacedWhileHeld
    <2>1. Lock!Replace
      BY Zenon DEF Lock!Next, Lock!Reader, Lock!Trigger, Lock!Call, Lock!Granted, Lock!Receive,
             Lock!Preempt, Lock!JoinPolled, Lock!Grant, Lock!Sender, Lock!SendCall,
             Lock!SendGranted, Lock!SendDone
    <2> QED
      BY <2>1, Zenon DEF Lock!Replace, LockInv, Excludes
  <1> QED
    BY <1>1, LockAlways, PTL DEF Lock!Spec

\* On one thread, whoever makes a transition wait was asked to let go: the preemption message is
\* in the channel of every connection whose reader holds the lock that the transition is queued
\* for.  (On several threads the message can be taken between the send and the request.)
THEOREM HoldersArePreempted == Lock!Spec => []Lock!HolderIsPreempted
  <1>1. LockInv => Lock!HolderIsPreempted
    BY Zenon DEF LockInv, Together, Lock!HolderIsPreempted
  <1> QED
    BY <1>1, LockAlways, PTL

-----------------------------------------------------------------------------
(* IoKernel, as Iok, for any callers and any number of restarts *)

CONSTANTS Caller, MaxStart
VARIABLES lock, handle, kernel, stopping, mine, n_start
Iok == INSTANCE IoKernel

\* A kernel's thread was spawned and has not yet cleared the handle.
Spawned == {k \in Iok!Kernel : kernel[k] \in {"starting", "running", "exiting"}}

\* The inductive invariant.  At most one kernel is live because who spawns one holds the lock
\* until its handle is stored (Spawner), and the handle is cleared by the thread itself, last
\* of all (Handle).
Spawner == \A c \in Caller : pc[c] = "wait" <=> lock = c
Handle == Spawned = IF lock # 0 THEN {mine[lock]} ELSE IF handle # 0 THEN {handle} ELSE {}
NoHandle == lock # 0 => handle = 0
Numbered == \A k \in Iok!Kernel : kernel[k] = "none" <=> k > n_start
Known == \A c \in Caller : mine[c] <= n_start
IokInv == Iok!TypeOK /\ Spawner /\ Handle /\ NoHandle /\ Numbered /\ Known

\* Before the first iokernel_start there is no kernel.
LEMMA IokInit ==
    ASSUME 0 \notin Caller, MaxStart \in Nat, Iok!Init
    PROVE  IokInv
  BY DEF Iok!Init, IokInv, Iok!TypeOK, Spawner, Handle, NoHandle, Numbered, Known, Spawned,
         Iok!Kernel

\* iokernel_start keeps the invariant: it shares the kernel of the handle, or spawns one.
LEMMA IokStartLock ==
    ASSUME 0 \notin Caller, MaxStart \in Nat, IokInv, NEW c \in Caller, Iok!StartLock(c)
    PROVE  IokInv'
  <1>1. CASE Iok!Shared
    <2>1. /\ lock = 0 /\ handle # 0 /\ mine' = [mine EXCEPT ![c] = handle]
          /\ UNCHANGED <<lock, handle, kernel, stopping, pc, n_start>>
      BY <1>1, Zenon DEF Iok!StartLock, Iok!Shared
    <2>2. handle \in Iok!Kernel /\ kernel[handle] # "none"
      BY <2>1, Zenon DEF IokInv, Iok!TypeOK, Handle, Spawned
    <2>3. handle <= n_start
      BY <2>2 DEF IokInv, Iok!TypeOK, Numbered, Iok!Kernel
    <2>4. Iok!TypeOK' /\ Known'
      BY <2>1, <2>2, <2>3, Zenon DEF IokInv, Iok!TypeOK, Known
    <2>5. Spawner' /\ NoHandle' /\ Numbered' /\ Handle'
      BY <2>1, Zenon DEF IokInv, Spawner, NoHandle, Numbered, Handle, Spawned
    <2> QED
      BY <2>4, <2>5, Zenon DEF IokInv
  <1>2. CASE ~Iok!Shared
    <2> DEFINE k == n_start + 1
    <2>1. /\ pc[c] = "idle" /\ lock = 0 /\ handle = 0 /\ handle' = 0
          /\ n_start < MaxStart /\ n_start' = k /\ k \in Iok!Kernel
          /\ kernel' = [kernel EXCEPT ![k] = "starting"]
          /\ lock' = c /\ mine' = [mine EXCEPT ![c] = k] /\ pc' = [pc EXCEPT ![c] = "wait"]
          /\ stopping' = stopping
      BY <1>2 DEF Iok!StartLock, Iok!Shared, Iok!Goto, IokInv, Iok!TypeOK, Iok!Kernel
    <2>2. Iok!TypeOK'
      BY <2>1 DEF IokInv, Iok!TypeOK, Iok!Kernel
    <2>3. Spawned = {} /\ Spawned' = {k}
      BY <2>1 DEF IokInv, Iok!TypeOK, Handle, Spawned
    <2>4. Spawner' /\ Handle' /\ NoHandle'
      BY <2>1, <2>3 DEF IokInv, Iok!TypeOK, Spawner, Handle, NoHandle
    <2>5. Numbered' /\ Known'
      BY <2>1 DEF IokInv, Iok!TypeOK, Numbered, Known, Iok!Kernel
    <2> QED
      BY <2>2, <2>4, <2>5, Zenon DEF IokInv
  <1> QED
    BY <1>1, <1>2, Zenon

\* The handle is stored, and the guard dropped, once the thread has sent it.
LEMMA IokStarted ==
    ASSUME 0 \notin Caller, MaxStart \in Nat, IokInv, NEW c \in Caller, Iok!Started(c)
    PROVE  IokInv'
  <1>1. /\ lock = c /\ lock' = 0 /\ handle = 0 /\ handle' = mine[c]
        /\ pc' = [pc EXCEPT ![c] = "idle"] /\ mine[c] \in Iok!Kernel
        /\ UNCHANGED <<kernel, stopping, mine, n_start>>
    BY Zenon DEF Iok!Started, Iok!Goto, IokInv, Iok!TypeOK, Spawner, NoHandle, Handle, Spawned, Iok!Kernel
  <1>2. Spawned' = {handle'} /\ handle' # 0
    BY <1>1 DEF IokInv, Handle, Spawned, Iok!Kernel
  <1> QED
    BY <1>1, <1>2, Zenon DEF IokInv, Iok!TypeOK, Spawner, Handle, NoHandle, Numbered, Known

\* The thread's own steps: it runs, leaves its loop, and last clears the handle.
LEMMA IokThread ==
    ASSUME 0 \notin Caller, MaxStart \in Nat, IokInv, NEW k \in Iok!Kernel,
           Iok!Runs(k) \/ Iok!Exits(k) \/ Iok!Clears(k)
    PROVE  IokInv'
  <1>1. CASE Iok!Runs(k) \/ Iok!Exits(k)
    <2>1. Spawned' = Spawned
      BY <1>1, Zenon DEF Iok!Runs, Iok!Exits, Spawned, IokInv, Iok!TypeOK
    <2> QED
      BY <1>1, <2>1 DEF Iok!Runs, Iok!Exits, IokInv, Iok!TypeOK, Spawner, Handle, NoHandle,
                        Numbered, Known
  <1>2. CASE Iok!Clears(k)
    <2>1. Spawned = {k} /\ Spawned' = {}
      BY <1>2 DEF Iok!Clears, Spawned, IokInv, Iok!TypeOK, Handle
    <2> QED
      BY <1>2, <2>1, Zenon DEF Iok!Clears, IokInv, Iok!TypeOK, Spawner, Handle, NoHandle, Numbered, Known
  <1> QED
    BY <1>1, <1>2, Zenon

\* do_shutdown changes neither the handle nor the kernels.
LEMMA IokShutdown ==
    ASSUME 0 \notin Caller, MaxStart \in Nat, IokInv, NEW c \in Caller,
           Iok!ShutDown(c) \/ Iok!Seen(c)
    PROVE  IokInv'
  <1>1. Spawned' = Spawned
    BY Zenon DEF Iok!ShutDown, Iok!Seen, Spawned
  <1>2. CASE Iok!ShutDown(c)
    <2>1. Iok!TypeOK'
      BY <1>2 DEF Iok!ShutDown, Iok!Goto, IokInv, Iok!TypeOK
    <2> QED
      <3>1. /\ pc[c] # "wait" /\ pc' = [pc EXCEPT ![c] = "spin"]
            /\ UNCHANGED <<lock, handle, kernel, mine, n_start>>
        BY <1>2, Zenon DEF Iok!ShutDown, Iok!Goto
      <3>2. Spawner' /\ NoHandle' /\ Numbered'
        BY <3>1, Zenon DEF IokInv, Iok!TypeOK, Spawner, NoHandle, Numbered
      <3>3. Handle' /\ Known'
        BY <1>1, <3>1, Zenon DEF IokInv, Handle, Known
      <3> QED
        BY <2>1, <3>2, <3>3 DEF IokInv
  <1>3. CASE Iok!Seen(c)
    <2>1. Iok!TypeOK'
      BY <1>3, Zenon DEF Iok!Seen, Iok!Goto, IokInv, Iok!TypeOK
    <2> QED
      <3>1. /\ pc[c] = "spin" /\ mine' = [mine EXCEPT ![c] = 0] /\ pc' = [pc EXCEPT ![c] = "idle"]
            /\ lock = 0 /\ UNCHANGED <<lock, handle, kernel, n_start>>
        BY <1>3, Zenon DEF Iok!Seen, Iok!Goto
      <3>2. Spawner' /\ NoHandle' /\ Numbered'
        BY <3>1, Zenon DEF IokInv, Iok!TypeOK, Spawner, NoHandle, Numbered
      <3>3. Handle' /\ Known'
        BY <1>1, <3>1 DEF IokInv, Iok!TypeOK, Handle, Known
      <3> QED
        BY <2>1, <3>2, <3>3 DEF IokInv
  <1> QED
    BY <1>2, <1>3, Zenon

\* Every step preserves the invariant.
LEMMA IokNext ==
    ASSUME 0 \notin Caller, MaxStart \in Nat, IokInv, [Iok!Next]_(Iok!vars)
    PROVE  IokInv'
  <1>1. CASE UNCHANGED Iok!vars
    BY <1>1, Zenon DEF Iok!vars, IokInv, Iok!TypeOK, Spawner, Handle, NoHandle, Numbered, Known, Spawned
  <1>2. CASE Iok!Next
    BY <1>2, IokStartLock, IokStarted, IokThread, IokShutdown, Zenon DEF Iok!Next
  <1> QED
    BY <1>1, <1>2, Zenon

\* The card is driven by one kernel at a time: iokernel_start, iokernel_restart and the exit
\* of the thread keep two from running, whatever the callers and their interleaving
\* (dpdk_iokernel.rs, RUNTIME_HANDLE).
THEOREM AlwaysOneKernel ==
    ASSUME 0 \notin Caller, MaxStart \in Nat
    PROVE  Iok!Spec => []Iok!OneKernel
  <1>1. IokInv => Iok!OneKernel
    <2> SUFFICES ASSUME IokInv, NEW k \in Iok!Kernel, NEW l \in Iok!Kernel,
                        kernel[k] \in {"starting", "running"}, kernel[l] \in {"starting", "running"}
                 PROVE  k = l
      BY Zenon DEF Iok!OneKernel
    <2>1. k \in Spawned /\ l \in Spawned
      BY Zenon DEF Spawned
    <2> QED
      BY <2>1, Zenon DEF IokInv, Handle
  <1> QED
    BY <1>1, IokInit, IokNext, PTL DEF Iok!Spec

\* do_shutdown returns only when the kernel that its caller used is gone, even if another
\* thread is starting a kernel meanwhile (dpdk_iokernel.rs, the loop on RUNTIME_HANDLE).
THEOREM ShutDownWaits ==
    ASSUME 0 \notin Caller, MaxStart \in Nat
    PROVE  Iok!Spec => [][Iok!ShutDownMeansGone]_(Iok!vars)
  <1>1. IokInv /\ [Iok!Next]_(Iok!vars) => [Iok!ShutDownMeansGone]_(Iok!vars)
    <2> SUFFICES ASSUME IokInv, Iok!Next, NEW c \in Caller, mine[c] # 0, mine'[c] = 0
                 PROVE  kernel[mine[c]] = "gone"
      BY Zenon DEF Iok!ShutDownMeansGone
    <2>1. Iok!Seen(c)
      <3>1. mine' # mine /\ mine \in [Caller -> Nat] /\ n_start \in Nat
        BY DEF IokInv, Iok!TypeOK, Iok!Kernel
      <3>2. PICK d \in Caller : Iok!StartLock(d) \/ Iok!Seen(d)
        BY <3>1, Zenon DEF Iok!Next, Iok!Started, Iok!Runs, Iok!Exits, Iok!Clears, Iok!ShutDown
      <3>3. ~Iok!StartLock(d)
        BY <3>1, Zenon DEF Iok!StartLock, Iok!Shared
      <3> QED
        BY <3>1, <3>2, <3>3, Zenon DEF Iok!Seen
    <2>2. Spawned = {}
      BY <2>1, Zenon DEF Iok!Seen, IokInv, Handle
    <2>3. mine[c] \in Iok!Kernel /\ kernel[mine[c]] # "none"
      BY DEF IokInv, Iok!TypeOK, Numbered, Known, Iok!Kernel
    <2> QED
      BY <2>2, <2>3 DEF Spawned, IokInv, Iok!TypeOK
  <1> QED
    BY <1>1, IokInit, IokNext, PTL DEF Iok!Spec

-----------------------------------------------------------------------------
(* ChanTransport, as Ch, for any clients, listeners, segments and sizes *)

CONSTANTS MaxListen, MaxMsg, Size, Slots
VARIABLES current, listeners, offered, at, accepted, n_sent, held, got
Ch == INSTANCE ChanTransport

\* The elements of a sequence.
Items(s) == {s[i] : i \in DOMAIN s}

\* What two sequences of numbers are, put together.
LEMMA Joined ==
    ASSUME NEW r \in Seq(Nat), NEW t \in Seq(Nat)
    PROVE  /\ r \o t \in Seq(Nat)
           /\ Len(r \o t) = Len(r) + Len(t)
           /\ \A i \in 1..(Len(r) + Len(t)) :
                 (r \o t)[i] = IF i <= Len(r) THEN r[i] ELSE t[i - Len(r)]
OBVIOUS

\* The types that matter for who has a connection.
OfferTypes ==
    /\ current \in Nat /\ current <= MaxListen /\ listeners \subseteq Ch!Listener
    /\ offered \in [Ch!Listener -> {<<>>} \cup {<<c>> : c \in Client}]
    /\ pc \in [Client -> {"idle", "wait", "open", "error", "closed"}]
    /\ at \in [Client -> Nat]

\* Nobody has the sender of a listener that is yet to come, and who is connected has a peer.
OfferInv ==
    /\ OfferTypes
    /\ \A c \in Client : at[c] <= current
    /\ Ch!ConnectedHasPeer

\* Every step keeps it.
LEMMA OfferNext == ASSUME MaxListen \in Nat, OfferInv, [Ch!Next]_(Ch!vars) PROVE OfferInv'
<1>0. OfferTypes /\ (\A c \in Client : at[c] <= current) /\ Ch!ConnectedHasPeer
    BY Zenon DEF OfferInv
<1>1. CASE Ch!Listen
    <2>1. /\ current < MaxListen /\ current' = current + 1
          /\ listeners' = listeners \cup {current + 1} /\ UNCHANGED <<offered, pc, at, accepted>>
        BY <1>1, Zenon DEF Ch!Listen
    <2>2. /\ current' \in Nat /\ current' <= MaxListen /\ current + 1 \in 1..MaxListen
          /\ \A c \in Client : at[c] <= current' /\ at[c] # current + 1
        BY <1>0, <2>1 DEF OfferTypes
    <2>3. OfferTypes'
        BY <1>0, <2>1, <2>2, Zenon DEF OfferTypes, Ch!Listener
    <2> QED
        BY <1>0, <2>1, <2>2, <2>3, Zenon DEF OfferInv, Ch!ConnectedHasPeer
<1>2. ASSUME NEW l \in Ch!Listener, Ch!DropListener(l) PROVE OfferInv'
    <2>1. /\ listeners' = listeners \ {l} /\ offered' = [offered EXCEPT ![l] = <<>>]
          /\ UNCHANGED <<current, pc, at, accepted>>
        BY <1>2, Zenon DEF Ch!DropListener
    <2>2. /\ offered' \in [Ch!Listener -> {<<>>} \cup {<<c>> : c \in Client}]
          /\ \A k \in Ch!Listener \ {l} : offered'[k] = offered[k]
        BY <1>0, <2>1, Zenon DEF OfferTypes
    <2> QED
        BY <1>0, <2>1, <2>2, Zenon DEF OfferInv, OfferTypes, Ch!ConnectedHasPeer
<1>3. ASSUME NEW c \in Client, Ch!Connect(c) PROVE OfferInv'
    <2>1. /\ pc[c] = "idle" /\ pc' = [pc EXCEPT ![c] = IF current = 0 THEN "error" ELSE "wait"]
          /\ at' = [at EXCEPT ![c] = current] /\ UNCHANGED <<current, listeners, offered, accepted>>
        BY <1>3, Zenon DEF Ch!Connect
    <2>2. /\ pc' \in [Client -> {"idle", "wait", "open", "error", "closed"}]
          /\ pc'[c] \in {"error", "wait"} /\ \A d \in Client \ {c} : pc'[d] = pc[d]
        BY <1>0, <2>1, Zenon DEF OfferTypes
    <2>3. /\ at' \in [Client -> Nat] /\ at'[c] = current /\ \A d \in Client \ {c} : at'[d] = at[d]
        BY <1>0, <2>1, Zenon DEF OfferTypes
    <2>4. current <= current
        BY <1>0 DEF OfferTypes
    <2> QED
        BY <1>0, <2>1, <2>2, <2>3, <2>4, Zenon DEF OfferInv, OfferTypes, Ch!ConnectedHasPeer
<1>4. ASSUME NEW c \in Client, Ch!Notify(c) PROVE OfferInv'
    <2>0. pc[c] = "wait" /\ UNCHANGED <<current, listeners, at, accepted>>
        BY <1>4, Zenon DEF Ch!Notify
    <2>1. CASE /\ at[c] \in listeners /\ offered[at[c]] = <<>>
               /\ offered' = [offered EXCEPT ![at[c]] = <<c>>]
               /\ pc' = [pc EXCEPT ![c] = "open"]
        <3>1. /\ pc' \in [Client -> {"idle", "wait", "open", "error", "closed"}]
              /\ pc'[c] = "open" /\ \A d \in Client \ {c} : pc'[d] = pc[d]
            BY <1>0, <2>1, Zenon DEF OfferTypes
        <3>2. /\ offered' \in [Ch!Listener -> {<<>>} \cup {<<d>> : d \in Client}]
              /\ offered'[at[c]] = <<c>>
              /\ \A k \in Ch!Listener \ {at[c]} : offered'[k] = offered[k]
            <4> DEFINE S == {<<>>} \cup {<<d>> : d \in Client}
            <4>1. at[c] \in Ch!Listener /\ <<c>> \in S /\ offered \in [Ch!Listener -> S]
                BY <1>0, <2>1, Zenon DEF OfferTypes
            <4> HIDE DEF S
            <4>2. /\ offered' \in [Ch!Listener -> S] /\ offered'[at[c]] = <<c>>
                  /\ \A k \in Ch!Listener \ {at[c]} : offered'[k] = offered[k]
                BY <2>1, <4>1, Zenon
            <4> QED
                BY <4>2, Zenon DEF S
        <3>3. \A d \in Client : <<d>> # <<>>
            OBVIOUS
        <3> QED
            <4>1. OfferTypes'
                BY <1>0, <2>0, <3>1, <3>2, Zenon DEF OfferTypes
            <4>2. ASSUME NEW d \in Client, pc'[d] \in {"open", "closed"}
                  PROVE  d \in accepted \/ offered'[at[d]] = <<d>> \/ at[d] \notin listeners
                <5>1. CASE d = c
                    BY <3>2, <5>1, Zenon
                <5>2. CASE d # c /\ offered[at[d]] = <<d>> /\ at[d] \in listeners
                    <6>1. at[d] # at[c] /\ at[d] \in Ch!Listener
                        BY <1>0, <2>1, <3>3, <5>2, Zenon DEF OfferTypes
                    <6> QED
                        BY <3>2, <5>2, <6>1, Zenon
                <5> QED
                    BY <1>0, <3>1, <4>2, <5>1, <5>2, Zenon DEF Ch!ConnectedHasPeer
            <4>3. Ch!ConnectedHasPeer'
                BY <2>0, <4>2, Zenon DEF Ch!ConnectedHasPeer
            <4> QED
                BY <1>0, <2>0, <4>1, <4>3, Zenon DEF OfferInv
    <2>2. CASE at[c] \notin listeners /\ pc' = [pc EXCEPT ![c] = "error"] /\ UNCHANGED offered
        <3>1. /\ pc' \in [Client -> {"idle", "wait", "open", "error", "closed"}]
              /\ pc'[c] = "error" /\ \A d \in Client \ {c} : pc'[d] = pc[d]
            BY <1>0, <2>2, Zenon DEF OfferTypes
        <3> QED
            BY <1>0, <2>0, <2>2, <3>1, Zenon DEF OfferInv, OfferTypes, Ch!ConnectedHasPeer
    <2> QED
        BY <1>4, <2>1, <2>2, Zenon DEF Ch!Notify
<1>5. ASSUME NEW l \in Ch!Listener, Ch!Accept(l) PROVE OfferInv'
    <2>1. /\ offered[l] # <<>> /\ accepted' = accepted \cup {Head(offered[l])}
          /\ offered' = [offered EXCEPT ![l] = <<>>] /\ UNCHANGED <<current, listeners, pc, at>>
        BY <1>5, Zenon DEF Ch!Accept
    <2>2. /\ offered' \in [Ch!Listener -> {<<>>} \cup {<<c>> : c \in Client}]
          /\ \A k \in Ch!Listener \ {l} : offered'[k] = offered[k]
        BY <1>0, <2>1, Zenon DEF OfferTypes
    <2>3. \A c \in Client : offered[l] = <<c>> => c \in accepted'
        BY <2>1
    <2> QED
        BY <1>0, <2>1, <2>2, <2>3, Zenon DEF OfferInv, OfferTypes, Ch!ConnectedHasPeer
<1>6. ASSUME NEW c \in Client, Ch!Close(c) PROVE OfferInv'
    <2>1. /\ pc[c] = "open" /\ pc' = [pc EXCEPT ![c] = "closed"]
          /\ UNCHANGED <<current, listeners, offered, at, accepted>>
        BY <1>6, Zenon DEF Ch!Close
    <2>2. /\ pc' \in [Client -> {"idle", "wait", "open", "error", "closed"}]
          /\ \A d \in Client \ {c} : pc'[d] = pc[d]
        BY <1>0, <2>1, Zenon DEF OfferTypes
    <2> QED
        BY <1>0, <2>1, <2>2, Zenon DEF OfferInv, OfferTypes, Ch!ConnectedHasPeer
<1>7. ASSUME UNCHANGED <<current, listeners, offered, pc, at, accepted>> PROVE OfferInv'
    BY <1>0, <1>7, Zenon DEF OfferInv, OfferTypes, Ch!ConnectedHasPeer
<1>8. ASSUME NEW c \in Client, Ch!Send(c) \/ Ch!Recv(c)
      PROVE  UNCHANGED <<current, listeners, offered, pc, at, accepted>>
    BY <1>8, Zenon DEF Ch!Send, Ch!Recv
<1>9. UNCHANGED Ch!vars => UNCHANGED <<current, listeners, offered, pc, at, accepted>>
    BY Zenon DEF Ch!vars
<1> QED
    BY <1>1, <1>2, <1>3, <1>4, <1>5, <1>6, <1>7, <1>8, <1>9, Zenon DEF Ch!Next

\* A client that was told it is connected has a peer.
THEOREM ConnectedHavePeers == ASSUME MaxListen \in Nat PROVE Ch!Spec => []Ch!ConnectedHasPeer
<1>1. Ch!Init => OfferInv
    BY DEF Ch!Init, OfferInv, OfferTypes, Ch!ConnectedHasPeer
<1>2. OfferInv => Ch!ConnectedHasPeer
    BY Zenon DEF OfferInv
<1> QED
    BY <1>1, <1>2, OfferNext, PTL DEF Ch!Spec

\* The elements of two sequences of numbers put together are those of both,
LEMMA ItemsJoined ==
    ASSUME NEW r \in Seq(Nat), NEW t \in Seq(Nat)
    PROVE  /\ r \o t \in Seq(Nat) /\ Len(r \o t) = Len(r) + Len(t)
           /\ Items(r \o t) = Items(r) \cup Items(t)
<1> DEFINE u == r \o t
<1>1. /\ u \in Seq(Nat) /\ Len(u) = Len(r) + Len(t)
      /\ \A i \in 1..(Len(r) + Len(t)) : u[i] = IF i <= Len(r) THEN r[i] ELSE t[i - Len(r)]
    BY Joined, Zenon
<1> HIDE DEF u
<1>2. /\ Len(r) \in Nat /\ Len(t) \in Nat /\ DOMAIN r = 1..Len(r) /\ DOMAIN t = 1..Len(t)
      /\ DOMAIN u = 1..(Len(r) + Len(t))
    BY <1>1
<1>3. ASSUME NEW x \in Items(u) PROVE x \in Items(r) \cup Items(t)
    <2>1. PICK i \in 1..(Len(r) + Len(t)) : x = u[i]
        BY <1>2, Zenon DEF Items
    <2>2. i \in 1..Len(r) \/ (~(i <= Len(r)) /\ i - Len(r) \in 1..Len(t))
        BY <1>2
    <2>3. i \in 1..Len(r) => i <= Len(r)
        BY <1>2
    <2> QED
        BY <1>1, <1>2, <2>1, <2>2, <2>3, Zenon DEF Items
<1>4. ASSUME NEW x \in Items(r) PROVE x \in Items(u)
    <2>1. PICK i \in 1..Len(r) : x = r[i]
        BY <1>2, Zenon DEF Items
    <2>2. i \in 1..(Len(r) + Len(t)) /\ i <= Len(r)
        BY <1>2
    <2> QED
        BY <1>1, <1>2, <2>1, <2>2, Zenon DEF Items
<1>5. ASSUME NEW x \in Items(t) PROVE x \in Items(u)
    <2>1. PICK i \in 1..Len(t) : x = t[i]
        BY <1>2, Zenon DEF Items
    <2>2. /\ Len(r) + i \in 1..(Len(r) + Len(t)) /\ ~(Len(r) + i <= Len(r))
          /\ (Len(r) + i) - Len(r) = i
        BY <1>2
    <2>3. u[Len(r) + i] = x
        BY <1>1, <2>1, <2>2, Zenon
    <2> QED
        BY <1>2, <2>2, <2>3, Zenon DEF Items
<1>6. Items(u) = Items(r) \cup Items(t)
    BY <1>3, <1>4, <1>5, Zenon
<1> QED
    BY <1>1, <1>6, Zenon DEF u

\* ... also if the first k were taken from one to the other.
SameItems(r, c, r2, c2) ==
    /\ r2 \in Seq(Nat) /\ c2 \in Seq(Nat) /\ Len(r2) + Len(c2) = Len(r) + Len(c)
    /\ Items(r2) \cup Items(c2) = Items(r) \cup Items(c)
LEMMA ItemsTaken ==
    ASSUME NEW r \in Seq(Nat), NEW c \in Seq(Nat), NEW k \in 0..Len(c)
    PROVE  SameItems(r, c, r \o SubSeq(c, 1, k), SubSeq(c, k + 1, Len(c)))
<1>0. SUFFICES ASSUME NEW r2, NEW c2, r2 = r \o SubSeq(c, 1, k), c2 = SubSeq(c, k + 1, Len(c))
               PROVE  SameItems(r, c, r2, c2)
    BY Zenon
<1> DEFINE t == SubSeq(c, 1, k)
<1>1. t \in Seq(Nat) /\ Len(t) = k /\ \A i \in 1..k : t[i] = c[i]
    OBVIOUS
<1>2. c2 \in Seq(Nat) /\ Len(c2) = Len(c) - k /\ \A i \in 1..(Len(c) - k) : c2[i] = c[k + i]
    BY <1>0, SMTT(30)
<1>3. Len(c) \in Nat /\ Len(r) \in Nat /\ k \in Nat /\ DOMAIN c = 1..Len(c)
    OBVIOUS
<1>r. r2 = r \o t
    BY <1>0, Zenon
<1> HIDE DEF t
<1>4. DOMAIN t = 1..k /\ DOMAIN c2 = 1..(Len(c) - k)
    BY ONLY <1>1, <1>2, <1>3, SMT
<1>5. r2 \in Seq(Nat) /\ Len(r2) = Len(r) + k /\ Items(r2) = Items(r) \cup Items(t)
    BY <1>1, <1>r, ItemsJoined, Zenon
<1>6. ASSUME NEW x \in Items(c) PROVE x \in Items(t) \cup Items(c2)
    <2>1. PICK i \in 1..Len(c) : x = c[i]
        BY <1>3, Zenon DEF Items
    <2>2. CASE i \in 1..k
        BY <1>1, <1>4, <2>1, <2>2, Zenon DEF Items
    <2>3. CASE i \notin 1..k
        <3>1. i - k \in 1..(Len(c) - k) /\ k + (i - k) = i
            BY <1>3, <2>3
        <3>2. c2[i - k] = x
            BY <1>2, <2>1, <3>1, Zenon
        <3> QED
            BY <1>4, <3>1, <3>2, Zenon DEF Items
    <2> QED
        BY <2>2, <2>3, Zenon
<1>7. ASSUME NEW x \in Items(t) PROVE x \in Items(c)
    <2>1. 1..k \subseteq 1..Len(c)
        BY <1>3
    <2> QED
        BY <1>1, <1>3, <1>4, <1>7, <2>1, Zenon DEF Items
<1>8. ASSUME NEW x \in Items(c2) PROVE x \in Items(c)
    <2>1. PICK i \in 1..(Len(c) - k) : x = c2[i]
        BY <1>4, Zenon DEF Items
    <2>2. k + i \in 1..Len(c)
        BY <1>3
    <2> QED
        BY <1>2, <1>3, <2>1, <2>2, Zenon DEF Items
<1>9. Len(r2) + Len(c2) = Len(r) + Len(c)
    <2>1. \A x, y, z \in Nat : (x + z) + (y - z) = x + y
        OBVIOUS
    <2>2. (Len(r) + k) + (Len(c) - k) = Len(r) + Len(c)
        BY <1>3, <2>1, Zenon
    <2> QED
        BY <1>2, <1>5, <2>2, Zenon
<1>10. Items(r2) \cup Items(c2) = Items(r) \cup Items(c)
    BY <1>5, <1>6, <1>7, <1>8, Zenon
<1> QED
    BY <1>2, <1>5, <1>9, <1>10, Zenon DEF SameItems

\* What link holds back of a client, as a number of segments and as a set.
Late(c) == IF held[c] = 0 THEN 0 ELSE 1
LateItems(c) == IF held[c] = 0 THEN {} ELSE {held[c]}

\* What a client sent was received, is in its channel, or is held back: as many, and the same.
SegKept(c) ==
    /\ Len(got[c]) + Len(chan[c]) + Late(c) = n_sent[c]
    /\ Items(got[c]) \cup Items(chan[c]) \cup LateItems(c) = 1..n_sent[c]

\* The inductive invariant.
SegInv ==
    /\ n_sent \in [Client -> Nat] /\ held \in [Client -> Nat]
    /\ chan \in [Client -> Seq(Nat)] /\ got \in [Client -> Seq(Nat)]
    /\ \A c \in Client : SegKept(c)

\* What a step does not touch of a client stays right.
LEMMA SegSame ==
    ASSUME NEW c \in Client, SegKept(c), got'[c] = got[c], chan'[c] = chan[c], held'[c] = held[c],
           n_sent'[c] = n_sent[c]
    PROVE  SegKept(c)'
BY Zenon DEF SegKept, Late, LateItems

\* An update for one client.
LEMMA ClientUpdated ==
    ASSUME NEW S, NEW f \in [Client -> S], NEW c \in Client, NEW v \in S, NEW g,
           g = [f EXCEPT ![c] = v]
    PROVE  g \in [Client -> S] /\ g[c] = v /\ \A d \in Client \ {c} : g[d] = f[d]
BY Zenon

\* A client sends: the segment is held back, or goes to the channel with the one that was.
LEMMA SegSend == ASSUME SegInv, NEW c \in Client, Ch!Send(c) PROVE SegInv'
<1> DEFINE n == n_sent[c] + 1
           h == held[c]
           ch == chan[c]
<1>1. /\ n_sent' = [n_sent EXCEPT ![c] = n] /\ UNCHANGED got
      /\ \/ h = 0 /\ held' = [held EXCEPT ![c] = n] /\ UNCHANGED chan
         \/ h = 0 /\ chan' = [chan EXCEPT ![c] = ch \o <<n>>] /\ held' = [held EXCEPT ![c] = 0]
         \/ h # 0 /\ chan' = [chan EXCEPT ![c] = ch \o <<n, h>>] /\ held' = [held EXCEPT ![c] = 0]
    BY Zenon DEF Ch!Send
<1>2. /\ n_sent \in [Client -> Nat] /\ held \in [Client -> Nat] /\ SegKept(c)
      /\ chan \in [Client -> Seq(Nat)] /\ got \in [Client -> Seq(Nat)]
    BY Zenon DEF SegInv
<1>3. h \in Nat /\ n_sent[c] \in Nat /\ ch \in Seq(Nat) /\ got[c] \in Seq(Nat)
    BY <1>2, Zenon
<1>4. /\ n \in Nat /\ n # 0 /\ 0 \in Nat /\ Len(ch) \in Nat /\ Len(got[c]) \in Nat
      /\ 1..n = 1..n_sent[c] \cup {n}
    BY <1>3
<1>5. /\ <<n>> \in Seq(Nat) /\ Len(<<n>>) = 1 /\ Items(<<n>>) = {n}
      /\ <<n, h>> \in Seq(Nat) /\ Len(<<n, h>>) = 2 /\ Items(<<n, h>>) = {n, h}
    <2> HIDE DEF n, h
    <2>1. DOMAIN <<n>> = {1} /\ DOMAIN <<n, h>> = {1, 2}
        OBVIOUS
    <2> QED
        BY <1>3, <1>4, <2>1 DEF Items
<1>6. /\ n_sent' \in [Client -> Nat] /\ n_sent'[c] = n
      /\ \A d \in Client \ {c} : n_sent'[d] = n_sent[d]
    BY <1>1, <1>2, <1>4, ClientUpdated, Zenon
<1>7. /\ Len(got[c]) + Len(ch) + Late(c) = n_sent[c]
      /\ Items(got[c]) \cup Items(ch) \cup LateItems(c) = 1..n_sent[c]
    BY <1>2, Zenon DEF SegKept
<1> HIDE DEF n, h, ch
<1>8. ASSUME NEW x \in Nat, NEW s \in Seq(Nat), held' = [held EXCEPT ![c] = x],
             chan' = [chan EXCEPT ![c] = s],
             Len(got[c]) + Len(s) + (IF x = 0 THEN 0 ELSE 1) = n,
             Items(got[c]) \cup Items(s) \cup (IF x = 0 THEN {} ELSE {x}) = 1..n
      PROVE  SegInv'
    <2>1. held' \in [Client -> Nat] /\ held'[c] = x /\ \A d \in Client \ {c} : held'[d] = held[d]
        BY <1>2, <1>8, ClientUpdated, Zenon
    <2>2. /\ chan' \in [Client -> Seq(Nat)] /\ chan'[c] = s
          /\ \A d \in Client \ {c} : chan'[d] = chan[d]
        BY <1>2, <1>8, ClientUpdated, Zenon
    <2>3. SegKept(c)'
        BY <1>1, <1>6, <1>8, <2>1, <2>2, Zenon DEF SegKept, Late, LateItems
    <2>4. \A d \in Client : SegKept(d)'
        BY <1>1, <1>6, <2>1, <2>2, <2>3, SegSame, Zenon DEF SegInv
    <2> QED
        BY <1>1, <1>2, <1>6, <2>1, <2>2, <2>4, Zenon DEF SegInv
<1>9. CASE h = 0
    <2>1. Len(got[c]) + Len(ch) = n_sent[c] /\ Items(got[c]) \cup Items(ch) = 1..n_sent[c]
        <3>1. Late(c) = 0 /\ LateItems(c) = {}
            BY <1>9, Zenon DEF Late, LateItems, h
        <3>2. \A x, y \in Nat : x + y + 0 = x + y
            OBVIOUS
        <3> QED
            BY <1>4, <1>7, <3>1, <3>2, Zenon
    <2>2. CASE held' = [held EXCEPT ![c] = n] /\ UNCHANGED chan
        <3>1. chan' = [chan EXCEPT ![c] = ch]
            BY <1>2, <2>2 DEF ch
        <3>2. Len(got[c]) + Len(ch) + 1 = n
            BY <2>1, Zenon DEF n
        <3>3. Items(got[c]) \cup Items(ch) \cup {n} = 1..n
            BY <1>4, <2>1, Zenon
        <3> QED
            BY <1>3, <1>4, <1>8, <2>2, <3>1, <3>2, <3>3, Zenon
    <2>3. CASE chan' = [chan EXCEPT ![c] = ch \o <<n>>] /\ held' = [held EXCEPT ![c] = 0]
        <3>1. /\ ch \o <<n>> \in Seq(Nat) /\ Len(ch \o <<n>>) = Len(ch) + 1
              /\ Items(ch \o <<n>>) = Items(ch) \cup {n}
            <4> DEFINE t == <<n>>
            <4>1. t \in Seq(Nat) /\ Len(t) = 1 /\ Items(t) = {n}
                BY <1>5, Zenon
            <4> HIDE DEF t
            <4>2. /\ ch \o t \in Seq(Nat) /\ Len(ch \o t) = Len(ch) + Len(t)
                  /\ Items(ch \o t) = Items(ch) \cup Items(t)
                BY <1>3, <4>1, ItemsJoined, ZenonT(30)
            <4>3. /\ ch \o t \in Seq(Nat) /\ Len(ch \o t) = Len(ch) + 1
                  /\ Items(ch \o t) = Items(ch) \cup {n}
                BY <4>1, <4>2, Zenon
            <4> QED
                BY <4>3, Zenon DEF t
        <3>2. Len(got[c]) + Len(ch \o <<n>>) + 0 = n
            <4>1. \A x, y \in Nat : x + (y + 1) + 0 = x + y + 1
                OBVIOUS
            <4> QED
                BY <1>4, <2>1, <3>1, <4>1, Zenon DEF n
        <3>3. Items(got[c]) \cup Items(ch \o <<n>>) \cup {} = 1..n
            BY <1>4, <2>1, <3>1, Zenon
        <3> QED
            BY <1>4, <1>8, <2>3, <3>1, <3>2, <3>3, Zenon
    <2> QED
        BY <1>1, <1>9, <2>2, <2>3, Zenon
<1>10. CASE h # 0
    <2>1. chan' = [chan EXCEPT ![c] = ch \o <<n, h>>] /\ held' = [held EXCEPT ![c] = 0]
        BY <1>1, <1>10, Zenon
    <2>2. /\ Len(got[c]) + Len(ch) + 1 = n_sent[c]
          /\ Items(got[c]) \cup Items(ch) \cup {h} = 1..n_sent[c]
        BY <1>7, <1>10, Zenon DEF Late, LateItems, h
    <2>3. /\ ch \o <<n, h>> \in Seq(Nat) /\ Len(ch \o <<n, h>>) = Len(ch) + 2
          /\ Items(ch \o <<n, h>>) = Items(ch) \cup {n, h}
        <3> DEFINE t == <<n, h>>
        <3>1. t \in Seq(Nat) /\ Len(t) = 2 /\ Items(t) = {n, h}
            BY <1>5, Zenon
        <3> HIDE DEF t
        <3>2. /\ ch \o t \in Seq(Nat) /\ Len(ch \o t) = Len(ch) + 2
              /\ Items(ch \o t) = Items(ch) \cup {n, h}
            <4>1. /\ ch \o t \in Seq(Nat) /\ Len(ch \o t) = Len(ch) + Len(t)
                  /\ Items(ch \o t) = Items(ch) \cup Items(t)
                BY <1>3, <3>1, ItemsJoined, ZenonT(30)
            <4> QED
                BY <3>1, <4>1, Zenon
        <3> QED
            BY <3>2, Zenon DEF t
    <2>4. Len(got[c]) + Len(ch \o <<n, h>>) + 0 = n
        <3>1. \A x, y \in Nat : x + (y + 2) + 0 = (x + y + 1) + 1
            OBVIOUS
        <3> QED
            BY <1>4, <2>2, <2>3, <3>1, ZenonT(30) DEF n
    <2>5. Items(got[c]) \cup Items(ch \o <<n, h>>) \cup {} = 1..n
        <3>1. \A R, S, N : R \cup S \cup {h} = N => R \cup (S \cup {n, h}) \cup {} = N \cup {n}
            BY SMTT(30)
        <3> QED
            BY <1>4, <2>2, <2>3, <3>1, Zenon
    <2> QED
        BY <1>4, <1>8, <2>1, <2>3, <2>4, <2>5, Zenon
<1> QED
    BY <1>9, <1>10, Zenon

\* The listener's end receives what the channel has, as far as there are slots.
LEMMA SegRecv == ASSUME Slots \in Nat, SegInv, NEW c \in Client, Ch!Recv(c) PROVE SegInv'
<1>0. PICK r, t : r = got[c] /\ t = chan[c]
    BY Zenon
<1>1. PICK k, r2, t2 : /\ k = IF Len(t) < Slots THEN Len(t) ELSE Slots
                       /\ r2 = r \o SubSeq(t, 1, k) /\ t2 = SubSeq(t, k + 1, Len(t))
                       /\ got' = [got EXCEPT ![c] = r2] /\ chan' = [chan EXCEPT ![c] = t2]
                       /\ UNCHANGED <<n_sent, held>>
    BY <1>0, Zenon DEF Ch!Recv
<1>2. /\ n_sent \in [Client -> Nat] /\ held \in [Client -> Nat] /\ SegKept(c)
      /\ chan \in [Client -> Seq(Nat)] /\ got \in [Client -> Seq(Nat)]
    BY Zenon DEF SegInv
<1>3. t \in Seq(Nat) /\ r \in Seq(Nat)
    BY <1>0, <1>2, Zenon
<1>4. k \in 0..Len(t)
    BY <1>1, <1>3
<1>5. /\ r2 \in Seq(Nat) /\ t2 \in Seq(Nat) /\ Len(r2) + Len(t2) = Len(r) + Len(t)
      /\ Items(r2) \cup Items(t2) = Items(r) \cup Items(t)
    <2>1. r2 = r \o SubSeq(t, 1, k) /\ t2 = SubSeq(t, k + 1, Len(t))
        BY <1>1, Zenon
    <2> QED
        BY <1>3, <1>4, <2>1, ItemsTaken, Zenon DEF SameItems
<1>6. got' \in [Client -> Seq(Nat)] /\ got'[c] = r2 /\ \A d \in Client \ {c} : got'[d] = got[d]
    BY <1>1, <1>2, <1>5, ClientUpdated, Zenon
<1>7. chan' \in [Client -> Seq(Nat)] /\ chan'[c] = t2 /\ \A d \in Client \ {c} : chan'[d] = chan[d]
    BY <1>1, <1>2, <1>5, ClientUpdated, Zenon
<1>8. SegKept(c)'
    <2>1. Len(got'[c]) + Len(chan'[c]) = Len(got[c]) + Len(chan[c])
        BY <1>0, <1>5, <1>6, <1>7, Zenon
    <2>2. Items(got'[c]) \cup Items(chan'[c]) = Items(got[c]) \cup Items(chan[c])
        BY <1>0, <1>5, <1>6, <1>7, Zenon
    <2> QED
        BY <1>1, <1>2, <2>1, <2>2, Zenon DEF SegKept, Late, LateItems
<1>9. \A d \in Client : SegKept(d)'
    BY <1>1, <1>6, <1>7, <1>8, SegSame, Zenon DEF SegInv
<1> QED
    BY <1>1, <1>2, <1>6, <1>7, <1>9, Zenon DEF SegInv

\* Every step keeps the invariant.
LEMMA SegNext == ASSUME Slots \in Nat, SegInv, [Ch!Next]_(Ch!vars) PROVE SegInv'
<1>1. ASSUME UNCHANGED <<n_sent, held, chan, got>> PROVE SegInv'
    BY <1>1, SegSame, Zenon DEF SegInv
<1>2. Ch!Listen \/ UNCHANGED Ch!vars => UNCHANGED <<n_sent, held, chan, got>>
    BY Zenon DEF Ch!Listen, Ch!vars
<1>3. ASSUME NEW l \in Ch!Listener, Ch!DropListener(l) \/ Ch!Accept(l)
      PROVE  UNCHANGED <<n_sent, held, chan, got>>
    BY <1>3, Zenon DEF Ch!DropListener, Ch!Accept
<1>4. ASSUME NEW c \in Client, Ch!Connect(c) \/ Ch!Notify(c) \/ Ch!Close(c)
      PROVE  UNCHANGED <<n_sent, held, chan, got>>
    BY <1>4, Zenon DEF Ch!Connect, Ch!Notify, Ch!Close
<1> QED
    BY <1>1, <1>2, <1>3, <1>4, SegSend, SegRecv, Zenon DEF Ch!Next

\* Nothing that a client sent is lost, returned twice or invented.
THEOREM SegmentsAreKept == ASSUME Slots \in Nat PROVE Ch!Spec => []Ch!NothingLost
<1>1. Ch!Init => SegInv
    <2> SUFFICES ASSUME Ch!Init PROVE SegInv
        BY Zenon
    <2>1. /\ n_sent = [c \in Client |-> 0] /\ held = [c \in Client |-> 0]
          /\ chan = [c \in Client |-> <<>>] /\ got = [c \in Client |-> <<>>]
        BY Zenon DEF Ch!Init
    <2>2. Items(<<>>) = {} /\ 1..0 = {} /\ Len(<<>>) = 0 /\ 0 + 0 + 0 = 0
        BY DEF Items
    <2>3. \A c \in Client : SegKept(c)
        BY <2>1, <2>2, Zenon DEF SegKept, Late, LateItems
    <2> QED
        BY <2>1, <2>3 DEF SegInv
<1>2. SegInv => Ch!NothingLost
    <2> SUFFICES ASSUME SegInv, NEW c \in Client
                 PROVE  LET all == got[c] \o chan[c] \o (IF held[c] = 0 THEN <<>> ELSE <<held[c]>>)
                        IN Len(all) = n_sent[c] /\ Items(all) = 1..n_sent[c]
        BY Zenon DEF Ch!NothingLost, Ch!Range, Items
    <2> DEFINE h == IF held[c] = 0 THEN <<>> ELSE <<held[c]>>
               m == got[c] \o chan[c]
    <2>1. got[c] \in Seq(Nat) /\ chan[c] \in Seq(Nat) /\ held[c] \in Nat /\ SegKept(c)
        BY Zenon DEF SegInv
    <2>2. h \in Seq(Nat) /\ Len(h) = Late(c) /\ Items(h) = LateItems(c)
        <3>1. CASE held[c] = 0
            BY <3>1 DEF Late, LateItems, Items
        <3>2. CASE held[c] # 0
            <4>1. /\ h = <<held[c]>> /\ DOMAIN h = {1} /\ h[1] = held[c]
                  /\ Len(h) = 1 /\ h \in Seq(Nat)
                BY <2>1, <3>2
            <4> HIDE DEF h
            <4> QED
                BY <3>2, <4>1, Zenon DEF Late, LateItems, Items
        <3> QED
            BY <3>1, <3>2, Zenon
    <2> HIDE DEF h
    <2>3. /\ m \in Seq(Nat) /\ Len(m) = Len(got[c]) + Len(chan[c])
          /\ Items(m) = Items(got[c]) \cup Items(chan[c])
        BY <2>1, ItemsJoined, Zenon
    <2> HIDE DEF m
    <2>4. Len(m \o h) = Len(m) + Len(h) /\ Items(m \o h) = Items(m) \cup Items(h)
        BY <2>2, <2>3, ItemsJoined, Zenon
    <2>5. Len(m \o h) = n_sent[c] /\ Items(m \o h) = 1..n_sent[c]
        BY <2>1, <2>2, <2>3, <2>4, Zenon DEF SegKept
    <2> QED
        BY <2>5, Zenon DEF m, h
<1> QED
    BY <1>1, <1>2, SegNext, PTL DEF Ch!Spec

-----------------------------------------------------------------------------
(* DpdkThreads, as Thr, for any threads and ports *)

CONSTANTS Ephemeral, LocalPort, NumQueues, Mlx, MaxOps
VARIABLES mempools, dpdk_state, ephemeral_ports, objs, queues, rule, shutdown, n_ops
Thr == INSTANCE DpdkThreads

\* The inductive invariant: a port that was taken from the pool is not in it, whoever drops
\* what and whatever was shut down in between.
PoolInv ==
    /\ \A o \in objs : o.pooled \in BOOLEAN /\ (o.pooled => o.port \notin ephemeral_ports)
    /\ Thr!PortsDistinct

\* Every step keeps it.
LEMMA PoolNext == ASSUME PoolInv, [Thr!Next]_(Thr!vars) PROVE PoolInv'
<1>0. /\ \A o \in objs : o.pooled \in BOOLEAN /\ (o.pooled => o.port \notin ephemeral_ports)
      /\ \A o1, o2 \in objs : o1.pooled /\ o2.pooled /\ o1.port = o2.port => o1 = o2
    BY Zenon DEF PoolInv, Thr!PortsDistinct
<1>1. ASSUME NEW t \in Thread, NEW p \in Thr!Port, Thr!Connect(t, p) PROVE PoolInv'
    <2> DEFINE n == [id |-> n_ops', port |-> p, thread |-> t, pooled |-> TRUE]
    <2>1. /\ p \in ephemeral_ports /\ ephemeral_ports' = ephemeral_ports \ {p}
          /\ objs' = objs \cup {n}
        BY <1>1, Zenon DEF Thr!Connect, Thr!Make
    <2>2. n.port = p /\ n.pooled = TRUE
        OBVIOUS
    <2> HIDE DEF n
    <2>3. \A o \in objs' : o.pooled \in BOOLEAN /\ (o.pooled => o.port \notin ephemeral_ports')
        BY <1>0, <2>1, <2>2, Zenon
    <2>4. \A o1, o2 \in objs' : o1.pooled /\ o2.pooled /\ o1.port = o2.port => o1 = o2
        BY <1>0, <2>1, <2>2, Zenon
    <2> QED
        BY <2>3, <2>4, Zenon DEF PoolInv, Thr!PortsDistinct
<1>2. ASSUME NEW t \in Thread, NEW p \in Thr!Port, Thr!Listen(t, p) PROVE PoolInv'
    <2> DEFINE n == [id |-> n_ops', port |-> p, thread |-> t, pooled |-> FALSE]
    <2>1. ephemeral_ports' = ephemeral_ports /\ objs' = objs \cup {n}
        BY <1>2, Zenon DEF Thr!Listen, Thr!Make
    <2>2. n.pooled = FALSE
        OBVIOUS
    <2> HIDE DEF n
    <2>3. \A o \in objs' : o.pooled \in BOOLEAN /\ (o.pooled => o.port \notin ephemeral_ports')
        BY <1>0, <2>1, <2>2, Zenon
    <2>4. \A o1, o2 \in objs' : o1.pooled /\ o2.pooled /\ o1.port = o2.port => o1 = o2
        BY <1>0, <2>1, <2>2, Zenon
    <2> QED
        BY <2>3, <2>4, Zenon DEF PoolInv, Thr!PortsDistinct
<1>3. ASSUME NEW d \in objs, Thr!Drop(d) PROVE PoolInv'
    <2>1. /\ objs' = objs \ {d}
          /\ \/ ephemeral_ports' = ephemeral_ports
             \/ ephemeral_ports' = ephemeral_ports \cup (IF d.pooled THEN {d.port} ELSE {})
        BY <1>3, Zenon DEF Thr!Drop
    <2>2. \A o \in objs' : o.pooled \in BOOLEAN /\ (o.pooled => o.port \notin ephemeral_ports')
        BY <1>0, <2>1, Zenon
    <2> QED
        BY <1>0, <2>1, <2>2, Zenon DEF PoolInv, Thr!PortsDistinct
<1>4. CASE Thr!ShutDown \/ UNCHANGED Thr!vars
    BY <1>4, Zenon DEF Thr!ShutDown, Thr!vars, PoolInv, Thr!PortsDistinct
<1> QED
    BY <1>1, <1>2, <1>3, <1>4, Zenon DEF Thr!Next

\* No two connections or streams of the inline datapath that took their port from
\* ephemeral_ports have the same one, for any threads, ports and order of opening, dropping and
\* shutting down.
THEOREM PortsAreDistinct == Thr!Spec => []Thr!PortsDistinct
<1>1. Thr!Init => PoolInv
    BY Zenon DEF Thr!Init, PoolInv, Thr!PortsDistinct
<1>2. PoolInv => Thr!PortsDistinct
    BY Zenon DEF PoolInv
<1> QED
    BY <1>1, <1>2, PoolNext, PTL DEF Thr!Spec
=============================================================================
