--------------------------- MODULE ServiceProofs ---------------------------
(***************************************************************************)
(* Proofs about the key-value service and about connections that change    *)
(* their stack, for any number of clients, requests, keys, participants    *)
(* and tasks: the client (KvClient); the sharded service (Sharding, as     *)
(* Sh); the task that keeps a connection's ordering fit (ConnManager, as   *)
(* Mgr); the upgradable connection (UpgradeConn, as Up), whose calls are   *)
(* cancelled anywhere; and the connection with a datagram put back in      *)
(* front of it (InjectWithChannel, as In).                                 *)
(***************************************************************************)
EXTENDS KvClient, TLAPS

Constants == MaxSend \in Nat \ {0} /\ Cap \in Nat /\ Slots \in Nat /\ None \notin Rsp

\* The inductive invariant.  The maps of the two layers follow the position of a request:
\* `sends` and `sent` hold it until it was told, `inflight` until it was answered.
Types ==
    /\ pc \in [Req -> {"idle", "wait", "push", "recv", "done", "dropped"}]
    /\ n_sent \in [Req -> 0..MaxSend]
    /\ reqs \subseteq Req \X (1..MaxSend) /\ rsps \subseteq Rsp /\ store \in Val
    /\ sends \subseteq Req /\ done_tx \subseteq Req
    /\ got \in [Req -> Rsp \cup {None}] /\ recvs \in Seq(Rsp)
    /\ inflight \subseteq Req /\ sent \subseteq Req
    /\ DOMAIN answer = Req /\ panicked \in BOOLEAN
Fresh == \A r \in Req : pc[r] = "idle" =>
    n_sent[r] = 0 /\ answer[r] = None /\ r \notin sends \cup done_tx \cup inflight \cup sent
Holding == \A r \in Req : pc[r] = "push" => got[r] \in Rsp
Awaited == \A r \in sends : pc[r] \in {"wait", "push", "dropped"} /\ r \notin done_tx
Matched == \A r \in inflight : r \in sent \/ pc[r] \in {"recv", "dropped"}
Answered == \A r \in Req : answer[r] # None => r \notin inflight
Dropped == \A r \in Req : pc[r] = "dropped" => r \in MayDrop
IInv == Types /\ Fresh /\ Holding /\ Awaited /\ Matched /\ Answered /\ Dropped
        /\ NoPanic /\ ToldMeansQueued

-----------------------------------------------------------------------------

\* A client that has sent nothing.
LEMMA InitIInv ==
    ASSUME Constants, Init
    PROVE  IInv
  <1>1. Types
    <2>1. n_sent \in [Req -> 0..MaxSend]
      BY DEF Constants, Init
    <2>2. recvs \in Seq(Rsp) /\ store \in Val
      BY DEF Init, Val
    <2> QED
      BY <2>1, <2>2, Zenon DEF Init, Types
  <1>2. Fresh /\ Holding /\ Awaited /\ Matched /\ Answered /\ Dropped
    BY Zenon DEF Init, Fresh, Holding, Awaited, Matched, Answered, Dropped
  <1>3. NoPanic /\ ToldMeansQueued
    BY Zenon DEF Init, NoPanic, ToldMeansQueued
  <1> QED
    BY <1>1, <1>2, <1>3, Zenon DEF IInv

\* What is appended to the channel is in it, behind what was there.
LEMMA RangeAppend ==
    ASSUME NEW S, NEW s \in Seq(S), NEW x \in S
    PROVE  Append(s, x) \in Seq(S) /\ Range(Append(s, x)) = Range(s) \cup {x}
  <1>1. /\ Append(s, x) \in Seq(S) /\ Len(Append(s, x)) = Len(s) + 1
        /\ \A i \in 1..Len(s) : Append(s, x)[i] = s[i]
        /\ Append(s, x)[Len(s) + 1] = x
    OBVIOUS
  <1>2. /\ DOMAIN Append(s, x) = 1..(Len(s) + 1) /\ DOMAIN s = 1..Len(s) /\ Len(s) \in Nat
    BY <1>1
  <1>3. ASSUME NEW y \in Range(Append(s, x)) PROVE y \in Range(s) \cup {x}
    <2> PICK i \in 1..(Len(s) + 1) : y = Append(s, x)[i]
      BY <1>2, Zenon DEF Range
    <2> QED
      BY <1>1, <1>2 DEF Range
  <1>4. ASSUME NEW y \in Range(s) \cup {x} PROVE y \in Range(Append(s, x))
    <2>1. CASE y = x
      BY <1>1, <1>2, <2>1 DEF Range
    <2>2. CASE y \in Range(s)
      <3> PICK i \in 1..Len(s) : y = s[i]
        BY <1>2, <2>2, Zenon DEF Range
      <3> QED
        BY <1>1, <1>2 DEF Range
    <2> QED
      BY <2>1, <2>2, Zenon
  <1> QED
    BY <1>1, <1>3, <1>4, Zenon

\* What is in the channel is in the burst that is taken from it, or in what remains.
LEMMA RangeSplit ==
    ASSUME NEW S, NEW s \in Seq(S), NEW k \in 0..Len(s)
    PROVE  /\ SubSeq(s, k + 1, Len(s)) \in Seq(S)
           /\ \A x \in Range(s) : \/ \E i \in 1..k : SubSeq(s, 1, k)[i] = x
                                  \/ x \in Range(SubSeq(s, k + 1, Len(s)))
  <1> DEFINE rest == SubSeq(s, k + 1, Len(s))
  <1>1. /\ rest \in Seq(S) /\ Len(rest) = Len(s) - k /\ DOMAIN rest = 1..(Len(s) - k)
        /\ \A i \in 1..(Len(s) - k) : rest[i] = s[k + i]
    OBVIOUS
  <1>2. \A i \in 1..k : SubSeq(s, 1, k)[i] = s[i]
    OBVIOUS
  <1>3. ASSUME NEW x \in Range(s)
        PROVE  (\E i \in 1..k : SubSeq(s, 1, k)[i] = x) \/ x \in Range(rest)
    <2> PICK j \in 1..Len(s) : s[j] = x
      BY DEF Range
    <2>1. CASE j <= k
      BY <1>2, <2>1
    <2>2. CASE j > k
      <3>0. j - k \in 1..(Len(s) - k) /\ k + (j - k) = j
        BY <2>2
      <3>1. j - k \in 1..(Len(s) - k) /\ rest[j - k] = x
        BY <1>1, <3>0, Zenon
      <3> QED
        BY <1>1, <3>1, Zenon DEF Range
    <2> QED
      BY <2>1, <2>2
  <1> QED
    BY <1>1, <1>3, Zenon

-----------------------------------------------------------------------------

\* send_msg and the retransmission timer.
LEMMA SendIInv ==
    ASSUME Constants, IInv, NEW r \in Req, SendMsg(r) \/ Timeout(r)
    PROVE  IInv'
  <1>1. CASE SendMsg(r)
    <2>1. Types'
      BY <1>1 DEF SendMsg, Transmit, Goto, IInv, Types, Fresh, Constants
    <2> QED
      BY <1>1, <2>1 DEF SendMsg, Transmit, Goto, IInv, Types, Fresh, Holding, Awaited, Matched,
         Answered, Dropped, NoPanic, ToldMeansQueued
  <1>2. CASE Timeout(r)
    <2>1. Types'
      BY <1>2 DEF Timeout, Transmit, IInv, Types, network, matcher, Constants
    <2> QED
      BY <1>2, <2>1, Zenon DEF Timeout, Transmit, IInv, Types, Fresh, Holding, Awaited, Matched,
         Answered, Dropped, NoPanic, ToldMeansQueued, network, matcher
  <1> QED
    BY <1>1, <1>2, Zenon

\* A response is taken from below, then queued and its sender told, in this order.
LEMMA PushIInv ==
    ASSUME Constants, IInv, NEW r \in Req, Take(r) \/ Push(r)
    PROVE  IInv'
  <1>1. CASE Take(r)
    <2>1. Types' /\ Holding'
      BY <1>1 DEF Take, Goto, IInv, Types, Holding, matcher
    <2> QED
      BY <1>1, <2>1 DEF Take, Goto, IInv, Types, Fresh, Awaited, Matched, Answered, Dropped,
         NoPanic, ToldMeansQueued, matcher
  <1>2. CASE Push(r)
    <2> DEFINE id == got[r][1]
    <2>1. pc[r] = "push" /\ got[r] \in Rsp /\ id \in Req
      BY <1>2, Zenon DEF Push, IInv, Holding, Rsp
    <2>2. recvs' \in Seq(Rsp) /\ Range(recvs') = Range(recvs) \cup {got[r]}
      BY <1>2, <2>1, RangeAppend DEF Push, IInv, Types
    <2>3. /\ sends' = sends \ {id} /\ pc' = [pc EXCEPT ![r] = "wait"]
          /\ done_tx' = IF id \in sends /\ DoneRxAlive(id) THEN done_tx \cup {id} ELSE done_tx
          /\ panicked' = (panicked \/ (id \in sends /\ ~DoneRxAlive(id)))
          /\ got' = [got EXCEPT ![r] = None]
          /\ UNCHANGED <<n_sent, reqs, rsps, store, inflight, sent, answer>>
      BY <1>2, Zenon DEF Push, Signal, Goto, network, matcher
    <2>4. Types'
      BY <2>1, <2>2, <2>3, Zenon DEF IInv, Types
    <2>5. ToldMeansQueued'
      BY <2>1, <2>2, <2>3, Zenon DEF IInv, ToldMeansQueued
    <2>6. NoPanic'
      <3>1. id \in sends /\ ~DoneRxAlive(id) => pc[id] = "dropped" /\ id # r
        BY <2>1, Zenon DEF IInv, Awaited, DoneRxAlive, Sending
      <3>2. \A q \in Req : pc[q] = "dropped" => pc'[q] = "dropped"
        <4>1. pc \in [Req -> {"idle", "wait", "push", "recv", "done", "dropped"}]
          BY Zenon DEF IInv, Types
        <4> QED
          BY <2>1, <2>3, <4>1, Zenon
      <3>3. id \in sends /\ ~DoneRxAlive(id) => id \in MayDrop
        BY <2>1, <3>1, Zenon DEF IInv, Dropped
      <3>4. CASE panicked
        <4> PICK q \in MayDrop : pc[q] = "dropped"
          BY <3>4, Zenon DEF IInv, NoPanic
        <4>1. q # r
          BY <2>1, Zenon
        <4> QED
          BY <2>3, <4>1 DEF NoPanic, IInv, Types
      <3>5. CASE ~panicked
        BY <2>1, <2>3, <3>1, <3>2, <3>3, <3>5, Zenon DEF NoPanic
      <3> QED
        BY <3>4, <3>5, Zenon DEF IInv, Types
    <2>7. Fresh' /\ Holding' /\ Awaited' /\ Matched' /\ Answered' /\ Dropped'
      BY <2>1, <2>3 DEF IInv, Types, Fresh, Holding, Awaited, Matched, Answered, Dropped
    <2> QED
      BY <2>4, <2>5, <2>6, <2>7, Zenon DEF IInv
  <1> QED
    BY <1>1, <1>2

\* Who was told leaves KvReliability::send; recv_msg hands each response to its request.
LEMMA DispatchIInv ==
    ASSUME Constants, IInv, NEW r \in Req, SendReturns(r) \/ Dispatch(r) \/ RecvReturns(r)
    PROVE  IInv'
  <1>1. CASE SendReturns(r)
    <2>0. r \notin sends
      BY <1>1, Zenon DEF SendReturns, IInv, Awaited
    <2>1. Types' /\ r \notin sends
      BY <1>1, <2>0, Zenon DEF SendReturns, Goto, IInv, Types, network
    <2> QED
      BY <1>1, <2>1 DEF SendReturns, Goto, IInv, Types, Fresh, Holding, Awaited, Matched,
         Answered, Dropped, NoPanic, ToldMeansQueued, network
  <1>2. CASE Dispatch(r)
    <2> DEFINE k == IF Len(recvs) < Slots THEN Len(recvs) ELSE Slots
               batch == SubSeq(recvs, 1, k)
               owners == {batch[i][1] : i \in 1..k} \cap inflight
               rest == SubSeq(recvs, k + 1, Len(recvs))
    <2>1. /\ recvs' = rest /\ inflight' = inflight \ owners
          /\ answer' = [q \in Req |-> IF q \in owners /\ AnswerRxAlive(q)
                                      THEN First(batch, q) ELSE answer[q]]
          /\ panicked' = (panicked \/ \E q \in owners : ~AnswerRxAlive(q))
          /\ UNCHANGED <<pc, n_sent, reqs, rsps, store, sends, done_tx, got, sent>>
      BY <1>2, Zenon DEF Dispatch, network
    <2>2. k \in 0..Len(recvs)
      BY DEF Constants, IInv, Types
    <2>3. /\ rest \in Seq(Rsp)
          /\ \A x \in Range(recvs) : (\E i \in 1..k : batch[i] = x) \/ x \in Range(rest)
      BY <2>2, RangeSplit, Zenon DEF IInv, Types
    <2>4. /\ owners \subseteq inflight
          /\ \A i \in 1..k : batch[i][1] \in inflight => batch[i][1] \in owners
      BY Zenon
    <2> HIDE DEF k, batch, owners, rest
    <2>5. Types'
      BY <2>1, <2>3, Zenon DEF IInv, Types
    <2>6. ToldMeansQueued'
      <3> SUFFICES ASSUME NEW q \in done_tx, q \in inflight, q \notin owners
                   PROVE  \E m \in Range(rest) : m[1] = q
        BY <2>1, Zenon DEF ToldMeansQueued
      <3> PICK m \in Range(recvs) : m[1] = q
        BY Zenon DEF IInv, ToldMeansQueued
      <3> QED
        BY <2>3, <2>4, Zenon
    <2>7. NoPanic'
      <3>1. \A q \in owners : ~AnswerRxAlive(q) => q \in MayDrop /\ pc[q] = "dropped"
        BY <2>4, Zenon DEF IInv, Types, Matched, Dropped, AnswerRxAlive
      <3> QED
        BY <2>1, <3>1, Zenon DEF IInv, Types, NoPanic
    <2>8. Fresh' /\ Answered'
      BY <2>1, <2>4, Zenon DEF IInv, Types, Fresh, Answered
    <2>9. Holding' /\ Awaited' /\ Matched' /\ Dropped'
      BY <2>1, Zenon DEF IInv, Types, Holding, Awaited, Matched, Dropped
    <2> QED
      BY <2>5, <2>6, <2>7, <2>8, <2>9, Zenon DEF IInv
  <1>3. CASE RecvReturns(r)
    <2>1. Types' /\ r \notin inflight
      BY <1>3, Zenon DEF RecvReturns, Goto, IInv, Types, Answered, network, matcher
    <2> QED
      BY <1>3, <2>1 DEF RecvReturns, Goto, IInv, Types, Fresh, Holding, Awaited, Matched,
         Answered, Dropped, NoPanic, ToldMeansQueued, network, matcher
  <1> QED
    BY <1>1, <1>2, <1>3, Zenon

\* A request is abandoned.
LEMMA DropIInv ==
    ASSUME Constants, IInv, NEW r \in Req, Drop(r)
    PROVE  IInv'
  <1>1. Types'
    BY Zenon DEF Drop, Goto, IInv, Types, network, matcher
  <1> QED
    BY <1>1 DEF Drop, Goto, IInv, Types, Fresh, Holding, Awaited, Matched, Answered, Dropped,
       NoPanic, ToldMeansQueued, network, matcher

\* The network and the server touch nothing of the client.
LEMMA NetworkIInv ==
    ASSUME Constants, IInv,
           (\E q \in reqs : Call(q) \/ LoseReq(q)) \/ (\E m \in rsps : LoseRsp(m))
    PROVE  IInv'
  <1>1. UNCHANGED <<pc, n_sent, sends, done_tx, got, recvs, inflight, sent, answer, panicked>>
    BY Zenon DEF Call, LoseReq, LoseRsp, matcher
  <1>2. reqs' \subseteq Req \X (1..MaxSend) /\ rsps' \subseteq Rsp /\ store' \in Val
    BY DEF Call, LoseReq, LoseRsp, IInv, Types, Rsp, Val
  <1> QED
    BY <1>1, <1>2, Zenon DEF IInv, Types, Fresh, Holding, Awaited, Matched, Answered, Dropped,
       NoPanic, ToldMeansQueued

\* Every step preserves the invariant.
LEMMA NextIInv ==
    ASSUME Constants, IInv, [Next]_vars
    PROVE  IInv'
  <1>1. CASE UNCHANGED vars
    BY <1>1, Zenon DEF vars, IInv, Types, Fresh, Holding, Awaited, Matched, Answered, Dropped,
       NoPanic, ToldMeansQueued
  <1>2. CASE Next
    BY <1>2, SendIInv, PushIInv, DispatchIInv, DropIInv, NetworkIInv, Zenon DEF Next, Task
  <1> QED
    BY <1>1, <1>2, Zenon

-----------------------------------------------------------------------------

\* The .expect()s of KvReliability and MsgIdMatcher hold for late, repeated and misdelivered
\* responses, as long as no request is abandoned (reliability.rs:171, util.rs:77).
THEOREM ExpectsHold ==
    ASSUME Constants
    PROVE  Spec => []NoPanic
  <1>1. IInv => NoPanic
    BY Zenon DEF IInv
  <1> QED
    BY <1>1, InitIInv, NextIInv, PTL DEF Spec

\* A request that leaves KvReliability::send finds its response in the channel, whoever
\* received it and whatever else is queued, until a task dispatches it (reliability.rs:166-171).
THEOREM ToldIsQueued ==
    ASSUME Constants
    PROVE  Spec => []ToldMeansQueued
  <1>1. IInv => ToldMeansQueued
    BY Zenon DEF IInv
  <1> QED
    BY <1>1, InitIInv, NextIInv, PTL DEF Spec

-----------------------------------------------------------------------------
(* Sharding, as Sh, for any clients and keys *)

CONSTANTS Client, Direct, Key, Raw, OFFSET, MayFail, IdleExit, MaxReq
VARIABLES redis, srv, todo, failed, known, plan, inbox, direct, fwd, served, answered
Sh == INSTANCE Sharding

\* A client whose reply was sent, and whose `picked` met no error, is known to every shard;
\* while `picked` runs, to those it has heard from.
Heard == \A c \in Client \ failed :
             /\ plan[c] # "none" => \A s \in Sh!Shard : c \in known[s]
             /\ srv[c] = "nonces" => \A s \in Sh!Shard : s \in todo[c] \/ c \in known[s]

\* The types of what Heard speaks of.
Setup == /\ srv \in [Client -> {"none", "picked", "nonces", "connect", "serve", "wait", "closed"}]
         /\ todo \in [Client -> SUBSET Sh!Shard]
         /\ known \in [Sh!Shard -> SUBSET Client]
         /\ plan \in [Client -> {"none", "query", "direct", "canonical", "failed"}]

\* What a step of `picked`, or of the client, does to what Heard speaks of.
LEMMA HeardKept == Setup /\ Heard /\ [Sh!Next]_Sh!vars => Setup' /\ Heard'
<1> SUFFICES ASSUME Setup, Heard, [Sh!Next]_Sh!vars PROVE Setup' /\ Heard'
    BY Zenon
<1>1. CASE UNCHANGED Sh!vars
    BY <1>1, Zenon DEF Sh!vars, Setup, Heard
<1>2. ASSUME NEW c \in Client, Sh!Insert(c) PROVE Setup' /\ Heard'
    BY <1>2, Zenon DEF Sh!Insert, Sh!Srv, Setup, Heard
<1>3. ASSUME NEW c \in Client, Sh!InsertFails(c) PROVE Setup' /\ Heard'
    BY <1>3, Zenon DEF Sh!InsertFails, Sh!Srv, Setup, Heard
<1>4. ASSUME NEW c \in Client, NEW s \in Sh!Shard, Sh!Nonce(c, s) PROVE Setup' /\ Heard'
    BY <1>4 DEF Sh!Nonce, Setup, Heard
<1>5. ASSUME NEW c \in Client, NEW s \in Sh!Shard, Sh!NonceFails(c, s) PROVE Setup' /\ Heard'
    BY <1>5, Zenon DEF Sh!NonceFails, Setup, Heard
<1>6. ASSUME NEW c \in Client, Sh!Reply(c) PROVE Setup' /\ Heard'
    BY <1>6, Zenon DEF Sh!Reply, Sh!Srv, Sh!setup, Setup, Heard
<1>7. ASSUME NEW c \in Client, Sh!Offer(c) \/ Sh!Connect(c) \/ Sh!Forward(c) \/ Sh!Return(c)
      PROVE Setup' /\ Heard'
    BY <1>7 DEF Sh!Offer, Sh!Connect, Sh!Forward, Sh!Return, Sh!Srv, Sh!setup, Setup, Heard
<1>8. ASSUME NEW c \in Client, Sh!ConnectFails(c) \/ Sh!Timeout(c) \/ Sh!ForwardPanics(c)
      PROVE Setup' /\ Heard'
    BY <1>8 DEF Sh!ConnectFails, Sh!Timeout, Sh!ForwardPanics, Sh!Srv, Sh!setup, Setup, Heard
<1>9. ASSUME NEW c \in Client,
             Sh!Query(c) \/ Sh!QueryFails(c) \/ \E k \in Key : Sh!SendPanics(c, k)
      PROVE Setup' /\ Heard'
    BY <1>9, Zenon DEF Sh!Query, Sh!QueryFails, Sh!SendPanics, Sh!setup, Setup, Heard
<1>10. ASSUME NEW c \in Client, Sh!Discard(c) \/ (\E k \in Key : Sh!Send(c, k))
                                \/ (\E s \in Sh!Shard : Sh!ShardRecv(c, s))
       PROVE Setup' /\ Heard'
    <2>1. UNCHANGED <<Sh!setup, srv, plan>>
        BY <1>10, Zenon DEF Sh!Discard, Sh!Send, Sh!ShardRecv
    <2> QED
        BY <2>1, Zenon DEF Sh!setup, Setup, Heard
<1> QED
    BY <1>1, <1>2, <1>3, <1>4, <1>5, <1>6, <1>7, <1>8, <1>9, <1>10, Zenon DEF Sh!Next,
       Sh!ServerStep, Sh!ClientStep, Sh!Fault

\* A client that shards by itself is expected by every shard before it can send there, for
\* any set of clients and however the offers, the nonces and their failures interleave.
THEOREM DirectClientsAreExpected == Sh!Spec => []Sh!DirectIsExpected
<1>1. Sh!Init => Setup /\ Heard
    BY DEF Sh!Init, Setup, Heard
<1>2. Setup /\ Heard => Sh!DirectIsExpected
    BY Zenon DEF Heard, Sh!DirectIsExpected
<1> QED
    BY <1>1, <1>2, HeardKept, PTL DEF Sh!Spec

-----------------------------------------------------------------------------
\* What both sides compute from the key: a request is <<client, number, key>>.
Home(k) == Sh!Hash(k) % Sh!NumShards
Asked == Client \X Nat \X Key

\* A raw server, whose keys have the four bytes that are hashed, looks for them where bincode
\* puts them: behind the id, the operation and the key's length.
KeysAreBytes == \A k \in Key : k \in Seq(Nat)
OffsetFits == Raw => OFFSET = 20 /\ \A k \in Key : ~Sh!TooShort(k)

\* The requests whose shard can be computed, which are those that reach one.
Hashed == {m \in Asked : ~Sh!TooShort(m[3])}

\* Requests wait, and were executed, where their key belongs.
Queues ==
    /\ direct \in [Client -> [Sh!Shard -> Seq(Hashed)]]
    /\ inbox \in [Client -> Seq(Asked)]
    /\ fwd \in [Client -> Hashed \cup {Sh!None}]
    /\ sent \in [Client -> Nat]
    /\ served \in [Sh!Shard -> SUBSET Hashed]
AtHome ==
    /\ \A c \in Client : \A s \in Sh!Shard : \A i \in 1..Len(direct[c][s]) :
          Home(direct[c][s][i][3]) = s
    /\ \A s \in Sh!Shard : \A m \in served[s] : Home(m[3]) = s

\* What stands behind a header.
LEMMA Behind ==
    ASSUME NEW a \in Seq(Nat), NEW k \in Seq(Nat)
    PROVE  /\ a \o k \in Seq(Nat)
           /\ Len(a \o k) = Len(a) + Len(k)
           /\ \A i \in (Len(a) + 1)..(Len(a) + Len(k)) : (a \o k)[i] = k[i - Len(a)]
OBVIOUS

\* The bytes that the raw server hashes are the key's.
LEMMA BehindHeader ==
    ASSUME NEW a \in Seq(Nat), Len(a) = 20, NEW k \in Seq(Nat), Len(k) >= 4
    PROVE  Sh!Hash(SubSeq(a \o k, 21, 24)) = Sh!Hash(k)
<1> DEFINE s == a \o k
           w == SubSeq(s, 21, 24)
           n == Len(a)
<1>1. /\ s \in Seq(Nat) /\ Len(s) = n + Len(k)
      /\ \A i \in (n + 1)..(n + Len(k)) : s[i] = k[i - n]
    BY Behind, Zenon
<1>2. n = 20
    BY Zenon
<1> HIDE DEF s, n
<1>3. s[21] = k[1] /\ s[22] = k[2] /\ s[23] = k[3] /\ s[24] = k[4]
    <2>1. {21, 22, 23, 24} \subseteq (n + 1)..(n + Len(k))
        BY <1>2
    <2>2. s[21] = k[21 - n] /\ s[22] = k[22 - n] /\ s[23] = k[23 - n] /\ s[24] = k[24 - n]
        BY <1>1, <2>1, Zenon
    <2>3. 21 - n = 1 /\ 22 - n = 2 /\ 23 - n = 3 /\ 24 - n = 4
        BY <1>2
    <2> QED
        BY <2>2, <2>3, Zenon
<1>4. w[1] = s[21] /\ w[2] = s[22] /\ w[3] = s[23] /\ w[4] = s[24]
    BY <1>1, <1>2
<1> HIDE DEF w
<1>5. Sh!Hash(w) = Sh!Hash(k)
    BY <1>3, <1>4, Zenon DEF Sh!Hash
<1> QED
    BY <1>5, Zenon DEF s, w

\* The client's index into its list, and the server's, are those of the key's shard.
LEMMA SameShard ==
    ASSUME KeysAreBytes, OffsetFits, NEW m \in Hashed
    PROVE  /\ Home(m[3]) \in Sh!Shard
           /\ Sh!ClientShardFn(m) = Home(m[3])
           /\ Sh!ServerShardFn(m) = Home(m[3])
<1> DEFINE k == m[3]
<1>1. k \in Key /\ m[2] \in Nat /\ ~Sh!TooShort(k)
    BY Zenon DEF Hashed, Asked
<1> HIDE DEF k
<1>11. k \in Seq(Nat) /\ Len(k) >= 4
    BY <1>1 DEF KeysAreBytes, Sh!TooShort
<1>2. \A i \in 1..4 : k[i] \in Nat
    BY <1>11
<1>3. Sh!Hash(k) \in 0..1
    BY <1>2 DEF Sh!Hash
<1>4. Home(k) \in Sh!Shard /\ Home(k) = Sh!Hash(k)
    BY <1>3 DEF Home, Sh!Shard, Sh!NumShards
<1>5. Sh!ClientShardFn(m) = Home(m[3])
    BY <1>3, <1>4 DEF Sh!ClientShardFn, Sh!NumShards, k
<1>6. Sh!ServerShardFn(m) = Home(m[3])
    <2>1. CASE ~Raw
        BY <2>1, Zenon DEF Sh!ServerShardFn, Home
    <2>2. CASE Raw
        <3> DEFINE a == <<m[2], 0, 0, 0, 0, 0, 0, 0>> \o <<0, 0, 0, 0>>
                            \o <<Len(m[3]), 0, 0, 0, 0, 0, 0, 0>>
        <3>1. a \in Seq(Nat) /\ Len(a) = 20
            BY <1>1
        <3>2. Sh!Hash(SubSeq(a \o k, 21, 24)) = Sh!Hash(k)
            <4> HIDE DEF a
            <4> QED
                BY <1>11, <3>1, BehindHeader
        <3>3. OFFSET + 1 = 21 /\ OFFSET + 4 = 24
            BY <2>2 DEF OffsetFits
        <3> QED
            BY <2>2, <3>2, <3>3, Zenon DEF Sh!ServerShardFn, Sh!Encoded, Home, k
    <2> QED
        BY <2>1, <2>2, Zenon
<1> QED
    BY <1>4, <1>5, <1>6, Zenon DEF k

\* Executing a request at its shard keeps the executed requests where they belong.
LEMMA ExecutedAtHome ==
    ASSUME KeysAreBytes, OffsetFits, Queues, AtHome, NEW m \in Hashed, NEW s \in Sh!Shard,
           s = Home(m[3]), served' = [served EXCEPT ![s] = @ \cup {m}]
    PROVE  /\ served' \in [Sh!Shard -> SUBSET Hashed]
           /\ \A t \in Sh!Shard : \A n \in served'[t] : Home(n[3]) = t
<1>1. served \in [Sh!Shard -> SUBSET Hashed]
    BY Zenon DEF Queues
<1>2. \A t \in Sh!Shard : \A n \in served[t] : Home(n[3]) = t
    BY Zenon DEF AtHome
<1> QED
    BY <1>1, <1>2

\* Every step puts requests, and executes them, where they belong.
LEMMA HomeKept ==
    ASSUME KeysAreBytes, OffsetFits, Queues, AtHome, [Sh!Next]_Sh!vars
    PROVE  Queues' /\ AtHome'
<1> DEFINE Goal == Queues' /\ AtHome'
<1> SUFFICES Goal
    BY Zenon
<1>0. /\ direct \in [Client -> [Sh!Shard -> Seq(Hashed)]]
      /\ inbox \in [Client -> Seq(Asked)]
      /\ fwd \in [Client -> Hashed \cup {Sh!None}]
      /\ sent \in [Client -> Nat]
      /\ served \in [Sh!Shard -> SUBSET Hashed]
    BY Zenon DEF Queues
<1>01. /\ \A c \in Client : \A s \in Sh!Shard : \A i \in 1..Len(direct[c][s]) :
             Home(direct[c][s][i][3]) = s
       /\ \A s \in Sh!Shard : \A m \in served[s] : Home(m[3]) = s
    BY Zenon DEF AtHome
<1>1. CASE UNCHANGED <<direct, inbox, fwd, sent, served>>
    BY <1>1, Zenon DEF Queues, AtHome
<1>2. ASSUME NEW c \in Client, NEW k \in Key, Sh!Send(c, k) PROVE Goal
    <2> DEFINE m == <<c, sent[c] + 1, k>>
    <2>1. m \in Asked /\ m[3] = k
        BY <1>0 DEF Asked
    <2>2. sent' \in [Client -> Nat] /\ fwd' = fwd /\ served' = served
        BY <1>0, <1>2 DEF Sh!Send
    <2>3. CASE plan[c] = "direct"
        <3> DEFINE h == Sh!ClientShardFn(m)
        <3>0. m \in Hashed
            BY <1>2, <2>1, <2>3, Zenon DEF Sh!Send, Hashed
        <3>1. h \in Sh!Shard /\ h = Home(m[3])
            BY <3>0, SameShard, Zenon
        <3>2. direct' = [direct EXCEPT ![c][h] = Append(@, m)] /\ inbox' = inbox
            BY <1>2, <2>3, Zenon DEF Sh!Send
        <3> HIDE DEF h, m
        <3>3. direct' \in [Client -> [Sh!Shard -> Seq(Hashed)]]
            BY <1>0, <3>0, <3>1, <3>2
        <3>4. ASSUME NEW d \in Client, NEW s \in Sh!Shard, NEW i \in 1..Len(direct'[d][s])
              PROVE  Home(direct'[d][s][i][3]) = s
            <4>1. CASE d = c /\ s = h
                <5>1. direct'[d][s] = Append(direct[c][h], m) /\ direct[c][h] \in Seq(Hashed)
                    BY <1>0, <3>1, <3>2, <4>1, Zenon
                <5>2. \A j \in 1..Len(direct[c][h]) : Home(direct[c][h][j][3]) = s
                    BY <1>01, <3>1, <4>1, Zenon
                <5>3. CASE i = Len(direct[c][h]) + 1
                    BY <5>1, <5>3, <3>0, <3>1, <4>1
                <5>4. CASE i \in 1..Len(direct[c][h])
                    BY <5>1, <5>2, <5>4
                <5> QED
                    BY <5>1, <5>3, <5>4
            <4>2. CASE ~(d = c /\ s = h)
                <5>1. direct'[d][s] = direct[d][s]
                    BY <1>0, <3>1, <3>2, <4>2, Zenon
                <5> QED
                    BY <5>1, <1>01, Zenon
            <4> QED
                BY <4>1, <4>2, Zenon
        <3> QED
            BY <1>0, <1>01, <2>2, <3>2, <3>3, <3>4, Zenon DEF Queues, AtHome
    <2>4. CASE plan[c] # "direct"
        <3>1. inbox' = [inbox EXCEPT ![c] = Append(@, m)] /\ direct' = direct
            BY <1>2, <2>4, Zenon DEF Sh!Send
        <3> HIDE DEF m
        <3>2. inbox' \in [Client -> Seq(Asked)]
            BY <1>0, <2>1, <3>1
        <3> QED
            BY <1>0, <1>01, <2>2, <3>1, <3>2, Zenon DEF Queues, AtHome
    <2> QED
        BY <2>3, <2>4, Zenon
<1>3. ASSUME NEW c \in Client, NEW s \in Sh!Shard, Sh!ShardRecv(c, s) PROVE Goal
    <2> DEFINE q == direct[c][s]
               m == Head(q)
    <2>1. q \in Seq(Hashed) /\ q # <<>> /\ inbox' = inbox /\ fwd' = fwd /\ sent' = sent
        BY <1>0, <1>3, Zenon DEF Sh!ShardRecv
    <2>2. \A i \in 1..Len(q) : Home(q[i][3]) = s
        BY <1>01, Zenon
    <2>3. direct' = [direct EXCEPT ![c][s] = Tail(q)]
        BY <1>3, Zenon DEF Sh!ShardRecv
    <2>4. served' = [served EXCEPT ![s] = @ \cup {m}] \/ served' = served
        BY <1>3, Zenon DEF Sh!ShardRecv
    <2> HIDE DEF q
    <2>5. m \in Hashed /\ Home(m[3]) = s
        BY <2>1, <2>2
    <2>6. Tail(q) \in Seq(Hashed) /\ \A i \in 1..Len(Tail(q)) : Home(Tail(q)[i][3]) = s
        BY <2>1, <2>2
    <2> HIDE DEF m
    <2>7. /\ served' \in [Sh!Shard -> SUBSET Hashed]
          /\ \A t \in Sh!Shard : \A n \in served'[t] : Home(n[3]) = t
        BY <1>0, <1>01, <2>4, <2>5, ExecutedAtHome, Zenon
    <2>8. /\ direct' \in [Client -> [Sh!Shard -> Seq(Hashed)]]
          /\ \A d \in Client : \A t \in Sh!Shard :
                direct'[d][t] = IF d = c /\ t = s THEN Tail(q) ELSE direct[d][t]
        BY <1>0, <2>3, <2>6, Zenon
    <2>9. \A d \in Client : \A t \in Sh!Shard : \A i \in 1..Len(direct'[d][t]) :
             Home(direct'[d][t][i][3]) = t
        <3> SUFFICES ASSUME NEW d \in Client, NEW t \in Sh!Shard, NEW i \in 1..Len(direct'[d][t])
                     PROVE  Home(direct'[d][t][i][3]) = t
            BY Zenon
        <3>1. CASE d = c /\ t = s
            BY <2>6, <2>8, <3>1, Zenon
        <3>2. CASE ~(d = c /\ t = s)
            <4>1. direct'[d][t] = direct[d][t]
                BY <2>8, <3>2, Zenon
            <4> QED
                BY <4>1, <1>01, Zenon
        <3> QED
            BY <3>1, <3>2, Zenon
    <2> QED
        BY <1>0, <2>1, <2>7, <2>8, <2>9, Zenon DEF Queues, AtHome
<1>4. ASSUME NEW c \in Client, Sh!Forward(c) \/ Sh!ForwardPanics(c) \/ Sh!Discard(c)
      PROVE Goal
    <2>1. inbox[c] \in Seq(Asked) /\ inbox[c] # <<>> /\ inbox' = [inbox EXCEPT ![c] = Tail(@)]
        BY <1>0, <1>4, Zenon DEF Sh!Forward, Sh!ForwardPanics, Sh!Discard
    <2>2. Head(inbox[c]) \in Asked /\ Tail(inbox[c]) \in Seq(Asked)
        BY <2>1
    <2>3. UNCHANGED <<direct, sent, served>>
        BY <1>4, Zenon DEF Sh!Forward, Sh!ForwardPanics, Sh!Discard
    <2>4. inbox' \in [Client -> Seq(Asked)]
        BY <1>0, <2>1, <2>2, Zenon
    <2>5. Sh!Forward(c) => Head(inbox[c]) \in Hashed
        BY <2>2, Zenon DEF Sh!Forward, Hashed, Asked, OffsetFits
    <2>6. fwd' \in [Client -> Hashed \cup {Sh!None}]
        BY <1>0, <1>4, <2>5, Zenon DEF Sh!Forward, Sh!ForwardPanics, Sh!Discard
    <2> QED
        BY <1>0, <1>01, <2>3, <2>4, <2>6, Zenon DEF Queues, AtHome
<1>5. ASSUME NEW c \in Client, Sh!Return(c) \/ Sh!Timeout(c) \/ Sh!ConnectFails(c) PROVE Goal
    <2>1. UNCHANGED <<direct, inbox, sent>>
        BY <1>5, Zenon DEF Sh!Return, Sh!Timeout, Sh!ConnectFails
    <2>2. fwd' \in [Client -> Hashed \cup {Sh!None}]
        BY <1>0, <1>5, Zenon DEF Sh!Return, Sh!Timeout, Sh!ConnectFails
    <2>3. \/ served' = served
          \/ /\ fwd[c] \in Hashed
             /\ served' = [served EXCEPT ![Sh!ServerShardFn(fwd[c])] = @ \cup {fwd[c]}]
        BY <1>0, <1>5, Zenon DEF Sh!Return, Sh!Timeout, Sh!ConnectFails
    <2>4. /\ served' \in [Sh!Shard -> SUBSET Hashed]
          /\ \A t \in Sh!Shard : \A n \in served'[t] : Home(n[3]) = t
        BY <1>0, <1>01, <2>3, SameShard, ExecutedAtHome, ZenonT(30)
    <2> QED
        BY <1>0, <1>01, <2>1, <2>2, <2>4, Zenon DEF Queues, AtHome
<1>6. ASSUME NEW c \in Client,
             \/ Sh!Offer(c) \/ Sh!Insert(c) \/ Sh!InsertFails(c) \/ Sh!Reply(c) \/ Sh!Connect(c)
             \/ Sh!Query(c) \/ Sh!QueryFails(c) \/ \E k \in Key : Sh!SendPanics(c, k)
             \/ \E s \in Sh!Shard : Sh!Nonce(c, s) \/ Sh!NonceFails(c, s)
      PROVE  UNCHANGED <<direct, inbox, fwd, sent, served>>
    BY <1>6, Zenon DEF Sh!Offer, Sh!Insert, Sh!InsertFails, Sh!Reply, Sh!Connect, Sh!Query,
       Sh!QueryFails, Sh!SendPanics, Sh!Nonce, Sh!NonceFails
<1>7. CASE UNCHANGED Sh!vars
    BY <1>1, <1>7, Zenon DEF Sh!vars
<1> HIDE DEF Goal
<1> QED
    BY <1>1, <1>2, <1>3, <1>4, <1>5, <1>6, <1>7, Zenon DEF Sh!Next, Sh!ServerStep, Sh!ClientStep,
       Sh!Fault

\* Requests on one key are executed by one shard, whoever sent them and by either way, for
\* any clients and keys, if a raw server's OFFSET is that of the key in the encoding and its
\* keys have the four bytes that are hashed.
THEOREM KeysHaveOneShard ==
    ASSUME KeysAreBytes, OffsetFits PROVE Sh!Spec => []Sh!OneShardPerKey
<1>1. Sh!Init => Queues /\ AtHome
    BY DEF Sh!Init, Queues, AtHome
<1>2. Queues /\ AtHome => Sh!OneShardPerKey
    BY DEF AtHome, Sh!OneShardPerKey
<1>3. Queues /\ AtHome /\ [Sh!Next]_Sh!vars => Queues' /\ AtHome'
    BY HomeKept, Zenon
<1> QED
    BY <1>1, <1>2, <1>3, PTL DEF Sh!Spec

-----------------------------------------------------------------------------
(* ConnManager, as Mgr, for any participants and changes *)

CONSTANTS KafkaOffered, MaxNp, MaxEvents, Remote
VARIABLES stack, pending, current, changed, polled, watcher, np, np_new, trans, want, monitor,
          ids, events, missed, replaced, skipped
Mgr == INSTANCE ConnManager

\* The state shown is that of the connection, or its change waits to be read, or was made by
\* another thread before gcp_changed was first polled, whatever the participants, the monitor
\* and the connection's users do.
THEOREM StateIsShown == Mgr!Spec => []Mgr!StateShown
<1>1. Mgr!Init => Mgr!StateShown
    BY Zenon DEF Mgr!Init, Mgr!StateShown
<1>2. Mgr!StateShown /\ [Mgr!Next]_Mgr!vars => Mgr!StateShown'
    <2> SUFFICES ASSUME Mgr!StateShown, [Mgr!Next]_Mgr!vars PROVE Mgr!StateShown'
        BY Zenon
    <2>1. CASE UNCHANGED <<current, changed, watcher, missed>>
        BY <2>1, Zenon DEF Mgr!StateShown, Mgr!ConnState
    <2>2. CASE Mgr!PollChanged
        BY <2>2, Zenon DEF Mgr!PollChanged, Mgr!StateShown, Mgr!ConnState
    <2>3. CASE Mgr!GcpChanged
        BY <2>3, Zenon DEF Mgr!GcpChanged, Mgr!Shown, Mgr!StateShown, Mgr!ConnState
    <2>4. CASE Mgr!Upgrade
        BY <2>4, Zenon DEF Mgr!Upgrade, Mgr!ghosts, Mgr!StateShown, Mgr!ConnState
    <2>5. CASE Mgr!UpgradeInner
        BY <2>5, Zenon DEF Mgr!UpgradeInner, Mgr!StateShown
    <2>6. ASSUME \/ Mgr!Participants \/ Mgr!RemoteTransition \/ Mgr!Take \/ Mgr!Commit
                 \/ Mgr!ParticipantsChanged
                 \/ Mgr!PollTransition \/ Mgr!TransitionDone \/ UNCHANGED Mgr!vars
          PROVE  UNCHANGED <<current, changed, watcher, missed>>
        BY <2>6, Zenon DEF Mgr!Participants, Mgr!RemoteTransition, Mgr!Take, Mgr!Commit,
           Mgr!ParticipantsChanged, Mgr!PollTransition, Mgr!TransitionDone, Mgr!vars, Mgr!conn,
           Mgr!ghosts
    <2> QED
        BY <2>1, <2>2, <2>3, <2>4, <2>5, <2>6, Zenon DEF Mgr!Next
<1> QED
    BY <1>1, <1>2, PTL DEF Mgr!Spec

-----------------------------------------------------------------------------
\* Where the newest transition is: none is under way; it was made; its request is in the queue;
\* the monitor has it; it was answered.
Newest(st) == /\ trans = [st |-> st, side |-> trans.side, id |-> ids] /\ ids > 0
              /\ trans.side = Mgr!Preferred(np) \/ np_new
Request == [side |-> trans.side, id |-> ids]
IsFree == trans = Mgr!NoTrans /\ want = <<>> /\ monitor = Mgr!Idle
IsNewest == Newest("new") /\ want = <<>> /\ monitor = Mgr!Idle
IsQueued == Newest("sent") /\ want = <<Request>> /\ monitor = Mgr!Idle
IsTaken == Newest("sent") /\ want = <<>> /\ monitor = Request
IsAnswered == Newest("done") /\ want = <<>> /\ monitor = Mgr!Idle

\* The inductive invariant: as long as no transition that waits was dropped, there is one at a
\* time, the newest one, which waits for its answer.
OneAsked == ~panicked /\ (IsFree \/ IsNewest \/ IsQueued \/ IsTaken \/ IsAnswered)
AskedInv == ids \in Nat /\ (replaced \/ OneAsked)

\* The monitor moves the newest transition on: it takes its request, ...
LEMMA TakeKept == ASSUME ids \in Nat, OneAsked, Mgr!Take PROVE OneAsked'
<1>1. IsQueued
    BY Zenon DEF Mgr!Take, OneAsked, IsFree, IsNewest, IsTaken, IsAnswered
<1>2. Head(want) = Request /\ Mgr!Waits(Head(want).id)
    BY <1>1 DEF IsQueued, Newest, Mgr!Waits, Request
<1>3. /\ UNCHANGED <<np, np_new, ids>> /\ want' = <<>>
      /\ ~panicked /\ monitor = Mgr!Idle
    BY Zenon DEF Mgr!Take
<1>4. CASE current = "none"
    <2>1. ~panicked' /\ trans' = [trans EXCEPT !.st = "done"] /\ monitor' = monitor
        BY <1>2, <1>4, Zenon DEF Mgr!Take, Mgr!Answer
    <2>2. IsAnswered'
        BY <1>1, <1>3, <2>1 DEF IsQueued, IsAnswered, Newest
    <2> QED
        BY <2>1, <2>2, Zenon DEF OneAsked
<1>5. CASE current # "none"
    <2>1. monitor' = Request /\ UNCHANGED <<trans, panicked>>
        BY <1>2, <1>5, Zenon DEF Mgr!Take
    <2>2. IsTaken'
        BY <1>1, <1>3, <2>1, Zenon DEF IsQueued, IsTaken, Newest, Request
    <2> QED
        BY <1>3, <2>1, <2>2, Zenon DEF OneAsked
<1> QED
    BY <1>4, <1>5, Zenon

\* ... and answers the one who waits.
LEMMA CommitKept == ASSUME ids \in Nat, OneAsked, Mgr!Commit PROVE OneAsked'
<1>1. IsTaken
    BY Zenon DEF Mgr!Commit, OneAsked, IsFree, IsNewest, IsQueued, IsAnswered
<1>2. monitor = Request /\ Mgr!Waits(monitor.id)
    BY <1>1 DEF IsTaken, Newest, Mgr!Waits, Request
<1>3. UNCHANGED <<np, np_new, want, ids>> /\ monitor' = Mgr!Idle /\ want = <<>>
    BY <1>1 DEF Mgr!Commit, IsTaken
<1>4. ~panicked' /\ trans' = [trans EXCEPT !.st = "done"]
    BY <1>2, Zenon DEF Mgr!Commit, Mgr!Answer
<1>5. IsAnswered'
    BY <1>1, <1>3, <1>4 DEF IsTaken, IsAnswered, Newest
<1> QED
    BY <1>4, <1>5, Zenon DEF OneAsked

\* The manager makes a transition, unless that drops one that waits, polls it, and finishes it.
LEMMA ManagerKept ==
    ASSUME ids \in Nat, OneAsked, ~replaced',
           Mgr!ParticipantsChanged \/ Mgr!PollTransition \/ Mgr!TransitionDone
    PROVE  OneAsked'
<1>1. Mgr!NoTrans.st = "none" /\ ~panicked
    BY Zenon DEF OneAsked, Mgr!NoTrans
<1>2. CASE Mgr!ParticipantsChanged
    <2>0. trans.st # "sent"
        BY <1>2, Zenon DEF Mgr!ParticipantsChanged
    <2>1. want = <<>> /\ monitor = Mgr!Idle
        BY <2>0 DEF OneAsked, IsFree, IsNewest, IsQueued, IsTaken, IsAnswered, Newest
    <2>2. IsNewest'
        BY <1>2, <2>1 DEF Mgr!ParticipantsChanged, IsNewest, Newest
    <2> QED
        BY <1>1, <1>2, <2>2, Zenon DEF Mgr!ParticipantsChanged, OneAsked
<1>3. CASE Mgr!PollTransition
    <2>1. IsNewest
        BY <1>1, <1>3 DEF Mgr!PollTransition, OneAsked, IsFree, IsQueued, IsTaken, IsAnswered,
           Newest
    <2>2. IsFree' \/ IsQueued'
        BY <1>3, <2>1 DEF Mgr!PollTransition, IsNewest, IsFree, IsQueued, Newest, Request
    <2> QED
        BY <1>1, <1>3, <2>2, Zenon DEF Mgr!PollTransition, OneAsked
<1>4. CASE Mgr!TransitionDone
    <2>1. IsAnswered
        BY <1>1, <1>4 DEF Mgr!TransitionDone, OneAsked, IsFree, IsQueued, IsTaken, IsNewest,
           Newest
    <2>2. IsFree'
        BY <1>4, <2>1, Zenon DEF Mgr!TransitionDone, IsAnswered, IsFree
    <2> QED
        BY <1>1, <1>4, <2>2, Zenon DEF Mgr!TransitionDone, OneAsked
<1> QED
    BY <1>2, <1>3, <1>4, Zenon

\* The participants change, and every other step leaves the transition where it is.
LEMMA OthersKept ==
    ASSUME OneAsked, \/ Mgr!Participants \/ Mgr!RemoteTransition \/ Mgr!Upgrade
                     \/ Mgr!UpgradeInner \/ Mgr!PollChanged \/ Mgr!GcpChanged
                     \/ UNCHANGED Mgr!vars
    PROVE  OneAsked'
<1>1. UNCHANGED <<trans, want, monitor, ids, panicked>> /\ (np_new' \/ UNCHANGED <<np, np_new>>)
    BY Zenon DEF Mgr!Participants, Mgr!RemoteTransition, Mgr!PollChanged, Mgr!GcpChanged,
       Mgr!Upgrade, Mgr!UpgradeInner, Mgr!vars
<1>2. \A st \in {"new", "sent", "done"} : Newest(st) => Newest(st)'
    BY <1>1, Zenon DEF Newest
<1> QED
    BY <1>1, <1>2, Zenon DEF OneAsked, IsFree, IsNewest, IsQueued, IsTaken, IsAnswered, Request

\* Every step keeps the invariant.
LEMMA AskedKept == ASSUME AskedInv, [Mgr!Next]_Mgr!vars PROVE AskedInv'
<1>1. ids' \in Nat
    <2>1. ids' = ids \/ ids' = ids + 1
        BY Zenon DEF Mgr!Next, Mgr!Participants, Mgr!RemoteTransition, Mgr!Take, Mgr!Commit,
           Mgr!ParticipantsChanged, Mgr!PollTransition, Mgr!TransitionDone, Mgr!PollChanged,
           Mgr!GcpChanged, Mgr!Upgrade, Mgr!UpgradeInner, Mgr!vars
    <2> QED
        BY <2>1 DEF AskedInv
<1>2. replaced => replaced'
    BY Zenon DEF Mgr!Next, Mgr!Participants, Mgr!RemoteTransition, Mgr!Take, Mgr!Commit,
       Mgr!ParticipantsChanged, Mgr!PollTransition, Mgr!TransitionDone, Mgr!PollChanged,
       Mgr!GcpChanged, Mgr!Upgrade, Mgr!UpgradeInner, Mgr!vars, Mgr!ghosts
<1>3. ASSUME ~replaced' PROVE OneAsked'
    <2>1. ids \in Nat /\ OneAsked
        BY <1>2, <1>3, Zenon DEF AskedInv
    <2> QED
        BY <1>3, <2>1, TakeKept, CommitKept, ManagerKept, OthersKept, Zenon DEF Mgr!Next
<1> QED
    BY <1>1, <1>3, Zenon DEF AskedInv

\* A manager that has seen no participant; and what the invariant says of a request.
LEMMA AskedAlways == Mgr!Spec => []AskedInv
<1>1. Mgr!Init => AskedInv
    BY DEF Mgr!Init, AskedInv, OneAsked, IsFree
<1> QED
    BY <1>1, AskedKept, PTL DEF Mgr!Spec

\* The monitor's answer finds the one who asked, unless the manager dropped a transition that
\* waited: for any number of participants and events, whenever they change, whatever fails and
\* whoever else transitions.
THEOREM AskersWait == Mgr!Spec => []Mgr!AskerWaits
<1>1. AskedInv => Mgr!AskerWaits
    BY Zenon DEF AskedInv, OneAsked, Mgr!AskerWaits
<1> QED
    BY <1>1, AskedAlways, PTL

\* As long as no transition that waited was dropped, nothing but the newest one's request is
\* under way, and it is for the newest number of participants that the manager has seen.
THEOREM NewestIsAsked == Mgr!Spec => []Mgr!NewestAsked
<1>1. AskedInv => Mgr!NewestAsked
    BY DEF AskedInv, OneAsked, Mgr!NewestAsked, IsFree, IsNewest, IsQueued, IsTaken, IsAnswered,
       Newest, Request
<1> QED
    BY <1>1, AskedAlways, PTL

-----------------------------------------------------------------------------
(* UpgradeConn, as Up, for any tasks and nonces *)

CONSTANTS Caller, Nonce, Bad, MaxMsg, MayCancel
VARIABLES nonce, unseen, curr_nonce, in_progress, queued, sl, cl, msgs, n_msgs
Up == INSTANCE UpgradeConn

\* The first stack has nonce 0, and neither mark of in_progress is a nonce.
UpConstants == 0 \in Nonce /\ Nonce \subseteq Nat /\ Bad \subseteq Nonce /\ None \notin Nonce
             /\ None # Up!Spent

\* The inductive invariant: the three promises, and enough types to tell an upgrade from none.
UpTypes == nonce \in Nonce /\ curr_nonce \in Nonce /\ in_progress \in Nonce \cup {None, Up!Spent}
UpInv == UpTypes /\ Up!UpgradeNotForgotten /\ Up!NothingMissed /\ Up!HandleShowsCurrent

\* A call that is not an upgrade's: neither the nonces nor the stack move.
Elsewhere == UNCHANGED <<nonce, unseen, Up!upgrade>>

-----------------------------------------------------------------------------

\* The connection starts on the first stack, and nothing is published.
LEMMA UpInit ==
    ASSUME UpConstants, Up!Init
    PROVE  UpInv
  BY Zenon DEF UpConstants, Up!Init, UpInv, UpTypes, Up!UpgradeNotForgotten, Up!NothingMissed,
     Up!HandleShowsCurrent

\* Steps that only take and release locks, or move messages.
LEMMA UpElsewhere ==
    ASSUME UpInv, Elsewhere
    PROVE  UpInv'
  BY Zenon DEF Elsewhere, Up!upgrade, UpInv, UpTypes, Up!UpgradeNotForgotten, Up!NothingMissed,
     Up!HandleShowsCurrent

\* borrow_and_update with nothing in progress.
LEMMA UpObserve ==
    ASSUME UpConstants, UpInv, in_progress = None, Up!Observe, nonce' = nonce
    PROVE  UpInv'
  BY Zenon DEF UpConstants, Up!Observe, UpInv, UpTypes, Up!UpgradeNotForgotten, Up!NothingMissed,
     Up!HandleShowsCurrent, Up!Spent

\* The upgrade's future: it waits, fails, or replaces the stack.
LEMMA UpUpgrade ==
    ASSUME UpConstants, UpInv, NEW t \in Caller, UNCHANGED <<nonce, unseen>>,
           Up!UpgradeDone \/ Up!UpgradeWaits(t) \/ Up!UpgradeFails(t)
    PROVE  UpInv'
  <1>1. CASE Up!UpgradeDone
    BY <1>1 DEF UpConstants, Up!UpgradeDone, Up!CanApply, UpInv, UpTypes, Up!UpgradeNotForgotten,
       Up!NothingMissed, Up!HandleShowsCurrent, Up!Spent
  <1>2. CASE Up!UpgradeWaits(t)
    BY <1>2, UpElsewhere DEF Up!UpgradeWaits, UpInv, UpTypes, Up!UpgradeNotForgotten,
       Up!NothingMissed, Up!HandleShowsCurrent
  <1>3. CASE Up!UpgradeFails(t)
    BY <1>3 DEF UpConstants, Up!UpgradeFails, UpInv, UpTypes, Up!UpgradeNotForgotten,
       Up!NothingMissed, Up!HandleShowsCurrent
  <1> QED
    BY <1>1, <1>2, <1>3, Zenon

\* send, with the upgrade that it drives.
LEMMA UpSend ==
    ASSUME UpConstants, UpInv, NEW t \in Caller, Up!Send(t)
    PROVE  UpInv'
  <1>1. CASE Up!SendLock(t)
    <2>1. (in_progress = None /\ Up!Observe /\ nonce' = nonce) \/ Elsewhere
      BY <1>1, Zenon DEF Up!SendLock, Elsewhere, Up!input
    <2> QED
      BY <2>1, UpObserve, UpElsewhere, Zenon
  <1>2. CASE Up!SendUpgrade(t)
    <2>1. \/ /\ UNCHANGED <<nonce, unseen>>
             /\ Up!UpgradeDone \/ Up!UpgradeWaits(t) \/ Up!UpgradeFails(t)
          \/ Elsewhere
      BY <1>2, Zenon DEF Up!SendUpgrade, Up!UpgradeWaits, Up!UpgradeFails, Elsewhere, Up!input
    <2> QED
      BY <2>1, UpUpgrade, UpElsewhere, Zenon
  <1>3. CASE Up!SendCurrent(t)
    BY <1>3, UpElsewhere, Zenon DEF Up!SendCurrent, Elsewhere, Up!input
  <1> QED
    BY <1>1, <1>2, <1>3, Zenon DEF Up!Send

\* recv, with the upgrade that it drives.
LEMMA UpRecv ==
    ASSUME UpConstants, UpInv, NEW t \in Caller, Up!Recv(t)
    PROVE  UpInv'
  <1>1. CASE Up!RecvListen(t) \/ Up!RecvSameNonce(t)
    <2>1. (in_progress = None /\ Up!Observe /\ nonce' = nonce) \/ Elsewhere
      BY <1>1, Zenon DEF Up!RecvListen, Up!RecvSameNonce, Elsewhere, Up!input
    <2> QED
      BY <2>1, UpObserve, UpElsewhere
  <1>2. CASE Up!RecvUpgrade(t)
    <2>1. /\ UNCHANGED <<nonce, unseen>>
          /\ Up!UpgradeDone \/ Up!UpgradeWaits(t) \/ Up!UpgradeFails(t)
      BY <1>2, Zenon DEF Up!RecvUpgrade, Up!UpgradeWaits, Up!UpgradeFails, Up!input
    <2> QED
      BY <2>1, UpUpgrade, Zenon
  <1>3. CASE \/ Up!RecvLockCurrent(t) \/ Up!RecvMessage(t)
             \/ Up!RecvLockListener(t) \/ Up!RecvRelock(t)
    BY <1>3, UpElsewhere, Zenon DEF Up!RecvLockCurrent, Up!RecvMessage, Up!RecvLockListener,
       Up!RecvRelock, Elsewhere, Up!input
  <1> QED
    BY <1>1, <1>2, <1>3, Zenon DEF Up!Recv

\* Every step preserves the invariant.
LEMMA UpNext ==
    ASSUME UpConstants, UpInv, [Up!Next]_Up!vars
    PROVE  UpInv'
  <1>1. CASE UNCHANGED Up!vars
    BY <1>1, UpElsewhere, Zenon DEF Up!vars, Elsewhere, Up!upgrade
  <1>2. CASE Up!Publish
    BY <1>2, Zenon DEF Up!Publish, Up!upgrade, UpInv, UpTypes, Up!UpgradeNotForgotten,
       Up!NothingMissed, Up!HandleShowsCurrent
  <1>3. CASE Up!Arrive
    BY <1>3, UpElsewhere, Zenon DEF Up!Arrive, Elsewhere, Up!upgrade
  <1>4. CASE Up!Grant
    BY <1>4, Zenon DEF Up!Grant, Up!input, UpInv, UpTypes, Up!UpgradeNotForgotten,
       Up!NothingMissed, Up!HandleShowsCurrent
  <1>5. ASSUME NEW t \in Caller, Up!Call(t) \/ Up!Send(t) \/ Up!Recv(t) \/ Up!Cancel(t)
        PROVE  UpInv'
    BY <1>5, UpSend, UpRecv, UpElsewhere, Zenon DEF Up!Call, Up!Cancel, Elsewhere, Up!input
  <1> QED
    BY <1>1, <1>2, <1>3, <1>4, <1>5, Zenon DEF Up!Next

-----------------------------------------------------------------------------

\* An upgrade that was begun is not dropped by a cancelled send or recv, nor by another call
\* that runs at the same time (in_progress, rendezvous.rs).
THEOREM NeverForgotten ==
    ASSUME UpConstants
    PROVE  Up!Spec => []Up!UpgradeNotForgotten
  <1>1. UpInv => Up!UpgradeNotForgotten
    BY Zenon DEF UpInv
  <1> QED
    BY <1>1, UpInit, UpNext, PTL DEF Up!Spec

\* No stack that was published is missed: who looks at the watch channel either finds it
\* changed or has acted upon the newest value (borrow_and_update, rendezvous.rs).
THEOREM NeverMissed ==
    ASSUME UpConstants
    PROVE  Up!Spec => []Up!NothingMissed
  <1>1. UpInv => Up!NothingMissed
    BY Zenon DEF UpInv
  <1> QED
    BY <1>1, UpInit, UpNext, PTL DEF Up!Spec

\* UpgradeHandle::current never shows a side that is not the one in use.
THEOREM HandleAlwaysTrue ==
    ASSUME UpConstants
    PROVE  Up!Spec => []Up!HandleShowsCurrent
  <1>1. UpInv => Up!HandleShowsCurrent
    BY Zenon DEF UpInv
  <1> QED
    BY <1>1, UpInit, UpNext, PTL DEF Up!Spec

-----------------------------------------------------------------------------
(* One task, and stacks that can be applied *)

OneUser == UpConstants /\ Bad = {} /\ \A s, t \in Caller : s = t

\* The inductive invariant: what recv noticed is still in progress when it has locked the
\* listener again, since nobody else can have finished it.
UpPlaces ==
    pc \in [Caller -> {"idle", "send", "send_up", "send_cur", "recv", "recv_up", "recv_drive"}]
StillThere == \A t \in Caller : pc[t] = "recv_up" => in_progress # None
UserInv == UpInv /\ UpPlaces /\ StillThere /\ in_progress # Up!Spent

\* A step of the task that leaves the upgrade alone, or begins one, and is not at recv_up.
LEMMA UserGoes ==
    ASSUME OneUser, UserInv, UpInv', NEW t \in Caller,
           NEW p \in {"idle", "send", "send_up", "send_cur", "recv", "recv_drive"}, Up!Goto(t, p),
           in_progress' # Up!Spent
    PROVE  UserInv'
  BY Zenon DEF OneUser, UserInv, UpPlaces, StillThere, Up!Goto

\* What the task does keeps the invariant.
LEMMA UserStep ==
    ASSUME OneUser, UserInv, UpInv', NEW t \in Caller,
           Up!Call(t) \/ Up!Send(t) \/ Up!Recv(t) \/ Up!Cancel(t)
    PROVE  UserInv'
  <1>a. UpConstants /\ UpTypes /\ Up!Spent \notin Nonce /\ None \notin Nonce /\ None # Up!Spent
    BY DEF OneUser, UpConstants, UserInv, UpInv, Up!Spent
  <1>b. in_progress' # Up!Spent
    <2>1. CASE Up!Observe \/ in_progress' = in_progress
      BY <1>a, <2>1, Zenon DEF Up!Observe, UpTypes, UserInv
    <2>2. ~Up!UpgradeFails(t)
      BY Zenon DEF Up!UpgradeFails, OneUser, UserInv
    <2>3. CASE Up!UpgradeDone
      BY <1>a, <2>3, Zenon DEF Up!UpgradeDone
    <2>4. CASE \/ Up!Call(t) \/ Up!Cancel(t) \/ Up!SendLock(t) \/ Up!SendCurrent(t)
               \/ Up!RecvListen(t)
      BY <2>1, <2>4, Zenon DEF Up!Call, Up!Cancel, Up!SendLock, Up!SendCurrent, Up!RecvListen,
         Up!upgrade
    <2>5. CASE \/ Up!RecvSameNonce(t) \/ Up!RecvLockCurrent(t) \/ Up!RecvMessage(t)
               \/ Up!RecvLockListener(t)
               \/ Up!RecvRelock(t)
      BY <2>1, <2>5, Zenon DEF Up!RecvSameNonce, Up!RecvLockCurrent, Up!RecvMessage,
         Up!RecvLockListener, Up!RecvRelock, Up!upgrade
    <2>6. CASE Up!SendUpgrade(t) \/ Up!RecvUpgrade(t)
      BY <2>1, <2>2, <2>3, <2>6, Zenon DEF Up!SendUpgrade, Up!RecvUpgrade, Up!UpgradeWaits,
         Up!upgrade
    <2> QED
      BY <2>4, <2>5, <2>6, Zenon DEF Up!Send, Up!Recv
  <1>1. CASE \/ Up!Call(t) \/ Up!Cancel(t) \/ Up!SendLock(t) \/ Up!SendCurrent(t)
             \/ Up!RecvMessage(t)
    <2>1. \E p \in {"idle", "send", "recv", "send_up"} : Up!Goto(t, p)
      BY <1>1, Zenon DEF Up!Call, Up!Cancel, Up!SendLock, Up!SendCurrent, Up!RecvMessage
    <2> QED
      BY <1>b, <2>1, UserGoes, Zenon
  <1>2. CASE Up!SendUpgrade(t) \/ Up!RecvUpgrade(t)
    <2>1. ~Up!UpgradeFails(t)
      BY DEF Up!UpgradeFails, OneUser, UserInv
    <2>2. CASE Up!UpgradeWaits(t)
      BY <1>b, <2>2, Zenon DEF Up!UpgradeWaits, UserInv, UpPlaces, StillThere
    <2>3. CASE Up!Goto(t, "send_cur") \/ Up!Goto(t, "recv")
      BY <1>b, <2>3, UserGoes, Zenon
    <2> QED
      BY <1>2, <2>1, <2>2, <2>3, Zenon DEF Up!SendUpgrade, Up!RecvUpgrade
  <1>3. CASE Up!RecvSameNonce(t)
    BY <1>3, <1>b, Zenon DEF Up!RecvSameNonce, Up!Observe, UserInv, UpPlaces, StillThere
  <1>4. CASE Up!RecvLockCurrent(t) \/ Up!RecvLockListener(t)
    BY <1>4, <1>b, Zenon DEF Up!RecvLockCurrent, Up!RecvLockListener, Up!upgrade, UserInv,
       UpPlaces, StillThere
  <1>5. CASE Up!RecvListen(t)
    <2>1. in_progress' # None
      BY <1>5, <1>a, Zenon DEF Up!RecvListen, Up!Observe, Up!upgrade, UpTypes
    <2>2. pc' = [pc EXCEPT ![t] = "recv_up"]
      BY <1>5, Zenon DEF Up!RecvListen, Up!Goto
    <2> QED
      BY <1>b, <2>1, <2>2, Zenon DEF UserInv, UpPlaces, StillThere
  <1>6. CASE Up!RecvRelock(t)
    <2>1. Up!Goto(t, "recv_drive")
      BY <1>6, Zenon DEF Up!RecvRelock, UserInv, StillThere
    <2> QED
      BY <1>b, <2>1, UserGoes, Zenon
  <1> QED
    BY <1>1, <1>2, <1>3, <1>4, <1>5, <1>6, Zenon DEF Up!Send, Up!Recv

\* With one task that uses the connection, cancelling wherever it likes, and stacks that can be
\* applied, recv's in_progress.unwrap() never fails (rendezvous.rs); two tasks can make it fail.
THEOREM OneUserNeverPanics ==
    ASSUME OneUser
    PROVE  Up!Spec => []Up!NoUpgradePanic
  <1>0. UpConstants
    BY Zenon DEF OneUser
  <1>1. Up!Init => UserInv
    <2>1. Up!Init => UpInv
      BY <1>0, UpInit, Zenon
    <2> QED
      BY <1>0, <2>1, Zenon DEF UpConstants, Up!Init, UserInv, UpPlaces, StillThere
  <1>2. UserInv /\ [Up!Next]_Up!vars => UserInv'
    <2> SUFFICES ASSUME UserInv, [Up!Next]_Up!vars PROVE UserInv'
      BY Zenon
    <2>1. UpInv'
      BY <1>0, UpNext, Zenon DEF UserInv
    <2>2. CASE UNCHANGED <<pc, in_progress>>
      BY <2>1, <2>2, Zenon DEF UserInv, UpPlaces, StillThere
    <2>3. CASE Up!Publish \/ Up!Arrive \/ Up!Grant \/ UNCHANGED Up!vars
      BY <2>2, <2>3, Zenon DEF Up!Publish, Up!Arrive, Up!Grant, Up!vars, Up!upgrade
    <2> QED
      BY <2>1, <2>3, UserStep, Zenon DEF Up!Next
  <1>3. UserInv => Up!NoUpgradePanic
    BY Zenon DEF UserInv, UpPlaces, Up!NoUpgradePanic
  <1> QED
    BY <1>1, <1>2, <1>3, PTL DEF Up!Spec

-----------------------------------------------------------------------------
(* InjectWithChannel, as In, for any messages *)

VARIABLES oneshot, flag, inner, n_in
In == INSTANCE InjectWithChannel

\* The elements of a sequence.
Items(s) == {s[i] : i \in DOMAIN s}

\* What two sequences of numbers are, put together.
LEMMA Joined ==
    ASSUME NEW r \in Seq(Nat), NEW t \in Seq(Nat)
    PROVE  /\ r \o t \in Seq(Nat)
           /\ Len(r \o t) = Len(r) + Len(t)
           /\ \A i \in 1..(Len(r) + Len(t)) :
                 (r \o t)[i] = IF i <= Len(r) THEN r[i] ELSE t[i - Len(r)]
OBVIOUS

\* ... and with one more at the end.
LEMMA Appended ==
    ASSUME NEW c \in Seq(Nat), NEW n \in Nat
    PROVE  /\ Append(c, n) \in Seq(Nat) /\ Len(Append(c, n)) = Len(c) + 1
           /\ \A i \in 1..(Len(c) + 1) : Append(c, n)[i] = IF i = Len(c) + 1 THEN n ELSE c[i]
OBVIOUS

\* A sequence without its first number.
LEMMA Shortened ==
    ASSUME NEW c \in Seq(Nat), c # <<>>
    PROVE  /\ Tail(c) \in Seq(Nat) /\ Len(c) \in Nat \ {0} /\ Len(Tail(c)) = Len(c) - 1
           /\ Head(c) = c[1] /\ \A i \in 1..(Len(c) - 1) : Tail(c)[i] = c[i + 1]
OBVIOUS

\* The elements of two sequences of numbers put together are those of both.
LEMMA ItemsJoined ==
    ASSUME NEW r \in Seq(Nat), NEW t \in Seq(Nat)
    PROVE  /\ r \o t \in Seq(Nat) /\ Len(r \o t) = Len(r) + Len(t)
           /\ Items(r \o t) = Items(r) \cup Items(t)
<1> DEFINE u == r \o t
<1>1. /\ u \in Seq(Nat) /\ Len(u) = Len(r) + Len(t)
      /\ \A i \in 1..(Len(r) + Len(t)) : u[i] = IF i <= Len(r) THEN r[i] ELSE t[i - Len(r)]
    BY Joined, Zenon
<1> HIDE DEF u
<1>2. /\ Len(r) \in Nat /\ Len(t) \in Nat /\ DOMAIN r = 1..Len(r) /\ DOMAIN t = 1..Len(t)
      /\ DOMAIN u = 1..(Len(r) + Len(t))
    BY <1>1
<1>3. ASSUME NEW x \in Items(u) PROVE x \in Items(r) \cup Items(t)
    <2>1. PICK i \in 1..(Len(r) + Len(t)) : x = u[i]
        BY <1>2, Zenon DEF Items
    <2>2. i \in 1..Len(r) \/ (~(i <= Len(r)) /\ i - Len(r) \in 1..Len(t))
        BY <1>2
    <2>3. i \in 1..Len(r) => i <= Len(r)
        BY <1>2
    <2> QED
        BY <1>1, <1>2, <2>1, <2>2, <2>3, Zenon DEF Items
<1>4. ASSUME NEW x \in Items(r) PROVE x \in Items(u)
    <2>1. PICK i \in 1..Len(r) : x = r[i]
        BY <1>2, Zenon DEF Items
    <2>2. i \in 1..(Len(r) + Len(t)) /\ i <= Len(r)
        BY <1>2
    <2> QED
        BY <1>1, <1>2, <2>1, <2>2, Zenon DEF Items
<1>5. ASSUME NEW x \in Items(t) PROVE x \in Items(u)
    <2>1. PICK i \in 1..Len(t) : x = t[i]
        BY <1>2, Zenon DEF Items
    <2>2. /\ Len(r) + i \in 1..(Len(r) + Len(t)) /\ ~(Len(r) + i <= Len(r))
          /\ (Len(r) + i) - Len(r) = i
        BY <1>2
    <2>3. u[Len(r) + i] = x
        BY <1>1, <2>1, <2>2, Zenon
    <2> QED
        BY <1>2, <2>2, <2>3, Zenon DEF Items
<1>6. Items(u) = Items(r) \cup Items(t)
    BY <1>3, <1>4, <1>5, Zenon
<1> QED
    BY <1>1, <1>6, Zenon DEF u

\* With one more at the end.
LEMMA ItemsAppended ==
    ASSUME NEW s \in Seq(Nat), NEW x \in Nat
    PROVE  Append(s, x) \in Seq(Nat) /\ Items(Append(s, x)) = Items(s) \cup {x}
<1>1. <<x>> \in Seq(Nat) /\ Items(<<x>>) = {x}
    <2>1. DOMAIN <<x>> = {1} /\ <<x>>[1] = x /\ <<x>> \in Seq(Nat)
        OBVIOUS
    <2> HIDE DEF Items
    <2> QED
        BY <2>1, Zenon DEF Items
<1>2. Append(s, x) = s \o <<x>>
    OBVIOUS
<1> QED
    BY <1>1, <1>2, ItemsJoined, Zenon

\* Sequences of numbers with the same elements at the same places are the same.
LEMMA SameSeq ==
    ASSUME NEW u \in Seq(Nat), NEW v \in Seq(Nat), Len(u) = Len(v),
           \A i \in 1..Len(u) : u[i] = v[i]
    PROVE  u = v
<1>1. u = [i \in 1..Len(u) |-> u[i]] /\ v = [i \in 1..Len(v) |-> v[i]]
    OBVIOUS
<1> QED
    BY <1>1, Zenon

\* The head of a sequence goes to the end of the one before it: together they are the same.
LEMMA HeadMoves ==
    ASSUME NEW g \in Seq(Nat), NEW s \in Seq(Nat), s # <<>>
    PROVE  /\ Append(g, Head(s)) \o Tail(s) = g \o s
           /\ Head(s) \in Nat /\ Tail(s) \in Seq(Nat) /\ Append(g, Head(s)) \in Seq(Nat)
<1>1. /\ Tail(s) \in Seq(Nat) /\ Len(s) \in Nat \ {0} /\ Len(Tail(s)) = Len(s) - 1
      /\ Head(s) = s[1] /\ \A i \in 1..(Len(s) - 1) : Tail(s)[i] = s[i + 1]
    BY Shortened, Zenon
<1>2. s[1] \in Nat /\ Len(g) \in Nat
    BY <1>1
<1> DEFINE h == Head(s)
           t == Tail(s)
           a == Append(g, h)
           u == a \o t
           v == g \o s
<1>a. h \in Nat /\ h = s[1]
    BY <1>1, <1>2, Zenon
<1> HIDE DEF h
<1>3. /\ a \in Seq(Nat) /\ Len(a) = Len(g) + 1
      /\ \A i \in 1..(Len(g) + 1) : a[i] = IF i = Len(g) + 1 THEN h ELSE g[i]
    BY <1>a, Appended, Zenon
<1> HIDE DEF t, a
<1>4. /\ u \in Seq(Nat) /\ Len(u) = Len(a) + Len(t)
      /\ \A i \in 1..(Len(a) + Len(t)) : u[i] = IF i <= Len(a) THEN a[i] ELSE t[i - Len(a)]
    BY <1>1, <1>3, Joined, Zenon DEF t
<1>5. /\ v \in Seq(Nat) /\ Len(v) = Len(g) + Len(s)
      /\ \A i \in 1..(Len(g) + Len(s)) : v[i] = IF i <= Len(g) THEN g[i] ELSE s[i - Len(g)]
    BY Joined, Zenon
<1> HIDE DEF u, v
<1>6. Len(t) = Len(s) - 1 /\ \A i \in 1..(Len(s) - 1) : t[i] = s[i + 1]
    BY <1>1, Zenon DEF t
<1>7. h = s[1]
    BY <1>1, Zenon DEF h
<1>8. Len(u) = Len(v)
    BY <1>1, <1>2, <1>3, <1>4, <1>5, <1>6
<1>9. ASSUME NEW i \in 1..Len(u) PROVE u[i] = v[i]
    <2>0. i \in 1..(Len(g) + Len(s)) /\ i \in 1..(Len(a) + Len(t))
        BY <1>4, <1>5, <1>8, <1>9, Zenon
    <2>1. CASE i <= Len(g)
        <3>0. Len(a) = Len(g) + 1 /\ Len(g) \in Nat /\ i \in Nat /\ i >= 1
            BY <1>2, <1>3
        <3>1. i <= Len(a) /\ i \in 1..(Len(g) + 1) /\ i # Len(g) + 1
            BY <2>1, <3>0
        <3> QED
            BY <1>3, <1>4, <1>5, <2>0, <2>1, <3>1, Zenon
    <2>2. CASE i = Len(g) + 1
        <3>1. i <= Len(a) /\ i \in 1..(Len(g) + 1) /\ ~(i <= Len(g)) /\ i - Len(g) = 1
            BY <1>2, <1>3, <2>0, <2>2
        <3> QED
            BY <1>3, <1>4, <1>5, <1>7, <2>0, <2>2, <3>1, Zenon
    <2>3. CASE ~(i <= Len(g)) /\ i # Len(g) + 1
        <3>1. /\ ~(i <= Len(a)) /\ i - Len(a) \in 1..(Len(s) - 1)
              /\ (i - Len(a)) + 1 = i - Len(g)
            BY <1>1, <1>2, <1>3, <2>0, <2>3
        <3>2. t[i - Len(a)] = s[i - Len(g)]
            BY <1>6, <3>1, Zenon
        <3> QED
            BY <1>4, <1>5, <2>0, <2>3, <3>1, <3>2, Zenon
    <2> QED
        BY <2>1, <2>2, <2>3, Zenon
<1>10. u = v
    BY <1>4, <1>5, <1>8, <1>9, SameSeq, Zenon
<1> QED
    BY <1>1, <1>2, <1>3, <1>7, <1>10, Zenon DEF u, v, a, t, h

\* Other ways to put sequences together.
LEMMA JoinedMore ==
    ASSUME NEW g \in Seq(Nat), NEW s \in Seq(Nat), NEW x \in Nat
    PROVE  g \o Append(s, x) = Append(g \o s, x) /\ Append(g, x) \o <<>> = Append(g \o <<>>, x)
<1>1. g \o Append(s, x) = Append(g \o s, x)
    OBVIOUS
<1>2. Append(g, x) \o <<>> = Append(g \o <<>>, x)
    OBVIOUS
<1> QED
    BY <1>1, <1>2

\* What was returned, and what is still to be received.
All == got \o inner

\* Later numbers are greater, but for the 1 that is once somewhere among them.
Raced(s) == \A i, j \in 1..Len(s) : i < j => s[i] < s[j] \/ (s[j] = 1 /\ s[i] # 1)

\* The inductive invariant.
InjectInv ==
    /\ got \in Seq(Nat) /\ inner \in Seq(Nat) /\ n_in \in Nat /\ n_in >= 1
    /\ oneshot = "full" <=> 1 \notin Items(got)
    /\ 1 \notin Items(inner)
    /\ Items(All) \ {1} = 2..n_in /\ Raced(All)

\* One more keeps them so, if it is the next number or the 1 that was not there.
LEMMA RacedAppend ==
    ASSUME NEW s \in Seq(Nat), Raced(s), NEW n \in Nat, n >= 1, Items(s) \ {1} = 2..n, NEW x,
           x = n + 1 \/ (x = 1 /\ 1 \notin Items(s))
    PROVE  Raced(Append(s, x)) /\ Items(Append(s, x)) = Items(s) \cup {x}
<1>1. x \in Nat /\ Len(s) \in Nat
    OBVIOUS
<1> DEFINE t == Append(s, x)
<1>2. /\ t \in Seq(Nat) /\ Len(t) = Len(s) + 1
      /\ \A i \in 1..(Len(s) + 1) : t[i] = IF i = Len(s) + 1 THEN x ELSE s[i]
    BY <1>1, Appended, Zenon
<1>3. Items(t) = Items(s) \cup {x}
    BY <1>1, ItemsAppended, Zenon
<1> HIDE DEF t
<1>4. ASSUME NEW i \in 1..Len(s) PROVE s[i] \in Nat /\ s[i] \in Items(s) /\ s[i] <= n
    <2>1. s[i] \in Nat /\ DOMAIN s = 1..Len(s)
        OBVIOUS
    <2>2. s[i] \in Items(s)
        BY <2>1, Zenon DEF Items
    <2>3. s[i] = 1 \/ s[i] \in 2..n
        BY <2>2, Zenon
    <2> QED
        BY <2>1, <2>2, <2>3
<1>5. ASSUME NEW i \in 1..Len(t), NEW j \in 1..Len(t), i < j
      PROVE  t[i] < t[j] \/ (t[j] = 1 /\ t[i] # 1)
    <2>1. i \in 1..Len(s) /\ i \in 1..(Len(s) + 1) /\ i # Len(s) + 1 /\ j \in 1..(Len(s) + 1)
        BY <1>1, <1>2, <1>5, SMTT(30)
    <2>2. t[i] = s[i]
        BY <1>2, <2>1, Zenon
    <2>3. CASE j = Len(s) + 1
        <3>1. t[j] = x
            BY <1>2, <2>1, <2>3, Zenon
        <3>2. CASE x = n + 1
            BY <1>4, <2>1, <2>2, <3>1, <3>2
        <3>3. CASE x = 1 /\ 1 \notin Items(s)
            BY <1>4, <2>1, <2>2, <3>1, <3>3, Zenon
        <3> QED
            BY <3>2, <3>3, Zenon
    <2>4. CASE j # Len(s) + 1
        <3>1. j \in 1..Len(s)
            BY <1>1, <2>1, <2>4
        <3>2. t[j] = s[j]
            BY <1>2, <2>1, <2>4, Zenon
        <3> QED
            BY <1>5, <2>1, <2>2, <3>1, <3>2, Zenon DEF Raced
    <2> QED
        BY <2>3, <2>4, Zenon
<1>6. Raced(t)
    BY <1>5, Zenon DEF Raced
<1> QED
    BY <1>3, <1>6, Zenon DEF t

\* Every step keeps the invariant.
LEMMA InjectNext == ASSUME InjectInv, [In!Next]_(In!vars) PROVE InjectInv'
<1>0. /\ got \in Seq(Nat) /\ inner \in Seq(Nat) /\ n_in \in Nat /\ n_in >= 1
      /\ oneshot = "full" <=> 1 \notin Items(got)
      /\ 1 \notin Items(inner)
      /\ Items(All) \ {1} = 2..n_in /\ Raced(All)
    BY Zenon DEF InjectInv
<1>01. All \in Seq(Nat) /\ Items(All) = Items(got) \cup Items(inner)
    BY <1>0, ItemsJoined, Zenon DEF All
<1>1. CASE In!Arrive
    <2>1. n_in' = n_in + 1 /\ inner' = Append(inner, n_in + 1) /\ UNCHANGED <<oneshot, got>>
        BY <1>1, Zenon DEF In!Arrive
    <2>2. n_in' \in Nat /\ n_in' >= 1 /\ n_in' # 1 /\ 2..n_in' = 2..n_in \cup {n_in'}
        BY <1>0, <2>1
    <2>3. inner' \in Seq(Nat) /\ Items(inner') = Items(inner) \cup {n_in'}
        BY <1>0, <2>1, <2>2, ItemsAppended, Zenon
    <2>4. All' = Append(All, n_in')
        <3>1. n_in + 1 = n_in' /\ inner' = Append(inner, n_in')
            BY <2>1, Zenon
        <3>2. got \o Append(inner, n_in') = Append(got \o inner, n_in')
            BY <1>0, <2>2, JoinedMore, Zenon
        <3> QED
            BY <2>1, <3>1, <3>2, Zenon DEF All
    <2>5. Raced(All') /\ Items(All') = Items(All) \cup {n_in'}
        BY <1>0, <1>01, <2>1, <2>4, RacedAppend, Zenon
    <2> QED
        BY <1>0, <2>1, <2>2, <2>3, <2>5, Zenon DEF InjectInv
<1>2. ASSUME NEW t \in Caller, In!PollInner(t) PROVE InjectInv'
    <2>1. /\ inner # <<>> /\ got' = Append(got, Head(inner)) /\ inner' = Tail(inner)
          /\ UNCHANGED <<oneshot, n_in>>
        BY <1>2, Zenon DEF In!PollInner
    <2>2. All' = All /\ Head(inner) \in Nat /\ inner' \in Seq(Nat) /\ got' \in Seq(Nat)
        BY <1>0, <2>1, HeadMoves, Zenon DEF All
    <2>3. Items(got') = Items(got) \cup {Head(inner)}
        BY <1>0, <2>1, <2>2, ItemsAppended, Zenon
    <2>4. Items(All') = Items(got') \cup Items(inner')
        BY <2>2, ItemsJoined, Zenon DEF All
    <2>5. Head(inner) # 1 /\ 1 \notin Items(inner')
        BY <1>0, <2>1, SMTT(30) DEF Items
    <2> QED
        BY <1>0, <2>1, <2>2, <2>3, <2>5, Zenon DEF InjectInv
<1>3. ASSUME NEW t \in Caller, In!PollOneshot(t) PROVE InjectInv'
    <2>1. CASE oneshot = "full"
        <3>1. /\ inner = <<>> /\ oneshot' = "taken" /\ got' = Append(got, 1)
              /\ UNCHANGED <<inner, n_in>>
            BY <1>3, <2>1, Zenon DEF In!PollOneshot
        <3>2. got' \in Seq(Nat) /\ Items(got') = Items(got) \cup {1}
            BY <1>0, <3>1, ItemsAppended
        <3>3. All' = Append(All, 1)
            BY <1>0, <3>1, JoinedMore DEF All
        <3>4. 1 \notin Items(All)
            BY <1>0, <1>01, <2>1, Zenon
        <3>5. Raced(All') /\ Items(All') = Items(All) \cup {1}
            BY <1>0, <1>01, <3>3, <3>4, RacedAppend, Zenon
        <3> QED
            BY <1>0, <3>1, <3>2, <3>5, Zenon DEF InjectInv
    <2>2. CASE oneshot # "full"
        <3>1. UNCHANGED <<oneshot, got, inner, n_in>>
            BY <1>3, <2>2, Zenon DEF In!PollOneshot
        <3> QED
            BY <3>1, Zenon DEF InjectInv, All
    <2> QED
        BY <2>1, <2>2, Zenon
<1>4. ASSUME NEW t \in Caller, In!Call(t) \/ In!Cancel(t) PROVE InjectInv'
    <2>1. UNCHANGED <<oneshot, got, inner, n_in>>
        BY <1>4, Zenon DEF In!Call, In!Cancel
    <2> QED
        BY <2>1, Zenon DEF InjectInv, All
<1>5. CASE UNCHANGED In!vars
    BY <1>5, Zenon DEF In!vars, InjectInv, All
<1> QED
    BY <1>1, <1>2, <1>3, <1>4, <1>5, Zenon DEF In!Next

\* The datagram that was put back, and those after it, are returned once.
THEOREM InjectedIsReturnedOnce == In!Spec => []In!InjectedOnce
<1>1. In!Init => InjectInv
    <2> SUFFICES ASSUME In!Init PROVE InjectInv
        BY Zenon
    <2>1. oneshot = "full" /\ inner = <<>> /\ n_in = 1 /\ got = <<>>
        BY Zenon DEF In!Init
    <2>2. <<>> \in Seq(Nat) /\ Items(<<>>) = {} /\ <<>> \o <<>> = <<>> /\ Raced(<<>>) /\ 2..1 = {}
        BY DEF Items, Raced
    <2> QED
        BY <2>1, <2>2 DEF InjectInv, All
<1>2. InjectInv => In!InjectedOnce
    <2> SUFFICES ASSUME InjectInv PROVE In!InjectedOnce
        BY Zenon
    <2>1. All \in Seq(Nat)
        BY ItemsJoined, Zenon DEF InjectInv, All
    <2>2. DOMAIN All = 1..Len(All)
        BY <2>1
    <2>3. /\ oneshot = "full" <=> 1 \notin Items(got)
          /\ Items(All) \ {1} = 2..n_in /\ Raced(All)
        BY Zenon DEF InjectInv
    <2>4. /\ oneshot = "full" <=> 1 \notin In!Range(got)
          /\ In!Range(All) \ {1} = 2..n_in
        BY <2>3, Zenon DEF In!Range, Items
    <2>5. \A i, j \in DOMAIN All : i < j => All[i] < All[j] \/ (All[j] = 1 /\ All[i] # 1)
        BY <2>2, <2>3, Zenon DEF Raced
    <2> QED
        BY <2>4, <2>5, Zenon DEF In!InjectedOnce, All
<1> QED
    BY <1>1, <1>2, InjectNext, PTL DEF In!Spec

\* With one task: a call that selects finds the message there, and nobody polls for it twice.
SelectFinds ==
    /\ pc \in [Caller -> {"idle", "inner", "select"}]
    /\ ~panicked
    /\ oneshot \in {"full", "taken"} /\ flag = (oneshot = "taken")
    /\ \A t \in Caller : pc[t] = "select" => oneshot = "full"

\* One task's receives never panic.
THEOREM OneReceiverNeverPanics ==
    ASSUME \A t, u \in Caller : t = u PROVE In!Spec => []In!NoInjectPanic
<1>1. In!Init => SelectFinds
    BY Zenon DEF In!Init, SelectFinds
<1>2. SelectFinds /\ [In!Next]_(In!vars) => SelectFinds'
    <2> SUFFICES ASSUME SelectFinds, [In!Next]_(In!vars) PROVE SelectFinds'
        BY Zenon
    <2>1. CASE In!Arrive
        BY <2>1, Zenon DEF In!Arrive, SelectFinds
    <2>2. ASSUME NEW t \in Caller, In!Call(t) PROVE SelectFinds'
        BY <2>2, Zenon DEF In!Call, SelectFinds
    <2>3. ASSUME NEW t \in Caller, In!PollInner(t) PROVE SelectFinds'
        BY <2>3, Zenon DEF In!PollInner, SelectFinds
    <2>4. ASSUME NEW t \in Caller, In!PollOneshot(t) PROVE SelectFinds'
        BY <2>4, Zenon DEF In!PollOneshot, SelectFinds
    <2>5. ASSUME NEW t \in Caller, In!Cancel(t) PROVE SelectFinds'
        BY <2>5, Zenon DEF In!Cancel, SelectFinds
    <2>6. CASE UNCHANGED In!vars
        BY <2>6, Zenon DEF In!vars, SelectFinds
    <2> QED
        BY <2>1, <2>2, <2>3, <2>4, <2>5, <2>6, Zenon DEF In!Next
<1>3. SelectFinds => In!NoInjectPanic
    BY Zenon DEF SelectFinds, In!NoInjectPanic
<1> QED
    BY <1>1, <1>2, <1>3, PTL DEF In!Spec
=============================================================================
