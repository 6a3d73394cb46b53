------------------------------ MODULE KvClient ------------------------------
(***************************************************************************)
(* Concurrent requests of one KvClient (kvstore/src/client.rs): do_req     *)
(* sends and receives through MsgIdMatcher (bertha/src/util.rs) over       *)
(* KvReliability (kvstore/src/reliability.rs), which retransmits until a   *)
(* response arrives, to a server that executes each request it receives    *)
(* on its Store (kvstore/src/kv.rs).                                       *)
(*                                                                         *)
(* A request is a task; a step is what it does between two awaits.  The    *)
(* datagrams in between are lost, reordered and, by retransmission,        *)
(* repeated; the n-th transmission of r is <<r, n>>, its response          *)
(* <<r, n, val>>.  All requests are on one key; a put writes its own id.   *)
(***************************************************************************)
EXTENDS Integers, Sequences, Functions

CONSTANTS Req,       \* requests, by their random message id
          Puts,      \* the ones that are updates, the others are gets
          MaxSend,   \* bound: transmissions of one request
          Cap,       \* capacity of the channel signal_recv/recvs (100 in the code)
          Slots,     \* messages recv_msg takes at a time (4 in the code)
          MayDrop,   \* requests whose future may be dropped before it is done
          None

VARIABLES pc, n_sent,       \* the request's position; its transmissions so far
          reqs, rsps,       \* datagrams in flight
          store,            \* Store: the key's value
          sends, done_tx,   \* KvReliability: `sends`; requests whose oneshot was signalled
          got,              \* the response a blocked signal_recv.send_async holds
          recvs,            \* the channel
          inflight, sent,   \* MsgIdMatcher's maps
          answer,           \* what the matcher's oneshot delivered
          panicked          \* some .expect() failed

vars == <<pc, n_sent, reqs, rsps, store, sends, done_tx, got, recvs, inflight, sent,
          answer, panicked>>
network == <<reqs, rsps, store>>
matcher == <<inflight, sent, answer>>

Val == Puts \cup {None}
Rsp == Req \X (1..MaxSend) \X Val

Init ==
    /\ pc = [r \in Req |-> "idle"]
    /\ n_sent = [r \in Req |-> 0]
    /\ reqs = {} /\ rsps = {}
    /\ store = None
    /\ sends = {} /\ done_tx = {}
    /\ got = [r \in Req |-> None]
    /\ recvs = <<>>
    /\ inflight = {} /\ sent = {}
    /\ answer = [r \in Req |-> None]
    /\ panicked = FALSE

Goto(r, l) == pc' = [pc EXCEPT ![r] = l]

\* The receiver of a oneshot lives as long as what holds it: done_rx in send's future, the
\* matcher's in the map `sent` and then in recv_msg's future.
Sending(r) == pc[r] \in {"wait", "push"}
DoneRxAlive(r) == Sending(r)
AnswerRxAlive(r) == r \in sent \/ pc[r] = "recv"

Transmit(r) ==
    /\ n_sent' = [n_sent EXCEPT ![r] = @ + 1]
    /\ reqs' = reqs \cup {<<r, n_sent[r] + 1>>}

(***************************************************************************)
(* send_msg, then KvReliability::send.                                     *)
(***************************************************************************)
SendMsg(r) ==
    /\ pc[r] = "idle"
    /\ inflight' = inflight \cup {r}
    /\ sent' = sent \cup {r}
    /\ sends' = sends \cup {r}
    /\ Transmit(r)
    /\ Goto(r, "wait")
    /\ UNCHANGED <<rsps, store, done_tx, got, recvs, answer, panicked>>

TimeoutQuiet(r) ==
    /\ pc[r] = "wait" /\ n_sent[r] < MaxSend
    /\ n_sent' = [n_sent EXCEPT ![r] = @ + 1]
    /\ UNCHANGED <<pc, network, sends, done_tx, got, recvs, matcher, panicked>>

\* The sleep of the select! elapses.
Timeout(r) ==
    /\ pc[r] = "wait" /\ n_sent[r] < MaxSend
    /\ Transmit(r)
    /\ UNCHANGED <<pc, rsps, store, sends, done_tx, got, recvs, matcher, panicked>>

\* inner.recv returns a response, to this request or to another one.
Take(r) ==
    /\ pc[r] = "wait"
    /\ \E m \in rsps :
         /\ rsps' = rsps \ {m}
         /\ got' = [got EXCEPT ![r] = m]
    /\ Goto(r, "push")
    /\ UNCHANGED <<n_sent, reqs, store, sends, done_tx, recvs, matcher, panicked>>

\* It goes to the channel, which may be full, and then its sender is told.
Room == Len(recvs) < Cap
Signal(id) ==
    /\ sends' = sends \ {id}
    /\ done_tx' = IF id \in sends /\ DoneRxAlive(id) THEN done_tx \cup {id} ELSE done_tx
    /\ panicked' = (panicked \/ (id \in sends /\ ~DoneRxAlive(id)))
PushUnchecked(r) ==
    /\ pc[r] = "push"
    /\ recvs' = IF Room THEN Append(recvs, got[r]) ELSE recvs
    /\ Signal(got[r][1])
    /\ got' = [got EXCEPT ![r] = None]
    /\ Goto(r, "wait")
    /\ UNCHANGED <<n_sent, network, matcher>>
Push(r) ==
    /\ pc[r] = "push" /\ Room
    /\ recvs' = Append(recvs, got[r])
    /\ Signal(got[r][1])
    /\ got' = [got EXCEPT ![r] = None]
    /\ Goto(r, "wait")
    /\ UNCHANGED <<n_sent, network, matcher>>

SendReturnsEarly(r) ==
    /\ pc[r] = "wait" /\ (r \in done_tx \/ n_sent[r] = MaxSend)
    /\ sent' = sent \ {r}
    /\ Goto(r, "recv")
    /\ UNCHANGED <<n_sent, network, sends, done_tx, got, recvs, inflight, answer, panicked>>

\* `done` is ready: send returns, and recv_msg takes the receiver out of `sent`.
SendReturns(r) ==
    /\ pc[r] = "wait" /\ r \in done_tx
    /\ sent' = sent \ {r}
    /\ Goto(r, "recv")
    /\ UNCHANGED <<n_sent, network, sends, done_tx, got, recvs, inflight, answer, panicked>>

(***************************************************************************)
(* recv_msg over KvReliability::recv: take what the channel has, up to     *)
(* Slots messages, and hand each to the request it answers.                *)
(***************************************************************************)
First(batch, id) == CHOOSE m \in Range(batch) :
    /\ m[1] = id
    /\ \A i, j \in DOMAIN batch : batch[j] = m /\ batch[i][1] = id /\ i < j => batch[i] = m
Dispatch(r) ==
    /\ pc[r] = "recv" /\ recvs # <<>>
    /\ LET k == IF Len(recvs) < Slots THEN Len(recvs) ELSE Slots
           batch == SubSeq(recvs, 1, k)
           owners == {batch[i][1] : i \in 1..k} \cap inflight
       IN /\ recvs' = SubSeq(recvs, k + 1, Len(recvs))
          /\ inflight' = inflight \ owners
          /\ answer' = [q \in Req |->
               IF q \in owners /\ AnswerRxAlive(q) THEN First(batch, q) ELSE answer[q]]
          /\ panicked' = (panicked \/ \E q \in owners : ~AnswerRxAlive(q))
    /\ UNCHANGED <<pc, n_sent, network, sends, done_tx, got, sent>>

\* The oneshot is ready: do_req returns.
RecvReturns(r) ==
    /\ pc[r] = "recv" /\ answer[r] # None
    /\ Goto(r, "done")
    /\ UNCHANGED <<n_sent, network, sends, done_tx, got, recvs, matcher, panicked>>

\* The caller drops do_req's future while it waits.
Drop(r) ==
    /\ r \in MayDrop /\ pc[r] \in {"wait", "push", "recv"}
    /\ Goto(r, "dropped")
    /\ got' = [got EXCEPT ![r] = None]
    /\ UNCHANGED <<n_sent, network, sends, done_tx, recvs, matcher, panicked>>

(***************************************************************************)
(* The network, and the server: Store::call.                               *)
(***************************************************************************)
LoseReq(q) ==
    /\ q \in reqs
    /\ reqs' = reqs \ {q}
    /\ UNCHANGED <<pc, n_sent, rsps, store, sends, done_tx, got, recvs, matcher, panicked>>

LoseRsp(m) ==
    /\ m \in rsps
    /\ rsps' = rsps \ {m}
    /\ UNCHANGED <<pc, n_sent, reqs, store, sends, done_tx, got, recvs, matcher, panicked>>

Call(q) ==
    /\ q \in reqs
    /\ reqs' = reqs \ {q}
    /\ store' = IF q[1] \in Puts THEN q[1] ELSE store
    /\ rsps' = rsps \cup {<<q[1], q[2], store>>}
    /\ UNCHANGED <<pc, n_sent, sends, done_tx, got, recvs, matcher, panicked>>

Task(r) == SendMsg(r) \/ Timeout(r) \/ Take(r) \/ Push(r) \/ SendReturns(r)
           \/ Dispatch(r) \/ RecvReturns(r)

Next ==
    \/ \E r \in Req : Task(r) \/ Drop(r)
    \/ \E q \in reqs : Call(q) \/ LoseReq(q)
    \/ \E m \in rsps : LoseRsp(m)

Spec == Init /\ [][Next]_vars

-----------------------------------------------------------------------------
TypeOK ==
    /\ pc \in [Req -> {"idle", "wait", "push", "recv", "done", "dropped"}]
    /\ n_sent \in [Req -> 0..MaxSend]
    /\ reqs \subseteq Req \X (1..MaxSend)
    /\ rsps \subseteq Rsp
    /\ store \in Val
    /\ sends \subseteq Req /\ done_tx \subseteq Req
    /\ got \in [Req -> Rsp \cup {None}]
    /\ recvs \in Seq(Rsp)
    /\ inflight \subseteq Req /\ sent \subseteq Req
    /\ answer \in [Req -> Rsp \cup {None}]
    /\ panicked \in BOOLEAN

\* A request that was told that its response has arrived finds it: as long as the matcher
\* still waits for it, a response to it is in the channel, behind however many others
\* (the order of the two sends, reliability.rs:166-171).
ToldMeansQueued ==
    \A r \in done_tx \cap inflight : \E m \in Range(recvs) : m[1] = r

\* Late and repeated responses never meet a oneshot whose receiver is gone, unless a request
\* was abandoned: the .expect()s of both layers hold (reliability.rs:171, util.rs:77).
NoPanic == panicked => \E r \in MayDrop : pc[r] = "dropped"

-----------------------------------------------------------------------------
\* The last transmission gets through, both ways.
NextFairLoss ==
    \/ \E r \in Req : Task(r)
    \/ \E q \in reqs : Call(q) \/ (q[2] < MaxSend /\ LoseReq(q))
    \/ \E m \in rsps : m[2] < MaxSend /\ LoseRsp(m)
ServerCalls == \E q \in reqs : Call(q)

\* What MCProgress waits for: every request is answered, although its datagrams may be lost
\* until the last retransmission and its response may be taken by any other request.
Done(r) == pc[r] = "done"
=============================================================================
