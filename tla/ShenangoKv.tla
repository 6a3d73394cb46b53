------------------------------ MODULE ShenangoKv ------------------------------
(***************************************************************************)
(* Concurrent requests of one KvClient of shenango-bertha/src/lib.rs, the  *)
(* blocking port of the key-value client: do_req calls MsgIdMatcher's      *)
(* send_msg and recv_msg over KvReliability, each of which starts threads. *)
(*                                                                         *)
(* A step is what a thread does between two blocking calls or locks.  The  *)
(* n-th transmission of r is <<r, n>>, and so is its response.  The        *)
(* threads that KvReliability::send starts may outlive it, and so may the  *)
(* one that recv_msg starts.                                               *)
(***************************************************************************)
EXTENDS Integers, Sequences

CONSTANTS Req,       \* requests, by their random message id
          MaxSend,   \* bound: transmissions of one request
          None

VARIABLES pc, n_sent,      \* do_req's position; transmissions so far
          reqs, rsps,      \* datagrams in flight
          sends, snd,      \* KvReliability: `sends`; requests whose send_waiter is done
          recvs,           \* KvReliability: `recvs`, a stack
          rt, r_hold,      \* the receiving thread of a send, and the id it holds
          mt, m_hold,      \* the thread of a recv_msg, and the id it holds
          inflight, got    \* MsgIdMatcher: the map's keys, and those with a value

vars == <<pc, n_sent, reqs, rsps, sends, snd, recvs, rt, r_hold, mt, m_hold, inflight, got>>
network == <<n_sent, reqs, rsps>>
reliability == <<sends, snd, rt, r_hold>>
matcher == <<mt, m_hold, inflight, got>>

Init ==
    /\ pc = [r \in Req |-> "idle"]
    /\ n_sent = [r \in Req |-> 0]
    /\ reqs = {} /\ rsps = {}
    /\ sends = {} /\ snd = {} /\ recvs = <<>>
    /\ rt = [r \in Req |-> "none"] /\ r_hold = [r \in Req |-> None]
    /\ mt = [r \in Req |-> "none"] /\ m_hold = [r \in Req |-> None]
    /\ inflight = {} /\ got = {}

Transmit(r) ==
    /\ n_sent' = [n_sent EXCEPT ![r] = @ + 1]
    /\ reqs' = reqs \cup {<<r, n_sent[r] + 1>>}

(***************************************************************************)
(* send_msg, then KvReliability::send: the thread that waits on            *)
(* send_waiter is the condition r \in snd.                                 *)
(***************************************************************************)
SendMsg(r) ==
    /\ pc[r] = "idle"
    /\ inflight' = inflight \cup {r}
    /\ sends' = sends \cup {r}
    /\ Transmit(r)
    /\ rt' = [rt EXCEPT ![r] = "recv"]
    /\ pc' = [pc EXCEPT ![r] = "send"]
    /\ UNCHANGED <<rsps, snd, recvs, r_hold, mt, m_hold, got>>

\* poll.wait() returns TIMEOUT.
Timeout(r) ==
    /\ pc[r] = "send" /\ n_sent[r] < MaxSend
    /\ Transmit(r)
    /\ UNCHANGED <<pc, rsps, reliability, recvs, matcher>>

ReturnedBySnd(r) == r \in snd
ReturnedByRcv(r) == rt[r] = "exit"

\* poll.wait() returns SND or RCV, send returns, and recv_msg starts its thread.
SendReturns(r) ==
    /\ pc[r] = "send"
    /\ ReturnedBySnd(r) \/ ReturnedByRcv(r)
    /\ pc' = [pc EXCEPT ![r] = "await"]
    /\ mt' = [mt EXCEPT ![r] = "loop"]
    /\ UNCHANGED <<network, reliability, recvs, m_hold, inflight, got>>

(***************************************************************************)
(* The receiving thread of a send: every response goes to recvs, and one   *)
(* waiter on the condition variable is signalled; then, under another      *)
(* lock, the send that it answers is told.                                 *)
(***************************************************************************)
Waiters == {m \in Req : mt[m] = "cv"}

Push(r) ==
    /\ rt[r] = "recv"
    /\ \E x \in rsps :
         /\ rsps' = rsps \ {x}
         /\ recvs' = Append(recvs, x[1])
         /\ r_hold' = [r_hold EXCEPT ![r] = x[1]]
    /\ rt' = [rt EXCEPT ![r] = "match"]
    /\ \E w \in Waiters \cup {None} :
         /\ (w = None) <=> (Waiters = {})
         /\ mt' = [m \in Req |-> IF m = w THEN "woken" ELSE mt[m]]
    /\ UNCHANGED <<pc, n_sent, reqs, sends, snd, m_hold, inflight, got>>

MatchQuiet(r) ==
    /\ rt[r] = "match"
    /\ sends' = sends \ {r_hold[r]}
    /\ rt' = [rt EXCEPT ![r] = IF r \notin sends' THEN "exit" ELSE "recv"]
    /\ r_hold' = [r_hold EXCEPT ![r] = None]
    /\ UNCHANGED <<pc, network, recvs, matcher, snd>>
\* A response that no send waits for ends the thread; so does the thread's own, or
\* finding that the thread's own send was told by another thread.
Match(r) ==
    /\ rt[r] = "match"
    /\ LET x == r_hold[r] IN
         /\ sends' = sends \ {x}
         /\ snd' = IF x \in sends THEN snd \cup {x} ELSE snd
         /\ rt' = [rt EXCEPT ![r] =
              IF x \notin sends \/ x = r \/ r \notin sends' THEN "exit" ELSE "recv"]
    /\ r_hold' = [r_hold EXCEPT ![r] = None]
    /\ UNCHANGED <<pc, network, recvs, matcher>>

(***************************************************************************)
(* The thread of recv_msg, with KvReliability::recv inlined.  `done` is    *)
(* set when the request is.                                                *)
(***************************************************************************)
CheckDone(r) ==
    /\ mt[r] = "loop"
    /\ mt' = [mt EXCEPT ![r] = IF pc[r] = "done" THEN "exit" ELSE "pop"]
    /\ UNCHANGED <<pc, network, reliability, recvs, m_hold, inflight, got>>

\* The last element of recvs; without one, go and wait on the condition variable, which
\* is a step of its own: the lock is not held in between, and recvs not looked at again.
Pop(r) ==
    /\ mt[r] \in {"pop", "woken"}
    /\ IF recvs = <<>>
       THEN /\ mt' = [mt EXCEPT ![r] = "gap"]
            /\ UNCHANGED <<recvs, m_hold>>
       ELSE /\ mt' = [mt EXCEPT ![r] = "hold"]
            /\ m_hold' = [m_hold EXCEPT ![r] = recvs[Len(recvs)]]
            /\ recvs' = SubSeq(recvs, 1, Len(recvs) - 1)
    /\ UNCHANGED <<pc, network, reliability, inflight, got>>

CvWait(r) ==
    /\ mt[r] = "gap"
    /\ mt' = [mt EXCEPT ![r] = "cv"]
    /\ UNCHANGED <<pc, network, reliability, recvs, m_hold, inflight, got>>

DeliverOwn(r) ==
    /\ mt[r] = "hold"
    /\ got' = got \cup ({m_hold[r]} \cap inflight \cap {r})
    /\ mt' = [mt EXCEPT ![r] = IF m_hold[r] = r THEN "exit" ELSE "loop"]
    /\ m_hold' = [m_hold EXCEPT ![r] = None]
    /\ UNCHANGED <<pc, network, reliability, recvs, inflight>>
\* The response is stored for the request that it answers, if it still waits.
Deliver(r) ==
    /\ mt[r] = "hold"
    /\ got' = got \cup ({m_hold[r]} \cap inflight)
    /\ mt' = [mt EXCEPT ![r] =
         IF m_hold[r] = r /\ r \in inflight THEN "exit" ELSE "loop"]
    /\ m_hold' = [m_hold EXCEPT ![r] = None]
    /\ UNCHANGED <<pc, network, reliability, recvs, inflight>>

\* recv_waiter.wait() returns: done is set, the entry removed, and do_req returns.
RecvReturns(r) ==
    /\ pc[r] = "await" /\ r \in got
    /\ pc' = [pc EXCEPT ![r] = "done"]
    /\ inflight' = inflight \ {r}
    /\ got' = got \ {r}
    /\ UNCHANGED <<network, reliability, recvs, mt, m_hold>>

(***************************************************************************)
(* The network, and a shard's perconn loop.                                *)
(***************************************************************************)
Perconn(q) ==
    /\ q \in reqs
    /\ reqs' = reqs \ {q}
    /\ rsps' = rsps \cup {q}
    /\ UNCHANGED <<pc, n_sent, reliability, recvs, matcher>>

Lose(q) ==
    /\ q \in reqs \cup rsps
    /\ reqs' = reqs \ {q}
    /\ rsps' = rsps \ {q}
    /\ UNCHANGED <<pc, n_sent, reliability, recvs, matcher>>

Thread(r) == SendMsg(r) \/ SendReturns(r) \/ Push(r) \/ Match(r) \/ CheckDone(r)
             \/ Pop(r) \/ CvWait(r) \/ Deliver(r) \/ RecvReturns(r)

Next ==
    \/ \E r \in Req : Thread(r) \/ Timeout(r)
    \/ \E q \in reqs : Perconn(q)
    \/ \E q \in reqs \cup rsps : Lose(q)

Spec == Init /\ [][Next]_vars

-----------------------------------------------------------------------------
TypeOK ==
    /\ pc \in [Req -> {"idle", "send", "await", "done"}]
    /\ n_sent \in [Req -> 0..MaxSend]
    /\ reqs \subseteq Req \X (1..MaxSend) /\ rsps \subseteq Req \X (1..MaxSend)
    /\ sends \subseteq Req /\ snd \subseteq Req /\ inflight \subseteq Req
    /\ got \subseteq inflight
    /\ recvs \in Seq(Req)
    /\ rt \in [Req -> {"none", "recv", "match", "exit"}]
    /\ mt \in [Req -> {"none", "loop", "pop", "gap", "cv", "woken", "hold", "exit"}]
    /\ r_hold \in [Req -> Req \cup {None}] /\ m_hold \in [Req -> Req \cup {None}]

\* Whichever thread takes a response, the request that it answers does not lose it: from
\* the moment its send is told (lib.rs:1342-1352) until it is delivered, the response is in
\* recvs or in the hands of some request's thread.
AnswerNotLost ==
    \A r \in inflight \ (sends \cup got) :
        \/ \E i \in DOMAIN recvs : recvs[i] = r
        \/ \E m \in Req : m_hold[m] = r

-----------------------------------------------------------------------------
\* A timeout longer than any round trip: a retransmission is of a datagram that was lost.
InFlight(r) == \E n \in 1..MaxSend : <<r, n>> \in reqs \cup rsps
TimelyTimeout(r) ==
    /\ ~InFlight(r) /\ r \in sends
    /\ \A t \in Req : r_hold[t] # r
    /\ Timeout(r)
NextTimely ==
    \/ \E r \in Req : Thread(r) \/ TimelyTimeout(r)
    \/ \E q \in reqs : Perconn(q)
    \/ \E q \in reqs \cup rsps : q[2] < MaxSend /\ Lose(q)
Server == \E q \in reqs : Perconn(q)

\* What MCProgress waits for: every request is answered although its threads may take each
\* other's responses, as long as no retransmission is spurious.
Done(r) == pc[r] = "done"
=============================================================================
