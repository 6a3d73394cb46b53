--------------------------- MODULE OrderedChunnel ---------------------------
(***************************************************************************)
(* OrderedChunnel (bertha/src/tagger.rs): the sender numbers the segments  *)
(* of each peer, the receiver returns them in that order and holds early   *)
(* ones in a heap.  With a hole threshold it gives up on a missing segment *)
(* once one more than HoleThresh ahead has arrived.                        *)
(*                                                                         *)
(* The transport below may lose, reorder and duplicate (up to Copies       *)
(* copies).  Any number of tasks share one receiving connection; a step is *)
(* what a task does under one lock of the map of peers.                    *)
(***************************************************************************)
EXTENDS Integers, Sequences, FiniteSets

CONSTANTS Peer,        \* the addresses segments come from
          Task,        \* tasks calling recv
          MaxSeq,      \* bound: segments a peer sends
          Slots,       \* length of msgs_buf
          Copies,      \* bound: copies the transport may deliver of one segment
          HoleThresh,  \* hole_thresh, or NoThresh
          NoThresh

VARIABLES snd_nxt,        \* sender's state, for each peer
          net,            \* net[p][s]: copies of segment s in flight
          made,           \* made[p][s]: copies made of it so far
          expected_recv,  \* receiver's state, for each peer
          recvd,          \* recvd[p][s]: copies of s in the heap of p
          returned,       \* the segments handed to the application, in order
          pc, batch, slot_idx   \* the recv call of each task

vars == <<snd_nxt, net, made, expected_recv, recvd, returned, pc, batch, slot_idx>>

Seqno == 0..(MaxSeq - 1)
NoCopies == [p \in Peer |-> [s \in Seqno |-> 0]]
InHeap(p) == {s \in Seqno : recvd[p][s] > 0}
PeekMax(p) == CHOOSE s \in InHeap(p) : \A t \in InHeap(p) : s >= t
Peek(p) == CHOOSE s \in InHeap(p) : \A t \in InHeap(p) : s <= t

Init ==
    /\ snd_nxt = [p \in Peer |-> 0]
    /\ net = NoCopies
    /\ made = NoCopies
    /\ expected_recv = [p \in Peer |-> 0]
    /\ recvd = NoCopies
    /\ returned = [p \in Peer |-> <<>>]
    /\ pc = [t \in Task |-> "peel"]
    /\ batch = [t \in Task |-> <<>>]
    /\ slot_idx = [t \in Task |-> 0]

receiver == <<expected_recv, recvd, returned, pc, batch, slot_idx>>
link == <<snd_nxt, net, made>>

(***************************************************************************)
(* The sender and the transport.                                           *)
(***************************************************************************)
Send(p) ==
    /\ snd_nxt[p] < MaxSeq
    /\ snd_nxt' = [snd_nxt EXCEPT ![p] = @ + 1]
    /\ net' = [net EXCEPT ![p][snd_nxt[p]] = 1]
    /\ made' = [made EXCEPT ![p][snd_nxt[p]] = 1]
    /\ UNCHANGED receiver

Duplicate(p, s) ==
    /\ net[p][s] > 0 /\ made[p][s] < Copies
    /\ net' = [net EXCEPT ![p][s] = @ + 1]
    /\ made' = [made EXCEPT ![p][s] = @ + 1]
    /\ UNCHANGED <<snd_nxt, receiver>>

Lose(p, s) ==
    /\ net[p][s] > 0
    /\ net' = [net EXCEPT ![p][s] = @ - 1]
    /\ UNCHANGED <<snd_nxt, made, receiver>>

(***************************************************************************)
(* recv.  A task peels the heaps while it has free slots, then returns     *)
(* what it has, or waits for a burst from below and sorts it.              *)
(***************************************************************************)
GiveUpEarly(p, s) == HoleThresh # NoThresh /\ expected_recv[p] < s

GiveUp(p, s) == HoleThresh # NoThresh /\ expected_recv[p] + HoleThresh < s

Pop(p) ==
    /\ InHeap(p) # {}
    /\ Peek(p) = expected_recv[p] \/ GiveUp(p, Peek(p))

ReturnSkips(t, p, s) ==
    /\ expected_recv' = [expected_recv EXCEPT ![p] = s + 2]
    /\ returned' = [returned EXCEPT ![p] = Append(@, s)]
    /\ slot_idx' = [slot_idx EXCEPT ![t] = @ + 1]

\* A segment goes to the next slot of the task's buffer.
Return(t, p, s) ==
    /\ expected_recv' = [expected_recv EXCEPT ![p] = s + 1]
    /\ returned' = [returned EXCEPT ![p] = Append(@, s)]
    /\ slot_idx' = [slot_idx EXCEPT ![t] = @ + 1]

\* The call returns; the application calls recv again.
RecvReturns(t) ==
    /\ pc' = [pc EXCEPT ![t] = "peel"]
    /\ slot_idx' = [slot_idx EXCEPT ![t] = 0]

PopHead(t, p) ==
    /\ pc[t] = "peel" /\ slot_idx[t] < Slots
    /\ Pop(p)
    /\ Return(t, p, Peek(p))
    /\ recvd' = [recvd EXCEPT ![p][Peek(p)] = @ - 1]
    /\ UNCHANGED <<link, pc, batch>>

PeelDone(t) ==
    /\ pc[t] = "peel"
    /\ slot_idx[t] > 0
    /\ slot_idx[t] >= Slots \/ \A p \in Peer : ~Pop(p)
    /\ RecvReturns(t)
    /\ UNCHANGED <<link, expected_recv, recvd, returned, batch>>

NeedFillAnyway(t) ==
    /\ pc[t] = "peel" /\ slot_idx[t] < Slots
    /\ \A p \in Peer : ~Pop(p)
    /\ pc' = [pc EXCEPT ![t] = "await"]
    /\ UNCHANGED <<link, expected_recv, recvd, returned, batch, slot_idx>>

NeedFill(t) ==
    /\ pc[t] = "peel" /\ slot_idx[t] = 0
    /\ \A p \in Peer : ~Pop(p)
    /\ pc' = [pc EXCEPT ![t] = "await"]
    /\ UNCHANGED <<link, expected_recv, recvd, returned, batch, slot_idx>>

\* inner.recv returns a burst of up to Slots segments, in any order.
Fill(t) ==
    /\ pc[t] = "await"
    /\ \E n \in 1..Slots : \E b \in [1..n -> Peer \X Seqno] :
         /\ \A i \in 1..n :
               Cardinality({j \in 1..n : b[j] = b[i]}) <= net[b[i][1]][b[i][2]]
         /\ batch' = [batch EXCEPT ![t] = b]
         /\ net' = [p \in Peer |-> [s \in Seqno |->
                      net[p][s] - Cardinality({i \in 1..n : b[i] = <<p, s>>})]]
    /\ pc' = [pc EXCEPT ![t] = "sort"]
    /\ UNCHANGED <<snd_nxt, made, expected_recv, recvd, returned, slot_idx>>

\* The future is dropped while it waits (for instance by a select!).
Cancel(t) ==
    /\ pc[t] = "await"
    /\ pc' = [pc EXCEPT ![t] = "peel"]
    /\ UNCHANGED <<link, expected_recv, recvd, returned, batch, slot_idx>>

SortHead(t) ==
    /\ pc[t] = "sort" /\ batch[t] # <<>>
    /\ LET p == Head(batch[t])[1]
           s == Head(batch[t])[2]
       IN \/ /\ s = expected_recv[p]
             /\ Return(t, p, s)
             /\ UNCHANGED recvd
          \/ /\ s > expected_recv[p]
             /\ recvd' = [recvd EXCEPT ![p][s] = @ + 1]
             /\ UNCHANGED <<expected_recv, returned, slot_idx>>
          \/ /\ s < expected_recv[p]
             /\ UNCHANGED <<expected_recv, returned, slot_idx, recvd>>
    /\ batch' = [batch EXCEPT ![t] = Tail(@)]
    /\ UNCHANGED <<link, pc>>

SortDone(t) ==
    /\ pc[t] = "sort" /\ batch[t] = <<>>
    /\ RecvReturns(t)      \* with nothing to return the loop starts over, likewise
    /\ UNCHANGED <<link, expected_recv, recvd, returned, batch>>

Recv(t) ==
    \/ \E p \in Peer : PopHead(t, p)
    \/ PeelDone(t) \/ NeedFill(t) \/ Fill(t) \/ SortHead(t) \/ SortDone(t)

Next ==
    \/ \E p \in Peer : Send(p)
    \/ \E p \in Peer, s \in Seqno : Duplicate(p, s) \/ Lose(p, s)
    \/ \E t \in Task : Recv(t) \/ Cancel(t)

Spec == Init /\ [][Next]_vars

-----------------------------------------------------------------------------
TypeOK ==
    /\ snd_nxt \in [Peer -> 0..MaxSeq]
    /\ net \in [Peer -> [Seqno -> Nat]]
    /\ made \in [Peer -> [Seqno -> Nat]]
    /\ expected_recv \in [Peer -> 0..MaxSeq]
    /\ recvd \in [Peer -> [Seqno -> Nat]]
    /\ returned \in [Peer -> Seq(Seqno)]
    /\ pc \in [Task -> {"peel", "await", "sort"}]
    /\ batch \in [Task -> Seq(Peer \X Seqno)]
    /\ slot_idx \in [Task -> Nat]

\* Whatever the transport does, and however many tasks receive, the segments of a peer
\* are returned in the order sent and none is returned twice; a segment is skipped only
\* when the hole exceeds the threshold, and never without one (recv, tagger.rs:146-206).
InOrder ==
    \A p \in Peer : \A i \in DOMAIN returned[p] :
      LET s == returned[p][i]
          expected == IF i = 1 THEN 0 ELSE returned[p][i - 1] + 1
      IN s = expected \/ (HoleThresh # NoThresh /\ s > expected + HoleThresh)

\* A burst never overruns the caller's buffer: every segment that a task still has to
\* sort has a slot to go to (msgs_buf[slot_idx], tagger.rs:187).
BufferFits ==
    \A t \in Task : slot_idx[t] + Len(batch[t]) <= Slots

-----------------------------------------------------------------------------
\* A transport that delivers everything, in any order, to receivers that keep calling.
NextReliable == (\E p \in Peer : Send(p)) \/ (\E t \in Task : Recv(t))

\* What MCProgress relates: every segment sent is returned in the end, if the transport
\* neither loses nor duplicates.
Sent(p, n) == snd_nxt[p] >= n
Returned(p, n) == Len(returned[p]) >= n
=============================================================================
