-------------------------------- MODULE Split --------------------------------
(***************************************************************************)
(* The Split chunnel (bertha/src/split.rs): the stack below it becomes a   *)
(* task of its own (SplitCnTop), connected to the stack above by two       *)
(* bounded channels.  The first send or recv on the upper half             *)
(* (SplitCnBottom) takes the task out of split_starter, and spawns it when *)
(* the future it returned is first polled.                                 *)
(***************************************************************************)
EXTENDS Integers, Sequences, FiniteSets

CONSTANTS Receiver,     \* tasks that call recv on the upper half
          MaxMsg,       \* bound: messages in each direction
          Cap,          \* capacity of either channel (100 in the code)
          Slots,        \* a receiver's msgs_buf.len()
          MayCancel,    \* callers may drop the future of send or recv
          MayFail       \* cn.send and cn.recv of the lower stack may fail

VARIABLES starter,      \* "held"; the call that took it; "running"; "lost"
                        \* (dropped before it ran, or its loop has returned)
          down, up,     \* the channels: to the lower stack, from the lower stack
          n_sent,       \* messages the sender has put into `down`
          out,          \* messages the lower stack's cn.send was given
          n_in,         \* messages the peer has put into `inc`
          inc,          \* messages the lower stack's cn.recv will return
          held,         \* the message the task is sending up, or 0
          pc,           \* a caller's position
          idx,          \* a receiver's slot_idx
          got           \* messages recv has taken for its callers, in order

vars == <<starter, down, up, n_sent, out, n_in, inc, held, pc, idx, got>>

Caller == Receiver \cup {"sender"}

Init ==
    /\ starter = "held"
    /\ down = <<>> /\ up = <<>>
    /\ n_sent = 0 /\ out = <<>>
    /\ n_in = 0 /\ inc = <<>> /\ held = 0
    /\ pc = [c \in Caller |-> "idle"]
    /\ idx = [r \in Receiver |-> 0]
    /\ got = <<>>

chans == <<down, up, n_sent, out, n_in, inc, held>>

\* send or recv is called: the starter is taken now, not when the future runs.
Call(c) ==
    /\ pc[c] = "idle"
    /\ c = "sender" => n_sent < MaxMsg
    /\ pc' = [pc EXCEPT ![c] = "called"]
    /\ starter' = IF starter = "held" THEN c ELSE starter
    /\ UNCHANGED <<chans, idx, got>>

PollSend(c) ==
    /\ pc[c] = "called"
    /\ starter' = IF starter = c /\ c = "sender" THEN "running" ELSE starter
    /\ pc' = [pc EXCEPT ![c] = IF c = "sender" THEN "push" ELSE "first"]
    /\ UNCHANGED <<chans, idx, got>>

\* The first poll spawns the lower stack.
Poll(c) ==
    /\ pc[c] = "called"
    /\ starter' = IF starter = c THEN "running" ELSE starter
    /\ pc' = [pc EXCEPT ![c] = IF c = "sender" THEN "push" ELSE "first"]
    /\ UNCHANGED <<chans, idx, got>>

\* The caller drops the future; if it was never polled the lower stack goes with it.
Cancel(c) ==
    /\ MayCancel
    /\ pc[c] \in {"called", "push"} \/ pc[c] = "wait"
    /\ pc' = [pc EXCEPT ![c] = "idle"]
    /\ starter' = IF pc[c] = "called" /\ starter = c THEN "lost" ELSE starter
    /\ UNCHANGED <<chans, idx, got>>

PushTry ==
    /\ pc["sender"] = "push"
    /\ n_sent' = n_sent + 1
    /\ down' = IF starter # "lost" /\ Len(down) < Cap THEN Append(down, n_sent + 1) ELSE down
    /\ pc' = [pc EXCEPT !["sender"] = "idle"]
    /\ UNCHANGED <<starter, up, out, n_in, inc, held, idx, got>>

\* channel.send.send_async; an error when the lower stack is gone.
Push ==
    /\ pc["sender"] = "push"
    /\ \/ /\ starter = "lost" /\ UNCHANGED <<down, n_sent>>
       \/ /\ starter # "lost" /\ Len(down) < Cap
          /\ n_sent' = n_sent + 1 /\ down' = Append(down, n_sent + 1)
    /\ pc' = [pc EXCEPT !["sender"] = "idle"]
    /\ UNCHANGED <<starter, up, out, n_in, inc, held, idx, got>>

-----------------------------------------------------------------------------
\* The lower stack's loop: a select that polls the channel first, then cn.recv.
RunDown ==
    /\ starter = "running" /\ held = 0 /\ down # <<>>
    /\ out' = Append(out, Head(down)) /\ down' = Tail(down)
    /\ UNCHANGED <<starter, up, n_sent, n_in, inc, held, pc, idx, got>>

RunUpEager ==
    /\ starter = "running" /\ inc # <<>>
    /\ held' = Head(inc) /\ inc' = Tail(inc)
    /\ UNCHANGED <<starter, down, up, n_sent, out, n_in, pc, idx, got>>

RunUp ==
    /\ starter = "running" /\ held = 0 /\ down = <<>> /\ inc # <<>>
    /\ held' = Head(inc) /\ inc' = Tail(inc)
    /\ UNCHANGED <<starter, down, up, n_sent, out, n_in, pc, idx, got>>

PushUpUnbounded ==
    /\ starter = "running" /\ held # 0
    /\ up' = Append(up, held) /\ held' = 0
    /\ UNCHANGED <<starter, down, n_sent, out, n_in, inc, pc, idx, got>>

\* ... awaiting room in the channel up, during which nothing is sent down.
PushUp ==
    /\ starter = "running" /\ held # 0 /\ Len(up) < Cap
    /\ up' = Append(up, held) /\ held' = 0
    /\ UNCHANGED <<starter, down, n_sent, out, n_in, inc, pc, idx, got>>

\* cn.send fails, or cn.recv does or returns no message: the loop returns and drops its ends
\* of the channels.  Nobody reads `down` or `inc` any more; what was in hand stays counted there.
RunFails ==
    /\ MayFail
    /\ starter = "running" /\ held = 0
    /\ starter' = "lost"
    /\ UNCHANGED <<chans, pc, idx, got>>

PeerSends ==
    /\ n_in < MaxMsg
    /\ n_in' = n_in + 1 /\ inc' = Append(inc, n_in + 1)
    /\ UNCHANGED <<starter, down, up, n_sent, out, held, pc, idx, got>>

-----------------------------------------------------------------------------
\* recv: wait for one message if there is none ...
First(r) ==
    /\ pc[r] = "first"
    /\ pc' = [pc EXCEPT ![r] = IF up = <<>> THEN "wait" ELSE "drain"]
    /\ idx' = [idx EXCEPT ![r] = 0]
    /\ UNCHANGED <<starter, chans, got>>

Take(r) ==
    /\ up' = Tail(up)
    /\ idx' = [idx EXCEPT ![r] = @ + 1]
    /\ got' = Append(got, Head(up))
    /\ UNCHANGED <<starter, down, n_sent, out, n_in, inc, held>>

Wait(r) ==
    /\ pc[r] = "wait"
    /\ \/ /\ up # <<>>
          /\ Take(r)
          /\ pc' = [pc EXCEPT ![r] = "drain"]
       \/ /\ up = <<>> /\ starter = "lost"        \* the sender is gone: an error
          /\ pc' = [pc EXCEPT ![r] = "idle"]
          /\ UNCHANGED <<starter, chans, idx, got>>

\* ... then take what is there, checking the buffer's length after each write: a message that
\* is waiting when the buffer is already full (it has one slot) is written past the end.
DrainLong(r) ==
    /\ pc[r] = "drain"
    /\ \/ /\ up # <<>>
          /\ Take(r)
          /\ pc' = [pc EXCEPT ![r] = IF idx[r] >= Slots[r] THEN "panic" ELSE "drain"]
       \/ /\ up = <<>>
          /\ pc' = [pc EXCEPT ![r] = "idle"]
          /\ UNCHANGED <<starter, chans, idx, got>>

Drain(r) ==
    /\ pc[r] = "drain"
    /\ \/ /\ up # <<>>
          /\ Take(r)
          /\ pc' = [pc EXCEPT ![r] = IF idx[r] >= Slots[r] THEN "panic"
                                     ELSE IF idx[r] + 1 >= Slots[r] THEN "idle" ELSE "drain"]
       \/ /\ up = <<>>
          /\ pc' = [pc EXCEPT ![r] = "idle"]
          /\ UNCHANGED <<starter, chans, idx, got>>

Recv(r) == First(r) \/ Wait(r) \/ Drain(r)
Run == RunDown \/ RunUp \/ PushUp \/ RunFails
Next == \/ \E c \in Caller : Call(c) \/ Poll(c) \/ Cancel(c)
        \/ Push \/ Run \/ PeerSends \/ \E r \in Receiver : Recv(r)

Spec == Init /\ [][Next]_vars

-----------------------------------------------------------------------------
Msgs == Seq(1..MaxMsg)
TypeOK ==
    /\ starter \in {"held", "running", "lost"} \cup Caller
    /\ down \in Msgs /\ up \in Msgs /\ out \in Msgs /\ inc \in Msgs /\ got \in Msgs
    /\ n_sent \in 0..MaxMsg /\ n_in \in 0..MaxMsg /\ held \in 0..MaxMsg
    /\ pc \in [Caller -> {"idle", "called", "push", "first", "wait", "drain", "panic"}]
    /\ \A r \in Receiver : idx[r] \in Nat

Upto(n) == [i \in 1..n |-> i]

\* Cutting the stack in two repeats and reorders nothing, whichever calls are dropped half way
\* and wherever the lower stack fails: what was accepted for sending is below or in the channel,
\* in order, so that what a failure loses is the end of it.
SentInOrder == out \o down = Upto(n_sent)

\* ... and what the peer sent is taken by recv, or on its way up, in order.
ReceivedInOrder == got \o up \o (IF held = 0 THEN <<>> ELSE <<held>>) \o inc = Upto(n_in)

\* Neither channel exceeds its capacity, so that a slow upper half holds back the lower one.
Backpressure == Len(up) <= Cap /\ Len(down) <= Cap

\* Only a caller with one slot can be handed more than fits (recv writes before it checks).  A
\* Split below another is asked with one slot, by the loop above.
BurstFits == \A r \in Receiver : pc[r] = "panic" => Slots[r] = 1

-----------------------------------------------------------------------------
\* What MCProgress relates: with a receiver that keeps calling recv, everything accepted is
\* passed on, both ways, if the lower stack does not fail: the task blocked on the full channel
\* up is released.
Sent(n) == n_sent >= n
PassedDown(n) == Len(out) >= n
Came(n) == n_in >= n
PassedUp(n) == Len(got) >= n
=============================================================================
