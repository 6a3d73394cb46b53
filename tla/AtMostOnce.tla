----------------------------- MODULE AtMostOnce -----------------------------
(***************************************************************************)
(* AtMostOnceChunnel (bertha/src/atmostonce.rs): the sender numbers the    *)
(* messages, the receiver remembers the numbers it has returned and drops  *)
(* repeats.  Numbers older than Sunset are forgotten, in batches: a prune  *)
(* happens when more than Sunset has passed since the last one.            *)
(*                                                                         *)
(* One peer (the state of two peers is disjoint).  Time is a counter.  Two *)
(* calls of Instant::now() under the peer's lock return different          *)
(* instants unless CoarseClock: deliver_times is keyed by the instant.     *)
(***************************************************************************)
EXTENDS Integers, FiniteSets

CONSTANTS MaxSeq,       \* bound: messages sent
          MaxTime,      \* bound: the clock
          Sunset,       \* sunset
          Slots,        \* length of msgs_buf
          CoarseClock   \* TRUE: two messages may be stamped with one instant

VARIABLES next_seq,       \* sender's counter
          net,            \* messages in flight; the transport may repeat any of them
          now,            \* the clock
          last_update, deliver_times, delivered,   \* RecvState
          batch,          \* messages of the burst being filtered
          last            \* last[s]: when s was last returned to the application

vars == <<next_seq, net, now, last_update, deliver_times, delivered, batch, last>>

Seqno == 1..MaxSeq
Time == 0..MaxTime
Never == -1
NoEntry == 0

Init ==
    /\ next_seq = 0
    /\ net = {}
    /\ now = 0
    /\ last_update = Never
    /\ deliver_times = [t \in Time |-> NoEntry]
    /\ delivered = {}
    /\ batch = {}
    /\ last = [s \in Seqno |-> Never]

Send ==
    /\ next_seq < MaxSeq
    /\ next_seq' = next_seq + 1
    /\ net' = net \cup {next_seq + 1}
    /\ UNCHANGED <<now, last_update, deliver_times, delivered, batch, last>>

Tick ==
    /\ now < MaxTime
    /\ now' = now + 1
    /\ UNCHANGED <<next_seq, net, last_update, deliver_times, delivered, batch, last>>

\* The transport drops what it carries of a message for good.
Lose(s) ==
    /\ s \in net
    /\ net' = net \ {s}
    /\ UNCHANGED <<next_seq, now, last_update, deliver_times, delivered, batch, last>>

\* inner.recv returns a burst of messages, new or repeated.
Burst ==
    /\ batch = {}
    /\ \E b \in SUBSET net : b # {} /\ Cardinality(b) <= Slots /\ batch' = b
    /\ UNCHANGED <<next_seq, net, now, last_update, deliver_times, delivered, last>>

\* is_new records the number and the instant; insert() replaces an equal instant.
Record(s) == [deliver_times EXCEPT ![now] = s]

Values(times) == {times[t] : t \in Time} \ {NoEntry}

\* maybe_update: the first call starts the period, a later one prunes.
PruneDue == last_update # Never /\ now - last_update > Sunset
RecentHalf(t) == 2 * t >= 2 * now - Sunset
RecentTwice(t) == t >= now - 2 * Sunset
Recent(t) == t >= now - Sunset
MaybeUpdateOnlyTimes(times, seqs) ==
    LET kept == [t \in Time |-> IF Recent(t) THEN times[t] ELSE NoEntry]
    IN /\ last_update' = IF last_update = Never \/ PruneDue THEN now ELSE last_update
       /\ deliver_times' = IF PruneDue THEN kept ELSE times
       /\ delivered' = seqs
MaybeUpdate(times, seqs) ==
    LET kept == [t \in Time |-> IF Recent(t) THEN times[t] ELSE NoEntry]
    IN /\ last_update' = IF last_update = Never \/ PruneDue THEN now ELSE last_update
       /\ deliver_times' = IF PruneDue THEN kept ELSE times
       /\ delivered' = IF PruneDue THEN Values(kept) ELSE seqs

\* A message is filtered under the lock of its peer.
Filter(s) ==
    /\ s \in batch
    /\ batch' = batch \ {s}
    /\ \/ /\ s \notin delivered
          /\ CoarseClock \/ deliver_times[now] = NoEntry
          /\ MaybeUpdate(Record(s), delivered \cup {s})
          /\ last' = [last EXCEPT ![s] = now]
       \/ /\ s \in delivered
          /\ MaybeUpdate(deliver_times, delivered)
          /\ UNCHANGED last
    /\ UNCHANGED <<next_seq, net, now>>

Next == Send \/ Tick \/ Burst \/ \E s \in Seqno : Lose(s) \/ Filter(s)

Spec == Init /\ [][Next]_vars

-----------------------------------------------------------------------------
TypeOK ==
    /\ next_seq \in 0..MaxSeq
    /\ net \subseteq Seqno
    /\ now \in Time
    /\ last_update \in Time \cup {Never}
    /\ deliver_times \in [Time -> 0..MaxSeq]
    /\ delivered \subseteq Seqno
    /\ batch \subseteq Seqno
    /\ last \in [Seqno -> Time \cup {Never}]

\* A message is returned again only if more than the time horizon has passed since it was
\* last returned, however often the transport repeats it and whenever old numbers are
\* pruned (is_new, maybe_update).
ReturnedAgainLate ==
    \A s \in Seqno :
      last[s] # Never /\ last'[s] # last[s] => last'[s] - last[s] > Sunset
AtMostOncePerHorizon == [][ReturnedAgainLate]_vars

\* The two records agree: exactly the messages with a remembered instant are known.
RecordsAgree == delivered = Values(deliver_times)

\* What is remembered is bounded in time: nothing older than one horizon survives a prune.
MemoryIsBounded ==
    \A t \in Time : deliver_times[t] # NoEntry => last_update - t <= Sunset
=============================================================================
