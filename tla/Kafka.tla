------------------------------- MODULE Kafka -------------------------------
(***************************************************************************)
(* The chunnel over Kafka: KafkaChunnel and KafkaConn.  send hands a burst *)
(* to the producer's queue and waits for every delivery; recv takes what   *)
(* is ready, up to its slots, and fills the caller's slots, which may hold *)
(* an earlier message.  Offsets are never committed (enable.auto.commit is *)
(* false and auto.offset.reset is smallest).                               *)
(* The producer, the broker and the consumer (Deliver, Rebalance) are      *)
(* external: a message's partition depends on its group, if it has one.    *)
(***************************************************************************)
EXTENDS Integers, Sequences, FiniteSets, SequencesExt

CONSTANTS Task,         \* tasks that call recv on the connection
          Group,        \* Group[m]: the group of message m, in a sequence, or None
          Partition,    \* the partitions of the topic
          PartOf,       \* PartOf[g]: the partition of group g
          Cap,          \* the capacity of the producer's queue
          Slots,        \* the slots of every call of recv
          Reuse,        \* callers reuse their slots
          MayFail,      \* deliveries may fail
          MayRebalance, \* another consumer of the group may come and go
          None

VARIABLES todo,      \* the messages of the burst that were not handed to the producer
          spc,       \* whether send constructs, waits, or has ended: "make", "wait", "ok", "err"
          inflight,  \* the producer's queue
          undelivered, \* messages whose delivery failed, not noticed yet
          log,       \* the broker: the messages of a partition, in order
          pos,       \* the consumer: how many messages of a partition it has passed on
          slots,     \* of each task, its slots: sequences of groups and a message
          rebalanced, \* ghost: whether positions were ever reset
          returned   \* ghost: what recv has returned, as messages and groups, in order

vars == <<todo, spc, inflight, undelivered, log, pos, slots, rebalanced, returned>>

Msg == DOMAIN Group
Empty == [group |-> <<>>, msg |-> 0]

TypeOK ==
    /\ todo \in Seq(Msg) /\ spc \in {"make", "wait", "ok", "err"}
    /\ inflight \in Seq(Msg) /\ Len(inflight) <= Cap /\ undelivered \subseteq Msg
    /\ \A p \in Partition : log[p] \in Seq(Msg) /\ pos[p] \in 0..Len(log[p])
    /\ \A t \in Task : Len(slots[t]) = Slots
    /\ rebalanced \in BOOLEAN

Init ==
    /\ todo = [m \in Msg |-> m] /\ spc = "make" /\ inflight = <<>> /\ undelivered = {}
    /\ log = [p \in Partition |-> <<>>] /\ pos = [p \in Partition |-> 0]
    /\ slots = [t \in Task |-> [i \in 1..Slots |-> Empty]]
    /\ rebalanced = FALSE /\ returned = <<>>

\* send_result of the next message of the burst: a full queue is an error, and ends send with the
\* messages before it in the queue.
Produce ==
    /\ spc = "make" /\ todo # <<>>
    /\ IF Len(inflight) < Cap
         THEN inflight' = Append(inflight, Head(todo)) /\ todo' = Tail(todo) /\ UNCHANGED spc
         ELSE spc' = "err" /\ UNCHANGED <<inflight, todo>>
    /\ UNCHANGED <<undelivered, log, pos, slots, rebalanced, returned>>

AllProduced ==
    /\ spc = "make" /\ todo = <<>> /\ spc' = "wait"
    /\ UNCHANGED <<todo, inflight, undelivered, log, pos, slots, rebalanced, returned>>

SendReturnsAny ==
    /\ spc = "wait" /\ inflight = <<>> /\ spc' = "ok"
    /\ UNCHANGED <<todo, inflight, undelivered, log, pos, slots, rebalanced, returned>>

\* try_collect of the deliveries: the first that failed ends send.
SendReturns ==
    /\ spc = "wait"
    /\ IF undelivered # {} THEN spc' = "err" ELSE inflight = <<>> /\ spc' = "ok"
    /\ UNCHANGED <<todo, inflight, undelivered, log, pos, slots, rebalanced, returned>>

Send == Produce \/ AllProduced \/ SendReturns

\* The producer delivers its oldest message to its partition, or fails to.
Deliver ==
    /\ inflight # <<>> /\ inflight' = Tail(inflight)
    /\ LET m == Head(inflight)
       IN \/ \E p \in IF Group[m] = None THEN Partition ELSE {PartOf[Group[m]]} :
                log' = [log EXCEPT ![p] = Append(@, m)] /\ UNCHANGED undelivered
          \/ MayFail /\ undelivered' = undelivered \cup {m} /\ UNCHANGED log
    /\ UNCHANGED <<todo, spc, pos, slots, rebalanced, returned>>

\* Partitions move to another consumer of the group and back: with nothing committed, the
\* positions start from the smallest offset.
Rebalance ==
    /\ MayRebalance /\ ~rebalanced /\ rebalanced' = TRUE
    /\ pos' = [p \in Partition |-> 0]
    /\ UNCHANGED <<todo, spc, inflight, undelivered, log, slots, returned>>

KeyOf(m) == IF Group[m] = None THEN <<>> ELSE <<Group[m]>>

FillStale(s, m) == [group |-> s.group, msg |-> m]

\* One slot: an earlier message's group is extended, not replaced, by the new one's.
Fill(s, m) == [group |-> IF KeyOf(m) = <<>> THEN <<>> ELSE s.group \o KeyOf(m), msg |-> m]

\* ready_chunks: what the partitions have ready, in order of each, up to the slots.
Ready == {s \in UNION {[1..n -> Partition] : n \in 1..Slots} :
             \A p \in Partition : pos[p] + Cardinality({i \in DOMAIN s : s[i] = p}) <= Len(log[p])}

RecvAgain(t) ==
    \E s \in Ready :
      LET ms == [i \in DOMAIN s |-> log[s[i]][pos[s[i]] + 1]]
      IN /\ returned' = returned \o [i \in DOMAIN s |-> [group |-> KeyOf(ms[i]), msg |-> ms[i]]]
         /\ pos' = [p \in Partition |-> pos[p] + IF p \in Range(s) THEN 1 ELSE 0]
         /\ UNCHANGED <<todo, spc, inflight, undelivered, log, slots, rebalanced>>

\* recv returns what is ready.  A call that is dropped while it waits has taken nothing.
Recv(t) ==
    \E s \in Ready :
      LET ms == [i \in DOMAIN s |->
                   log[s[i]][pos[s[i]] + Cardinality({j \in 1..i : s[j] = s[i]})]]
          before == IF Reuse THEN slots[t] ELSE [i \in 1..Slots |-> Empty]
          after == [i \in 1..Slots |-> IF i \in DOMAIN s THEN Fill(before[i], ms[i]) ELSE before[i]]
      IN /\ slots' = [slots EXCEPT ![t] = IF Reuse THEN after ELSE slots[t]]
         /\ returned' = returned \o SubSeq(after, 1, Len(s))
         /\ pos' = [p \in Partition |-> pos[p] + Cardinality({i \in DOMAIN s : s[i] = p})]
         /\ UNCHANGED <<todo, spc, inflight, undelivered, log, rebalanced>>

Next == Send \/ Deliver \/ Rebalance \/ \E t \in Task : Recv(t)

Spec == Init /\ [][Next]_vars

----------------------------------------------------------------------------

OfGroup(g) == SelectSeq(returned, LAMBDA r : Group[r.msg] = g)

\* Unless partitions were reassigned, the messages of a group are returned in the order they were
\* sent, and no message twice.
GroupsInOrder ==
    ~rebalanced =>
      /\ \A g \in Range(Group) \ {None} :
           \A i, j \in DOMAIN OfGroup(g) : i < j => OfGroup(g)[i].msg < OfGroup(g)[j].msg
      /\ \A i, j \in DOMAIN returned : returned[i].msg = returned[j].msg => i = j

\* send that returns without an error has put every message of the burst in a partition.
OkMeansDelivered == spc = "ok" => \A m \in Msg : \E p \in Partition : m \in Range(log[p])

\* With slots that are not reused, a message is returned with its own group.
OwnGroup == ~Reuse => \A i \in DOMAIN returned : returned[i].group = KeyOf(returned[i].msg)
=============================================================================
