------------------------------ MODULE SqsQueue ------------------------------
(***************************************************************************)
(* The chunnels over Amazon's queues: SqsChunnel and OrderedSqsChunnel.    *)
(* send groups a burst by queue and sends batches; recv keeps one          *)
(* receive_message request per queue outstanding, saves those that are not *)
(* done for the next call, and deletes a batch before it returns it.       *)
(* One sender and one receiving connection, which several tasks share.     *)
(* The service (Serve, Fails, Expire and the outcomes of the requests) is  *)
(* external: a message that was handed out is invisible until it is        *)
(* deleted or its visibility timeout expires.                              *)
(***************************************************************************)
EXTENDS Integers, Sequences, FiniteSets, SequencesExt

CONSTANTS Task,      \* tasks that call recv on the connection
          Dest,      \* Dest[m]: the queue that message m is for, in a sequence
          Body,      \* Body[m]: the first eight bytes of its body
          Batch,     \* how many messages fill a batch (10)
          Slots,     \* Slots[t]: the slots that task t gives its calls of recv
          Fifo,      \* OrderedSqsChunnel, whose queues are FIFO queues
          MayFail,   \* requests may fail, wholly or for some messages
          MayCancel, \* a call of recv may be dropped
          None

VARIABLES rest,      \* the messages of the burst not looked at yet
          pend,      \* pending_batches
          sending,   \* whether send has not returned
          ctr,       \* num_sqs_send_calls
          dedup,     \* the deduplication ids that the service has seen
          queue,     \* the service: the messages of a queue, in order
          out,       \* the service: the messages that are invisible
          fut,       \* recv_futs, and while a call selects, the futures it drained
          lock,      \* who holds the lock of recv_futs
          pc, held,  \* of each task: where it is, and the batch it deletes
          sent,      \* ghost: what was sent with success
          returned,  \* ghost: what recv has returned, in order
          gone       \* ghost: deleted by a call of recv that did not return them, or taken for
                     \* a repetition by a FIFO queue

vars == <<rest, pend, sending, ctr, dedup, queue, out, fut, lock, pc, held, sent,
          returned, gone>>

Msg == DOMAIN Dest
Queue == Range(Dest)
NoBatch == [q |-> None, msgs |-> <<>>]
NoFut == [st |-> "none", msgs |-> <<>>, max |-> 0]

TypeOK ==
    /\ rest \in Seq(Msg) /\ sending \in BOOLEAN /\ ctr \in Nat
    /\ \A q \in Queue : /\ pend[q] \in Seq(Msg) /\ Len(pend[q]) <= Batch
                        /\ queue[q] \in Seq(Msg) /\ out[q] \subseteq Msg
                        /\ fut[q].st \in {"none", "asked", "got", "err"}
                        /\ fut[q].msgs \in Seq(Msg) /\ Len(fut[q].msgs) <= fut[q].max
    /\ lock \in Task \cup {None}
    /\ \A t \in Task : /\ pc[t] \in {"idle", "lock", "select", "delete", "return", "panic"}
                       /\ held[t].q \in Queue \cup {None} /\ held[t].msgs \in Seq(Msg)
    /\ sent \subseteq Msg /\ returned \in Seq(Msg) /\ gone \subseteq Msg

Init ==
    /\ rest = [m \in Msg |-> m] /\ pend = [q \in Queue |-> <<>>] /\ sending = TRUE
    /\ ctr = 0 /\ dedup = {}
    /\ queue = [q \in Queue |-> <<>>] /\ out = [q \in Queue |-> {}]
    /\ fut = [q \in Queue |-> NoFut] /\ lock = None
    /\ pc = [t \in Task |-> "idle"] /\ held = [t \in Task |-> NoBatch]
    /\ sent = {} /\ returned = <<>> /\ gone = {}

recvVars == <<fut, lock, pc, held, returned, gone>>

----------------------------------------------------------------------------
(* send *)

Full(q) == Len(pend[q]) = Batch

\* Sorts the next message of the burst into the batch of its queue.
Group ==
    /\ sending /\ rest # <<>> /\ \A q \in Queue : ~Full(q)
    /\ pend' = [pend EXCEPT ![Dest[Head(rest)]] = Append(@, Head(rest))]
    /\ rest' = Tail(rest)
    /\ UNCHANGED <<sending, ctr, dedup, sent, queue, out, recvVars>>

\* get_dedup of the i-th message of a batch, for the queue that it is sent to.
DedupId(b, i) == <<Dest[b[i]], ctr + i - 1, Body[b[i]]>>

\* The messages of batch b that a FIFO queue takes: it discards repeated ids, and answers as if
\* it had not.
Taken(b) == {i \in DOMAIN b : Fifo => DedupId(b, i) \notin dedup}

\* do_send_batch, with the indices `failed` of the batch refused by the service.
SendBatch(q) ==
    /\ sending /\ pend[q] # <<>> /\ (Full(q) \/ (rest = <<>> /\ \A p \in Queue : ~Full(p)))
    /\ LET b == pend[q]
       IN \E failed \in IF MayFail THEN SUBSET DOMAIN b ELSE {{}} :
            LET ok == Taken(b) \ failed
            IN /\ queue' = [queue EXCEPT ![q] = @ \o
                               [i \in 1..Cardinality(ok) |-> b[SetToSortSeq(ok, <)[i]]]]
               /\ sent' = sent \cup {b[i] : i \in DOMAIN b \ failed}
               /\ gone' = gone \cup {b[i] : i \in (DOMAIN b \ failed) \ Taken(b)}
               /\ dedup' = IF Fifo THEN dedup \cup {DedupId(b, i) : i \in ok} ELSE dedup
               /\ IF failed = {}
                    THEN pend' = [pend EXCEPT ![q] = <<>>] /\ UNCHANGED <<rest, sending>>
                    ELSE /\ pend' = [p \in Queue |-> <<>>] /\ rest' = <<>> /\ sending' = FALSE
    /\ ctr' = ctr + 1
    /\ UNCHANGED <<out, fut, lock, pc, held, returned>>

SendReturns ==
    /\ sending /\ rest = <<>> /\ \A q \in Queue : pend[q] = <<>>
    /\ sending' = FALSE
    /\ UNCHANGED <<rest, pend, ctr, dedup, sent, queue, out, recvVars>>

Send == Group \/ SendReturns \/ \E q \in Queue : SendBatch(q)

sendVars == <<rest, pend, sending, ctr, dedup, sent>>

----------------------------------------------------------------------------
(* The service. *)

\* What a request may be answered.  A FIFO queue gives out a prefix, and nothing while some of
\* its messages are invisible; another gives out any that are visible.  Requests poll long
\* (wait_time_seconds), so that an answer is empty only if nothing is there.
Offer(q) ==
    LET visible == SelectSeq(queue[q], LAMBDA m : m \notin out[q])
    IN IF visible = <<>> \/ (Fifo /\ out[q] # {}) THEN {<<>>}
       ELSE IF Fifo THEN {SubSeq(visible, 1, n) : n \in 1..Len(visible)}
       ELSE {<<m>> : m \in ToSet(visible)} \cup {visible}

Serve(q) ==
    /\ fut[q].st = "asked"
    /\ \E ms \in Offer(q) :
         /\ Len(ms) <= fut[q].max
         /\ fut' = [fut EXCEPT ![q].st = "got", ![q].msgs = ms]
         /\ out' = [out EXCEPT ![q] = @ \cup ToSet(ms)]
    /\ UNCHANGED <<sendVars, queue, lock, pc, held, returned, gone>>

Fails(q) ==
    /\ MayFail /\ fut[q].st = "asked"
    /\ fut' = [fut EXCEPT ![q].st = "err"]
    /\ UNCHANGED <<sendVars, queue, out, lock, pc, held, returned, gone>>

\* The visibility timeout of a message that was handed out expires.
Expire(q) ==
    /\ \E m \in out[q] : out' = [out EXCEPT ![q] = @ \ {m}]
    /\ UNCHANGED <<sendVars, queue, recvVars>>

----------------------------------------------------------------------------
(* recv *)

Call(t) ==
    /\ pc[t] = "idle"
    /\ pc' = [pc EXCEPT ![t] = "lock"]
    /\ UNCHANGED <<sendVars, queue, out, fut, lock, held, returned, gone>>

\* A request for every queue that has none, for as many messages as this call has slots; a
\* request that another call left keeps its number.
Refill(f, n) ==
    [q \in Queue |-> IF f[q].st = "none" THEN [st |-> "asked", msgs |-> <<>>, max |-> n]
                     ELSE f[q]]

Lock(t) ==
    /\ pc[t] = "lock" /\ lock = None
    /\ lock' = t /\ pc' = [pc EXCEPT ![t] = "select"] /\ fut' = Refill(fut, Slots[t])
    /\ UNCHANGED <<sendVars, queue, out, held, returned, gone>>

\* recv of t ends: the lock is released.
Ends(t) ==
    /\ pc' = [pc EXCEPT ![t] = "idle"] /\ lock' = IF lock = t THEN None ELSE lock
    /\ held' = [held EXCEPT ![t] = NoBatch]

SelectUnlocks(t, q) ==
    /\ pc[t] = "select" /\ fut[q].st = "got"
    /\ LET f == [fut EXCEPT ![q] = NoFut]
       IN IF fut[q].msgs = <<>>
            THEN fut' = Refill(f, Slots[t]) /\ UNCHANGED <<lock, pc, held>>
            ELSE /\ fut' = f /\ held' = [held EXCEPT ![t] = [q |-> q, msgs |-> fut[q].msgs]]
                 /\ pc' = [pc EXCEPT ![t] = "delete"] /\ lock' = None
    /\ UNCHANGED <<sendVars, queue, out, returned, gone>>

\* A mutant: an empty answer is not asked again.
SelectForgets(t, q) ==
    /\ pc[t] = "select" /\ fut[q].st = "got"
    /\ fut' = [fut EXCEPT ![q] = NoFut]
    /\ IF fut[q].msgs = <<>>
       THEN UNCHANGED <<lock, pc, held>>
       ELSE /\ held' = [held EXCEPT ![t] = [q |-> q, msgs |-> fut[q].msgs]]
            /\ pc' = [pc EXCEPT ![t] = "delete"] /\ UNCHANGED lock
    /\ UNCHANGED <<sendVars, queue, out, returned, gone>>

\* select_ok returns the answer of queue q: an empty one is asked again with what was left.
Select(t, q) ==
    /\ pc[t] = "select" /\ fut[q].st = "got"
    /\ LET f == [fut EXCEPT ![q] = NoFut]
       IN IF fut[q].msgs = <<>>
            THEN fut' = Refill(f, Slots[t]) /\ UNCHANGED <<lock, pc, held>>
            ELSE /\ fut' = f /\ held' = [held EXCEPT ![t] = [q |-> q, msgs |-> fut[q].msgs]]
                 /\ pc' = [pc EXCEPT ![t] = "delete"] /\ UNCHANGED lock
    /\ UNCHANGED <<sendVars, queue, out, returned, gone>>

\* select_ok drops a future that failed, and fails when it was the last.
SelectErr(t, q) ==
    /\ pc[t] = "select" /\ fut[q].st = "err"
    /\ fut' = [fut EXCEPT ![q] = NoFut]
    /\ IF \A p \in Queue \ {q} : fut[p].st = "none" THEN Ends(t) ELSE UNCHANGED <<lock, pc, held>>
    /\ UNCHANGED <<sendVars, queue, out, returned, gone>>

\* The service deletes the messages `ms` of queue q.
Deleted(q, ms) ==
    /\ queue' = [queue EXCEPT ![q] = SelectSeq(@, LAMBDA m : m \notin ms)]
    /\ out' = [out EXCEPT ![q] = @ \ ms]

\* delete_message_batch, with the messages `failed` not deleted.
Delete(t) ==
    /\ pc[t] = "delete"
    /\ LET q == held[t].q  ms == ToSet(held[t].msgs)
       IN \E failed \in IF MayFail THEN SUBSET ms ELSE {{}} :
            /\ Deleted(q, ms \ failed)
            /\ IF failed = {}
                 THEN pc' = [pc EXCEPT ![t] = "return"] /\ UNCHANGED <<lock, held, gone>>
                 ELSE Ends(t) /\ gone' = gone \cup (ms \ failed)
    /\ UNCHANGED <<sendVars, fut, returned>>

ReturnShort(t) ==
    /\ pc[t] = "return"
    /\ returned' = returned \o SubSeq(held[t].msgs, 1, Slots[t] - 1)
    /\ Ends(t)
    /\ UNCHANGED <<sendVars, queue, out, fut, gone>>

\* The batch is written into the slots of the caller, ...
Return(t) ==
    /\ pc[t] = "return" /\ Len(held[t].msgs) <= Slots[t]
    /\ returned' = returned \o held[t].msgs
    /\ Ends(t)
    /\ UNCHANGED <<sendVars, queue, out, fut, gone>>

\* ... and past their end, if another call with more slots made the request.
Overrun(t) ==
    /\ pc[t] = "return" /\ Len(held[t].msgs) > Slots[t]
    /\ pc' = [pc EXCEPT ![t] = "panic"] /\ lock' = None
    /\ held' = [held EXCEPT ![t] = NoBatch]
    /\ gone' = gone \cup ToSet(held[t].msgs)
    /\ UNCHANGED <<sendVars, queue, out, fut, returned>>

\* The call is dropped.  What select_ok had drained is dropped with it.
Cancel(t) ==
    /\ MayCancel /\ pc[t] \notin {"idle", "panic"} /\ Ends(t)
    /\ fut' = IF pc[t] = "select" THEN [q \in Queue |-> NoFut] ELSE fut
    /\ IF pc[t] \in {"delete", "return"}
         THEN LET ms == ToSet(held[t].msgs)
              IN \/ Deleted(held[t].q, ms) /\ gone' = gone \cup ms
                 \/ pc[t] = "delete" /\ UNCHANGED <<queue, out, gone>>
         ELSE UNCHANGED <<queue, out, gone>>
    /\ UNCHANGED <<sendVars, returned>>

Recv(t) ==
    \/ Call(t) \/ Lock(t) \/ Delete(t) \/ Return(t) \/ Overrun(t) \/ Cancel(t)
    \/ \E q \in Queue : Select(t, q) \/ SelectErr(t, q)

Next ==
    \/ Send
    \/ \E q \in Queue : Serve(q) \/ Fails(q) \/ Expire(q)
    \/ \E t \in Task : Recv(t)

Spec == Init /\ [][Next]_vars

----------------------------------------------------------------------------

OfQueue(q) == SelectSeq(returned, LAMBDA m : Dest[m] = q)

\* OrderedSqsChunnel: the messages of a queue are returned in the order in which they were sent,
\* none twice, whatever fails, expires or is cancelled, and with several tasks in recv.
FifoReturns == Fifo => \A q \in Queue : IsSorted(OfQueue(q), <)

\* A message whose sending succeeded stays in the queue until a call of recv returns it, or is
\* lost with a call that ended between the deletion and the return, or was never in the queue
\* because its deduplication id was that of an earlier one: dropping a call that waits, and with
\* it requests that were already answered, loses nothing.
SentIsKept ==
    \A m \in sent : \/ m \in ToSet(queue[Dest[m]]) \/ m \in ToSet(returned) \/ m \in gone
                    \/ \E t \in Task : pc[t] = "return" /\ m \in ToSet(held[t].msgs)

\* What MCProgress shows of every message that was accepted.
Accepted(m) == m \in sent
Returned(m) == m \in ToSet(returned)
=============================================================================
