----------------------------- MODULE LogIngest -----------------------------
(***************************************************************************)
(* The ingest stage of the log pipeline: a producer (bin/producer.rs) and  *)
(* the worker's task for its connection (serve_one_cn of listen.rs), which *)
(* hands batches of lines to PublishLines::process_lines (bin/logingest).  *)
(*                                                                         *)
(* The worker acknowledges lines when it has them, but keeps the           *)
(* acknowledgements back while its backlog is at the threshold, and sends  *)
(* them when the batch in hand has been published.  The producer sends its *)
(* next burst when it has received some acknowledgement.                   *)
(*                                                                         *)
(* Lines are numbered.  The network keeps the order; with Lossy it may     *)
(* lose datagrams.  With MayFail the publishing or the connection fails.   *)
(***************************************************************************)
EXTENDS Naturals, Sequences, SequencesExt, FiniteSets

CONSTANTS
    Limit,      \* tot_message_limit of the producer
    Burst,      \* 16: the lines of a chunk
    Slots,      \* 16: the slots of either end's recv
    Thresh,     \* 128: the backlog at which acknowledgements are kept back
    MaxBytes,   \* 1024: the bytes of a burst stay below it
    Size,       \* <<...>>: the lengths of the lines, repeating
    NoIp,       \* the lines that do not start with an address
    Lossy, MayFail,
    None

VARIABLES
    rem,        \* rem_line_count
    made,       \* the lines the stream has produced
    waiting,    \* the producer is in recv
    net,        \* lines on their way
    back,       \* acknowledgements on their way
    worker,     \* "up", "closed" (the connection's task has ended) or "failed"
    received,   \* the lines the worker has received
    to_process, \* lines waiting for the batch in hand
    processing, \* the batch in hand (process_fut), or None
    acks,       \* acknowledgements not sent yet
    acked,      \* acknowledgements sent
    published   \* what was sent to the message queue

producer == <<rem, made, waiting>>
server == <<worker, received, to_process, processing, acks, acked, published>>
vars == <<producer, net, back, server>>

Lines == 1..(Limit + Burst - 1)
Length(l) == Size[(l % Len(Size)) + 1]

Bytes(ls) == FoldLeft(LAMBDA n, l : n + Length(l), 0, ls)

\* parse_raw drops the lines that have no address.
Parsed(ls) == SelectSeq(ls, LAMBDA l : l \notin NoIp)

TypeOK ==
    /\ rem \in 0..Limit /\ made \in 0..(Limit + Burst - 1) /\ waiting \in BOOLEAN
    /\ net \in Seq(Lines) /\ back \in Nat /\ worker \in {"up", "closed", "failed"}
    /\ received \in Seq(Lines) /\ to_process \in Seq(Lines)
    /\ processing = None \/ processing \in Seq(Lines)
    /\ acks \in Nat /\ acked \in Nat /\ published \in Seq(Lines)

Init ==
    /\ rem = Limit /\ made = 0 /\ waiting = FALSE
    /\ net = <<>> /\ back = 0 /\ worker = "up"
    /\ received = <<>> /\ to_process = <<>> /\ processing = None
    /\ acks = 0 /\ acked = 0 /\ published = <<>>

-----------------------------------------------------------------------------
(* The producer. *)

\* take_while: the lines before the one with which the burst is too long.
Fitting(ls) == SubSeq(ls, 1, Max({n \in 0..Len(ls) : Bytes(SubSeq(ls, 1, n)) < MaxBytes}))

\* The next chunk of n lines is sent, as far as it fits; then the producer waits.
Produce(n) ==
    LET burst == [i \in 1..n |-> made + i] IN
    /\ ~waiting /\ rem > 0
    /\ made' = made + n
    /\ rem' = IF n > rem THEN 0 ELSE rem - n
    /\ net' = net \o Fitting(burst)
    /\ waiting' = TRUE
    /\ UNCHANGED <<back, server>>

\* recv returns acknowledgements, as many as there are slots.
GetAcks ==
    /\ waiting /\ back > 0
    /\ back' = IF back > Slots THEN back - Slots ELSE 0
    /\ waiting' = FALSE
    /\ UNCHANGED <<rem, made, net, server>>

Lose ==
    /\ Lossy
    /\ \/ \E i \in DOMAIN net : net' = RemoveAt(net, i) /\ UNCHANGED back
       \/ back > 0 /\ back' = back - 1 /\ UNCHANGED net
    /\ UNCHANGED <<producer, server>>

-----------------------------------------------------------------------------
(* The worker.  A batch that is begun is the whole backlog. *)

Batch == IF processing = None THEN <<>> ELSE processing

\* A mutant: a batch is begun only with a backlog below the threshold.
BeginIfFew(batch, backlog) ==
    IF batch = None /\ backlog # <<>> /\ Len(backlog) < Thresh
    THEN processing' = backlog /\ to_process' = <<>>
    ELSE processing' = batch /\ to_process' = backlog

Begin(batch, backlog) ==
    IF batch = None /\ backlog # <<>>
    THEN processing' = backlog /\ to_process' = <<>>
    ELSE processing' = batch /\ to_process' = backlog

SendAcks(n) == back' = back + n /\ acked' = acked + n /\ acks' = 0

\* cn.send(acks.drain(..)) fails, perhaps after some of them: the task ends with an error.
AcksFail(n) ==
    /\ MayFail
    /\ \E k \in 0..n : back' = back + k /\ acked' = acked + k
    /\ acks' = 0
    /\ worker' = "failed"

\* recv returns n lines.
Recv(n) ==
    LET got == SubSeq(net, 1, n)
        backlog == to_process \o got
    IN
    /\ worker = "up" /\ n <= Len(net)
    /\ net' = SubSeq(net, n + 1, Len(net))
    /\ received' = received \o got
    /\ \/ /\ IF Len(backlog) < Thresh
             THEN SendAcks(acks + n)
             ELSE acks' = acks + n /\ UNCHANGED <<back, acked>>
          /\ Begin(processing, backlog)
          /\ UNCHANGED worker
       \/ /\ Len(backlog) < Thresh /\ AcksFail(acks + n)
          /\ to_process' = backlog /\ UNCHANGED processing
    /\ UNCHANGED <<producer, published>>

\* A mutant: the backlog stays when it becomes the batch in hand.
PublishedTwice ==
    /\ worker = "up" /\ processing # None
    /\ published' = published \o Parsed(processing)
    /\ SendAcks(acks)
    /\ processing' = (IF to_process # <<>> THEN to_process ELSE None)
    /\ UNCHANGED <<producer, net, worker, received, to_process>>

\* A mutant: the acknowledgements kept back are dropped when a new batch is begun.
PublishedForgets ==
    /\ worker = "up" /\ processing # None
    /\ published' = published \o Parsed(processing)
    /\ IF to_process = <<>> THEN SendAcks(acks) ELSE acks' = 0 /\ UNCHANGED <<back, acked>>
    /\ Begin(None, to_process)
    /\ UNCHANGED <<producer, net, worker, received>>

\* process_lines is done: the batch is in the message queue.
Published ==
    /\ worker = "up" /\ processing # None
    /\ published' = published \o Parsed(processing)
    /\ \/ SendAcks(acks) /\ Begin(None, to_process) /\ UNCHANGED worker
       \/ acks > 0 /\ AcksFail(acks) /\ processing' = None /\ UNCHANGED to_process
    /\ UNCHANGED <<producer, net, received>>

\* process_lines fails, or recv does: the task ends, and the batch in hand with it.  Some lines
\* of the batch may have been sent.
Fail(how) ==
    /\ MayFail /\ worker = "up" /\ (how = "failed" => processing # None)
    /\ worker' = how
    /\ \E k \in 0..Len(Parsed(Batch)) : published' = published \o SubSeq(Parsed(Batch), 1, k)
    /\ UNCHANGED <<producer, net, back, received, to_process, processing, acks, acked>>

Next ==
    \/ \E n \in 1..Burst : Produce(n)
    \/ GetAcks \/ Lose
    \/ \E n \in 1..Slots : Recv(n)
    \/ Published
    \/ \E how \in {"closed", "failed"} : Fail(how)

Spec == Init /\ [][Next]_vars

-----------------------------------------------------------------------------
\* What the worker received is, in order and once, published, in hand or waiting; if it ended, what
\* it had published is the beginning of it, and only the rest is lost.
LinesInOrder ==
    /\ IsPrefix(published, Parsed(received))
    /\ worker = "up" => published \o Parsed(Batch \o to_process) = Parsed(received)

\* Every line received is acknowledged once, at once or later, and none twice; a line is left
\* without its acknowledgement only where sending one failed.
OneAckPerLine ==
    /\ acked + acks <= Len(received)
    /\ worker # "failed" => acked + acks = Len(received)

\* Acknowledgements are kept back only while a batch is in hand, whose end sends them; and
\* lines wait only while a batch is in hand.
KeptBackIsPending ==
    worker = "up" => (acks > 0 \/ to_process # <<>> => processing # None)

Producing == ~waiting
=============================================================================
