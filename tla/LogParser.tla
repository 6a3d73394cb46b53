----------------------------- MODULE LogParser -----------------------------
(***************************************************************************)
(* The parsing stage of the log pipeline (bin/logparser.rs, parse_log.rs)  *)
(* and its consumer (serve_local_inner of listen.rs, bin/consumer.rs).     *)
(*                                                                         *)
(* The parser takes lines from the message queue, estimates for each       *)
(* client the output rate between successive lines, and forwards the       *)
(* histograms an interval after the first line of a window; a histogram is *)
(* the number of its samples here, an address one octet or (version 6)     *)
(* two.  The parser's loop is one task that selects over the queue and the *)
(* timer.  (It also watches the state of the connection, only to log it.)  *)
(*                                                                         *)
(* do_recv hands back the whole buffer and not the part that recv filled,  *)
(* so that what handle_recv leaves in it is there at the next call.        *)
(***************************************************************************)
EXTENDS Integers, Sequences, SequencesExt, FiniteSets

CONSTANTS
    Line,       \* <<[group, ts, kind]...>>: what the queue delivers.  A kind is "ok", "bad"
                \* (no parsable entry of a success), or "mismatch" (the group is not the address)
    Slots,      \* 64: the buffer's first length
    MaxSlots,   \* 1024: its bound
    Lossy,      \* histograms may be lost
    None

VARIABLES
    next,       \* lines the queue has delivered
    buf,        \* the buffer between two calls of recv
    rates,      \* est_output_rates: [group -> [n |-> samples, prev |-> its last timestamp or 0]]
    tot,        \* processed_entries
    timer,      \* send_wait is a sleep
    wire,       \* histograms on their way to the consumer
    lost,       \* [group -> samples that were lost there]
    observed,   \* [group -> samples that the consumer was told of]
    handled,    \* the lines that handle_recv took, in order
    recorded,   \* [group -> the samples recorded]
    panicked    \* `expect("negative condition checked above")` failed

vars == <<next, buf, rates, tot, timer, wire, lost, observed, handled, recorded, panicked>>

Group == {Line[i].group : i \in DOMAIN Line}
NoRate == [n |-> 0, prev |-> 0]
Sum(S, f(_)) == MapThenSumSet(f, S)

TypeOK ==
    /\ next \in 0..Len(Line) /\ tot \in Nat /\ timer \in BOOLEAN /\ panicked \in BOOLEAN
    /\ \A i \in DOMAIN buf : buf[i] \in {None} \union DOMAIN Line
    /\ rates \in [Group -> [n : Nat, prev : Nat]]
    /\ wire \in Seq(Seq(Nat)) /\ lost \in [Group -> Nat] /\ observed \in [Group -> Nat]
    /\ handled \in Seq(DOMAIN Line) /\ recorded \in [Group -> Nat]

Init ==
    /\ next = 0 /\ buf = [i \in 1..Slots |-> None] /\ rates = [g \in Group |-> NoRate]
    /\ tot = 0 /\ timer = FALSE /\ wire = <<>> 
    /\ lost = [g \in Group |-> 0] /\ observed = [g \in Group |-> 0]
    /\ handled = <<>> /\ recorded = [g \in Group |-> 0] /\ panicked = FALSE

-----------------------------------------------------------------------------
(* handle_recv *)

\* map_while(take): the slots that are emptied, up to the first that is empty or mismatched.
Stop(b) == SelectInSeq(b, LAMBDA l : IF l = None THEN TRUE ELSE Line[l].kind = "mismatch")
Taken(b) == IF Stop(b) = 0 THEN b ELSE SubSeq(b, 1, Stop(b) - 1)

\* A mutant: the lines are read but not taken.
LeftFilled(b) == b

Left(b) ==
    [i \in DOMAIN b |-> IF Stop(b) = 0 THEN None ELSE IF i <= Stop(b) THEN None ELSE b[i]]

\* The places in ls of the entries of a group; what cannot be parsed is skipped.
OfGroup(g, ls) == {i \in DOMAIN ls : Line[ls[i]].group = g /\ Line[ls[i]].kind = "ok"}
Ts(ls, i) == Line[ls[i]].ts

\* A mutant: time may go backwards.
CountedAll(g, ls) == OfGroup(g, ls)

\* EstOutputRate::new_entries: an entry counts if its time is not before that of an earlier one.
Counted(g, ls) ==
    {i \in OfGroup(g, ls) :
        Ts(ls, i) >= rates[g].prev /\ \A j \in OfGroup(g, ls) : j < i => Ts(ls, j) <= Ts(ls, i)}

\* All that count but the first of a window give a sample.
Samples(g, ls) ==
    Cardinality(Counted(g, ls)) - (IF rates[g].prev = 0 /\ Counted(g, ls) # {} THEN 1 ELSE 0)

\* A sample over negative time.
Backwards(g, ls) ==
    \E i \in Counted(g, ls) :
        \/ Ts(ls, i) < rates[g].prev
        \/ \E j \in Counted(g, ls) : j < i /\ Ts(ls, i) < Ts(ls, j)

\* A mutant: one line does not start the timer.
ArmedLate(n) == timer \/ n > 1

Armed(n) == timer \/ tot + n > 0

\* b.resize: the buffer doubles when it was filled well.
Resized(b, processed) ==
    IF 4 * processed < 3 * Len(b) THEN b
    ELSE [i \in 1..(IF 2 * Len(b) < MaxSlots THEN 2 * Len(b) ELSE MaxSlots) |->
            IF i <= Len(b) THEN b[i] ELSE None]

\* recv puts n lines in the buffer, and handle_recv takes what it finds there.
Recv(n) ==
    LET b == [i \in DOMAIN buf |-> IF i <= n THEN next + i ELSE buf[i]]
        ls == Taken(b)
        processed == Sum(Group, LAMBDA g : Cardinality(Counted(g, ls)))
    IN
    /\ ~panicked /\ n <= Len(buf) /\ next + n <= Len(Line)
    /\ next' = next + n
    /\ handled' = handled \o ls
    /\ rates' = [g \in Group |->
                    [n |-> rates[g].n + Samples(g, ls),
                     prev |-> Max({rates[g].prev} \union {Ts(ls, i) : i \in Counted(g, ls)})]]
    /\ recorded' = [g \in Group |-> recorded[g] + Samples(g, ls)]
    /\ panicked' = \E g \in Group : Backwards(g, ls)
    /\ timer' = Armed(processed)
    /\ tot' = tot + processed
    /\ buf' = Resized(Left(b), processed)
    /\ UNCHANGED <<wire, lost, observed>>

-----------------------------------------------------------------------------
(* EstOutputRateCn: the length of the address, the address, the histogram. *)

Encode(g, n) == (IF Len(g) = 1 THEN <<32>> ELSE <<128>>) \o g \o <<n>>

\* A mutant: the histogram is read behind an address of version 4.
DecodeV4(m) == [group |-> SubSeq(m, 2, 2), n |-> m[3]]

Decode(m) ==
    IF m[1] = 32 THEN [group |-> SubSeq(m, 2, 2), n |-> m[3]]
    ELSE [group |-> SubSeq(m, 2, 3), n |-> m[4]]

-----------------------------------------------------------------------------
Full(g) == rates[g].n > 0

\* The interval is over: the histograms that have samples are sent, and all begin again.
Forward ==
    /\ ~panicked /\ timer
    /\ \E gs \in SetToSeqs({g \in Group : Full(g)}) :
            wire' = wire \o [i \in DOMAIN gs |-> Encode(gs[i], rates[gs[i]].n)]
    /\ rates' = [g \in Group |-> NoRate]
    /\ tot' = 0 /\ timer' = FALSE
    /\ UNCHANGED <<next, buf, lost, observed, handled, recorded, panicked>>

\* The samples of a group in a message.
Carried(g, m) == IF Front(Tail(m)) = g THEN Last(m) ELSE 0

Lose ==
    /\ Lossy /\ wire # <<>>
    /\ lost' = [g \in Group |-> lost[g] + Carried(g, Head(wire))] /\ wire' = Tail(wire)
    /\ UNCHANGED <<next, buf, rates, tot, timer, observed, handled, recorded, panicked>>

\* The consumer's recv has one slot; process_lines counts the samples.
Consume ==
    /\ wire # <<>>
    /\ LET h == Decode(Head(wire)) IN
       observed' = [g \in Group |-> IF g = h.group THEN observed[g] + h.n ELSE observed[g]]
    /\ wire' = Tail(wire)
    /\ UNCHANGED <<next, buf, rates, tot, timer, lost, handled, recorded, panicked>>

Next == (\E n \in 1..MaxSlots : Recv(n)) \/ Forward \/ Lose \/ Consume

Spec == Init /\ [][Next]_vars

-----------------------------------------------------------------------------
Held == Sum(Group, LAMBDA g : rates[g].n)

\* A client's sample that was recorded is held, on its way, or observed as this client's, once;
\* or lost on its way.
SamplesCounted ==
    \A g \in Group :
        recorded[g] = rates[g].n + Sum(DOMAIN wire, LAMBDA i : Carried(g, wire[i]))
                                 + observed[g] + lost[g]

\* Samples that are held will be forwarded: the timer runs.
HeldIsTimed == Held > 0 \/ tot > 0 => timer

\* No rate is computed over negative time, which `expect` relies on.
TimeGoesOn == ~panicked

\* Lines are handled in the order of their delivery, and none stays in the buffer or is
\* overwritten there, as long as no line came in another client's group.
BufferEmptied ==
    (\A i \in 1..next : Line[i].kind # "mismatch") =>
        handled = [i \in 1..next |-> i] /\ ToSet(buf) = {None}

Forwarded == Held = 0 /\ wire = <<>>
=============================================================================
