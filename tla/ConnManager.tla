---------------------------- MODULE ConnManager ----------------------------
(***************************************************************************)
(* The message queue connection of the log pipeline: connect,              *)
(* connect_gcp_only and conn_negotiation_manager of publish_subscribe.rs.  *)
(*                                                                         *)
(* The stack orders messages at the receiver (left) or lets the service do *)
(* it (right), or it is Kafka's.  The manager is one task that selects     *)
(* over the negotiation's monitor (StackUpgradeHandle::                    *)
(* monitor_connection_negotiation_state), the transition it has asked for, *)
(* the number of participants, and the changes of the connection's stack.  *)
(* The connection itself is used, and upgraded, by other tasks: an upgrade *)
(* that was committed takes effect when the connection is used again.      *)
(*                                                                         *)
(* With Kafka on offer the ordering's UpgradeSelect is nested in another   *)
(* one.  A transition then rebuilds the outer connection; the inner one    *)
(* that is dropped announces None (Drop of UpgradeEitherConn), until the   *)
(* new inner connection is used and announces its side.                    *)
(***************************************************************************)
EXTENDS Integers, Sequences

CONSTANTS
    KafkaOffered,   \* connect, and not connect_gcp_only
    MaxNp,          \* participants
    MaxEvents,      \* bound: changes from outside
    MayFail,        \* transitions may fail
    Remote          \* other participants transition as well

VARIABLES
    stack,      \* the stack the connection runs: "kafka", "left", "right"
    pending,    \* the stack it was last told to run (trigger_locally)
    current,    \* gcp_switch_ordering_handle.current(): "none", "left", "right"
    changed,    \* current was written since gcp_changed looked at it
    polled,     \* gcp_changed has been polled: it has noted what it waits to differ from
    watcher,    \* cn_state_watcher: "kafka", "left", "right"
    np, np_new, \* the number of participants, not yet seen by the manager
    trans,      \* transition_in_progress: [st, side, id]; st is "none", "new", "sent", "done"
    want,       \* want_transition: a queue of one [side, id]
    monitor,    \* the [side, id] that handle_trigger is at, or Idle
    ids,        \* transitions asked for so far
    events, panicked,
    missed,     \* ghost: gcp_changed was first polled after a change that its predecessor had
                \* not seen
    replaced,   \* ghost: a transition that waited for its answer was dropped for a newer one
    skipped     \* ghost: the newest transition was given up with another stack pending

ghosts == <<missed, replaced, skipped>>
vars == <<stack, pending, current, changed, polled, watcher, np, np_new, trans, want, monitor, ids,
          events, panicked, ghosts>>

Idle == [side |-> "none", id |-> 0]
NoTrans == [st |-> "none", side |-> "none", id |-> 0]
Side == {"left", "right"}

TypeOK ==
    /\ {stack, pending, watcher} \subseteq {"kafka", "left", "right"}
    /\ current \in {"none"} \union Side
    /\ {changed, polled, np_new, panicked, missed, replaced, skipped} \subseteq BOOLEAN
    /\ np \in 1..MaxNp
    /\ trans \in [st : {"none", "new", "sent", "done"}, side : {"none"} \union Side, id : Nat]
    /\ Len(want) <= 1 /\ monitor.id \in 0..ids

\* 1 | 2 => Left, 3.. => Right
Preferred(n) == IF n <= 2 THEN "left" ELSE "right"

\* No side of the ordering is in use: it must be Kafka's stack.
ConnState(c) == IF c = "none" THEN "kafka" ELSE c

\* connect, connect_gcp_only
OfferedByConnect == Side \union {"kafka"}
OfferedByGcpOnly == Side
Offered == IF KafkaOffered THEN OfferedByConnect ELSE OfferedByGcpOnly

\* The negotiation may end with any stack that is on offer; `current` is read once.
Init ==
    /\ stack \in Offered
    /\ pending = stack
    /\ current = IF stack = "kafka" THEN "none" ELSE stack
    /\ changed = FALSE /\ polled = FALSE
    /\ watcher = ConnState(current)
    /\ np \in 1..MaxNp /\ np_new = FALSE
    /\ trans = NoTrans /\ want = <<>> /\ monitor = Idle /\ ids = 0
    /\ events = 0 /\ panicked = FALSE
    /\ missed = FALSE /\ replaced = FALSE /\ skipped = FALSE

conn == <<stack, pending, current, changed>>

-----------------------------------------------------------------------------
(* The monitor; its handlers run one at a time. *)

\* handle_notify: the same stack, another number of participants.
Participants ==
    /\ ~panicked /\ monitor = Idle /\ events < MaxEvents
    /\ \E n \in (1..MaxNp) \ {np} : np' = n
    /\ np_new' = TRUE /\ events' = events + 1
    /\ UNCHANGED <<conn, polled, watcher, trans, want, monitor, ids, panicked, ghosts>>

\* handle_notify: another participant's transition was committed.
RemoteTransition ==
    /\ ~panicked /\ Remote /\ monitor = Idle /\ events < MaxEvents
    /\ \E s \in Offered \ {pending} : pending' = s
    /\ events' = events + 1
    /\ UNCHANGED <<stack, current, changed, polled, watcher, np, np_new, trans, want, monitor, ids,
                   panicked, ghosts>>

Waits(id) == trans.st = "sent" /\ trans.id = id

\* done.send(..).expect("oneshot receiver won't drop")
Answer(id) ==
    /\ panicked' = ~Waits(id)
    /\ trans' = IF Waits(id) THEN [trans EXCEPT !.st = "done"] ELSE trans

\* The monitor takes the request; if the ordering is not in use it refuses it.
Take ==
    /\ ~panicked /\ monitor = Idle /\ want # <<>>
    /\ want' = <<>>
    /\ IF current = "none"
       THEN /\ Answer(Head(want).id) /\ skipped' = (pending # Head(want).side)
            /\ UNCHANGED monitor
       ELSE monitor' = Head(want) /\ UNCHANGED <<trans, panicked, skipped>>
    /\ UNCHANGED <<conn, polled, watcher, np, np_new, ids, events, missed, replaced>>

\* handle_trigger returns: the connection is told of the stack, the asker of the result.
Commit ==
    /\ ~panicked /\ monitor # Idle
    /\ \/ pending' = monitor.side
       \/ MayFail /\ UNCHANGED pending
    /\ monitor' = Idle
    /\ Answer(monitor.id)
    /\ UNCHANGED <<stack, current, changed, polled, watcher, np, np_new, want, ids, events, ghosts>>

-----------------------------------------------------------------------------
(* The manager. *)

\* A mutant: a transition that is still to be asked for is kept.
ParticipantsChangedKeeps ==
    /\ ~panicked /\ np_new /\ ~(KafkaOffered /\ stack = "kafka")
    /\ np_new' = FALSE
    /\ IF trans.st = "new" THEN UNCHANGED <<ids, trans>>
       ELSE ids' = ids + 1 /\ trans' = [st |-> "new", side |-> Preferred(np), id |-> ids + 1]
    /\ replaced' = (replaced \/ trans.st = "sent") /\ skipped' = FALSE
    /\ UNCHANGED <<conn, polled, watcher, np, want, monitor, events, panicked, missed>>

\* The number of participants changed, and Kafka is not in use: what was in progress is dropped.
ParticipantsChanged ==
    /\ ~panicked /\ np_new /\ ~(KafkaOffered /\ stack = "kafka")
    /\ np_new' = FALSE
    /\ ids' = ids + 1
    /\ trans' = [st |-> "new", side |-> Preferred(np), id |-> ids + 1]
    /\ replaced' = (replaced \/ trans.st = "sent") /\ skipped' = FALSE
    /\ UNCHANGED <<conn, polled, watcher, np, want, monitor, events, panicked, missed>>

\* trigger_left, trigger_right: the side is set already, or the ordering is not in use.
Asks(s) == current \notin {s, "none"}

\* A mutant: the answer is not waited for.
PollTransitionForgets ==
    /\ ~panicked /\ trans.st = "new"
    /\ trans' = NoTrans
    /\ IF ~Asks(trans.side) THEN skipped' = (pending # trans.side) /\ UNCHANGED want
       ELSE /\ want = <<>> /\ want' = <<[side |-> trans.side, id |-> trans.id]>>
            /\ UNCHANGED skipped
    /\ UNCHANGED <<conn, polled, watcher, np, np_new, monitor, ids, events, panicked, missed,
                   replaced>>

\* transition_in_progress is polled: it returns, or sends its request when there is room.
PollTransition ==
    /\ ~panicked /\ trans.st = "new"
    /\ \/ /\ ~Asks(trans.side)
          /\ trans' = NoTrans /\ skipped' = (pending # trans.side)
          /\ UNCHANGED want
       \/ /\ Asks(trans.side) /\ want = <<>>
          /\ want' = <<[side |-> trans.side, id |-> trans.id]>>
          /\ trans' = [trans EXCEPT !.st = "sent"]
          /\ UNCHANGED skipped
    /\ UNCHANGED <<conn, polled, watcher, np, np_new, monitor, ids, events, panicked, missed,
                   replaced>>

TransitionDone ==
    /\ ~panicked /\ trans.st = "done"
    /\ trans' = NoTrans
    /\ UNCHANGED <<conn, polled, watcher, np, np_new, want, monitor, ids, events, panicked, ghosts>>

\* stack_changed: its first poll notes the value.  Another thread may have changed it since the
\* future before it returned.
PollChanged ==
    /\ ~panicked /\ ~polled
    /\ polled' = TRUE /\ changed' = FALSE /\ missed' = (missed \/ changed)
    /\ UNCHANGED <<stack, pending, current, watcher, np, np_new, trans, want, monitor, ids, events,
                   panicked, replaced, skipped>>

\* A mutant: the state is the one before.
ShownBefore == UNCHANGED watcher

Shown == watcher' = ConnState(current)

\* gcp_changed returns: the state is read and shown, and another future made.
GcpChanged ==
    /\ ~panicked /\ polled /\ changed
    /\ Shown
    /\ polled' = FALSE /\ changed' = FALSE /\ missed' = FALSE
    /\ UNCHANGED <<stack, pending, current, np, np_new, trans, want, monitor, ids, events, panicked,
                   replaced, skipped>>

-----------------------------------------------------------------------------
(* The connection, used by other tasks. *)

\* The connection is used: the upgrade it was told of takes effect.
Upgrade ==
    /\ pending # stack
    /\ stack' = pending
    /\ current' = IF pending = "kafka" \/ (KafkaOffered /\ stack # "kafka") THEN "none" ELSE pending
    /\ changed' = (changed \/ current' # current)
    /\ UNCHANGED <<pending, polled, watcher, np, np_new, trans, want, monitor, ids, events,
                   panicked, ghosts>>

\* ... and the inner connection of a nested one.
UpgradeInner ==
    /\ stack # "kafka" /\ current = "none"
    /\ current' = stack /\ changed' = TRUE
    /\ UNCHANGED <<stack, pending, polled, watcher, np, np_new, trans, want, monitor, ids, events,
                   panicked, ghosts>>

Next ==
    \/ Participants \/ RemoteTransition \/ Take \/ Commit
    \/ ParticipantsChanged \/ PollTransition \/ TransitionDone \/ PollChanged \/ GcpChanged
    \/ Upgrade \/ UpgradeInner

Spec == Init /\ [][Next]_vars

-----------------------------------------------------------------------------
\* The state that is shown is that of the connection, or its change waits to be read; if not, it
\* was made by another thread between the return of gcp_changed and the first poll of the next.
StateShown == watcher = ConnState(current) \/ changed \/ missed

\* The answer of the monitor finds the one who asked (`expect("oneshot receiver won't drop")`),
\* unless participants changed before it and the manager dropped the transition that waited.
AskerWaits == panicked => replaced

\* One transition at a time: as long as none that waited was dropped, what is under way was asked
\* for by the newest one, and is for the newest number of participants that was seen.
NewestAsked ==
    \A r \in {monitor} \union {want[i] : i \in DOMAIN want} :
        r # Idle /\ ~replaced => r.id = ids /\ (r.side = Preferred(np) \/ np_new)

\* The stack is the one for the number of participants.
OrderingFits == stack = Preferred(np) /\ current = stack /\ (watcher = stack \/ missed)

\* ... once it has changed, unless the manager's task is gone, Kafka is in use, or the newest
\* transition was given up because of what the connection ran before a pending upgrade.
Fitting == events > 0 => OrderingFits \/ panicked \/ stack = "kafka" \/ skipped
=============================================================================
