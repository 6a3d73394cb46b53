------------------------- MODULE InjectWithChannel -------------------------
(***************************************************************************)
(* negotiate/inject_with_channel.rs.  negotiate_server_connection reads    *)
(* the first datagram of a connection that was negotiated for it by a      *)
(* proxy, and puts it back: message 1 is in the oneshot channel when the   *)
(* connection is made, and the inner connection has the later ones.  Each  *)
(* call of recv either finds the flag set and uses the inner connection    *)
(* alone, or selects between the inner connection and the oneshot channel, *)
(* whose mutex it takes.  A call may be cancelled while it waits.          *)
(***************************************************************************)
EXTENDS Integers, Sequences, FiniteSets, Functions

CONSTANTS
    Caller,         \* tasks that call recv
    MaxMsg,         \* messages, the first of which is injected
    MayCancel       \* calls may be dropped

VARIABLES
    oneshot,        \* "full" or "taken"
    flag,           \* the AtomicBool
    inner,          \* what the inner connection has to be received
    n_in,           \* the last message that came
    pc,             \* [task -> "idle", "inner" or "select": the call it is in]
    got,            \* messages returned, in order
    panicked

vars == <<oneshot, flag, inner, n_in, pc, got, panicked>>

\* negotiate_server_connection: make, and send of the first datagram.
Init ==
    /\ oneshot = "full" /\ flag = FALSE /\ inner = <<>> /\ n_in = 1
    /\ pc = [t \in Caller |-> "idle"]
    /\ got = <<>> /\ panicked = FALSE

Arrive ==
    /\ n_in < MaxMsg
    /\ n_in' = n_in + 1 /\ inner' = Append(inner, n_in + 1)
    /\ UNCHANGED <<oneshot, flag, pc, got, panicked>>

\* recv reads the flag when it is called, before the future is polled.
Call(t) ==
    /\ ~panicked /\ pc[t] = "idle"
    /\ pc' = [pc EXCEPT ![t] = IF flag THEN "inner" ELSE "select"]
    /\ UNCHANGED <<oneshot, flag, inner, n_in, got, panicked>>

\* A poll of the inner connection, which select polls first.
PollInner(t) ==
    /\ ~panicked /\ pc[t] # "idle" /\ inner # <<>>
    /\ got' = Append(got, Head(inner)) /\ inner' = Tail(inner)
    /\ pc' = [pc EXCEPT ![t] = "idle"]
    /\ UNCHANGED <<oneshot, flag, n_in, panicked>>

\* A mutant: the flag is not set.
PollOneshotUnset(t) ==
    /\ ~panicked /\ pc[t] = "select" /\ inner = <<>>
    /\ IF oneshot = "full"
       THEN /\ oneshot' = "taken" /\ got' = Append(got, 1)
            /\ pc' = [pc EXCEPT ![t] = "idle"]
            /\ UNCHANGED <<flag, panicked>>
       ELSE panicked' = TRUE /\ UNCHANGED <<oneshot, flag, got, pc>>
    /\ UNCHANGED <<inner, n_in>>

\* The inner connection has nothing: the oneshot channel is polled under its mutex.  A oneshot
\* receiver that is polled after it returned its value panics.
PollOneshot(t) ==
    /\ ~panicked /\ pc[t] = "select" /\ inner = <<>>
    /\ IF oneshot = "full"
       THEN /\ oneshot' = "taken" /\ flag' = TRUE /\ got' = Append(got, 1)
            /\ pc' = [pc EXCEPT ![t] = "idle"]
            /\ UNCHANGED panicked
       ELSE panicked' = TRUE /\ UNCHANGED <<oneshot, flag, got, pc>>
    /\ UNCHANGED <<inner, n_in>>

\* A mutant: a call that is dropped takes the injected message with it.
CancelTakes(t) ==
    /\ MayCancel /\ pc[t] # "idle"
    /\ pc' = [pc EXCEPT ![t] = "idle"]
    /\ oneshot' = IF pc[t] = "select" THEN "taken" ELSE oneshot
    /\ flag' = (flag \/ pc[t] = "select")
    /\ UNCHANGED <<inner, n_in, got, panicked>>

\* The future is dropped: the receiver stays in its mutex.
Cancel(t) ==
    /\ MayCancel /\ pc[t] # "idle"
    /\ pc' = [pc EXCEPT ![t] = "idle"]
    /\ UNCHANGED <<oneshot, flag, inner, n_in, got, panicked>>

Next ==
    \/ Arrive
    \/ \E t \in Caller : Call(t) \/ PollInner(t) \/ PollOneshot(t) \/ Cancel(t)

Spec == Init /\ [][Next]_vars

-----------------------------------------------------------------------------
TypeOK == oneshot \in {"full", "taken"} /\ flag \in BOOLEAN /\ n_in \in 1..MaxMsg

\* The datagram that was put back is returned once and not lost, whatever calls are cancelled
\* and however later datagrams race it; so are the later ones, in their order.
InjectedOnce ==
    LET all == got \o inner IN
    /\ oneshot = "full" <=> 1 \notin Range(got)
    /\ Range(all) \ {1} = 2..n_in
    /\ \A i, j \in DOMAIN all : i < j => all[i] < all[j] \/ (all[j] = 1 /\ all[i] # 1)

\* The oneshot channel is not polled again, if one task at a time receives.  (With two calls that
\* both began before the first returned, it is.)
NoInjectPanic == panicked => Cardinality(Caller) > 1
=============================================================================
