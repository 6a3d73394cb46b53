----------------------------- MODULE UpgradeConn -----------------------------
(***************************************************************************)
(* UpgradeEitherConn (bertha/src/negotiate/rendezvous.rs): a connection    *)
(* that replaces the stack it runs over when the negotiation task          *)
(* publishes another nonce on a watch channel.  send and recv first drive  *)
(* the upgrade that is due, which needs the lock of the current stack; the *)
(* upgrade's future is kept beside the listener (in_progress), so that it  *)
(* survives the cancellation of the call that started it.                  *)
(*                                                                         *)
(* A nonce stands for the stack it applies to: its parity is the side.     *)
(* Both locks are tokio mutexes.                                           *)
(***************************************************************************)
EXTENDS Integers, FiniteSets

CONSTANTS Caller,
          Nonce,        \* the stacks that may be published, numbers; 0 is the first
          Bad,          \* nonces the connection cannot apply
          MaxMsg,       \* bound: messages that arrive
          MayCancel,    \* callers may drop the futures of send and recv
          None

VARIABLES nonce,         \* the watch channel's value (trigger_locally)
          unseen,        \* listener.has_changed()
          curr_nonce,    \* the nonce last acted upon
          in_progress,   \* the upgrade begun and not finished, or None; Spent: its future
                         \* has returned an error and must not be polled again
          queued,        \* ... its future waits for the lock of `current`
          current,       \* the stack in use
          changed,       \* what UpgradeHandle::current shows: a side
          sl, cl,        \* holders of the locks switch_listener and current
          pc,            \* a task's position
          msgs,          \* messages the current stack's recv can return
          n_msgs         \* messages that have arrived

vars == <<nonce, unseen, curr_nonce, in_progress, queued, current, changed, sl, cl, pc, msgs,
          n_msgs>>

Spent == -1
Side(n) == n % 2

Init ==
    /\ nonce = 0 /\ unseen = FALSE /\ curr_nonce = 0
    /\ in_progress = None /\ queued = FALSE
    /\ current = 0 /\ changed = Side(0)
    /\ sl = None /\ cl = None
    /\ pc = [t \in Caller |-> "idle"]
    /\ msgs = 0 /\ n_msgs = 0

Goto(t, p) == pc' = [pc EXCEPT ![t] = p]
upgrade == <<curr_nonce, in_progress, queued, current, changed>>
input == <<nonce, msgs, n_msgs>>

\* switch_to_stack, from the negotiation task: publish if the value differs.
Publish ==
    /\ \E n \in Nonce \ {nonce} : nonce' = n
    /\ unseen' = TRUE
    /\ UNCHANGED <<upgrade, sl, cl, pc, msgs, n_msgs>>

Arrive ==
    /\ n_msgs < MaxMsg
    /\ n_msgs' = n_msgs + 1 /\ msgs' = msgs + 1
    /\ UNCHANGED <<nonce, unseen, upgrade, sl, cl, pc>>

ObserveSide ==
    /\ unseen' = FALSE
    /\ curr_nonce' = IF Side(nonce) # Side(curr_nonce) THEN nonce ELSE curr_nonce
    /\ in_progress' = IF Side(nonce) # Side(curr_nonce) THEN nonce ELSE in_progress
    /\ UNCHANGED <<queued, current, changed>>

\* borrow_and_update, and try_upgrade if the nonce is not the one in use.
Observe ==
    /\ unseen' = FALSE
    /\ curr_nonce' = nonce
    /\ in_progress' = IF nonce # curr_nonce THEN nonce ELSE in_progress
    /\ UNCHANGED <<queued, current, changed>>

CanApply == in_progress \in Nonce \ Bad

\* The offers do not apply: the call returns the error, and leaves the spent future behind;
\* a call that finds it polls it, which panics.
UpgradeFails(t) ==
    /\ in_progress \in Bad \cup {Spent}
    /\ in_progress' = Spent
    /\ sl' = None
    /\ Goto(t, IF in_progress = Spent THEN "panic" ELSE "idle")
    /\ UNCHANGED <<curr_nonce, queued, current, changed, cl, unseen, input>>

\* The upgrade's future is polled: it applies the offers, then waits for the current stack.
UpgradeWaits(t) ==
    /\ CanApply /\ cl \notin {None, "upgrade"} /\ ~queued
    /\ queued' = TRUE
    /\ UNCHANGED <<curr_nonce, in_progress, current, changed, sl, cl, pc, unseen, input>>

\* A mutex is handed to the future that waits, whether or not anything polls it.
Grant ==
    /\ queued /\ cl = None
    /\ cl' = "upgrade" /\ queued' = FALSE
    /\ UNCHANGED <<curr_nonce, in_progress, current, changed, sl, pc, unseen, input>>

UpgradeDoneSilent ==
    /\ CanApply /\ cl \in {None, "upgrade"} /\ ~queued
    /\ current' = in_progress
    /\ in_progress' = None
    /\ cl' = None
    /\ UNCHANGED <<curr_nonce, queued, changed>>

UpgradeDone ==
    /\ CanApply /\ cl \in {None, "upgrade"} /\ ~queued
    /\ current' = in_progress
    /\ changed' = Side(in_progress)
    /\ in_progress' = None
    /\ cl' = None
    /\ UNCHANGED <<curr_nonce, queued>>

-----------------------------------------------------------------------------
Lock(t) == sl = None /\ sl' = t

\* send: lock the listener; see whether the stack must change; finish that; send.
SendLock(t) ==
    /\ pc[t] = "send" /\ Lock(t)
    /\ Goto(t, "send_up")
    /\ \/ in_progress = None /\ unseen /\ Observe
       \/ (in_progress # None \/ ~unseen) /\ UNCHANGED <<unseen, upgrade>>
    /\ UNCHANGED <<cl, input>>

SendUpgrade(t) ==
    /\ pc[t] = "send_up"
    /\ \/ /\ UpgradeDone /\ sl' = None /\ Goto(t, "send_cur")
          /\ UNCHANGED <<unseen, input>>
       \/ UpgradeWaits(t) \/ UpgradeFails(t)
       \/ /\ in_progress = None /\ sl' = None /\ Goto(t, "send_cur")
          /\ UNCHANGED <<upgrade, cl, unseen, input>>

SendCurrent(t) ==
    /\ pc[t] = "send_cur" /\ cl = None /\ ~queued
    /\ Goto(t, "idle")
    /\ UNCHANGED <<upgrade, sl, cl, unseen, input>>

\* recv: a select of the current stack's recv and of the wait for another nonce.
RecvLockCurrent(t) ==
    /\ pc[t] = "recv" /\ cl = None /\ ~queued
    /\ cl' = t
    /\ UNCHANGED <<upgrade, sl, pc, unseen, input>>

RecvMessage(t) ==
    /\ pc[t] = "recv" /\ cl = t /\ msgs > 0
    /\ msgs' = msgs - 1
    /\ cl' = None
    /\ sl' = IF sl = t THEN None ELSE sl      \* the other future is dropped
    /\ Goto(t, "idle")
    /\ UNCHANGED <<upgrade, unseen, nonce, n_msgs>>

RecvLockListener(t) ==
    /\ pc[t] = "recv" /\ Lock(t)
    /\ UNCHANGED <<upgrade, cl, pc, unseen, input>>

RecvListenKeep(t) ==
    /\ pc[t] = "recv" /\ sl = t
    /\ \/ in_progress = None /\ unseen /\ nonce # curr_nonce /\ Observe
       \/ in_progress # None /\ UNCHANGED <<unseen, upgrade>>
    /\ sl' = None
    /\ UNCHANGED cl
    /\ Goto(t, "recv_up")
    /\ UNCHANGED input

RecvListenAny(t) ==
    /\ pc[t] = "recv" /\ sl = t
    /\ \/ in_progress = None /\ unseen /\ Observe
       \/ in_progress # None /\ UNCHANGED <<unseen, upgrade>>
    /\ sl' = None
    /\ cl' = IF cl = t THEN None ELSE cl
    /\ Goto(t, "recv_up")
    /\ UNCHANGED input

\* An upgrade is due: both futures are dropped, and with them the locks they hold.
RecvListen(t) ==
    /\ pc[t] = "recv" /\ sl = t
    /\ \/ in_progress = None /\ unseen /\ nonce # curr_nonce /\ Observe
       \/ in_progress # None /\ UNCHANGED <<unseen, upgrade>>
    /\ sl' = None
    /\ cl' = IF cl = t THEN None ELSE cl
    /\ Goto(t, "recv_up")
    /\ UNCHANGED input

\* The value changed and changed back: keep listening.
RecvSameNonce(t) ==
    /\ pc[t] = "recv" /\ sl = t
    /\ in_progress = None /\ unseen /\ nonce = curr_nonce
    /\ Observe
    /\ UNCHANGED <<sl, cl, pc, input>>

\* The listener is locked again; in_progress.unwrap() panics if another call was faster.
RecvRelock(t) ==
    /\ pc[t] = "recv_up" /\ sl = None
    /\ sl' = IF in_progress = None THEN None ELSE t
    /\ Goto(t, IF in_progress = None THEN "panic" ELSE "recv_drive")
    /\ UNCHANGED <<upgrade, cl, unseen, input>>

RecvUpgrade(t) ==
    /\ pc[t] = "recv_drive"
    /\ \/ /\ UpgradeDone /\ sl' = None /\ Goto(t, "recv")
          /\ UNCHANGED <<unseen, input>>
       \/ UpgradeWaits(t) \/ UpgradeFails(t)

Call(t) ==
    /\ pc[t] = "idle"
    /\ \E p \in {"send", "recv"} : Goto(t, p)
    /\ UNCHANGED <<upgrade, sl, cl, unseen, input>>

CancelForget(t) ==
    /\ MayCancel /\ pc[t] \notin {"idle", "panic"}
    /\ Goto(t, "idle")
    /\ sl' = IF sl = t THEN None ELSE sl
    /\ cl' = IF cl \in {t, "upgrade"} THEN None ELSE cl
    /\ in_progress' = IF sl = t THEN None ELSE in_progress
    /\ queued' = (queued /\ sl # t)
    /\ UNCHANGED <<curr_nonce, current, changed, unseen, input>>

\* The caller drops the future: its locks go, the upgrade stays.
Cancel(t) ==
    /\ MayCancel /\ pc[t] \notin {"idle", "panic"}
    /\ Goto(t, "idle")
    /\ sl' = IF sl = t THEN None ELSE sl
    /\ cl' = IF cl = t THEN None ELSE cl
    /\ UNCHANGED <<upgrade, unseen, input>>

Send(t) == SendLock(t) \/ SendUpgrade(t) \/ SendCurrent(t)
Recv(t) == \/ RecvLockCurrent(t) \/ RecvMessage(t) \/ RecvLockListener(t) \/ RecvListen(t)
           \/ RecvSameNonce(t) \/ RecvRelock(t) \/ RecvUpgrade(t)

Next == \/ Publish \/ Arrive \/ Grant
        \/ \E t \in Caller : Call(t) \/ Send(t) \/ Recv(t) \/ Cancel(t)

Spec == Init /\ [][Next]_vars

-----------------------------------------------------------------------------
TypeOK ==
    /\ nonce \in Nonce /\ curr_nonce \in Nonce /\ current \in Nonce
    /\ in_progress \in Nonce \cup {None, Spent}
    /\ unseen \in BOOLEAN /\ queued \in BOOLEAN /\ changed \in {0, 1}
    /\ sl \in Caller \cup {None} /\ cl \in Caller \cup {None, "upgrade"}
    /\ pc \in [Caller -> {"idle", "send", "send_up", "send_cur", "recv", "recv_up",
                        "recv_drive", "panic"}]
    /\ msgs \in 0..MaxMsg /\ n_msgs \in 0..MaxMsg

\* The nonce last acted upon is the stack in use, or the stack being put in use: no
\* cancellation, and no interleaving of two calls, drops an upgrade that was begun.
UpgradeNotForgotten ==
    in_progress # Spent => curr_nonce = IF in_progress = None THEN current ELSE in_progress

\* The newest nonce is in use, being put in use, or will be noticed.
NothingMissed == unseen \/ curr_nonce = nonce

\* What UpgradeHandle::current tells the application is the side in use.
HandleShowsCurrent == changed = Side(current)

\* If one task at a time uses the connection, and the stacks published can be applied, the
\* unwrap in recv never fails.
NoUpgradePanic == \A t \in Caller : pc[t] # "panic"

-----------------------------------------------------------------------------
\* What MCProgress relates: a connection that is used, by a task that neither cancels nor is
\* starved, gets to the newest stack.
Published(n) == nonce = n
InUse(n) == current = n
=============================================================================
