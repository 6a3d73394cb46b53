--------------------------- MODULE RendezvousProofs ---------------------------
(***************************************************************************)
(* Proofs about Rendezvous, for any clients, stacks and (even) bound on    *)
(* the round counter.                                                      *)
(***************************************************************************)
EXTENDS Rendezvous, TLAPS

\* Nothing has happened before the first try_init writes addr.
Untouched == addr = None => roundctr = 0 /\ \A c \in Client : pc[c] = "start"

\* The inductive invariant.  The round counter is a lock (OneCommitter) only because no
\* client holds a round of the future (NoBackwardRound) and the counter is not reset
\* under a client that has started (Untouched); the staged keys follow the lock.
IInv == TypeOK /\ OneCommitter /\ StagedIsCurrent /\ NoBackwardRound /\ Untouched

\* A step of c that leaves the semantics, the round and the staged keys alone, takes no
\* lock, and learns no round but those the store has reached.
LocalStep(c) ==
    /\ UNCHANGED <<addr, roundctr, staged>> /\ addr # None
    /\ \A d \in Client \ {c} : /\ pc'[d] = pc[d] /\ at'[d] = at[d] /\ want'[d] = want[d]
                               /\ curr_round'[d] = curr_round[d]
    /\ Holds(c)' => Holds(c) /\ at'[c] = at[c] /\ want'[c] = want[c]
    /\ pc'[c] \in {"commitwait", "final"} => pc[c] \in {"commitwait", "final"}
    /\ at'[c] <= roundctr /\ curr_round'[c] <= roundctr

-----------------------------------------------------------------------------

\* INCR changes the parity of the round counter.
LEMMA Succ == \A r \in Nat : Odd(r + 1) <=> ~Odd(r)
  BY DEF Odd

\* An odd round counter below the even bound can be incremented once more.
LEMMA BelowBound ==
    ASSUME NEW r \in Nat, NEW n \in Nat, n % 2 = 0, r <= n, Odd(r)
    PROVE  r + 1 <= n
  BY DEF Odd

\* The initial state of the store and the clients satisfies the inductive invariant.
LEMMA InitIInv == Fresh /\ dead \subseteq Client => IInv
  BY ConstantsAssumption
  DEF Fresh, IInv, TypeOK, OneCommitter, StagedIsCurrent, NoBackwardRound, Untouched,
      Holds, Round, PC, Ctx

-----------------------------------------------------------------------------

\* A transition that returned leaves the client at one of its program points, with a round
\* of the store and a stack.
LEMMA TransitionOkType ==
    ASSUME TypeOK, NEW c \in Client, NEW r \in Round, TransitionOk(c, r)
    PROVE  /\ pc' \in [Client -> PC] /\ ctx' \in [Client -> Ctx]
           /\ curr_entry' \in [Client -> Entry] /\ curr_round' \in [Client -> Round]
  <1>1. pc' \in [Client -> PC]
    BY Zenon DEF TransitionOk, TypeOK, Goto, PC
  <1>2. curr_round' \in [Client -> Round]
    BY Zenon DEF TransitionOk, TypeOK
  <1>3. curr_entry' \in [Client -> Entry] /\ ctx' \in [Client -> Ctx]
    BY Zenon DEF TransitionOk, TypeOK
  <1> QED
    BY <1>1, <1>2, <1>3, Zenon

\* The same of a transition that failed.
LEMMA TransitionErrType ==
    ASSUME TypeOK, NEW c \in Client, TransitionErr(c)
    PROVE  /\ pc' \in [Client -> PC] /\ ctx' \in [Client -> Ctx]
           /\ curr_entry' \in [Client -> Entry] /\ curr_round' \in [Client -> Round]
  <1>1. pc' \in [Client -> PC]
    BY Zenon DEF TransitionErr, TypeOK, Goto, PC
  <1>2. ctx' \in [Client -> Ctx]
    BY Zenon DEF TransitionErr, TypeOK, Ctx
  <1> QED
    BY <1>1, <1>2, Zenon DEF TransitionErr, TypeOK

\* The same of the handling of a NoMatch.
LEMMA NoMatchType ==
    ASSUME TypeOK, NEW c \in Client, NEW k \in Ctx, NEW e, NEW r \in Round,
           NoMatch(c, k, e, r)
    PROVE  /\ pc' \in [Client -> PC] /\ ctx' \in [Client -> Ctx]
           /\ curr_entry' \in [Client -> Entry] /\ curr_round' \in [Client -> Round]
           /\ want' \in [Client -> Entry] /\ at' \in [Client -> Round]
  <1> USE ConstantsAssumption DEF TypeOK
  <1>1. CASE k \in {"notify", "retry"}
    <2>1. /\ curr_round' = [curr_round EXCEPT ![c] = r] /\ at' = [at EXCEPT ![c] = r]
          /\ UNCHANGED curr_entry
      BY <1>1, Zenon DEF NoMatch
    <2>2. pc' \in [Client -> PC]
      BY <1>1 DEF NoMatch, Goto, PC
    <2>3. ctx' \in [Client -> Ctx]
      BY <1>1 DEF NoMatch, Ctx
    <2>4. want' \in [Client -> Entry]
      BY <1>1 DEF NoMatch
    <2> QED
      BY <2>1, <2>2, <2>3, <2>4, Zenon
  <1>2. CASE k \notin {"notify", "retry"} /\ k = "case1"
    <2>1. pc' \in [Client -> PC]
      BY <1>2 DEF NoMatch, Goto, PC
    <2>2. /\ curr_entry' = [curr_entry EXCEPT ![c] = want[c]]
          /\ UNCHANGED <<curr_round, at, want, ctx>>
      BY <1>2, Zenon DEF NoMatch
    <2> QED
      BY <2>1, <2>2, Zenon
  <1>3. CASE k \notin {"notify", "retry", "case1"}
    <2>1. pc' \in [Client -> PC]
      BY <1>3 DEF NoMatch, Goto, PC
    <2>2. UNCHANGED <<curr_entry, curr_round, at, want, ctx>>
      BY <1>3, Zenon DEF NoMatch
    <2> QED
      BY <2>1, <2>2, Zenon
  <1> QED
    BY <1>1, <1>2, <1>3, Zenon

\* Every step of a client, and the expiry of the join lock, preserves the types of the
\* Redis keys and of the client's variables.  Commit alone needs more than TypeOK: its
\* increment stays within the bound because the round is odd while somebody holds it.
LEMMA TypeStep == IInv /\ [Next]_vars => TypeOK'
  <1> SUFFICES ASSUME IInv, [Next]_vars PROVE TypeOK'
    BY Zenon
  <1> USE ConstantsAssumption DEF TypeOK, Round, PC, Ctx
  <1>t. TypeOK
    BY Zenon DEF IInv
  <1> USE <1>t
  <1>1. ASSUME NEW c \in Client, Negotiate(c) PROVE TypeOK'
    <2>1. CASE TryInitCreate(c)
      BY <2>1 DEF TryInitCreate, Touch, Refreshed, Goto, Alive, Unset
    <2>2. CASE TryInitMatch(c)
      BY <2>2, Zenon DEF TryInitMatch, Touch, Refreshed, Goto, Alive, SameBytes
    <2>3. CASE TryInitNoMatch(c)
      BY <2>3, Zenon DEF TryInitNoMatch, Goto, Alive, OtherBytes, Unset, TakeJoinlock
    <2>4. CASE TryInitOverride(c)
      BY <2>4, Zenon DEF TryInitOverride, Goto, Alive, OtherBytes, Unset, TakeJoinlock
    <2>5. CASE AcceptExisting(c)
      BY <2>5, Zenon DEF AcceptExisting, Goto, Alive, keys
    <2>6. CASE Leave(c)
      BY <2>6, Zenon DEF Leave, Goto, Alive
    <2>7. CASE KeepOwn(c)
      BY <2>7, Zenon DEF KeepOwn, Goto, Alive, keys
    <2> QED
      BY <1>1, <2>1, <2>2, <2>3, <2>4, <2>5, <2>6, <2>7, Zenon DEF Negotiate
  <1>2. ASSUME NEW c \in Client, Poll(c) PROVE TypeOK'
    <2>1. CASE PollMatched(c)
      BY <2>1, Zenon DEF PollMatched, Touch, Refreshed, Goto, ReleaseOwnJoinlock
    <2>2. CASE PollChanged(c)
      <3>1. PollCtx(c) \in Ctx
        BY Zenon DEF PollCtx
      <3>2. /\ pc' \in [Client -> PC] /\ ctx' \in [Client -> Ctx]
            /\ curr_entry' \in [Client -> Entry] /\ curr_round' \in [Client -> Round]
            /\ want' \in [Client -> Entry] /\ at' \in [Client -> Round]
        <4>1. NoMatch(c, PollCtx(c), addr, roundctr) /\ roundctr \in Round
          BY <2>2, Zenon DEF PollChanged
        <4> HIDE DEF Ctx, Round
        <4> QED
          BY <4>1, <3>1, NoMatchType, Zenon
      <3> QED
        BY <2>2, <3>2, Zenon DEF PollChanged, Touch, Refreshed, ReleaseOwnJoinlock
    <2>3. CASE PollNewRound(c)
      BY <2>3, Zenon DEF PollNewRound, Touch, Refreshed, Goto, ReleaseOwnJoinlock, PollCtx
    <2>4. CASE SpinStaged(c)
      <3>1. /\ pc' \in [Client -> PC] /\ ctx' \in [Client -> Ctx]
            /\ curr_entry' \in [Client -> Entry] /\ curr_round' \in [Client -> Round]
            /\ want' \in [Client -> Entry] /\ at' \in [Client -> Round]
        <4>1. CASE NoMatch(c, ctx[c], StagedEntry(c), at[c])
          <5>1. ctx[c] \in Ctx /\ at[c] \in Round
            BY Zenon
          <5> HIDE DEF Ctx, Round
          <5> QED
            BY <4>1, <5>1, NoMatchType, Zenon
        <4>2. CASE UNCHANGED <<pc, ctx, curr_entry, curr_round, want, at>>
          BY <4>2, Zenon
        <4> QED
          BY <2>4, <4>1, <4>2, Zenon DEF SpinStaged
      <3> QED
        BY <2>4, <3>1, Zenon DEF SpinStaged, Touch, Refreshed
    <2>5. CASE RefreshClient(c)
      BY <2>5 DEF RefreshClient, Touch, Refreshed, local
    <2> QED
      BY <1>2, <2>1, <2>2, <2>3, <2>4, <2>5, Zenon DEF Poll
  <1>3. ASSUME NEW c \in Client, Transition(c) PROVE TypeOK'
    <2>1. CASE LockRound(c)
      BY <2>1, SMTT(30) DEF LockRound, Goto, ReleaseOwnJoinlock
    <2>2. CASE ConvertToApplier(c)
      BY <2>2, Zenon DEF ConvertToApplier, Goto, ReleaseOwnJoinlock
    <2>3. CASE Stage(c)
      <3>1. /\ pc' \in [Client -> PC] /\ ctx' \in [Client -> Ctx]
            /\ curr_entry' \in [Client -> Entry] /\ curr_round' \in [Client -> Round]
        BY <2>3, TransitionErrType, ZenonT(30) DEF Stage, Goto
      <3>2. staged' \in [Round -> Entry \cup {None}] /\ committed' \in [Round -> Nat]
        BY <2>3, Zenon DEF Stage
      <3> QED
        BY <2>3, <3>1, <3>2, Zenon DEF Stage, Touch, Refreshed
    <2>4. CASE CommitRefresh(c)
      BY <2>4 DEF CommitRefresh, Touch, Refreshed, Goto
    <2>5. CASE Commit(c)
      <3>1. roundctr + 1 \in Round
        <4>1. Odd(roundctr)
          BY <2>5, Zenon DEF Commit, Alive, Holds, IInv, OneCommitter
        <4>2. roundctr \in Nat /\ MaxRound \in Nat /\ MaxRound % 2 = 0 /\ roundctr <= MaxRound
          OBVIOUS
        <4>3. roundctr + 1 <= MaxRound
          BY <4>1, <4>2, BelowBound, Zenon
        <4> QED
          BY <4>2, <4>3
      <3>2. /\ pc' \in [Client -> PC] /\ ctx' \in [Client -> Ctx]
            /\ curr_entry' \in [Client -> Entry] /\ curr_round' \in [Client -> Round]
        BY <2>5, <3>1, TransitionOkType, Zenon DEF Commit, RoundAfterCommit
      <3>3. staged' \in [Round -> Entry \cup {None}] /\ committed' \in [Round -> Nat]
        BY <2>5, Zenon DEF Commit, StagedAfterCommit
      <3>4. addr' \in Entry \cup {None} /\ roundctr' \in Round
        BY <2>5, <3>1, Zenon DEF Commit, CommittedEntry, RoundAfterCommit
      <3>5. del' \in [Client -> BOOLEAN]
        BY <2>5, Zenon DEF Commit
      <3> QED
        BY <2>5, <3>2, <3>3, <3>4, <3>5, Zenon DEF Commit
    <2>6. CASE AwaitCounter(c)
      <3>1. /\ pc' \in [Client -> PC] /\ ctx' \in [Client -> Ctx]
            /\ curr_entry' \in [Client -> Entry] /\ curr_round' \in [Client -> Round]
        <4>1. CASE TransitionErr(c)
          BY <4>1, TransitionErrType, Zenon
        <4>2. CASE /\ Goto(c, "subscribe") \/ Goto(c, "reconvert")
                   /\ UNCHANGED <<ctx, curr_entry, curr_round>>
          <5>1. "subscribe" \in PC /\ "reconvert" \in PC
            BY Zenon
          <5> HIDE DEF PC, Ctx, Round
          <5> QED
            BY <4>2, <5>1 DEF Goto
        <4> QED
          BY <2>6, <4>1, <4>2, Zenon DEF AwaitCounter
      <3> QED
        BY <2>6, <3>1, Zenon DEF AwaitCounter, Touch, Refreshed
    <2>7. CASE AwaitCounterAgain(c)
      BY <2>7, Zenon DEF AwaitCounterAgain, Touch, Refreshed, Goto, TransitionErr
    <2> QED
      BY <1>3, <2>1, <2>2, <2>3, <2>4, <2>5, <2>6, <2>7, Zenon DEF Transition
  <1>4. ASSUME NEW c \in Client, Apply(c) PROVE TypeOK'
    <2>1. CASE Ack(c)
      <3>1. committed' \in [Round -> Nat]
        <4> HIDE DEF Round
        <4>1. at[c] \in Round /\ committed[at[c]] \in Nat
          BY Zenon
        <4>2. committed[at[c]] + 1 \in Nat
          BY <4>1
        <4>3. committed' = [committed EXCEPT ![at[c]] = committed[at[c]] + 1]
          BY <2>1, Zenon DEF Ack, AckCounted
        <4> QED
          BY <4>1, <4>2, <4>3, Zenon
      <3> QED
        BY <2>1, <3>1, Zenon DEF Ack, Touch, Refreshed, Goto
    <2>2. CASE Subscribe(c)
      BY <2>2, Zenon DEF Subscribe, Goto, keys
    <2>3. CASE RefreshTimer(c)
      BY <2>3, Zenon DEF RefreshTimer, Goto, keys
    <2>4. CASE RefreshCommit(c)
      BY <2>4, Zenon DEF RefreshCommit, Touch, Refreshed, Goto
    <2>5. CASE DelEvent(c)
      BY <2>5, Zenon DEF DelEvent, Goto, keys
    <2>6. CASE FetchRound(c)
      <3>1. /\ pc' \in [Client -> PC] /\ ctx' \in [Client -> Ctx]
            /\ curr_entry' \in [Client -> Entry] /\ curr_round' \in [Client -> Round]
        <4>1. CASE ctx[c] \in {"notify", "retry"}
          <5>1. Goto(c, "monitor") /\ UNCHANGED ctx
            BY <2>6, <4>1, Zenon DEF FetchRound
          <5>2. \/ UNCHANGED <<curr_round, curr_entry>>
                \/ /\ curr_round' = [curr_round EXCEPT ![c] = roundctr]
                   /\ curr_entry' = [curr_entry EXCEPT ![c] = want[c]]
            BY <2>6, <4>1, Zenon DEF FetchRound
          <5>3. "monitor" \in PC
            BY Zenon
          <5> HIDE DEF PC, Ctx, Round
          <5> QED
            BY <5>1, <5>2, <5>3 DEF Goto
        <4>2. CASE ctx[c] \notin {"notify", "retry"}
          <5>1. TransitionOk(c, roundctr)
            BY <2>6, <4>2, Zenon DEF FetchRound
          <5> QED
            BY <5>1, TransitionOkType, Zenon
        <4> QED
          BY <4>1, <4>2, Zenon
      <3> QED
        BY <2>6, <3>1, Zenon DEF FetchRound, Touch, Refreshed
    <2> QED
      BY <1>4, <2>1, <2>2, <2>3, <2>4, <2>5, <2>6, Zenon DEF Apply
  <1>5. ASSUME NEW c \in Client, PreferChange(c) PROVE TypeOK'
    BY <1>5 DEF PreferChange, Goto, keys
  <1>6. ASSUME NEW c \in Client, Trigger(c) PROVE TypeOK'
    BY <1>6 DEF Trigger, Goto, keys
  <1>7. ASSUME NEW c \in Client, Stop(c) PROVE TypeOK'
    BY <1>7, Zenon DEF Stop, keys
  <1>8. ASSUME NEW c \in Client, Expire(c) PROVE TypeOK'
    BY <1>8, Zenon DEF Expire, local
  <1>9. CASE JoinlockExpire
    BY <1>9, Zenon DEF JoinlockExpire, local
  <1>10. CASE UNCHANGED vars
    BY <1>10, Zenon DEF vars
  <1> QED
    BY <1>1, <1>2, <1>3, <1>4, <1>5, <1>6, <1>7, <1>8, <1>9, <1>10, Zenon DEF Next, Step

-----------------------------------------------------------------------------

\* A step that touches none of the lock's state keeps the lock's invariants.
LEMMA UnchangedIInv ==
    ASSUME IInv, TypeOK', UNCHANGED <<addr, roundctr, staged, pc, at, want, curr_round>>
    PROVE  IInv'
  BY Zenon DEF IInv, OneCommitter, StagedIsCurrent, NoBackwardRound, Untouched, Holds

\* A local step of a client keeps the inductive invariant.
LEMMA LocalIInv ==
    ASSUME IInv, TypeOK', NEW c \in Client, LocalStep(c)
    PROVE  IInv'
  <1>1. OneCommitter'
    BY DEF IInv, LocalStep, OneCommitter, Holds
  <1>2. StagedIsCurrent'
    <2>1. UNCHANGED <<staged, roundctr>>
      BY Zenon DEF LocalStep
    <2>2. \A d \in Client : pc'[d] \in {"commitwait", "final"} =>
             pc[d] \in {"commitwait", "final"} /\ at'[d] = at[d] /\ want'[d] = want[d]
      BY Zenon DEF LocalStep, Holds
    <2> QED
      BY <2>1, <2>2, Zenon DEF IInv, StagedIsCurrent
  <1>3. NoBackwardRound'
    BY Zenon DEF IInv, LocalStep, NoBackwardRound
  <1>4. Untouched'
    BY Zenon DEF LocalStep, Untouched
  <1> QED
    BY <1>1, <1>2, <1>3, <1>4, Zenon DEF IInv

\* Handling a NoMatch of a round the store has reached is a local step.
LEMMA NoMatchLocal ==
    ASSUME IInv, NEW c \in Client, NEW k \in Ctx, NEW e, NEW r \in Round, r <= roundctr,
           pc[c] \in {"poll", "monitor", "spin"}, UNCHANGED <<addr, roundctr, staged>>,
           NoMatch(c, k, e, r)
    PROVE  LocalStep(c)
  <1> USE DEF IInv, TypeOK, NoBackwardRound
  <1>1. addr # None
    BY Zenon DEF Untouched
  <1>2. CASE k \in {"notify", "retry"}
    BY <1>1, <1>2 DEF NoMatch, LocalStep, Goto, Holds
  <1>3. CASE k = "case1"
    BY <1>1, <1>3 DEF NoMatch, LocalStep, Goto, Holds
  <1>4. CASE k \notin {"notify", "retry", "case1"}
    BY <1>1, <1>4, Zenon DEF NoMatch, LocalStep, Goto, Holds
  <1> QED
    BY <1>2, <1>3, <1>4, Zenon

\* The steps that neither create the connection, nor lock a round, nor stage, nor commit.
OtherStep(c) ==
    \/ TryInitMatch(c) \/ TryInitNoMatch(c) \/ TryInitOverride(c) \/ AcceptExisting(c)
    \/ Leave(c) \/ KeepOwn(c) \/ PollMatched(c) \/ PollChanged(c) \/ PollNewRound(c)
    \/ SpinStaged(c) \/ ConvertToApplier(c) \/ CommitRefresh(c) \/ AwaitCounter(c)
    \/ AwaitCounterAgain(c) \/ Ack(c) \/ Subscribe(c) \/ RefreshTimer(c)
    \/ RefreshCommit(c) \/ DelEvent(c) \/ FetchRound(c) \/ PreferChange(c)
    \/ Trigger(c)

\* All of them are local steps.
LEMMA OtherIsLocal ==
    ASSUME IInv, NEW c \in Client, OtherStep(c)
    PROVE  LocalStep(c)
  <1> USE ConstantsAssumption DEF IInv, TypeOK, NoBackwardRound
  <1>a. pc[c] # "start" => addr # None
    BY Zenon DEF Untouched
  <1>b. roundctr <= roundctr /\ at[c] <= roundctr /\ curr_round[c] <= roundctr
    BY DEF Round
  <1>1. CASE TryInitMatch(c)
    BY <1>1, <1>a, <1>b, Zenon DEF TryInitMatch, LocalStep, Holds, SameBytes, Goto, Alive
  <1>2. CASE TryInitNoMatch(c)
    BY <1>2, <1>a, <1>b DEF TryInitNoMatch, LocalStep, Holds, OtherBytes, Unset, Goto, Alive
  <1>3. CASE TryInitOverride(c)
    BY <1>3, <1>a, <1>b, Zenon DEF TryInitOverride, LocalStep, Holds, OtherBytes, Unset, Goto, Alive
  <1>4. CASE AcceptExisting(c)
    BY <1>4, <1>a, <1>b, Zenon DEF AcceptExisting, LocalStep, Holds, Goto, Alive, keys
  <1>5. CASE Leave(c)
    BY <1>5, <1>a, <1>b, Zenon DEF Leave, LocalStep, Holds, Goto, Alive
  <1>6. CASE KeepOwn(c)
    BY <1>6, <1>a, <1>b, Zenon DEF KeepOwn, LocalStep, Holds, Goto, Alive, keys
  <1>7. CASE PollMatched(c)
    BY <1>7, <1>a, <1>b, Zenon DEF PollMatched, LocalStep, Holds, Polling, Goto
  <1>8. CASE PollChanged(c)
    <2>1. PollCtx(c) \in Ctx /\ pc[c] \in {"poll", "monitor"}
      BY <1>8, Zenon DEF PollChanged, PollCtx, Polling, Ctx
    <2> QED
      BY <1>8, <1>b, <2>1, NoMatchLocal, Zenon DEF PollChanged
  <1>9. CASE PollNewRound(c)
    BY <1>9, <1>a, <1>b, Zenon DEF PollNewRound, LocalStep, Holds, Polling, Goto
  <1>10. CASE SpinStaged(c)
    <2>1. CASE NoMatch(c, ctx[c], StagedEntry(c), at[c])
      BY <1>10, <1>b, <2>1, NoMatchLocal, Zenon DEF SpinStaged, Alive
    <2>2. CASE UNCHANGED <<pc, ctx, curr_entry, curr_round, want, at>>
      BY <1>10, <1>a, <1>b, <2>2 DEF SpinStaged, Alive, LocalStep, Holds
    <2> QED
      BY <1>10, <2>1, <2>2, Zenon DEF SpinStaged
  <1>11. CASE ConvertToApplier(c)
    BY <1>11, <1>a, <1>b, Zenon DEF ConvertToApplier, LocalStep, Holds, Alive, Goto
  <1>12. CASE CommitRefresh(c)
    BY <1>12, <1>a, <1>b DEF CommitRefresh, LocalStep, Holds, Alive, Goto
  <1>13. CASE AwaitCounter(c)
    BY <1>13, <1>a, <1>b DEF AwaitCounter, LocalStep, Holds, Alive, Goto, TransitionErr
  <1>14. CASE AwaitCounterAgain(c)
    BY <1>14, <1>a, <1>b, Zenon DEF AwaitCounterAgain, LocalStep, Holds, Alive, Goto, TransitionErr
  <1>15. CASE Ack(c)
    BY <1>15, <1>a, <1>b, Zenon DEF Ack, LocalStep, Holds, Alive, Goto
  <1>16. CASE Subscribe(c)
    BY <1>16, <1>a, <1>b, Zenon DEF Subscribe, LocalStep, Holds, Alive, Goto, keys
  <1>17. CASE RefreshTimer(c)
    BY <1>17, <1>a, <1>b, Zenon DEF RefreshTimer, LocalStep, Holds, Alive, Goto, keys
  <1>18. CASE RefreshCommit(c)
    BY <1>18, <1>a, <1>b DEF RefreshCommit, LocalStep, Holds, Alive, Goto
  <1>19. CASE DelEvent(c)
    BY <1>19, <1>a, <1>b DEF DelEvent, LocalStep, Holds, Alive, Goto, keys
  <1>20. CASE FetchRound(c)
    BY <1>20, <1>a, <1>b DEF FetchRound, LocalStep, Holds, Alive, Goto, TransitionOk
  <1>21. CASE PreferChange(c)
    BY <1>21, <1>a, <1>b DEF PreferChange, LocalStep, Holds, Goto, keys
  <1>22. CASE Trigger(c)
    BY <1>22, <1>a, <1>b, Zenon DEF Trigger, LocalStep, Holds, Goto, keys
  <1> QED
    BY <1>1, <1>2, <1>3, <1>4, <1>5, <1>6, <1>7, <1>8, <1>9, <1>10,
       <1>11, <1>12, <1>13, <1>14, <1>15, <1>16, <1>17, <1>18, <1>19,
       <1>20, <1>21, <1>22, Zenon DEF OtherStep

-----------------------------------------------------------------------------
(* The four steps that write the lock's state *)

\* The rounds the clients know are numbers the store has reached.
LEMMA Rounds ==
    ASSUME IInv
    PROVE  /\ roundctr \in Nat /\ roundctr \in Round
           /\ \A d \in Client : /\ curr_round[d] \in Nat /\ curr_round[d] <= roundctr
                                /\ at[d] \in Nat /\ at[d] <= roundctr /\ at[d] \in Round
  <1>1. \A r \in Round : r \in Nat
    BY ConstantsAssumption DEF Round
  <1>2. /\ roundctr \in Round
        /\ \A d \in Client : curr_round[d] \in Round /\ at[d] \in Round
    BY Zenon DEF IInv, TypeOK
  <1>3. \A d \in Client : curr_round[d] <= roundctr /\ at[d] <= roundctr
    BY Zenon DEF IInv, NoBackwardRound
  <1> QED
    BY <1>1, <1>2, <1>3, Zenon

\* Creating the connection finds the store untouched, so no client has started.
LEMMA CreateIInv ==
    ASSUME IInv, TypeOK', NEW c \in Client, TryInitCreate(c)
    PROVE  IInv'
  <1>1. roundctr = 0 /\ \A d \in Client : pc[d] = "start"
    BY Zenon DEF IInv, Untouched, TryInitCreate, Unset
  <1>2. /\ addr' = Solo[c] /\ roundctr' = 0 /\ UNCHANGED <<staged, at, want>>
        /\ curr_round' = [curr_round EXCEPT ![c] = 0] /\ pc' = [pc EXCEPT ![c] = "joined"]
    BY Zenon DEF TryInitCreate, Goto
  <1>3. pc \in [Client -> PC] /\ curr_round \in [Client -> Round]
    BY Zenon DEF IInv, TypeOK
  <1>4. addr' # None
    BY <1>2, ConstantsAssumption, Zenon
  <1>5. \A d \in Client : pc'[d] \in {"start", "joined"}
    BY <1>1, <1>2, <1>3, Zenon
  <1>6. \A d \in Client : curr_round'[d] <= 0 /\ at'[d] <= 0
    BY <1>1, <1>2, <1>3, Rounds
  <1>7. OneCommitter'
    BY <1>5, Zenon DEF OneCommitter, Holds
  <1>8. StagedIsCurrent'
    BY <1>1, <1>2, <1>5, Zenon DEF IInv, StagedIsCurrent
  <1>9. NoBackwardRound'
    BY <1>2, <1>6, Zenon DEF NoBackwardRound
  <1> QED
    BY <1>4, <1>7, <1>8, <1>9, Zenon DEF IInv, Untouched

\* transition.lua takes the lock on an even round only, when nobody holds it and no
\* staged key exists.
LEMMA LockIInv ==
    ASSUME IInv, TypeOK', NEW c \in Client, LockRound(c)
    PROVE  IInv'
  <1>1. /\ pc[c] = "lock" /\ ~Odd(roundctr) /\ roundctr' = roundctr + 1
        /\ at' = [at EXCEPT ![c] = roundctr + 1] /\ pc' = [pc EXCEPT ![c] = "stage"]
        /\ UNCHANGED <<addr, staged, want, curr_round>>
    BY Zenon DEF LockRound, Alive, RoundFree, Goto
  <1>2. pc \in [Client -> PC] /\ at \in [Client -> Round]
    BY Zenon DEF IInv, TypeOK
  <1>3. Odd(roundctr')
    BY <1>1, Succ, Rounds, Zenon
  <1>4. \A d \in Client : ~Holds(d)
    BY <1>1, Zenon DEF IInv, OneCommitter
  <1>5. \A r \in Round : staged'[r] = None
    BY <1>1, Zenon DEF IInv, StagedIsCurrent
  <1>6. /\ at'[c] = roundctr' /\ pc'[c] = "stage"
        /\ \A d \in Client : d # c => pc'[d] = pc[d] /\ at'[d] = at[d]
    BY <1>1, <1>2, Zenon
  <1>7. OneCommitter'
    BY <1>3, <1>4, <1>6, Zenon DEF OneCommitter, Holds
  <1>8. StagedIsCurrent'
    BY <1>4, <1>5, <1>6 DEF StagedIsCurrent, Holds
  <1>9. NoBackwardRound'
    <2> SUFFICES ASSUME NEW d \in Client
                 PROVE  curr_round'[d] <= roundctr' /\ at'[d] <= roundctr'
      BY Zenon DEF NoBackwardRound
    <2>1. curr_round[d] <= roundctr + 1 /\ at[d] <= roundctr + 1 /\ roundctr + 1 <= roundctr + 1
      BY Rounds
    <2> QED
      BY <1>1, <1>6, <2>1, Zenon
  <1>10. Untouched'
    BY <1>1, Zenon DEF IInv, Untouched
  <1> QED
    BY <1>7, <1>8, <1>9, <1>10, Zenon DEF IInv

\* The set_nx of the holder writes the staged key of the current, odd round; a holder that
\* finds the keys present gives the round up without unlocking it.
LEMMA StageIInv ==
    ASSUME IInv, TypeOK', NEW c \in Client, Stage(c)
    PROVE  IInv'
  <1> USE DEF IInv, TypeOK
  <1>1. /\ pc[c] = "stage" /\ UNCHANGED <<addr, roundctr, want, at>>
        /\ staged' = [staged EXCEPT ![at[c]] = IF @ = None THEN want[c] ELSE @]
    BY Zenon DEF Stage, Alive
  <1>2. at[c] = roundctr /\ Odd(roundctr) /\ \A d \in Client : Holds(d) => d = c
    BY <1>1, Zenon DEF OneCommitter, Holds
  <1>3. \A d \in Client : d # c => pc'[d] = pc[d]
    BY DEF Stage, Goto, TransitionErr
  <1>4. Holds(c)' => pc'[c] \in {"commitwait", "final"} /\ staged[at[c]] = None
    BY DEF Stage, Goto, TransitionErr, Holds
  <1>5. UNCHANGED curr_round
    BY Zenon DEF Stage, TransitionErr
  <1>6. OneCommitter'
    BY <1>1, <1>2, <1>3, Zenon DEF OneCommitter, Holds
  <1>7. StagedIsCurrent'
    <2>1. \A r \in Round : staged'[r] # None => Odd(r) /\ r = roundctr
      BY <1>1, <1>2 DEF StagedIsCurrent
    <2>2. \A d \in Client : pc'[d] \in {"commitwait", "final"} => d = c
      BY <1>2, <1>3, Zenon DEF Holds
    <2>3. pc'[c] \in {"commitwait", "final"} => staged'[at[c]] = want[c]
      BY <1>1, <1>4 DEF Holds
    <2> QED
      BY <1>1, <2>1, <2>2, <2>3, Zenon DEF StagedIsCurrent
  <1>8. NoBackwardRound'
    BY <1>1, <1>5, Zenon DEF NoBackwardRound
  <1>9. Untouched'
    BY <1>1 DEF Untouched
  <1> QED
    BY <1>6, <1>7, <1>8, <1>9, Zenon

\* The commit pipeline writes what was staged, removes it and releases the lock.
LEMMA CommitFacts ==
    ASSUME IInv, NEW c \in Client, Commit(c)
    PROVE  /\ at[c] = roundctr /\ Odd(roundctr) /\ roundctr' = roundctr + 1
           /\ ~Odd(roundctr') /\ addr' = want[c] /\ staged[roundctr] = want[c]
           /\ addr' # None /\ \A r \in Round : staged'[r] = None
           /\ \A d \in Client : Holds(d) => d = c
           /\ \A d \in Client : d # c => pc'[d] = pc[d] /\ curr_round'[d] = curr_round[d]
           /\ ~Holds(c)' /\ UNCHANGED <<at, want>>
           /\ curr_round'[c] \in {curr_round[c], roundctr'}
  <1> USE ConstantsAssumption DEF IInv, TypeOK
  <1>1. pc[c] = "final"
    BY Zenon DEF Commit, Alive
  <1>2. at[c] = roundctr /\ Odd(roundctr) /\ \A d \in Client : Holds(d) => d = c
    BY <1>1, Zenon DEF OneCommitter, Holds
  <1>3. staged[roundctr] = want[c]
    BY <1>1, <1>2, Zenon DEF StagedIsCurrent
  <1>4. roundctr' = roundctr + 1 /\ addr' = want[c] /\ UNCHANGED <<at, want>>
    BY Zenon DEF Commit, RoundAfterCommit, CommittedEntry
  <1>5. ~Odd(roundctr')
    BY <1>2, <1>4, Succ DEF Round
  <1>6. \A r \in Round : staged'[r] = None
    BY <1>2, Zenon DEF Commit, StagedAfterCommit, StagedIsCurrent
  <1>7. TransitionOk(c, roundctr')
    BY <1>4, Zenon DEF Commit, RoundAfterCommit
  <1>8. \A d \in Client : d # c => pc'[d] = pc[d] /\ curr_round'[d] = curr_round[d]
    BY <1>7, Zenon DEF TransitionOk, Goto
  <1>9. ~Holds(c)' /\ curr_round'[c] \in {curr_round[c], roundctr'}
    BY <1>7, Zenon DEF TransitionOk, Goto, Holds
  <1>10. addr' # None
    <2>1. want[c] \in Entry
      BY Zenon
    <2> QED
      BY <1>4, <2>1, Zenon
  <1> HIDE DEF IInv, TypeOK
  <1> QED
    BY <1>2, <1>3, <1>4, <1>5, <1>6, <1>8, <1>9, <1>10

\* The commit keeps the inductive invariant: the lock is released with nothing staged.
LEMMA CommitIInv ==
    ASSUME IInv, TypeOK', NEW c \in Client, Commit(c)
    PROVE  IInv'
  <1>1. \A d \in Client : ~Holds(d)'
    BY CommitFacts, Zenon DEF Holds
  <1>2. OneCommitter'
    BY <1>1, Zenon DEF OneCommitter
  <1>3. StagedIsCurrent'
    BY <1>1, CommitFacts, Zenon DEF StagedIsCurrent, Holds
  <1>4. NoBackwardRound'
    <2> SUFFICES ASSUME NEW d \in Client
                 PROVE  curr_round'[d] <= roundctr' /\ at'[d] <= roundctr'
      BY DEF NoBackwardRound
    <2>1. curr_round[d] <= roundctr + 1 /\ at[d] <= roundctr + 1 /\ roundctr + 1 <= roundctr + 1
      BY Rounds
    <2>2. at'[d] = at[d] /\ roundctr' = roundctr + 1 /\ curr_round'[d] \in {curr_round[d], roundctr'}
      BY CommitFacts, Zenon
    <2> QED
      BY <2>1, <2>2, Zenon
  <1>5. Untouched'
    BY CommitFacts, Zenon DEF Untouched
  <1> QED
    BY <1>2, <1>3, <1>4, <1>5 DEF IInv

-----------------------------------------------------------------------------
(* The theorems *)

\* What a step of the system is, as far as the lock is concerned.
LEMMA StepKinds ==
    ASSUME [Next]_vars
    PROVE  \/ \E c \in Client : \/ OtherStep(c) \/ TryInitCreate(c) \/ LockRound(c)
                                \/ Stage(c) \/ Commit(c)
           \/ UNCHANGED <<addr, roundctr, staged, pc, at, want, curr_round>>
  <1>1. ASSUME NEW c \in Client, Step(c) \/ PreferChange(c) \/ Trigger(c)
        PROVE  \/ OtherStep(c) \/ TryInitCreate(c) \/ LockRound(c) \/ Stage(c) \/ Commit(c)
               \/ RefreshClient(c)
    BY <1>1, Zenon DEF Step, Negotiate, Poll, Transition, Apply, OtherStep
  <1>2. ASSUME NEW c \in Client, RefreshClient(c) \/ Stop(c) \/ Expire(c)
        PROVE  UNCHANGED <<addr, roundctr, staged, pc, at, want, curr_round>>
    BY <1>2, Zenon DEF RefreshClient, Stop, Expire, keys, local
  <1>3. CASE JoinlockExpire
    BY <1>3, Zenon DEF JoinlockExpire, local
  <1>4. CASE UNCHANGED vars
    BY <1>4, Zenon DEF vars
  <1> QED
    BY <1>1, <1>2, <1>3, <1>4, Zenon DEF Next

\* Every step keeps the inductive invariant.
LEMMA StepIInv == IInv /\ [Next]_vars => IInv'
  <1> SUFFICES ASSUME IInv, [Next]_vars PROVE IInv'
    BY Zenon
  <1>1. TypeOK'
    BY TypeStep, Zenon
  <1>2. ASSUME NEW c \in Client, OtherStep(c) PROVE IInv'
    BY <1>1, <1>2, OtherIsLocal, LocalIInv, Zenon
  <1>3. ASSUME NEW c \in Client, TryInitCreate(c) \/ LockRound(c) \/ Stage(c) \/ Commit(c)
        PROVE  IInv'
    BY <1>1, <1>3, CreateIInv, LockIInv, StageIInv, CommitIInv, Zenon
  <1> QED
    BY <1>1, <1>2, <1>3, StepKinds, UnchangedIInv, Zenon

\* The inductive invariant holds in every reachable state.
THEOREM Invariance == Spec => []IInv
  <1>1. Init => IInv
    BY InitIInv, Zenon DEF Init
  <1> QED
    BY <1>1, StepIInv, PTL DEF Spec

\* The Redis keys and the clients' variables keep their types; in particular the round
\* counter stays within the bound at which transitions stop being started.
THEOREM TypeCorrect == Spec => []TypeOK
  <1>1. IInv => TypeOK
    BY Zenon DEF IInv
  <1> QED
    BY <1>1, Invariance, PTL

\* Mutual exclusion of transitions: at most one client is between transition.lua and its
\* commit pipeline, and it is the owner of the store's current, odd round.
THEOREM RoundIsALock == Spec => []OneCommitter
  <1>1. IInv => OneCommitter
    BY Zenon DEF IInv
  <1> QED
    BY <1>1, Invariance, PTL

\* Staged values exist for the transition in progress only and are its committer's.
THEOREM StagingFollowsLock == Spec => []StagedIsCurrent
  <1>1. IInv => StagedIsCurrent
    BY Zenon DEF IInv
  <1> QED
    BY <1>1, Invariance, PTL

\* poll_entry never reports that the round counter ticked backwards.
THEOREM RoundsNeverGoBack == Spec => []NoBackwardRound
  <1>1. IInv => NoBackwardRound
    BY Zenon DEF IInv
  <1> QED
    BY <1>1, Invariance, PTL

\* The semantics in force change only by the commit of the value that was staged.
THEOREM CommitsStaged == Spec => CommitIsStaged
  <1> DEFINE A == addr' # addr => \/ addr = None
                                  \/ /\ Odd(roundctr) /\ roundctr' = roundctr + 1
                                     /\ addr' = staged[roundctr]
  <1>1. IInv /\ [Next]_vars => [A]_vars
    <2> SUFFICES ASSUME IInv, [Next]_vars, addr' # addr, addr # None
                 PROVE  /\ Odd(roundctr) /\ roundctr' = roundctr + 1
                        /\ addr' = staged[roundctr]
      BY Zenon
    <2>1. PICK c \in Client : \/ OtherStep(c) \/ TryInitCreate(c) \/ LockRound(c)
                              \/ Stage(c) \/ Commit(c)
      BY StepKinds, Zenon
    <2>2. Commit(c)
      BY <2>1, OtherIsLocal, Zenon DEF LocalStep, TryInitCreate, Unset, LockRound, Stage
    <2> QED
      BY <2>2, CommitFacts, Zenon
  <1>2. Spec => [][A]_vars
    BY <1>1, Invariance, PTL DEF Spec
  <1> QED
    BY <1>2, Zenon DEF CommitIsStaged

-----------------------------------------------------------------------------
(* Refinement: the store implements SharedStack *)

\* The store without the address key is the shared stack before its creation.
LEMMA InitRefines == Init => Abstract!Init
  BY ConstantsAssumption DEF Init, Fresh, Abstract!Init, Round

\* Each step is a step of SharedStack or leaves it alone.
LEMMA StepRefines == IInv /\ [Next]_vars => [Abstract!Next]_(Abstract!vars)
  <1> SUFFICES ASSUME IInv, [Next]_vars PROVE [Abstract!Next]_(Abstract!vars)
    BY Zenon
  <1> USE ConstantsAssumption DEF IInv, TypeOK
  <1>1. ASSUME NEW c \in Client, OtherStep(c) PROVE UNCHANGED Abstract!vars
    BY <1>1, OtherIsLocal, Zenon DEF LocalStep, Abstract!vars
  <1>2. ASSUME NEW c \in Client, TryInitCreate(c) PROVE Abstract!Create(Solo[c])
    BY <1>2, Zenon DEF TryInitCreate, Unset, Untouched, Abstract!Create
  <1>3. ASSUME NEW c \in Client, LockRound(c) PROVE Abstract!Begin
    <2>1. addr # None /\ ~Odd(roundctr) /\ roundctr' = roundctr + 1 /\ UNCHANGED <<addr, staged>>
      BY <1>3, Zenon DEF LockRound, Alive, RoundFree, Untouched
    <2>2. staged[roundctr] = None /\ staged'[roundctr'] = None
      <3>1. roundctr' \in Round
        BY <1>3, TypeStep, Zenon
      <3> QED
        BY <2>1, <3>1, Zenon DEF StagedIsCurrent
    <2>3. roundctr % 2 = 0
      BY <2>1 DEF Odd, Round
    <2> QED
      BY <2>1, <2>2, <2>3, Zenon DEF Abstract!Begin
  <1>4. ASSUME NEW c \in Client, Stage(c)
        PROVE  Abstract!Propose(want[c]) \/ UNCHANGED Abstract!vars
    <2>1. at[c] = roundctr /\ Odd(roundctr)
      BY <1>4, Zenon DEF Stage, Alive, OneCommitter, Holds
    <2>2. /\ staged' = [staged EXCEPT ![roundctr] = IF @ = None THEN want[c] ELSE @]
          /\ UNCHANGED <<addr, roundctr>>
      BY <1>4, <2>1, Zenon DEF Stage
    <2>3. staged'[roundctr'] = IF staged[roundctr] = None THEN want[c] ELSE staged[roundctr]
      BY <2>2, Zenon
    <2> QED
      BY <2>1, <2>2, <2>3, Zenon DEF Abstract!Propose, Abstract!vars, Odd
  <1>5. ASSUME NEW c \in Client, Commit(c) PROVE Abstract!Commit
    <2>1. roundctr' \in Round /\ want[c] # None
      BY <1>5, TypeStep, CommitFacts, Zenon
    <2>2. staged'[roundctr'] = None
      BY <1>5, <2>1, CommitFacts, Zenon
    <2> QED
      BY <1>5, <2>1, <2>2, CommitFacts, Zenon DEF Abstract!Commit, Odd
  <1>6. CASE UNCHANGED <<addr, roundctr, staged, pc, at, want, curr_round>>
    BY <1>6, Zenon DEF Abstract!vars
  <1> QED
    BY <1>1, <1>2, <1>3, <1>4, <1>5, <1>6, StepKinds, Zenon DEF Abstract!Next

\* Clients and store, whatever crashes, stalls or expires, implement the shared stack with
\* exclusive transitions that commit what was proposed.
THEOREM Refinement == Spec => ImplementsSharedStack
  BY InitRefines, StepRefines, Invariance, PTL DEF Spec, ImplementsSharedStack, Abstract!Spec

-----------------------------------------------------------------------------
(* What the proofs about rounds rest on: where a client can be, and who is a participant *)

AckPcs == {"subscribe", "apply", "refresh", "fetch"}

\* Only a client that is not proposing accepts a staged round.
CtxOk ==
    \A c \in Client :
      /\ pc[c] = "ack" => ctx[c] \in {"notify", "retry"}
      /\ pc[c] \in {"lock", "stage", "commitwait", "final", "convert", "reconvert"}
           => ctx[c] \notin {"notify", "retry"}

\* If nobody crashes or stalls, whoever accepted a round is a participant.
Membership ==
    /\ MayStall \subseteq dead
    /\ \A c \in dead : pc[c] = "start"
    /\ \A c \in members : pc[c] # "start"
    /\ \A c \in stale : pc[c] = "failed"
    /\ \A c \in Client : pc[c] \in AckPcs \cup {"ack"} => c \in members

\* A client that has seen the staged keys deleted, or fetches the result, accepted a round that
\* is over.
DelMeansOver ==
    \A c \in Client :
      pc[c] = "fetch" \/ (pc[c] \in {"apply", "refresh"} /\ del[c]) => at[c] < roundctr

\* A step of c writes no other client's variables (but for the queued events of Commit).
Own(c) ==
    \A d \in Client \ {c} : /\ pc'[d] = pc[d] /\ ctx'[d] = ctx[d] /\ at'[d] = at[d]
                            /\ want'[d] = want[d] /\ curr_round'[d] = curr_round[d]
                            /\ curr_entry'[d] = curr_entry[d]

\* The handling of a NoMatch writes c's variables.
LEMMA NoMatchOwn ==
    ASSUME TypeOK, NEW c \in Client, NEW k, NEW e, NEW r, NoMatch(c, k, e, r)
    PROVE  Own(c)
  <1>1. CASE k \in {"notify", "retry"}
    BY <1>1 DEF NoMatch, Goto, Own, TypeOK
  <1>2. CASE k \notin {"notify", "retry"} /\ k = "case1"
    BY <1>2, ZenonT(30) DEF NoMatch, Goto, Own, TypeOK
  <1>3. CASE k \notin {"notify", "retry", "case1"}
    BY <1>3, Zenon DEF NoMatch, Goto, Own, TypeOK
  <1> QED
    BY <1>1, <1>2, <1>3, Zenon

\* Every step of a client writes only its own variables.
LEMMA StepOwn ==
    ASSUME TypeOK, NEW c \in Client, Step(c) \/ PreferChange(c) \/ Trigger(c)
    PROVE  Own(c)
  <1>1. CASE Negotiate(c)
    BY <1>1 DEF Negotiate, TryInitCreate, TryInitMatch, TryInitNoMatch, TryInitOverride,
                AcceptExisting, Leave, KeepOwn, Goto, Own, TypeOK
  <1>2. CASE PollMatched(c) \/ PollNewRound(c) \/ RefreshClient(c)
    BY <1>2, Zenon DEF PollMatched, PollNewRound, RefreshClient, local, Goto, Own, TypeOK
  <1>3. CASE PollChanged(c) \/ SpinStaged(c)
    <2>1. CASE UNCHANGED <<pc, ctx, curr_entry, curr_round, want, at>>
      BY <2>1, Zenon DEF Own
    <2> QED
      BY <1>3, <2>1, NoMatchOwn, Zenon DEF PollChanged, SpinStaged
  <1>4. CASE LockRound(c) \/ ConvertToApplier(c) \/ CommitRefresh(c)
    BY <1>4, Zenon DEF LockRound, ConvertToApplier, CommitRefresh, Goto, Own, TypeOK
  <1>5. CASE Stage(c) \/ AwaitCounter(c) \/ AwaitCounterAgain(c)
    <2>1. CASE TransitionErr(c) /\ UNCHANGED <<want, at>>
      BY <2>1, Zenon DEF TransitionErr, Goto, Own, TypeOK
    <2>2. CASE /\ UNCHANGED <<want, at, ctx, curr_entry, curr_round>>
               /\ \E s \in PC : Goto(c, s)
      BY <2>2, Zenon DEF Goto, Own, TypeOK
    <2> QED
      BY <1>5, <2>1, <2>2, Zenon DEF Stage, AwaitCounter, AwaitCounterAgain, PC
  <1>6. CASE Commit(c)
    BY <1>6 DEF Commit, TransitionOk, Goto, Own, TypeOK
  <1>7. CASE Ack(c) \/ Subscribe(c) \/ RefreshTimer(c) \/ RefreshCommit(c) \/ DelEvent(c)
    BY <1>7 DEF Ack, Subscribe, RefreshTimer, RefreshCommit, DelEvent, Goto, Own, TypeOK
  <1>8. CASE FetchRound(c)
    BY <1>8 DEF FetchRound, TransitionOk, Goto, Own, TypeOK
  <1>9. CASE PreferChange(c) \/ Trigger(c)
    BY <1>9 DEF PreferChange, Trigger, Goto, Own, TypeOK
  <1> QED
    BY <1>1, <1>2, <1>3, <1>4, <1>5, <1>6, <1>7, <1>8, <1>9, Zenon
    DEF Step, Poll, Transition, Apply

\* What a step of a client does to the participants: those that are neither expired nor the
\* client itself stay, and only the client itself joins.
LEMMA StepMembers ==
    ASSUME TypeOK, Membership, NEW c \in Client, Step(c) \/ PreferChange(c) \/ Trigger(c)
    PROVE  /\ UNCHANGED dead /\ c \notin dead /\ pc'[c] # "start" /\ c \notin stale
           /\ (members \ stale) \ {c} \subseteq members' /\ members' \subseteq members \cup {c}
           /\ stale' \subseteq stale
           /\ pc'[c] \in AckPcs \cup {"ack"} => c \in members'
           /\ c \in members => c \in members' \/ TryInitOverride(c) \/ Leave(c)
  <1> USE DEF Membership, TypeOK, AckPcs
  <1>1. CASE TryInitCreate(c) \/ TryInitMatch(c)
    BY <1>1, Zenon DEF TryInitCreate, TryInitMatch, Alive, Touch, Refreshed, Goto
  <1>2. CASE TryInitNoMatch(c)
    BY <1>2, Zenon DEF TryInitNoMatch, Alive, Goto
  <1>o. CASE TryInitOverride(c)
    BY <1>o, Zenon DEF TryInitOverride, Alive, Goto
  <1>l. CASE Leave(c)
    BY <1>l, Zenon DEF Leave, Alive, Goto
  <1>3. CASE AcceptExisting(c) \/ KeepOwn(c)
    BY <1>3 DEF AcceptExisting, KeepOwn, Alive, Goto, keys
  <1>4. CASE PollMatched(c) \/ PollNewRound(c) \/ RefreshClient(c)
    BY <1>4 DEF PollMatched, PollNewRound, RefreshClient, Polling, Alive, Touch, Refreshed, Goto, local
  <1>5. CASE PollChanged(c) \/ SpinStaged(c)
    <2>1. /\ UNCHANGED dead /\ c \notin dead /\ pc[c] \in {"poll", "monitor", "spin"}
          /\ members' = (members \ stale) \cup {c} /\ stale' = {}
      BY <1>5, Zenon DEF PollChanged, SpinStaged, Polling, Alive, Touch, Refreshed
    <2>2. pc'[c] # "start"
      <3>1. ASSUME NEW k, NEW e, NEW r, NoMatch(c, k, e, r) PROVE pc'[c] # "start"
        BY <3>1 DEF NoMatch, Goto
      <3> QED
        BY <1>5, <2>1, <3>1 DEF PollChanged, SpinStaged
    <2> QED
      BY <2>1, <2>2, Zenon
  <1>6. CASE LockRound(c) \/ ConvertToApplier(c) \/ CommitRefresh(c)
    BY <1>6 DEF LockRound, ConvertToApplier, CommitRefresh, Alive, Touch, Refreshed, Goto
  <1>7. CASE Stage(c) \/ AwaitCounter(c) \/ AwaitCounterAgain(c)
    <2>1. /\ UNCHANGED dead /\ c \notin dead /\ pc[c] \in {"stage", "convert", "reconvert"}
          /\ members' = (members \ stale) \cup {c} /\ stale' = {}
      BY <1>7, Zenon DEF Stage, AwaitCounter, AwaitCounterAgain, Alive, Touch, Refreshed
    <2>2. pc'[c] # "start"
      <3>1. TransitionErr(c) => pc'[c] # "start"
        BY Zenon DEF TransitionErr, Goto
      <3> QED
        BY <1>7, <3>1 DEF Stage, AwaitCounter, AwaitCounterAgain, Goto
    <2> QED
      BY <2>1, <2>2, Zenon
  <1>8. CASE Commit(c)
    BY <1>8 DEF Commit, Alive, TransitionOk, Goto
  <1>9. CASE Ack(c) \/ Subscribe(c) \/ RefreshTimer(c) \/ RefreshCommit(c) \/ DelEvent(c)
    BY <1>9 DEF Ack, Subscribe, RefreshTimer, RefreshCommit, DelEvent, Alive, Touch, Refreshed,
                Goto, keys
  <1>10. CASE FetchRound(c)
    BY <1>10, Zenon DEF FetchRound, Alive, Touch, Refreshed, TransitionOk, Goto
  <1>11. CASE PreferChange(c) \/ Trigger(c)
    BY <1>11 DEF PreferChange, Trigger, Goto, keys
  <1> HIDE DEF Membership, TypeOK, AckPcs
  <1> QED
    BY <1>1, <1>2, <1>o, <1>l, <1>3, <1>4, <1>5, <1>6, <1>7, <1>8, <1>9, <1>10, <1>11,
       ZenonT(30)
    DEF Step, Negotiate, Poll, Transition, Apply

\* A step of a client keeps the participants' invariant: nobody that runs is removed.
LEMMA StepMembership ==
    ASSUME TypeOK, Membership, NEW c \in Client, Step(c) \/ PreferChange(c) \/ Trigger(c)
    PROVE  Membership'
  <1>1. Own(c)
    BY StepOwn, Zenon
  <1>2. /\ UNCHANGED dead /\ c \notin dead /\ pc'[c] # "start" /\ c \notin stale
        /\ (members \ stale) \ {c} \subseteq members' /\ members' \subseteq members \cup {c}
        /\ stale' \subseteq stale
        /\ pc'[c] \in AckPcs \cup {"ack"} => c \in members'
    BY StepMembers, Zenon
  <1>3. \A d \in Client \ {c} : pc'[d] = pc[d]
    BY <1>1, Zenon DEF Own
  <1>4. members \subseteq Client /\ stale \subseteq Client /\ dead \subseteq Client
    BY Zenon DEF TypeOK
  <1>5. \A d \in dead' : pc'[d] = "start"
    BY <1>2, <1>3, <1>4, Zenon DEF Membership
  <1>6. \A d \in members' : pc'[d] # "start"
    BY <1>2, <1>3, <1>4, Zenon DEF Membership
  <1>7. \A d \in stale' : pc'[d] = "failed"
    BY <1>2, <1>3, <1>4, Zenon DEF Membership
  <1>8. ASSUME NEW d \in Client, pc'[d] \in AckPcs \cup {"ack"} PROVE d \in members'
    BY <1>2, <1>3, <1>8, Zenon DEF Membership, AckPcs
  <1> QED
    BY <1>2, <1>5, <1>6, <1>7, <1>8, Zenon DEF Membership

\* Only a client that an error ended can expire.
LEMMA ExpireMembership ==
    ASSUME TypeOK, Membership, NEW c \in Client, Expire(c)
    PROVE  Membership'
  BY DEF Membership, Expire, TypeOK, local

\* The context a client waits in: an ack is given in notify or after a failed trigger, a
\* transition is never made there.
LEMMA StepCtx ==
    ASSUME TypeOK, CtxOk, NEW c \in Client, Step(c) \/ PreferChange(c) \/ Trigger(c)
    PROVE  CtxOk'
  <1> DEFINE Ok(d) == /\ pc[d] = "ack" => ctx[d] \in {"notify", "retry"}
                      /\ pc[d] \in {"lock", "stage", "commitwait", "final", "convert", "reconvert"}
                           => ctx[d] \notin {"notify", "retry"}
  <1> SUFFICES Ok(c)'
    BY StepOwn DEF CtxOk, Own
  <1>a. Ok(c) /\ pc \in [Client -> PC] /\ ctx \in [Client -> Ctx]
    BY Zenon DEF CtxOk, TypeOK
  <1>b. TransitionErr(c) => Ok(c)'
    BY <1>a, Zenon DEF TransitionErr, Goto
  <1>c. ASSUME NEW k, NEW e, NEW r, NoMatch(c, k, e, r) PROVE Ok(c)'
    BY <1>a, <1>c DEF NoMatch, Goto
  <1>d. ASSUME NEW r, TransitionOk(c, r) PROVE Ok(c)'
    BY <1>a, <1>d, Zenon DEF TransitionOk, Goto
  <1>1. CASE Negotiate(c)
    BY <1>1, <1>a DEF Negotiate, TryInitCreate, TryInitMatch, TryInitNoMatch, TryInitOverride,
                      AcceptExisting, Leave, KeepOwn, Goto
  <1>2. CASE Poll(c)
    <2>1. CASE PollMatched(c) \/ PollNewRound(c)
      BY <2>1, <1>a DEF PollMatched, PollNewRound, Goto
    <2> QED
      BY <1>2, <2>1, <1>a, <1>c, Zenon DEF Poll, PollChanged, SpinStaged, RefreshClient, local
  <1>3. CASE Transition(c)
    <2>1. CASE LockRound(c) \/ ConvertToApplier(c) \/ CommitRefresh(c)
      BY <2>1, <1>a, Zenon DEF LockRound, ConvertToApplier, CommitRefresh, Alive, Goto
    <2>2. CASE Stage(c) \/ AwaitCounter(c) \/ AwaitCounterAgain(c)
      BY <2>2, <1>a, <1>b, Zenon DEF Stage, AwaitCounter, AwaitCounterAgain, Alive, Goto
    <2>3. CASE Commit(c)
      BY <2>3, <1>d, Zenon DEF Commit
    <2> QED
      BY <1>3, <2>1, <2>2, <2>3, Zenon DEF Transition
  <1>4. CASE Apply(c)
    BY <1>4, <1>a, <1>d, Zenon DEF Apply, Ack, Subscribe, RefreshTimer, RefreshCommit, DelEvent,
                            FetchRound, Goto
  <1>5. CASE PreferChange(c) \/ Trigger(c)
    BY <1>5, <1>a, Zenon DEF PreferChange, Trigger, Goto
  <1> QED
    BY <1>1, <1>2, <1>3, <1>4, <1>5, Zenon DEF Step

\* The steps of a client that is not applying a round: they write no counter, take no
\* event and lead to no accepted round.
AwayStep(c) ==
    \/ Negotiate(c) \/ Poll(c) \/ LockRound(c) \/ ConvertToApplier(c) \/ CommitRefresh(c)
    \/ AwaitCounter(c) \/ AwaitCounterAgain(c) \/ PreferChange(c) \/ Trigger(c)
LEMMA AwayFacts ==
    ASSUME TypeOK, CtxOk, NEW c \in Client, AwayStep(c)
    PROVE  /\ UNCHANGED <<del, committed>>
           /\ pc[c] \notin AckPcs /\ pc'[c] \notin {"apply", "refresh", "fetch"}
           /\ pc'[c] = "subscribe" => ctx'[c] \notin {"notify", "retry"}
           /\ pc'[c] = "stage" => LockRound(c)
  <1> DEFINE Ok == /\ pc'[c] \notin {"apply", "refresh", "fetch", "stage"}
                   /\ pc'[c] = "subscribe" => ctx'[c] \notin {"notify", "retry"}
  <1>a. pc \in [Client -> PC] /\ ctx \in [Client -> Ctx]
    BY Zenon DEF TypeOK
  <1>b. TransitionErr(c) => Ok
    BY <1>a, Zenon DEF TransitionErr, Goto
  <1>c. ASSUME NEW k, NEW e, NEW r, NoMatch(c, k, e, r) PROVE Ok
    BY <1>a, <1>c, Zenon DEF NoMatch, Goto
  <1>1. CASE Negotiate(c)
    BY <1>1, <1>a, Zenon DEF Negotiate, TryInitCreate, TryInitMatch, TryInitNoMatch, TryInitOverride,
                      AcceptExisting, Leave, KeepOwn, Goto, Alive, AckPcs, keys
  <1>2. CASE Poll(c)
    <2>1. CASE PollMatched(c) \/ PollNewRound(c)
      BY <2>1, <1>a, Zenon DEF PollMatched, PollNewRound, Goto, Polling, AckPcs
    <2> QED
      BY <1>2, <2>1, <1>a, <1>c, Zenon DEF Poll, PollChanged, SpinStaged, RefreshClient, local, Polling,
                                    Alive, AckPcs
  <1>3. CASE LockRound(c) \/ ConvertToApplier(c) \/ CommitRefresh(c)
    BY <1>3, <1>a, Zenon DEF LockRound, ConvertToApplier, CommitRefresh, Alive, Goto, AckPcs
  <1>4. CASE AwaitCounter(c) \/ AwaitCounterAgain(c)
    BY <1>4, <1>a, <1>b, Zenon DEF AwaitCounter, AwaitCounterAgain, Alive, Goto, AckPcs, CtxOk
  <1>5. CASE PreferChange(c) \/ Trigger(c)
    BY <1>5, <1>a, Zenon DEF PreferChange, Trigger, Goto, keys, AckPcs
  <1> QED
    BY <1>1, <1>2, <1>3, <1>4, <1>5, Zenon DEF AwayStep

\* The round counter stays or is incremented.
LEMMA RoundGrows ==
    ASSUME IInv, NEW c \in Client, Step(c) \/ PreferChange(c) \/ Trigger(c)
    PROVE  roundctr' \in {roundctr, roundctr + 1}
  <1>1. CASE OtherStep(c)
    BY <1>1, OtherIsLocal, Zenon DEF LocalStep
  <1>2. CASE TryInitCreate(c)
    BY <1>2, Zenon DEF TryInitCreate, Unset, IInv, Untouched
  <1>3. CASE LockRound(c) \/ Stage(c) \/ RefreshClient(c)
    BY <1>3, Zenon DEF LockRound, Stage, RefreshClient
  <1>4. CASE Commit(c)
    BY <1>4, CommitFacts
  <1> QED
    BY <1>1, <1>2, <1>3, <1>4, Zenon DEF Step, Negotiate, Poll, Transition, Apply, OtherStep

\* An applier that has seen the "del" event, or has it queued, waits on a round that is over.
LEMMA StepDel ==
    ASSUME IInv, CtxOk, DelMeansOver, NEW c \in Client, Step(c) \/ PreferChange(c) \/ Trigger(c)
    PROVE  DelMeansOver'
  <1> DEFINE Over(d) == pc[d] = "fetch" \/ (pc[d] \in {"apply", "refresh"} /\ del[d])
  <1>a. /\ pc \in [Client -> PC] /\ del \in [Client -> BOOLEAN] /\ TypeOK
        /\ \A d \in Client \ {c} : pc'[d] = pc[d] /\ at'[d] = at[d]
    BY StepOwn, Zenon DEF IInv, TypeOK, Own
  <1>b. /\ roundctr \in Nat /\ \A d \in Client : at[d] \in Nat /\ at[d] <= roundctr
        /\ roundctr' \in {roundctr, roundctr + 1}
    BY Rounds, RoundGrows, Zenon
  <1>c. \A d \in Client : Over(d) => at[d] < roundctr
    BY Zenon DEF DelMeansOver
  <1>d. SUFFICES \A d \in Client : Over(d)' => at'[d] < roundctr'
    BY Zenon DEF DelMeansOver
  <1>e. ASSUME \A d \in Client \ {c} : del'[d] = del[d],
               Over(c)' => Over(c) /\ at'[c] = at[c]
        PROVE  \A d \in Client : Over(d)' => at'[d] < roundctr'
    <2> SUFFICES ASSUME NEW d \in Client, Over(d)' PROVE at'[d] < roundctr'
      BY Zenon
    <2>1. Over(d) /\ at'[d] = at[d]
      BY <1>a, <1>e, Zenon
    <2>2. at[d] < roundctr
      BY <1>c, <2>1, Zenon
    <2> QED
      BY <1>b, <2>1, <2>2
  <1>1. CASE AwayStep(c)
    BY <1>1, <1>a, <1>e, AwayFacts
  <1>2. CASE Stage(c)
    <2>1. pc'[c] \notin {"apply", "refresh", "fetch"} /\ UNCHANGED del
      BY <1>2, <1>a DEF Stage, TransitionErr, Goto
    <2> QED
      BY <2>1, <1>e, Zenon
  <1>3. CASE Commit(c)
    <2>1. roundctr' = roundctr + 1 /\ UNCHANGED at
      BY <1>3, CommitFacts, Zenon
    <2> QED
      BY <2>1, <1>b
  <1>4. CASE Ack(c) \/ Subscribe(c) \/ RefreshTimer(c) \/ RefreshCommit(c) \/ DelEvent(c)
    BY <1>4, <1>a, <1>e DEF Ack, Subscribe, RefreshTimer, RefreshCommit, DelEvent, Alive, Goto
  <1>5. CASE FetchRound(c)
    <2>1. pc'[c] \notin {"apply", "refresh", "fetch"} /\ UNCHANGED del
      BY <1>5, <1>a, Zenon DEF FetchRound, TransitionOk, Goto
    <2> QED
      BY <2>1, <1>e
  <1> QED
    BY <1>1, <1>2, <1>3, <1>4, <1>5, Zenon DEF AwayStep, Step, Transition, Apply
=============================================================================
