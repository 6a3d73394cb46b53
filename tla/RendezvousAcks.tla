-------------------------- MODULE RendezvousAcks --------------------------
(***************************************************************************)
(* Proof that, if nobody crashes or stalls, a round is committed only when *)
(* every participant has accepted it (SpecCalm), for any clients and       *)
(* stacks.                                                                 *)
(***************************************************************************)
EXTENDS RendezvousProofs, FiniteSetTheorems

\* The clients that have accepted round r.
Ackers(r) == {d \in Client : Acked(d, r)}

\* The inductive invariant.  The counter of a staged round counts its committer and the clients
\* that accepted it (Counted), which stay where they are until the commit (DelMeansOver), in the
\* connection (Membership); a client that waits for the committer it lost to was not counted
\* (CtxOk).
Counted ==
    \A c \in Client :
      /\ pc[c] = "stage" /\ committed[at[c]] = 0 => Ackers(at[c]) = {}
      /\ pc[c] \in {"commitwait", "final"} =>
           committed[at[c]] = Cardinality(Ackers(at[c])) + 1
CalmInv == IInv /\ CtxOk /\ Membership /\ DelMeansOver /\ Counted

-----------------------------------------------------------------------------

\* A step that neither acks nor writes the counter of the current round keeps the count.
LEMMA SameCounted ==
    ASSUME IInv, IInv', Counted, UNCHANGED <<roundctr, committed>>, NEW c \in Client, Own(c),
           Acked(c, roundctr)' <=> Acked(c, roundctr),
           Holds(c)' => Holds(c), pc'[c] = "stage" => pc[c] = "stage",
           pc'[c] \in {"commitwait", "final"} => pc[c] \in {"commitwait", "final"}
    PROVE  Counted'
  <1>1. Ackers(roundctr)' = Ackers(roundctr)
    <2>1. \A d \in Client : Acked(d, roundctr)' <=> Acked(d, roundctr)
      BY DEF Own, Acked
    <2> QED
      BY <2>1, Zenon DEF Ackers
  <1> SUFFICES ASSUME NEW h \in Client
               PROVE  /\ pc'[h] = "stage" /\ committed'[at'[h]] = 0 => Ackers(at[h])' = {}
                      /\ pc'[h] \in {"commitwait", "final"} =>
                           committed'[at'[h]] = Cardinality(Ackers(at[h])') + 1
    BY Zenon DEF Counted
  <1>2. /\ Holds(h)' => Holds(h) /\ at[h] = roundctr /\ at'[h] = roundctr
        /\ pc'[h] = "stage" => pc[h] = "stage"
        /\ pc'[h] \in {"commitwait", "final"} => pc[h] \in {"commitwait", "final"}
    BY Zenon DEF Own, IInv, OneCommitter, Holds
  <1>3. /\ pc[h] = "stage" /\ committed[at[h]] = 0 => Ackers(at[h]) = {}
        /\ pc[h] \in {"commitwait", "final"} => committed[at[h]] = Cardinality(Ackers(at[h])) + 1
    BY Zenon DEF Counted
  <1>4. Holds(h)' => Ackers(at[h])' = Ackers(roundctr)'
    BY <1>2, Zenon
  <1> QED
    BY <1>1, <1>2, <1>3, <1>4 DEF Holds

\* Facts about the sizes of finite sets that the count rests on.
LEMMA AddOne ==
    ASSUME NEW S, IsFiniteSet(S), NEW x, x \notin S
    PROVE  Cardinality(S \cup {x}) = Cardinality(S) + 1 /\ Cardinality(S) \in Nat
  BY FS_AddElement, FS_CardinalityType
LEMMA SameSize ==
    ASSUME NEW S, IsFiniteSet(S), NEW T, T \subseteq S, Cardinality(T) = Cardinality(S)
    PROVE  S = T
  BY FS_Subset, Zenon

\* staged_update's INCR counts the client that accepted.
LEMMA AckCounts ==
    ASSUME IInv, IInv', CtxOk, Counted, NEW c \in Client, Ack(c)
    PROVE  Counted'
  <1>a. /\ pc[c] = "ack" /\ pc' = [pc EXCEPT ![c] = "subscribe"] /\ UNCHANGED <<roundctr, ctx, at>>
        /\ committed' = [committed EXCEPT ![at[c]] = committed[at[c]] + 1]
        /\ ctx[c] \in {"notify", "retry"}
    BY Zenon DEF Ack, Alive, Goto, AckCounted, CtxOk
  <1>b. /\ pc \in [Client -> PC] /\ committed \in [Round -> Nat]
        /\ roundctr \in Round /\ at[c] \in Round
    BY Zenon DEF IInv, TypeOK
  <1>1. /\ \A d \in Client : d # c => (Acked(d, roundctr)' <=> Acked(d, roundctr))
        /\ ~Acked(c, roundctr) /\ (Acked(c, roundctr)' <=> at[c] = roundctr)
    BY <1>a, <1>b, Zenon DEF Acked
  <1>2. CASE at[c] # roundctr
    <2>1. committed'[roundctr] = committed[roundctr] /\ Ackers(roundctr)' = Ackers(roundctr)
      BY <1>a, <1>b, <1>1, <1>2 DEF Ackers
    <2> SUFFICES ASSUME NEW h \in Client, Holds(h)'
                 PROVE  /\ pc'[h] = "stage" /\ committed'[at'[h]] = 0 => Ackers(at[h])' = {}
                        /\ pc'[h] \in {"commitwait", "final"} =>
                             committed'[at'[h]] = Cardinality(Ackers(at[h])') + 1
      BY DEF Counted, Holds
    <2>2. /\ pc'[h] = pc[h] /\ at[h] = roundctr /\ at'[h] = roundctr
      BY <1>a, <1>b DEF Holds, IInv, OneCommitter
    <2>3. Ackers(at[h])' = Ackers(roundctr)'
      BY <1>a, <2>2
    <2>4. /\ pc[h] = "stage" /\ committed[roundctr] = 0 => Ackers(roundctr) = {}
          /\ pc[h] \in {"commitwait", "final"} =>
               committed[roundctr] = Cardinality(Ackers(roundctr)) + 1
      BY <2>2, Zenon DEF Counted
    <2> QED
      BY <2>1, <2>2, <2>3, <2>4
  <1>3. CASE at[c] = roundctr
    <2>1. Ackers(roundctr)' = Ackers(roundctr) \cup {c} /\ c \notin Ackers(roundctr)
      BY <1>1, <1>3 DEF Ackers
    <2>2. committed'[roundctr] = committed[roundctr] + 1 /\ committed[roundctr] \in Nat
      BY <1>a, <1>b, <1>3
    <2>3. IsFiniteSet(Ackers(roundctr))
      BY ConstantsAssumption, FS_Subset DEF Ackers
    <2>4. /\ Cardinality(Ackers(roundctr)') = Cardinality(Ackers(roundctr)) + 1
          /\ Cardinality(Ackers(roundctr)) \in Nat
      <3>1. /\ Cardinality(Ackers(roundctr) \cup {c}) = Cardinality(Ackers(roundctr)) + 1
            /\ Cardinality(Ackers(roundctr)) \in Nat
        BY <2>1, <2>3, AddOne
      <3> QED
        BY <2>1, <3>1, Zenon
    <2> SUFFICES ASSUME NEW h \in Client, Holds(h)'
                 PROVE  /\ pc'[h] = "stage" => committed'[at'[h]] # 0
                        /\ pc'[h] \in {"commitwait", "final"} =>
                             committed'[at'[h]] = Cardinality(Ackers(at[h])') + 1
      BY Zenon DEF Counted, Holds
    <2>5. pc'[h] = pc[h] /\ at[h] = roundctr /\ at'[h] = roundctr
      BY <1>a, <1>b DEF Holds, IInv, OneCommitter
    <2>6. pc[h] \in {"commitwait", "final"} =>
             committed[roundctr] = Cardinality(Ackers(roundctr)) + 1
      BY <2>5, Zenon DEF Counted
    <2>7. Ackers(at[h])' = Ackers(roundctr)'
      BY <1>a, <2>5
    <2> QED
      BY <2>2, <2>4, <2>5, <2>6, <2>7
  <1> QED
    BY <1>2, <1>3

\* Nobody accepted the round that is being locked.
LEMMA LockCounts ==
    ASSUME IInv, IInv', NEW c \in Client, LockRound(c)
    PROVE  Counted'
  <1>1. /\ roundctr' = roundctr + 1 /\ pc' = [pc EXCEPT ![c] = "stage"] /\ ~Odd(roundctr)
        /\ at' = [at EXCEPT ![c] = roundctr + 1]
    BY Zenon DEF LockRound, Goto, RoundFree
  <1>2. pc \in [Client -> PC] /\ at \in [Client -> Round]
    BY Zenon DEF IInv, TypeOK
  <1>3. \A d \in Client : ~Acked(d, roundctr)'
    <2> SUFFICES ASSUME NEW d \in Client PROVE ~Acked(d, roundctr)'
      BY Zenon
    <2>1. CASE d = c
      BY <1>1, <1>2, <2>1 DEF Acked
    <2>2. CASE d # c
      <3>1. at'[d] = at[d] /\ at[d] <= roundctr /\ at[d] \in Nat /\ roundctr \in Nat
        BY <1>1, <1>2, <2>2, Rounds
      <3>2. at'[d] # roundctr'
        BY <1>1, <3>1
      <3> QED
        BY <3>2, Zenon DEF Acked
    <2> QED
      BY <2>1, <2>2, Zenon
  <1>4. \A h \in Client : Holds(h)' => h = c
    BY <1>1, <1>2, Zenon DEF IInv, OneCommitter, Holds
  <1>5. at'[c] = roundctr' /\ pc'[c] = "stage"
    BY <1>1, <1>2
  <1>6. Ackers(at[c])' = {}
    BY <1>3, <1>5, Zenon DEF Ackers
  <1> QED
    BY <1>4, <1>5, <1>6, Zenon DEF Counted, Holds

\* The set_nx of an absent counter counts the committer, before anybody has accepted.
LEMMA StageCounts ==
    ASSUME IInv, IInv', Counted, NEW c \in Client, Stage(c)
    PROVE  Counted'
  <1>a. /\ pc[c] = "stage" /\ UNCHANGED <<roundctr, at>>
        /\ committed' = [committed EXCEPT ![at[c]] = IF @ = 0 THEN 1 ELSE @]
    BY Zenon DEF Stage, Alive
  <1>o. Own(c)
    BY StepOwn DEF Step, Transition, IInv
  <1>b. pc \in [Client -> PC] /\ committed \in [Round -> Nat] /\ at[c] \in Round
    BY Zenon DEF IInv, TypeOK
  <1>1. /\ pc'[c] \notin AckPcs /\ pc'[c] # "stage"
        /\ pc'[c] \in {"commitwait", "final"} => committed[at[c]] = 0
    BY <1>b DEF Stage, TransitionErr, Goto, AckPcs
  <1>2. \A h \in Client : Holds(h)' => h = c
    BY <1>a, <1>o DEF IInv, OneCommitter, Holds, Own
  <1>3. pc'[c] \in {"commitwait", "final"} => committed'[at'[c]] = 1 /\ Ackers(at[c])' = {}
    <2> SUFFICES ASSUME pc'[c] \in {"commitwait", "final"}
                 PROVE  committed'[at'[c]] = 1 /\ Ackers(at[c])' = {}
      BY Zenon
    <2>1. Ackers(at[c]) = {}
      BY <1>a, <1>1 DEF Counted
    <2>2. \A d \in Client : ~Acked(d, at[c])'
      BY <2>1, <1>a, <1>o, <1>1 DEF Ackers, Acked, Own, AckPcs
    <2> QED
      BY <2>2, <1>a, <1>b, <1>1 DEF Ackers
  <1>4. Cardinality({}) + 1 = 1
    BY FS_EmptySet
  <1> QED
    BY <1>1, <1>2, <1>3, <1>4 DEF Counted, Holds

\* Every step of a client keeps the count of the transition in progress.
LEMMA StepCounted ==
    ASSUME IInv, IInv', CtxOk, DelMeansOver, Counted, NEW c \in Client,
           Step(c) \/ PreferChange(c) \/ Trigger(c)
    PROVE  Counted'
  <1>a. TypeOK /\ pc \in [Client -> PC]
    BY Zenon DEF IInv, TypeOK
  <1>o. Own(c)
    BY <1>a, StepOwn, Zenon
  <1>1. ASSUME OtherStep(c), UNCHANGED committed, Acked(c, roundctr)' <=> Acked(c, roundctr),
               pc'[c] # "stage"
        PROVE  Counted'
    <2>1. /\ UNCHANGED roundctr /\ (Holds(c)' => Holds(c))
          /\ pc'[c] \in {"commitwait", "final"} => pc[c] \in {"commitwait", "final"}
      BY <1>1, OtherIsLocal DEF LocalStep
    <2> QED
      BY <1>1, <1>o, <2>1, SameCounted
  <1>2. CASE AwayStep(c) /\ OtherStep(c)
    <2>1. /\ UNCHANGED committed /\ pc[c] \notin AckPcs /\ pc'[c] \notin {"apply", "refresh", "fetch"}
          /\ pc'[c] = "subscribe" => ctx'[c] \notin {"notify", "retry"}
          /\ pc'[c] = "stage" => LockRound(c)
      BY <1>a, <1>2, AwayFacts
    <2>2. ~Acked(c, roundctr) /\ ~Acked(c, roundctr)'
      BY <2>1, Zenon DEF Acked, AckPcs
    <2>3. ~LockRound(c)
      <3>1. LockRound(c) => ~LocalStep(c)
        BY <1>a, Zenon DEF LockRound, LocalStep, Holds, Goto, Alive
      <3> QED
        BY <1>2, <3>1, OtherIsLocal
    <2> QED
      BY <1>1, <1>2, <2>1, <2>2, <2>3
  <1>3. CASE TryInitCreate(c)
    <2>1. \A d \in Client : pc[d] = "start"
      BY <1>3, Zenon DEF TryInitCreate, Unset, IInv, Untouched
    <2>2. pc' = [pc EXCEPT ![c] = "joined"]
      BY <1>3 DEF TryInitCreate, Goto
    <2>3. \A d \in Client : pc'[d] \in {"start", "joined"}
      BY <1>a, <2>1, <2>2
    <2> QED
      BY <2>3, Zenon DEF Counted
  <1>4. CASE RefreshClient(c)
    <2>1. UNCHANGED <<pc, ctx, at, committed, roundctr>>
      BY <1>4, Zenon DEF RefreshClient, local
    <2>2. Acked(c, roundctr)' <=> Acked(c, roundctr)
      BY <2>1 DEF Acked
    <2> QED
      BY <1>o, <2>1, <2>2, SameCounted DEF Holds
  <1>5. CASE LockRound(c) \/ Stage(c) \/ Ack(c)
    BY <1>5, LockCounts, StageCounts, AckCounts
  <1>6. CASE Commit(c)
    <2>1. \A d \in Client : ~Holds(d)'
      BY <1>6, CommitFacts DEF Holds
    <2> QED
      BY <2>1 DEF Counted, Holds
  <1>7. CASE Subscribe(c) \/ RefreshTimer(c) \/ RefreshCommit(c) \/ DelEvent(c)
    <2>1. /\ UNCHANGED <<ctx, at, roundctr, committed>> /\ pc[c] \in AckPcs /\ pc'[c] \in AckPcs
      BY <1>7, <1>a DEF Subscribe, RefreshTimer, RefreshCommit, DelEvent, Alive, Goto, AckPcs, keys
    <2>2. (Acked(c, roundctr)' <=> Acked(c, roundctr)) /\ pc'[c] # "stage"
      BY <2>1 DEF Acked, AckPcs
    <2> QED
      BY <1>1, <1>7, <2>1, <2>2 DEF OtherStep
  <1>8. CASE FetchRound(c)
    <2>1. /\ UNCHANGED committed /\ pc[c] = "fetch" /\ pc'[c] \in {"monitor", "joined", "poll"}
      BY <1>8, <1>a DEF FetchRound, Alive, Goto, TransitionOk
    <2>2. at[c] < roundctr /\ at[c] \in Nat /\ roundctr \in Nat
      BY <2>1, Rounds DEF DelMeansOver
    <2>3. ~Acked(c, roundctr) /\ ~Acked(c, roundctr)' /\ pc'[c] # "stage"
      <3>1. at[c] # roundctr
        BY <2>2
      <3> QED
        BY <2>1, <3>1 DEF Acked
    <2> QED
      BY <1>1, <1>8, <2>1, <2>3 DEF OtherStep
  <1> QED
    BY <1>2, <1>3, <1>4, <1>5, <1>6, <1>7, <1>8
    DEF Step, Negotiate, Poll, Transition, Apply, OtherStep, AwayStep

\* Every step of a calm system keeps the whole invariant.
LEMMA CalmStep == CalmInv /\ [NextCalm]_vars => CalmInv'
  <1> SUFFICES ASSUME CalmInv, [NextCalm]_vars PROVE CalmInv'
    OBVIOUS
  <1>1. IInv'
    BY StepIInv, Zenon DEF NextCalm, Next, CalmInv
  <1>2. ASSUME NEW c \in Client, Step(c) \/ PreferChange(c) \/ Trigger(c) PROVE CalmInv'
    <2>1. TypeOK /\ IInv /\ CtxOk /\ Membership /\ DelMeansOver /\ Counted
      BY Zenon DEF CalmInv, IInv
    <2> QED
      BY <1>1, <1>2, <2>1, StepCtx, StepMembership, StepDel, StepCounted DEF CalmInv
  <1>3. ASSUME UNCHANGED <<roundctr, committed, pc, ctx, at, del>>, Membership' PROVE CalmInv'
    <2>1. \A r : Ackers(r)' = Ackers(r)
      BY <1>3, Zenon DEF Ackers, Acked
    <2> QED
      BY <1>1, <1>3, <2>1 DEF CalmInv, CtxOk, DelMeansOver, Counted
  <1>4. ASSUME NEW c \in Client, Expire(c) PROVE CalmInv'
    BY <1>3, <1>4, ExpireMembership DEF Expire, local, CalmInv, IInv
  <1>5. CASE JoinlockExpire \/ UNCHANGED vars
    BY <1>3, <1>5, SMTT(30) DEF JoinlockExpire, local, vars, CalmInv, Membership
  <1> QED
    BY <1>2, <1>4, <1>5 DEF NextCalm

\* A committer goes on to the commit pipeline only when everybody in the connection accepted.
LEMMA FinalAcked ==
    ASSUME CalmInv, NEW c \in Client, Step(c) \/ PreferChange(c) \/ Trigger(c),
           pc[c] # "final", pc'[c] = "final", NEW d \in members' \ {c}
    PROVE  Acked(d, at[c])
  <1>a. IInv /\ TypeOK /\ pc \in [Client -> PC] /\ members \subseteq Client /\ Membership /\ Counted
    BY Zenon DEF CalmInv, IInv, TypeOK
  <1>b. IsFiniteSet(Refreshed(c)) /\ Cardinality(Refreshed(c)) \in Nat
    <2>1. Refreshed(c) \subseteq Client
      BY <1>a, Zenon DEF Refreshed
    <2> QED
      BY <2>1, ConstantsAssumption, FS_Subset, FS_CardinalityType
  <1>1. CASE Stage(c)
    <2>1. members' = Refreshed(c) /\ ~(Cardinality(Refreshed(c)) > 1)
      BY <1>1, <1>a DEF Stage, Touch, Goto, TransitionErr
    <2>2. {c} \subseteq Refreshed(c)
      BY DEF Refreshed
    <2>3. Cardinality({c}) = 1
      BY FS_Singleton, Zenon
    <2>4. Refreshed(c) = {c}
      BY <1>b, <2>1, <2>2, <2>3, FS_Subset
    <2> QED
      BY <2>1, <2>4
  <1>2. CASE OtherStep(c)
    <2>1. pc[c] = "commitwait"
      BY <1>2, <1>a, OtherIsLocal DEF LocalStep
    <2>2. CommitRefresh(c)
      <3>1. /\ ~TryInitMatch(c) /\ ~TryInitNoMatch(c) /\ ~TryInitOverride(c)
            /\ ~AcceptExisting(c) /\ ~Leave(c) /\ ~KeepOwn(c)
        BY <2>1, Zenon DEF TryInitMatch, TryInitNoMatch, TryInitOverride, AcceptExisting, Leave, KeepOwn,
                    Alive
      <3>2. /\ ~PollMatched(c) /\ ~PollChanged(c) /\ ~PollNewRound(c) /\ ~SpinStaged(c)
            /\ ~ConvertToApplier(c) /\ ~AwaitCounter(c) /\ ~AwaitCounterAgain(c)
        BY <2>1, Zenon DEF PollMatched, PollChanged, PollNewRound, SpinStaged, ConvertToApplier,
                    AwaitCounter, AwaitCounterAgain, Alive, Polling
      <3>3. /\ ~Ack(c) /\ ~Subscribe(c) /\ ~RefreshTimer(c) /\ ~RefreshCommit(c)
            /\ ~DelEvent(c) /\ ~FetchRound(c) /\ ~PreferChange(c) /\ ~Trigger(c)
        BY <2>1, Zenon DEF Ack, Subscribe, RefreshTimer, RefreshCommit, DelEvent, FetchRound,
                    PreferChange, Trigger, Alive
      <3> QED
        BY <1>2, <3>1, <3>2, <3>3 DEF OtherStep
    <2>3. members' = Refreshed(c) /\ committed[at[c]] = Cardinality(Refreshed(c))
      BY <1>a, <2>1, <2>2 DEF CommitRefresh, Touch, Goto, EnoughAcks
    <2> DEFINE A == Ackers(at[c])
    <2>4. A \cup {c} \subseteq Refreshed(c) /\ c \notin A
      BY <1>a, <2>1 DEF Ackers, Acked, Refreshed, Membership, AckPcs
    <2>5. committed[at[c]] = Cardinality(A) + 1
      BY <1>a, <2>1 DEF Counted
    <2>6. d \in A => Acked(d, at[c])
      BY Zenon DEF Ackers
    <2> HIDE DEF A
    <2>7. IsFiniteSet(A)
      BY <1>b, <2>4, FS_Subset
    <2>8. Cardinality(A \cup {c}) = Cardinality(A) + 1
      BY <2>4, <2>7, AddOne
    <2>9. Refreshed(c) = A \cup {c}
      <3>1. Cardinality(A \cup {c}) = Cardinality(Refreshed(c))
        BY <2>3, <2>5, <2>8
      <3> QED
        BY <1>b, <2>4, <3>1, SameSize
    <2> QED
      BY <2>3, <2>6, <2>9
  <1>3. CASE TryInitCreate(c) \/ LockRound(c) \/ RefreshClient(c)
    BY <1>3, <1>a DEF TryInitCreate, LockRound, RefreshClient, Goto, local
  <1>4. CASE Commit(c)
    BY <1>4, <1>a, CommitFacts DEF Holds
  <1> QED
    BY <1>1, <1>2, <1>3, <1>4 DEF Step, Negotiate, Poll, Transition, Apply, OtherStep

\* Where nobody crashes, exits or stalls, the invariant of the count holds throughout.
THEOREM CalmInvariance == SpecCalm => []CalmInv
  <1>1. InitCalm => CalmInv
    <2> SUFFICES ASSUME InitCalm PROVE CalmInv
      OBVIOUS
    <2>1. IInv
      BY InitIInv, Zenon DEF InitCalm
    <2>2. \A c \in Client : pc[c] = "start"
      BY Zenon DEF InitCalm, Fresh
    <2>3. CtxOk /\ DelMeansOver /\ Counted
      BY <2>2, Zenon DEF CtxOk, DelMeansOver, Counted
    <2>4. Membership
      BY <2>2 DEF InitCalm, Fresh, Membership, AckPcs
    <2> QED
      BY <2>1, <2>3, <2>4 DEF CalmInv
  <1> QED
    BY <1>1, CalmStep, PTL DEF SpecCalm

\* Where nobody crashes, exits or stalls, however many clients propose concurrently, join, or
\* give up: when wait_committer (or the set_nx of a client alone) decides to commit, every
\* other participant has accepted the proposal with staged_update.
THEOREM ParticipantsAcked == SpecCalm => EveryParticipantAcked
  <1> DEFINE A == \A c \in Client : pc[c] # "final" /\ pc'[c] = "final" =>
                     \A d \in members' \ {c} : Acked(d, at[c])
  <1>1. CalmInv /\ [NextCalm]_vars => [A]_vars
    <2> SUFFICES ASSUME CalmInv, NextCalm, NEW c \in Client, pc[c] # "final", pc'[c] = "final",
                        NEW d \in members' \ {c}
                 PROVE  Acked(d, at[c])
      BY Zenon
    <2>1. ~JoinlockExpire /\ \A b \in Client : ~Expire(b)
      BY DEF JoinlockExpire, Expire, local
    <2>2. PICK b \in Client : Step(b) \/ PreferChange(b) \/ Trigger(b)
      BY <2>1, Zenon DEF NextCalm
    <2>3. b = c
      BY <2>2, StepOwn DEF Own, CalmInv, IInv
    <2> QED
      BY <2>2, <2>3, FinalAcked
  <1>2. SpecCalm => [][A]_vars
    BY <1>1, CalmInvariance, PTL DEF SpecCalm
  <1> QED
    BY <1>2, Zenon DEF EveryParticipantAcked
=============================================================================
