------------------------- MODULE RendezvousRounds -------------------------
(***************************************************************************)
(* Proof that with one proposer a client that is up to date agrees with    *)
(* the store, and a round is locked only when nothing of an earlier one is *)
(* left (SpecRounds), for any clients and stacks.                          *)
(***************************************************************************)
EXTENDS MCRendezvous, RendezvousProofs

Quiet == {"start", "joined", "nomatch", "poll", "monitor"}

\* c1, the only proposer, always knows the store's round unless it is ahead of everybody,
\* between transition.lua and its commit.
Proposer ==
    /\ pc[c1] \in Quiet \cup {"lock", "stage", "commitwait", "final"}
    /\ pc[c1] \in {"joined", "nomatch", "poll", "monitor", "lock"} => curr_round[c1] = roundctr
    /\ pc[c1] \in {"lock", "stage", "commitwait", "final"} => ctx[c1] \in {"case1", "trigger"}
    /\ pc[c1] = "poll" => ctx[c1] \in {"case1", "case2"}
    /\ pc[c1] = "poll" /\ ctx[c1] = "case1" => want[c1] = addr
    /\ Odd(roundctr) => Holds(c1)
\* Everybody else polls, and accepts what it is told of.
Follower(c) ==
    /\ pc[c] \in Quiet \cup {"spin", "ack"} \cup AckPcs
    /\ pc[c] = "poll" => ctx[c] = "case2"
    /\ pc[c] = "spin" => ctx[c] \in {"case2", "notify"} /\ curr_round[c] < at[c]
    /\ pc[c] \in {"ack"} \cup AckPcs => ctx[c] = "notify"
\* Whoever knows the current round knows the stack in force.
Current(c) ==
    curr_round[c] = roundctr =>
      /\ pc[c] = "joined" => Solo[c] = addr
      /\ pc[c] = "nomatch" => want[c] = addr
      /\ pc[c] = "monitor" \/ (pc[c] = "poll" /\ ctx[c] = "case2") => curr_entry[c] = addr
\* The stack a client accepts is the one staged for its round, and in force when that ends.
Accepts(c) ==
    pc[c] \in {"ack"} \cup AckPcs =>
      /\ curr_round[c] = at[c] /\ Odd(at[c])
      /\ at[c] = roundctr => want[c] = staged[roundctr]
      /\ at[c] + 1 = roundctr => want[c] = addr
Clean ==
    /\ \A r \in Round : r > roundctr => committed[r] = 0
    /\ LockedRoundIsClean
ClientOk(c) == (IF c = c1 THEN Proposer ELSE Follower(c)) /\ Current(c) /\ Accepts(c)
OneInv ==
    /\ \A c \in One : ClientOk(c)
    /\ Clean
    /\ addr # None => members # {}

\* The hypotheses of the lemmas below: a state of the group One.
OneState ==
    /\ IInv /\ CtxOk /\ Membership /\ DelMeansOver /\ OneInv
    /\ dead = Client \ One

\* The steps that are left when nobody but c1 proposes, and c1 itself only when it may.
PolledStep(c) ==
    \/ TryInitMatch(c) \/ TryInitNoMatch(c) \/ AcceptExisting(c) \/ KeepOwn(c)
    \/ PollMatched(c) \/ PollChanged(c) \/ PollNewRound(c) \/ SpinStaged(c) \/ RefreshClient(c)
FollowerStep(c) ==
    PolledStep(c) \/ Apply(c)
ProposerStep(c) ==
    PolledStep(c) \/ PreferChange(c) \/ Trigger(c) \/ CommitRefresh(c)

\* What the hypotheses say of a client that runs.
LEMMA OneFacts ==
    ASSUME OneState, NEW c \in One
    PROVE  /\ c \in Client /\ Offers[c] = Entry /\ ClientOk(c) /\ c # c3
           /\ c \notin Crashing /\ c1 \in One
  BY GroupsAssumption, Zenon DEF OneState, OneInv

\* Nobody fails, so nobody expires, and the members are clients of the group.
LEMMA OneMembers ==
    ASSUME OneState
    PROVE  stale = {} /\ \A c \in Client : pc[c] # "failed"
  <1>1. \A c \in Client : pc[c] # "failed"
    <2> SUFFICES ASSUME NEW c \in Client PROVE pc[c] # "failed"
      BY Zenon
    <2>1. CASE c \in One
      BY <2>1, OneFacts, Zenon DEF ClientOk, Proposer, Follower, Quiet, AckPcs
    <2>2. CASE c \notin One
      BY <2>2, Zenon DEF OneState, Membership
    <2> QED
      BY <2>1, <2>2, Zenon
  <1> QED
    BY <1>1, Zenon DEF OneState, Membership, IInv, TypeOK

\* Only clients of the group make steps; nobody overrides, leaves, converts or fails, and
\* only c1 makes transitions.
LEMMA OneKinds ==
    ASSUME OneState, NEW c \in Client,
           Step(c) \/ (PreferChange(c) /\ c = c1) \/ (Trigger(c) /\ c = c1)
    PROVE  /\ c \in One
           /\ \/ TryInitCreate(c)
              \/ c # c1 /\ FollowerStep(c)
              \/ c = c1 /\ (ProposerStep(c) \/ LockRound(c) \/ Stage(c) \/ Commit(c))
  <1>1. c \in One
    <2>1. c \notin dead
      BY StepMembers, Zenon DEF OneState, IInv
    <2> QED
      BY <2>1, Zenon DEF OneState
  <1>2. ~TryInitOverride(c)
    BY OneMembers, Zenon DEF TryInitOverride, OtherBytes, Unset, OneState, OneInv
  <1>3. ~Leave(c)
    <2>1. want[c] \in Offers[c]
      BY <1>1, OneFacts DEF OneState, IInv, TypeOK
    <2> QED
      BY <2>1, Zenon DEF Leave
  <1>4. CASE c # c1
    <2>1. pc[c] \in Quiet \cup {"spin", "ack"} \cup AckPcs
      BY <1>1, <1>4, OneFacts DEF ClientOk, Follower
    <2>2. ~Transition(c)
      BY <2>1, Zenon DEF Transition, LockRound, ConvertToApplier, Stage, CommitRefresh, Commit,
                  AwaitCounter, AwaitCounterAgain, Alive, Quiet, AckPcs
    <2> QED
      BY <1>1, <1>2, <1>3, <1>4, <2>2, Zenon DEF Step, Negotiate, Poll, FollowerStep, PolledStep
  <1>5. CASE c = c1
    <2>1. /\ pc[c] \in Quiet \cup {"lock", "stage", "commitwait", "final"}
          /\ Odd(roundctr) => Holds(c)
      BY <1>1, <1>5, OneFacts, Zenon DEF ClientOk, Proposer
    <2>2. ~Apply(c)
      BY <2>1, Zenon DEF Apply, Ack, Subscribe, RefreshTimer, RefreshCommit, DelEvent, FetchRound, Alive,
                  Quiet
    <2>3. ~ConvertToApplier(c) /\ ~AwaitCounter(c) /\ ~AwaitCounterAgain(c)
      BY <2>1, Zenon DEF ConvertToApplier, AwaitCounter, AwaitCounterAgain, Alive, RoundFree, Holds, Quiet
    <2> QED
      BY <1>1, <1>2, <1>3, <1>5, <2>2, <2>3
      DEF Step, Negotiate, Poll, Transition, ProposerStep, PolledStep
  <1> QED
    BY <1>4, <1>5, Zenon

\* A step that leaves the semantics, the round and the staged keys alone concerns its client only.
LEMMA OneLocal ==
    ASSUME OneState, NEW c \in One, Own(c), UNCHANGED <<addr, roundctr, staged>>,
           ClientOk(c)', Clean', members \subseteq members'
    PROVE  OneInv'
  <1>1. ASSUME NEW d \in One, d # c PROVE ClientOk(d)'
    <2>1. /\ pc'[d] = pc[d] /\ ctx'[d] = ctx[d] /\ at'[d] = at[d] /\ want'[d] = want[d]
          /\ curr_round'[d] = curr_round[d] /\ curr_entry'[d] = curr_entry[d]
      BY <1>1, OneFacts, Zenon DEF Own
    <2>2. ClientOk(d)
      BY OneFacts, Zenon
    <2>3. Current(d)' /\ Accepts(d)'
      BY <2>1, <2>2 DEF ClientOk, Current, Accepts
    <2>4. d # c1 => Follower(d)'
      BY <2>1, <2>2, Zenon DEF ClientOk, Follower
    <2>5. d = c1 => Proposer'
      BY <2>1, <2>2, Zenon DEF ClientOk, Proposer, Holds
    <2> QED
      BY <2>3, <2>4, <2>5, Zenon DEF ClientOk
  <1>2. addr' # None => members' # {}
    BY Zenon DEF OneState, OneInv
  <1> QED
    BY <1>1, <1>2 DEF OneInv

\* Without an INCR the counters stay clean.
LEMMA OneClean ==
    ASSUME OneState, NEW c \in One, Own(c), UNCHANGED <<roundctr, staged, committed>>,
           pc'[c] # "stage"
    PROVE  Clean'
  <1>1. \A r \in Round : r > roundctr' => committed'[r] = 0
    BY Zenon DEF OneState, OneInv, Clean
  <1>2. LockedRoundIsClean'
    BY DEF OneState, OneInv, Clean, LockedRoundIsClean, Own
  <1> QED
    BY <1>1, <1>2, Zenon DEF Clean

\* A client that runs and does not hold the round, if it is c1, finds no transition in progress.
LEMMA Unlocked ==
    ASSUME OneState, NEW c \in One, pc[c] \in Quiet \cup {"lock"}
    PROVE  c = c1 => ~Odd(roundctr)
  BY OneFacts, Zenon DEF ClientOk, Proposer, Holds, Quiet

\* try_init and the cases after it leave a client with the stack it found at the round it read.
LEMMA JoinOk ==
    ASSUME OneState, NEW c \in One,
           TryInitMatch(c) \/ TryInitNoMatch(c) \/ AcceptExisting(c) \/ KeepOwn(c)
    PROVE  ClientOk(c)'
  <1>a. /\ c \in Client /\ ClientOk(c) /\ pc \in [Client -> PC] /\ ctx \in [Client -> Ctx]
        /\ curr_round \in [Client -> Round] /\ curr_entry \in [Client -> Entry]
        /\ want \in [Client -> Entry]
    BY OneFacts, Zenon DEF OneState, IInv, TypeOK
  <1>b. UNCHANGED <<addr, roundctr>> /\ pc[c] \in Quiet
    BY Zenon DEF TryInitMatch, TryInitNoMatch, AcceptExisting, KeepOwn, Alive, keys, Quiet
  <1>c. c = c1 => ~Odd(roundctr)
    BY <1>b, Unlocked, Zenon DEF Quiet
  <1>1. CASE TryInitMatch(c)
    <2>1. pc'[c] = "joined" /\ curr_round'[c] = roundctr /\ Solo[c] = addr
      BY <1>1, <1>a DEF TryInitMatch, Goto, SameBytes
    <2> QED
      BY <1>b, <1>c, <2>1, Zenon DEF ClientOk, Proposer, Follower, Current, Accepts, Quiet, AckPcs
  <1>2. CASE TryInitNoMatch(c)
    <2>1. pc'[c] = "nomatch" /\ curr_round'[c] = roundctr /\ want'[c] = addr
      BY <1>2, <1>a, Zenon DEF TryInitNoMatch, Goto
    <2> QED
      BY <1>b, <1>c, <2>1, Zenon DEF ClientOk, Proposer, Follower, Current, Accepts, Quiet, AckPcs
  <1>3. CASE AcceptExisting(c)
    <2>1. /\ pc[c] = "nomatch" /\ pc'[c] = "poll" /\ ctx'[c] = "case2"
          /\ curr_entry'[c] = want[c] /\ curr_round'[c] = curr_round[c]
      BY <1>3, <1>a, Zenon DEF AcceptExisting, Goto, Alive
    <2>2. curr_round[c] = roundctr => want[c] = addr
      BY <1>a, <2>1, Zenon DEF ClientOk, Current
    <2>3. c = c1 => curr_round[c] = roundctr
      BY <1>a, <2>1, Zenon DEF ClientOk, Proposer
    <2> QED
      BY <1>b, <1>c, <2>1, <2>2, <2>3
      DEF ClientOk, Proposer, Follower, Current, Accepts, Quiet, AckPcs
  <1>4. CASE KeepOwn(c)
    <2>1. /\ pc[c] = "joined" /\ pc'[c] = "monitor" /\ curr_entry'[c] = Solo[c]
          /\ curr_round'[c] = curr_round[c]
      BY <1>4, <1>a, Zenon DEF KeepOwn, Goto, Alive
    <2>2. curr_round[c] = roundctr => Solo[c] = addr
      BY <1>a, <2>1, Zenon DEF ClientOk, Current
    <2>3. c = c1 => curr_round[c] = roundctr
      BY <1>a, <2>1, Zenon DEF ClientOk, Proposer
    <2> QED
      BY <1>b, <1>c, <2>1, <2>2, <2>3, Zenon
      DEF ClientOk, Proposer, Follower, Current, Accepts, Quiet, AckPcs
  <1> QED
    BY <1>1, <1>2, <1>3, <1>4

\* A poll of the round that is known finds the stack that is known, but for c1's first poll,
\* which has nothing to compare with; a poll of another round is never c1's.
LEMMA PollOk ==
    ASSUME OneState, NEW c \in One, PollMatched(c) \/ PollChanged(c) \/ PollNewRound(c)
    PROVE  ClientOk(c)'
  <1>a. /\ c \in Client /\ ClientOk(c) /\ pc \in [Client -> PC] /\ ctx \in [Client -> Ctx]
        /\ curr_round \in [Client -> Round] /\ curr_entry \in [Client -> Entry]
        /\ at \in [Client -> Round] /\ addr \in Entry \cup {None}
    BY OneFacts, Zenon DEF OneState, IInv, TypeOK
  <1>b. /\ UNCHANGED <<addr, roundctr>> /\ pc[c] \in {"poll", "monitor"} /\ Polling(c)
    BY Zenon DEF PollMatched, PollChanged, PollNewRound, Polling
  <1>c. c = c1 => ~Odd(roundctr) /\ curr_round[c] = roundctr
    BY <1>a, <1>b, Unlocked, Zenon DEF Quiet, ClientOk, Proposer
  <1>d. /\ pc[c] = "poll" => PollCtx(c) = ctx[c] /\ ctx[c] \in {"case1", "case2"}
        /\ pc[c] = "monitor" => PollCtx(c) = "notify"
        /\ PollCtx(c) = "case1" => c = c1
    BY <1>a, <1>b DEF PollCtx, ClientOk, Proposer, Follower
  <1>e. curr_round[c] = roundctr /\ PollCtx(c) # "case1" => addr = curr_entry[c]
    BY <1>a, <1>b, <1>d, Zenon DEF ClientOk, Current, PollCtx
  <1>1. CASE PollMatched(c)
    <2>1. /\ pc'[c] = "monitor" /\ curr_entry'[c] = addr /\ curr_round'[c] = roundctr
      BY <1>1, <1>a, Zenon DEF PollMatched, EntryMatches, Goto
    <2> QED
      BY <1>b, <1>c, <2>1, Zenon DEF ClientOk, Proposer, Follower, Current, Accepts, Quiet, AckPcs
  <1>2. CASE PollChanged(c)
    <2>1. curr_round[c] = roundctr /\ PollCtx(c) = "case1" /\ NoMatch(c, "case1", addr, roundctr)
      BY <1>2, <1>e, Zenon DEF PollChanged, EntryMatches
    <2>2. c = c1 /\ want[c] = addr
      BY <1>a, <1>b, <1>d, <2>1, Zenon DEF ClientOk, Proposer
    <2>3. addr \in Offers[c]
      <3>1. addr # None
        BY <1>a, <1>b, Zenon DEF OneState, IInv, Untouched
      <3> QED
        BY <1>a, <3>1, OneFacts, Zenon
    <2>4. pc'[c] = "monitor" /\ curr_entry'[c] = want[c] /\ curr_round'[c] = roundctr
      BY <1>a, <2>1, <2>3, Zenon DEF NoMatch, Goto
    <2> QED
      BY <1>b, <1>c, <2>2, <2>4, Zenon DEF ClientOk, Proposer, Current, Accepts, Quiet, AckPcs
  <1>3. CASE PollNewRound(c)
    <2>1. curr_round[c] < roundctr /\ c # c1
      <3>1. curr_round[c] # roundctr
        BY <1>3, Zenon DEF PollNewRound
      <3>2. curr_round[c] <= roundctr /\ curr_round[c] \in Nat /\ roundctr \in Nat
        BY <1>a, Rounds, Zenon DEF OneState
      <3> QED
        BY <1>c, <3>1, <3>2
    <2>2. roundctr > curr_round[c]
      BY <1>a, <2>1, Rounds, Zenon DEF OneState
    <2>3. /\ pc'[c] = "spin" /\ at'[c] = roundctr /\ ctx'[c] = PollCtx(c)
          /\ curr_round'[c] = curr_round[c]
      BY <1>3, <1>a, <2>2, Zenon DEF PollNewRound, Goto
    <2>4. PollCtx(c) \in {"case2", "notify"}
      BY <1>b, <1>d, <2>1
    <2> QED
      BY <2>1, <2>3, <2>4, Zenon DEF ClientOk, Follower, Current, Accepts, Quiet, AckPcs
  <1> QED
    BY <1>1, <1>2, <1>3, Zenon

\* A client that finds a staged value accepts it; during negotiation it goes on instead, knowing
\* that its round is over.
LEMMA SpinOk ==
    ASSUME OneState, NEW c \in One, SpinStaged(c)
    PROVE  ClientOk(c)'
  <1>a. /\ c \in Client /\ ClientOk(c) /\ pc \in [Client -> PC] /\ ctx \in [Client -> Ctx]
        /\ curr_round \in [Client -> Round] /\ curr_entry \in [Client -> Entry]
        /\ at \in [Client -> Round] /\ want \in [Client -> Entry]
        /\ staged \in [Round -> Entry \cup {None}]
    BY OneFacts, Zenon DEF OneState, IInv, TypeOK
  <1>b. pc[c] = "spin" /\ UNCHANGED <<addr, roundctr, staged>>
    BY Zenon DEF SpinStaged, Alive
  <1>c. c # c1 /\ ctx[c] \in {"case2", "notify"} /\ curr_round[c] < at[c]
    BY <1>a, <1>b, Zenon DEF ClientOk, Proposer, Follower, Quiet
  <1>d. at[c] <= roundctr /\ at[c] \in Nat /\ roundctr \in Nat /\ curr_round[c] \in Nat
    BY <1>a, Rounds, Zenon DEF OneState
  <1>1. CASE UNCHANGED <<pc, ctx, curr_entry, curr_round, want, at>>
    BY <1>1, <1>a, <1>b, <1>c, Zenon DEF ClientOk, Follower, Current, Accepts
  <1>2. CASE staged[at[c]] # None /\ NoMatch(c, "notify", staged[at[c]], at[c])
    <2>1. staged[at[c]] \in Offers[c] /\ Odd(at[c]) /\ at[c] = roundctr
      BY <1>2, <1>a, OneFacts DEF OneState, IInv, StagedIsCurrent
    <2>2. /\ pc'[c] = "ack" /\ ctx'[c] = "notify" /\ want'[c] = staged[at[c]]
          /\ at'[c] = at[c] /\ curr_round'[c] = at[c]
      BY <1>2, <1>a, <2>1 DEF NoMatch, Goto
    <2>3. at'[c] + 1 # roundctr'
      <3>1. at'[c] = roundctr /\ roundctr' = roundctr
        BY <1>b, <2>1, <2>2, Zenon
      <3> QED
        BY <1>d, <3>1
    <2>4. Accepts(c)'
      BY <1>b, <2>1, <2>2, <2>3 DEF Accepts
    <2> QED
      BY <1>c, <2>2, <2>4, Zenon DEF ClientOk, Follower, Current, Quiet, AckPcs
  <1>3. CASE NoMatch(c, "case2", staged[at[c]], at[c])
    <2>1. pc'[c] = "monitor" /\ UNCHANGED <<ctx, curr_round>>
      BY <1>3, <1>a, Zenon DEF NoMatch, Goto
    <2>2. curr_round'[c] # roundctr'
      BY <1>b, <1>c, <1>d, <2>1
    <2> QED
      BY <1>c, <2>1, <2>2, Zenon DEF ClientOk, Follower, Current, Accepts, Quiet, AckPcs
  <1> QED
    BY <1>c, <1>1, <1>2, <1>3 DEF SpinStaged, StagedEntry

\* A client that accepted keeps what it accepted, and adopts it when it is what was committed.
LEMMA ApplyOk ==
    ASSUME OneState, NEW c \in One, Apply(c)
    PROVE  ClientOk(c)' /\ c # c1
  <1>a. /\ c \in Client /\ ClientOk(c) /\ pc \in [Client -> PC] /\ ctx \in [Client -> Ctx]
        /\ curr_round \in [Client -> Round] /\ curr_entry \in [Client -> Entry]
        /\ at \in [Client -> Round] /\ want \in [Client -> Entry]
    BY OneFacts, Zenon DEF OneState, IInv, TypeOK
  <1>b. pc[c] \in {"ack"} \cup AckPcs /\ UNCHANGED <<addr, roundctr, staged, at, want>>
    BY Zenon DEF Apply, Ack, Subscribe, RefreshTimer, RefreshCommit, DelEvent, FetchRound, Alive, keys,
           AckPcs
  <1>c. c # c1 /\ ctx[c] = "notify" /\ curr_round[c] = at[c] /\ Accepts(c)
    BY <1>a, <1>b DEF ClientOk, Proposer, Follower, Accepts, Quiet, AckPcs
  <1>1. CASE ~FetchRound(c)
    <2>1. pc'[c] \in AckPcs /\ UNCHANGED <<ctx, curr_round>>
      BY <1>1, <1>a DEF Apply, Ack, Subscribe, RefreshTimer, RefreshCommit, DelEvent, Goto, AckPcs
    <2>2. Accepts(c)'
      BY <1>b, <1>c, <2>1, Zenon DEF Accepts
    <2> QED
      BY <1>c, <2>1, <2>2, Zenon DEF ClientOk, Follower, Current, AckPcs
  <1>2. CASE FetchRound(c)
    <2>1. /\ pc[c] = "fetch" /\ pc'[c] = "monitor"
          /\ IF roundctr > curr_round[c] + 1
             THEN UNCHANGED <<curr_round, curr_entry>>
             ELSE /\ curr_round' = [curr_round EXCEPT ![c] = roundctr]
                  /\ curr_entry' = [curr_entry EXCEPT ![c] = want[c]]
      BY <1>2, <1>a, <1>c, Zenon DEF FetchRound, Alive, Goto
    <2>2. at[c] < roundctr /\ at[c] \in Nat /\ roundctr \in Nat
      BY <1>a, <2>1, Rounds DEF OneState, DelMeansOver
    <2>3. CASE roundctr > curr_round[c] + 1
      <3>1. curr_round'[c] = at[c] /\ roundctr' = roundctr
        BY <1>b, <1>c, <2>1, <2>3
      <3>2. at[c] # roundctr
        BY <2>2
      <3>3. curr_round'[c] # roundctr'
        BY <3>1, <3>2, Zenon
      <3> QED
        BY <1>c, <2>1, <3>3, Zenon DEF ClientOk, Follower, Current, Accepts, Quiet, AckPcs
    <2>4. CASE ~(roundctr > curr_round[c] + 1)
      <3>1. at[c] + 1 = roundctr
        BY <1>c, <2>2, <2>4
      <3>2. want[c] = addr
        BY <1>b, <1>c, <3>1, Zenon DEF Accepts
      <3>3. curr_entry'[c] = addr'
        BY <1>a, <1>b, <2>1, <2>4, <3>2
      <3> QED
        BY <1>c, <2>1, <3>3 DEF ClientOk, Follower, Current, Accepts, Quiet, AckPcs
    <2> QED
      BY <2>3, <2>4
  <1> QED
    BY <1>c, <1>1, <1>2, Zenon

\* An ack counts in the round it accepted, which is staged or over.
LEMMA AckClean ==
    ASSUME OneState, NEW c \in One, Ack(c), Own(c)
    PROVE  Clean'
  <1>a. /\ c \in Client /\ ClientOk(c) /\ pc \in [Client -> PC] /\ at \in [Client -> Round]
        /\ want[c] \in Entry /\ committed \in [Round -> Nat] /\ None \notin Entry
    BY OneFacts, ConstantsAssumption DEF OneState, IInv, TypeOK
  <1>b. /\ pc[c] = "ack" /\ pc'[c] = "subscribe" /\ UNCHANGED <<roundctr, staged, at>>
        /\ committed' = [committed EXCEPT ![at[c]] = committed[at[c]] + 1]
    BY <1>a, Zenon DEF Ack, Alive, Goto, AckCounted
  <1>c. at[c] = roundctr => staged[roundctr] # None
    BY <1>a, <1>b, Zenon DEF ClientOk, Accepts
  <1>d. Clean /\ OneCommitter
    BY Zenon DEF OneState, OneInv, IInv
  <1>1. \A r \in Round : r > roundctr' => committed'[r] = 0
    <2> SUFFICES ASSUME NEW r \in Round, r > roundctr PROVE committed'[r] = 0
      BY <1>b, Zenon
    <2>1. at[c] # r
      BY <1>a, Rounds DEF OneState, Round
    <2> QED
      BY <1>a, <1>b, <1>d, <2>1 DEF Clean
  <1>2. ASSUME NEW d \in Client, pc'[d] = "stage"
        PROVE  staged'[at'[d]] = None /\ committed'[at'[d]] = 0
    <2>1. pc[d] = "stage"
      BY <1>2, <1>b DEF Own
    <2>2. at[d] = roundctr /\ staged[at[d]] = None /\ committed[at[d]] = 0
      BY <1>d, <2>1, Zenon DEF OneCommitter, Holds, Clean, LockedRoundIsClean
    <2>3. at[c] # at[d] /\ at[d] \in Round
      BY <1>a, <1>c, <2>2, Zenon
    <2> QED
      BY <1>a, <1>b, <2>2, <2>3, Zenon
  <1> QED
    BY <1>1, <1>2, Zenon DEF Clean, LockedRoundIsClean

\* c1 proposes and waits for the acks.
LEMMA ProposeOk ==
    ASSUME OneState, NEW c \in One, c = c1, PreferChange(c) \/ Trigger(c) \/ CommitRefresh(c)
    PROVE  ClientOk(c)'
  <1>a. /\ c \in Client /\ ClientOk(c) /\ pc \in [Client -> PC] /\ ctx \in [Client -> Ctx]
    BY OneFacts, Zenon DEF OneState, IInv, TypeOK
  <1>1. CASE PreferChange(c) \/ Trigger(c)
    <2>1. /\ pc[c] \in {"joined", "nomatch", "monitor"} /\ UNCHANGED <<addr, roundctr, curr_round>>
          /\ pc'[c] = "lock" /\ ctx'[c] \in {"case1", "trigger"}
      BY <1>1, <1>a, Zenon DEF PreferChange, Trigger, Goto, keys, ClientOk, Proposer, Quiet
    <2>2. curr_round[c] = roundctr /\ ~Odd(roundctr)
      BY <1>a, <2>1, Unlocked, Zenon DEF ClientOk, Proposer, Quiet
    <2> QED
      BY <2>1, <2>2, Zenon DEF ClientOk, Proposer, Current, Accepts, AckPcs
  <1>2. CASE CommitRefresh(c)
    <2>1. /\ pc[c] = "commitwait" /\ UNCHANGED <<addr, roundctr, ctx>>
          /\ pc'[c] \in {"commitwait", "final"}
      BY <1>2, <1>a, Zenon DEF CommitRefresh, Alive, Goto
    <2> QED
      BY <1>a, <2>1, Zenon DEF ClientOk, Proposer, Current, Accepts, AckPcs, Holds
  <1> QED
    BY <1>1, <1>2, Zenon

\* The first client of the group creates the connection, alone.
LEMMA CreateOne ==
    ASSUME OneState, NEW c \in One, TryInitCreate(c)
    PROVE  OneInv'
  <1>a. /\ c \in Client /\ pc \in [Client -> PC] /\ curr_round \in [Client -> Round]
    BY OneFacts, Zenon DEF OneState, IInv, TypeOK
  <1>b. roundctr = 0 /\ \A d \in Client : pc[d] = "start"
    BY Zenon DEF OneState, IInv, Untouched, TryInitCreate, Unset
  <1>c. /\ addr' = Solo[c] /\ roundctr' = 0 /\ UNCHANGED committed /\ c \in members'
        /\ pc' = [pc EXCEPT ![c] = "joined"] /\ curr_round' = [curr_round EXCEPT ![c] = 0]
    BY Zenon DEF TryInitCreate, Goto, Touch, Refreshed
  <1>d. /\ pc'[c] = "joined" /\ curr_round'[c] = 0 /\ \A d \in Client : d # c => pc'[d] = "start"
    BY <1>a, <1>b, <1>c, Zenon
  <1>e. ~Odd(roundctr')
    BY <1>c DEF Odd
  <1>1. ASSUME NEW d \in One PROVE ClientOk(d)'
    <2>1. pc'[d] = "start" \/ (d = c /\ pc'[d] = "joined" /\ curr_round'[d] = 0)
      BY <1>d, OneFacts, Zenon
    <2> QED
      BY <1>c, <1>e, <2>1 DEF ClientOk, Proposer, Follower, Current, Accepts, Quiet, AckPcs
  <1>2. Clean'
    <2>1. \A d \in Client : pc'[d] # "stage"
      BY <1>d, Zenon
    <2> QED
      BY <1>b, <1>c, <2>1, Zenon DEF OneState, OneInv, Clean, LockedRoundIsClean
  <1> QED
    BY <1>1, <1>2, <1>c, Zenon DEF OneInv

\* When the round moves on, the others know no stack in force until they poll, and what they
\* accepted is right for the round in which they accepted it.
LEMMA OthersOk ==
    ASSUME OneState, NEW c \in One, c = c1, Own(c), roundctr' = roundctr + 1,
           \A d \in One : Accepts(d) /\ d # c /\ at[d] = roundctr /\ pc[d] \in {"ack"} \cup AckPcs
                            => want[d] = addr',
           NEW d \in One, d # c
    PROVE  ClientOk(d)'
  <1>1. /\ pc'[d] = pc[d] /\ ctx'[d] = ctx[d] /\ at'[d] = at[d] /\ want'[d] = want[d]
        /\ curr_round'[d] = curr_round[d] /\ ClientOk(d)
    BY OneFacts, Zenon DEF Own
  <1>2. /\ curr_round[d] \in Nat /\ curr_round[d] <= roundctr /\ at[d] \in Nat /\ at[d] <= roundctr
        /\ roundctr \in Nat
    BY Rounds, OneFacts, Zenon DEF OneState
  <1>3. curr_round'[d] # roundctr' /\ at'[d] # roundctr'
    BY <1>1, <1>2
  <1>4. at'[d] + 1 = roundctr' => at[d] = roundctr
    BY <1>1, <1>2
  <1>5. Follower(d)'
    BY <1>1, Zenon DEF ClientOk, Follower
  <1>6. Accepts(d)'
    BY <1>1, <1>3, <1>4 DEF ClientOk, Accepts
  <1> QED
    BY <1>3, <1>5, <1>6, Zenon DEF ClientOk, Current

\* The round that c1 locks has no keys yet.
LEMMA LockOne ==
    ASSUME OneState, NEW c \in One, c = c1, LockRound(c), Own(c), members' = members
    PROVE  OneInv'
  <1>a. /\ c \in Client /\ pc \in [Client -> PC] /\ at \in [Client -> Round] /\ ClientOk(c)
        /\ IInv /\ Clean
    BY OneFacts, Zenon DEF OneState, OneInv, IInv, TypeOK
  <1>b. /\ pc[c] = "lock" /\ ~Odd(roundctr) /\ roundctr < MaxRound /\ roundctr' = roundctr + 1
        /\ pc'[c] = "stage" /\ at'[c] = roundctr + 1
        /\ UNCHANGED <<addr, staged, committed, ctx>>
    BY <1>a, Zenon DEF LockRound, Alive, RoundFree, Goto
  <1>c. roundctr \in Nat /\ MaxRound \in Nat /\ roundctr + 1 \in Round /\ roundctr + 1 > roundctr
    <2>1. roundctr \in Nat
      BY <1>a, Rounds, Zenon
    <2>2. MaxRound \in Nat
      BY ConstantsAssumption, Zenon
    <2>3. roundctr < MaxRound
      BY <1>b
    <2> QED
      BY <2>1, <2>2, <2>3 DEF Round
  <1>1. ASSUME NEW d \in One, d # c PROVE ClientOk(d)'
    <2>1. ASSUME NEW x \in One, Accepts(x), at[x] = roundctr, pc[x] \in {"ack"} \cup AckPcs
          PROVE  FALSE
      BY <1>b, <2>1 DEF Accepts
    <2> QED
      BY <1>1, <1>b, <2>1, OthersOk, Zenon
  <1>2. ClientOk(c)'
    <2>1. ctx[c] \in {"case1", "trigger"}
      BY <1>a, <1>b DEF ClientOk, Proposer
    <2> QED
      BY <1>b, <2>1, Zenon DEF ClientOk, Proposer, Current, Accepts, AckPcs, Holds
  <1>3. \A r \in Round : r > roundctr' => committed'[r] = 0
    <2> SUFFICES ASSUME NEW r \in Round, r > roundctr + 1 PROVE committed[r] = 0
      BY <1>b, Zenon
    <2>1. r > roundctr
      BY <1>c DEF Round
    <2> QED
      BY <1>a, <2>1, Zenon DEF Clean
  <1>4. LockedRoundIsClean'
    <2>1. \A d \in Client : pc'[d] = "stage" => d = c
      BY <1>a, <1>b DEF Own, IInv, OneCommitter, Holds
    <2>2. staged[roundctr + 1] = None /\ committed[roundctr + 1] = 0
      BY <1>a, <1>b, <1>c, Zenon DEF IInv, StagedIsCurrent, Clean
    <2> QED
      BY <1>b, <2>1, <2>2, Zenon DEF LockedRoundIsClean
  <1>5. addr' # None => members' # {}
    BY <1>b DEF OneState, OneInv
  <1> QED
    BY <1>1, <1>2, <1>3, <1>4, <1>5 DEF OneInv, Clean

\* c1 finds the keys absent and stages its proposal, which nobody can have accepted before.
LEMMA StageOne ==
    ASSUME OneState, NEW c \in One, c = c1, Stage(c), Own(c)
    PROVE  OneInv'
  <1>a. /\ c \in Client /\ pc \in [Client -> PC] /\ at \in [Client -> Round] /\ ClientOk(c)
        /\ staged \in [Round -> Entry \cup {None}] /\ committed \in [Round -> Nat]
        /\ IInv /\ Clean
    BY OneFacts, Zenon DEF OneState, OneInv, IInv, TypeOK
  <1>b. /\ pc[c] = "stage" /\ UNCHANGED <<addr, roundctr, at>> /\ c \in members'
        /\ staged' = [staged EXCEPT ![at[c]] = IF @ = None THEN want[c] ELSE @]
        /\ committed' = [committed EXCEPT ![at[c]] = IF @ = 0 THEN 1 ELSE @]
    BY Zenon DEF Stage, Alive, Touch, Refreshed
  <1>c. at[c] = roundctr /\ Odd(roundctr) /\ staged[at[c]] = None /\ committed[at[c]] = 0
    BY <1>a, <1>b DEF IInv, OneCommitter, Holds, Clean, LockedRoundIsClean
  <1>d. pc'[c] \in {"commitwait", "final"} /\ UNCHANGED ctx
    BY <1>a, <1>c, Zenon DEF Stage, Goto
  <1>1. ASSUME NEW d \in One, d # c PROVE ClientOk(d)'
    <2>1. /\ pc'[d] = pc[d] /\ ctx'[d] = ctx[d] /\ at'[d] = at[d] /\ want'[d] = want[d]
          /\ curr_round'[d] = curr_round[d] /\ curr_entry'[d] = curr_entry[d] /\ ClientOk(d)
      BY <1>1, OneFacts, Zenon DEF Own
    <2>2. want[d] # None
      <3>1. d \in Client /\ want \in [Client -> Entry]
        BY OneFacts, Zenon DEF OneState, IInv, TypeOK
      <3>2. None \notin Entry
        BY ConstantsAssumption
      <3> QED
        BY <3>1, <3>2
    <2>3. pc[d] \in {"ack"} \cup AckPcs => at[d] # roundctr
      BY <1>c, <2>1, <2>2, Zenon DEF ClientOk, Accepts
    <2>4. Follower(d)' /\ Current(d)'
      BY <1>1, <1>b, <2>1 DEF ClientOk, Follower, Current
    <2>5. Accepts(d)'
      BY <1>b, <2>1, <2>3, SMTT(30) DEF ClientOk, Accepts
    <2> QED
      BY <1>1, <2>4, <2>5 DEF ClientOk
  <1>2. ClientOk(c)'
    BY <1>a, <1>b, <1>d DEF ClientOk, Proposer, Current, Accepts, AckPcs, Holds
  <1>3. \A r \in Round : r > roundctr' => committed'[r] = 0
    <2> SUFFICES ASSUME NEW r \in Round, r > roundctr PROVE committed'[r] = 0
      BY <1>b
    <2>1. r # at[c]
      BY <1>a, <1>c, Rounds DEF Round
    <2> QED
      BY <1>a, <1>b, <2>1, Zenon DEF Clean
  <1>4. LockedRoundIsClean'
    <2>1. \A d \in Client : pc'[d] # "stage"
      BY <1>a, <1>b, <1>d DEF Own, IInv, OneCommitter, Holds
    <2> QED
      BY <2>1, ZenonT(30) DEF LockedRoundIsClean
  <1> QED
    BY <1>1, <1>2, <1>3, <1>4, <1>b DEF OneInv, Clean

\* c1 commits what everybody who accepted has accepted, and knows it.
LEMMA CommitOne ==
    ASSUME OneState, NEW c \in One, c = c1, Commit(c), Own(c)
    PROVE  OneInv'
  <1>a. /\ c \in Client /\ pc \in [Client -> PC] /\ curr_round \in [Client -> Round] /\ ClientOk(c)
        /\ curr_entry \in [Client -> Entry] /\ committed \in [Round -> Nat] /\ at[c] \in Round
        /\ IInv /\ Clean
    BY OneFacts DEF OneState, OneInv, IInv, TypeOK
  <1>b. /\ pc[c] = "final" /\ TransitionOk(c, roundctr + 1) /\ UNCHANGED members
        /\ committed' = [committed EXCEPT ![at[c]] = 0]
    BY Zenon DEF Commit, Alive, RoundAfterCommit
  <1>c. /\ at[c] = roundctr /\ roundctr' = roundctr + 1 /\ ~Odd(roundctr') /\ addr' = want[c]
        /\ staged[roundctr] = want[c] /\ UNCHANGED <<at, want>>
        /\ \A d \in Client : Holds(d) => d = c
        /\ ~Holds(c)'
    BY <1>a, CommitFacts
  <1>d. ctx[c] \in {"case1", "trigger"}
    BY <1>a, <1>b, Zenon DEF ClientOk, Proposer
  <1>e. /\ UNCHANGED ctx /\ curr_round'[c] = roundctr + 1
        /\ pc'[c] = IF ctx[c] = "case1" THEN "poll" ELSE "monitor"
        /\ ctx[c] = "trigger" => curr_entry'[c] = want[c]
    BY <1>a, <1>b, <1>d DEF TransitionOk, Goto
  <1>1. ASSUME NEW d \in One, d # c PROVE ClientOk(d)'
    <2>1. ASSUME NEW x \in One, Accepts(x), at[x] = roundctr, pc[x] \in {"ack"} \cup AckPcs
          PROVE  want[x] = addr'
      BY <1>c, <2>1 DEF Accepts
    <2> QED
      BY <1>1, <1>c, <2>1, OthersOk, Zenon
  <1>2. ClientOk(c)'
    BY <1>c, <1>d, <1>e, Zenon DEF ClientOk, Proposer, Current, Accepts, AckPcs, Quiet
  <1>3. \A r \in Round : r > roundctr' => committed'[r] = 0
    <2> SUFFICES ASSUME NEW r \in Round, r > roundctr + 1 PROVE committed'[r] = 0
      BY <1>c, Zenon
    <2>1. r > roundctr /\ r # at[c]
      BY <1>a, <1>c, Rounds DEF Round
    <2> QED
      BY <1>a, <1>b, <2>1 DEF Clean
  <1>4. LockedRoundIsClean'
    <2>1. \A d \in Client : pc'[d] # "stage"
      BY <1>c, Zenon DEF Own, Holds
    <2> QED
      BY <2>1 DEF LockedRoundIsClean
  <1>5. members' # {}
    <2>1. addr # None
      BY <1>a, <1>b DEF IInv, Untouched
    <2> QED
      BY <1>b, <2>1, Zenon DEF OneState, OneInv
  <1> QED
    BY <1>1, <1>2, <1>3, <1>4, <1>5 DEF OneInv, Clean

\* Every step of a client of the group keeps the group's invariant.
LEMMA StepOne ==
    ASSUME OneState, NEW c \in Client,
           Step(c) \/ (PreferChange(c) /\ c = c1) \/ (Trigger(c) /\ c = c1)
    PROVE  OneInv'
  <1>a. IInv /\ TypeOK /\ CtxOk /\ Membership /\ pc \in [Client -> PC]
    BY Zenon DEF OneState, IInv, TypeOK
  <1>o. Own(c)
    BY <1>a, StepOwn, Zenon
  <1>k. /\ c \in One
        /\ \/ TryInitCreate(c)
           \/ c # c1 /\ FollowerStep(c)
           \/ c = c1 /\ (ProposerStep(c) \/ LockRound(c) \/ Stage(c) \/ Commit(c))
    BY OneKinds
  <1>1. CASE TryInitCreate(c)
    BY <1>k, <1>1, CreateOne, Zenon
  <1>2. CASE c = c1 /\ (LockRound(c) \/ Stage(c) \/ Commit(c))
    <2>1. LockRound(c) => members' = members
      BY Zenon DEF LockRound
    <2> QED
      BY <1>k, <1>o, <1>2, <2>1, LockOne, StageOne, CommitOne
  <1>3. ASSUME PolledStep(c) \/ Apply(c) \/ (c = c1 /\ ProposerStep(c)), ClientOk(c)', Clean'
        PROVE  OneInv'
    <2>1. UNCHANGED <<addr, roundctr, staged>>
      <3>1. CASE RefreshClient(c)
        BY <3>1 DEF RefreshClient
      <3>2. CASE OtherStep(c)
        BY <1>a, <3>2, OtherIsLocal, Zenon DEF LocalStep
      <3> QED
        BY <1>3, <3>1, <3>2, Zenon DEF PolledStep, ProposerStep, Apply, OtherStep
    <2>2. members \subseteq members'
      <3>1. ~TryInitOverride(c)
        BY OneMembers, SMTT(30) DEF TryInitOverride, OtherBytes, Unset, OneState, OneInv
      <3>2. ~Leave(c)
        <4>1. want[c] \in Offers[c]
          BY <1>k, OneFacts, Zenon DEF OneState, IInv, TypeOK
        <4> QED
          BY <4>1 DEF Leave
      <3>3. /\ (members \ stale) \ {c} \subseteq members'
            /\ c \in members => c \in members' \/ TryInitOverride(c) \/ Leave(c)
        BY <1>a, StepMembers
      <3> QED
        BY <3>1, <3>2, <3>3, OneMembers
    <2> QED
      BY <1>3, <1>k, <1>o, <2>1, <2>2, OneLocal
  <1>4. CASE PolledStep(c) \/ (c = c1 /\ ProposerStep(c))
    <2>1. ClientOk(c)'
      <3>1. CASE RefreshClient(c)
        <4>1. UNCHANGED <<addr, roundctr, staged, pc, ctx, curr_entry, curr_round, want, at>>
          BY <3>1, Zenon DEF RefreshClient, local
        <4>2. ClientOk(c)
          BY <1>k, OneFacts
        <4> QED
          BY <4>1, <4>2, Zenon DEF ClientOk, Proposer, Follower, Current, Accepts, Holds
      <3> QED
        BY <1>4, <1>k, <3>1, JoinOk, PollOk, SpinOk, ProposeOk DEF PolledStep, ProposerStep
    <2>2. Clean'
      <3>1. AwayStep(c)
        BY <1>4, Zenon DEF PolledStep, ProposerStep, AwayStep, Negotiate, Poll
      <3>2. UNCHANGED committed /\ (pc'[c] = "stage" => LockRound(c))
        BY <1>a, <3>1, AwayFacts, Zenon
      <3>3. UNCHANGED <<roundctr, staged>>
        <4>1. CASE RefreshClient(c)
          BY <4>1, Zenon DEF RefreshClient
        <4>2. CASE OtherStep(c)
          BY <1>a, <4>2, OtherIsLocal, Zenon DEF LocalStep
        <4> QED
          BY <1>4, <4>1, <4>2, Zenon DEF PolledStep, ProposerStep, OtherStep
      <3>4. ~LockRound(c)
        BY <1>a, <3>3, Rounds DEF LockRound
      <3> QED
        BY <1>k, <1>o, <3>2, <3>3, <3>4, OneClean, Zenon
    <2> QED
      BY <1>3, <1>4, <2>1, <2>2, Zenon
  <1>5. CASE Apply(c)
    <2>1. ClientOk(c)' /\ c # c1
      BY <1>k, <1>5, ApplyOk, Zenon
    <2>2. CASE Ack(c)
      BY <1>k, <1>o, <1>3, <1>5, <2>1, <2>2, AckClean
    <2>3. CASE ~Ack(c)
      <3>1. UNCHANGED <<roundctr, staged, committed>>
        BY <1>5, <2>3, Zenon DEF Apply, Subscribe, RefreshTimer, RefreshCommit, DelEvent, FetchRound, keys
      <3>2. pc'[c] # "stage"
        BY <2>1, Zenon DEF ClientOk, Follower, Quiet, AckPcs
      <3>3. Clean'
        BY <1>k, <1>o, <3>1, <3>2, OneClean
      <3> QED
        BY <1>3, <1>5, <2>1, <3>3
    <2> QED
      BY <2>2, <2>3, Zenon
  <1> QED
    BY <1>k, <1>1, <1>2, <1>4, <1>5 DEF FollowerStep

-----------------------------------------------------------------------------

\* The groups do not mix: either a whole group runs, or c1 does not run.
GroupInv == dead = Client \ One \/ dead = Client \ Many \/ c1 \in dead
RoundsInv ==
    /\ IInv /\ GroupInv
    /\ OnlyOneProposes => CtxOk /\ Membership /\ DelMeansOver /\ OneInv

\* A step of a client is made by a process that runs, and ends none.
LEMMA StepDead ==
    ASSUME NEW c \in Client, Step(c) \/ PreferChange(c) \/ Trigger(c)
    PROVE  c \notin dead /\ UNCHANGED dead
  <1>1. CASE Negotiate(c)
    BY <1>1, Zenon DEF Negotiate, TryInitCreate, TryInitMatch, TryInitNoMatch, TryInitOverride,
                AcceptExisting, Leave, KeepOwn, Alive
  <1>2. CASE Poll(c)
    BY <1>2, Zenon DEF Poll, PollMatched, PollChanged, PollNewRound, SpinStaged, RefreshClient, Polling,
                Alive, local
  <1>3. CASE Transition(c)
    BY <1>3, Zenon DEF Transition, LockRound, ConvertToApplier, Stage, CommitRefresh, Commit,
                AwaitCounter, AwaitCounterAgain, Alive
  <1>4. CASE Apply(c)
    BY <1>4, Zenon DEF Apply, Ack, Subscribe, RefreshTimer, RefreshCommit, DelEvent, FetchRound, Alive
  <1>5. CASE PreferChange(c) \/ Trigger(c)
    BY <1>5, Zenon DEF PreferChange, Trigger
  <1> QED
    BY <1>1, <1>2, <1>3, <1>4, <1>5 DEF Step

\* Every step of the groups keeps the invariant.
LEMMA RoundsStep == RoundsInv /\ [NextRounds]_vars => RoundsInv'
  <1> SUFFICES ASSUME RoundsInv, [NextRounds]_vars PROVE RoundsInv'
    BY Zenon
  <1>a. /\ IInv /\ GroupInv /\ dead \subseteq Client
        /\ OnlyOneProposes => CtxOk /\ Membership /\ DelMeansOver /\ OneInv
    BY Zenon DEF RoundsInv, IInv, TypeOK
  <1>b. /\ One \subseteq Client /\ Many \subseteq Client /\ Crashing \subseteq Client
        /\ c1 \in One /\ c3 \notin One /\ One # Many
        /\ Crashing \cap One = {} /\ Crashing \cap Many = {} /\ MayStall \subseteq Crashing
    BY GroupsAssumption, Zenon
  <1>1. IInv'
    <2>1. [Next]_vars
      BY <1>b, Zenon DEF NextRounds, Next, LoseJoinlock
    <2> QED
      BY <1>a, <2>1, StepIInv, Zenon
  <1>2. ASSUME UNCHANGED dead,
               dead = Client \ One => CtxOk' /\ Membership' /\ DelMeansOver' /\ OneInv'
        PROVE  RoundsInv'
    BY <1>1, <1>2, <1>a, Zenon DEF RoundsInv, GroupInv, OnlyOneProposes
  <1>3. ASSUME NEW c \in Client, Step(c) \/ PreferChange(c) \/ Trigger(c),
               Step(c) \/ c \in Crashing \cup {c1, c3}
        PROVE  RoundsInv'
    <2>1. c \notin dead /\ UNCHANGED dead
      BY <1>3, StepDead, Zenon
    <2>2. ASSUME dead = Client \ One PROVE CtxOk' /\ Membership' /\ DelMeansOver' /\ OneInv'
      <3>1. OneState /\ TypeOK
        BY <1>a, <2>2, Zenon DEF OneState, OnlyOneProposes, IInv
      <3>2. Step(c) \/ (PreferChange(c) /\ c = c1) \/ (Trigger(c) /\ c = c1)
        BY <1>3, <1>b, <2>1, <2>2
      <3>3. CtxOk' /\ Membership' /\ DelMeansOver'
        BY <1>3, <3>1, StepCtx, StepMembership, StepDel DEF OneState
      <3> QED
        BY <3>1, <3>2, <3>3, StepOne, Zenon
    <2> QED
      BY <1>2, <2>1, <2>2, Zenon
  <1>4. ASSUME NEW c \in Crashing, Stop(c) PROVE RoundsInv'
    <2>1. c \notin dead /\ dead' = dead \cup {c}
      BY <1>4, Zenon DEF Stop
    <2>2. c1 \in dead
      BY <1>a, <1>b, <2>1 DEF GroupInv
    <2> QED
      BY <1>1, <1>b, <2>1, <2>2 DEF RoundsInv, GroupInv, OnlyOneProposes
  <1>5. ASSUME UNCHANGED <<addr, roundctr, members, stale, staged, committed, local>>
        PROVE  RoundsInv'
    <2>1. UNCHANGED <<pc, ctx, curr_entry, curr_round, want, at, del, dead>>
      BY <1>5, Zenon DEF local
    <2>2. CtxOk => CtxOk'
      BY <2>1, Zenon DEF CtxOk
    <2>3. Membership => Membership'
      BY <1>5, <2>1 DEF Membership
    <2>4. DelMeansOver => DelMeansOver'
      BY <1>5, <2>1, ZenonT(30) DEF DelMeansOver
    <2>5. OneInv => OneInv'
      BY <1>5, <2>1 DEF OneInv, ClientOk, Proposer, Follower, Current, Accepts, Holds, Clean,
                        LockedRoundIsClean
    <2> QED
      BY <1>a, <1>2, <2>1, <2>2, <2>3, <2>4, <2>5 DEF OnlyOneProposes
  <1>6. ASSUME NEW c \in Client, Expire(c) PROVE RoundsInv'
    <2>1. UNCHANGED dead /\ c \in members /\ (c \in dead \/ pc[c] = "failed" \/ c \in MayStall)
      BY <1>6, Zenon DEF Expire, local
    <2>2. dead # Client \ One
      <3> SUFFICES ASSUME dead = Client \ One PROVE FALSE
        BY Zenon
      <3>1. OneState
        BY <1>a, Zenon DEF OneState, OnlyOneProposes
      <3>2. c \in dead
        BY <1>b, <2>1, <3>1, OneMembers, Zenon
      <3> QED
        BY <2>1, <3>1, <3>2, Zenon DEF OneState, Membership
    <2> QED
      BY <1>2, <2>1, <2>2, Zenon
  <1> QED
    BY <1>b, <1>3, <1>4, <1>5, <1>6 DEF NextRounds, LoseJoinlock, JoinlockExpire, vars, local

\* The invariant of the groups holds in every reachable state.
THEOREM RoundsInvariance == SpecRounds => []RoundsInv
  <1>1. InitRounds => RoundsInv
    <2> SUFFICES ASSUME InitRounds PROVE RoundsInv
      BY Zenon
    <2>1. /\ \A c \in Client : pc[c] = "start"
          /\ addr = None /\ roundctr = 0 /\ members = {} /\ stale = {}
          /\ \A r \in Round : committed[r] = 0
      BY Zenon DEF InitRounds, Fresh
    <2>2. IInv
      <3>1. Fresh /\ dead \subseteq Client
        BY Zenon DEF InitRounds
      <3> QED
        BY <3>1, InitIInv, Zenon
    <2>3. GroupInv
      BY GroupsAssumption, Zenon DEF InitRounds, GroupInv
    <2>4. CtxOk /\ DelMeansOver
      BY <2>1, Zenon DEF CtxOk, DelMeansOver
    <2>5. dead = Client \ One => Membership
      BY <2>1, GroupsAssumption DEF Membership, AckPcs
    <2>6. OneInv
      <3>1. ~Odd(roundctr)
        BY <2>1 DEF Odd
      <3>2. \A c \in One : pc[c] = "start"
        BY <2>1, GroupsAssumption, ZenonT(30)
      <3>3. \A c \in One : ClientOk(c)
        BY <3>1, <3>2, ZenonT(30) DEF ClientOk, Proposer, Follower, Current, Accepts, Quiet, AckPcs
      <3> QED
        BY <2>1, <3>3, Zenon DEF OneInv, Clean, LockedRoundIsClean
    <2> QED
      BY <2>2, <2>3, <2>4, <2>5, <2>6, Zenon DEF RoundsInv, OnlyOneProposes
  <1> QED
    BY <1>1, RoundsStep, PTL DEF SpecRounds

\* With one proposer, and whatever the interleaving of joins, polls, acks and transitions, a
\* client that knows the store's even round holds the stack in force.
THEOREM OneProposerAgreement == SpecRounds => []OneProposerAgrees
  <1>1. RoundsInv => OneProposerAgrees
    <2> SUFFICES ASSUME RoundsInv, dead = Client \ One, NEW c \in Client, pc[c] = "monitor",
                        curr_round[c] = roundctr
                 PROVE  curr_entry[c] = addr
      BY Zenon DEF OneProposerAgrees, OnlyOneProposes, EntryAgreement
    <2>1. OneState
      BY DEF RoundsInv, OneState, OnlyOneProposes
    <2>2. c \in One
      BY <2>1, Zenon DEF OneState, Membership
    <2> QED
      BY <2>1, <2>2, OneFacts, Zenon DEF ClientOk, Current
  <1> QED
    BY <1>1, RoundsInvariance, PTL

\* With one proposer, the assertion that a locked round has no keys yet never fails, although
\* late acks write the counters of rounds that are over.
THEOREM OneProposerLocksClean == SpecRounds => []OneProposerClean
  <1>1. RoundsInv => OneProposerClean
    BY Zenon DEF RoundsInv, OneInv, Clean, OneProposerClean
  <1> QED
    BY <1>1, RoundsInvariance, PTL

=============================================================================
