------------------------------ MODULE Rendezvous ------------------------------
(***************************************************************************)
(* Rendezvous negotiation of one connection address over Redis.            *)
(*                                                                         *)
(* The store side is RedisBase (redis-basechunnel: lib.rs and its three    *)
(* Lua scripts); the client side is negotiate_rendezvous followed by the   *)
(* monitor task of StackUpgradeHandle (bertha: negotiate/rendezvous.rs).   *)
(* A Lua script or a MULTI/EXEC pipeline is one step; everything between   *)
(* two Redis calls is local and is folded into the call before it.         *)
(*                                                                         *)
(* A stack is a member of Entry.  The stacks a client can apply are        *)
(* Offers[c]; Solo[c] is the one solo_monomorphize picks.                  *)
(***************************************************************************)
EXTENDS Integers, FiniteSets

CONSTANTS
    Client,     \* client names; a restarted process has a fresh rand_name()
    Entry,      \* RendezvousEntry values
    None,       \* an absent key
    Solo,       \* Solo[c]: the stack c proposes in try_init
    Offers,     \* Offers[c]: the stacks c can apply
    Composite,  \* the stacks of two or more chunnels
    MayStall,   \* clients whose refresh may come later than liveness_timeout
    MaxRound    \* bound: no transition starts at or after this round

ASSUME ConstantsAssumption ==
    /\ IsFiniteSet(Client) /\ None \notin Entry /\ None \notin Client
    /\ Offers \in [Client -> SUBSET Entry]
    /\ \A c \in Client : Solo[c] \in Offers[c]
    /\ Solo \in [Client -> Entry]
    /\ MayStall \subseteq Client /\ Composite \subseteq Entry
    /\ MaxRound \in Nat /\ MaxRound % 2 = 0

VARIABLES
    (* Redis keys *)
    addr,        \* the semantics in force
    roundctr,    \* round counter; odd while a transition is in progress
    members,     \* the -members sorted set
    stale,       \* those members whose score is older than liveness_timeout
    joinlock,    \* holder recorded in -joinlock
    staged,      \* -<round>-staged, per round
    committed,   \* -<round>-committed-cnt, per round; 0 is an absent key
    (* client-local state *)
    pc,          \* the Redis call (or select) the client is at
    ctx,         \* what the call in progress returns to
    curr_entry, curr_round,   \* the fields of StackUpgradeHandle
    want,        \* the stack being proposed, applied or considered
    at,          \* the round the call in progress works on
    del,         \* a "del" event for the awaited counter is queued
    dead         \* processes that have exited or crashed

keys  == <<addr, roundctr, members, stale, joinlock, staged, committed>>
local == <<pc, ctx, curr_entry, curr_round, want, at, del, dead>>
vars  == <<addr, roundctr, members, stale, joinlock, staged, committed,
           pc, ctx, curr_entry, curr_round, want, at, del, dead>>

Round == 0 .. MaxRound
Odd(r) == r % 2 = 1

PC == {"start", "joined", "nomatch", "poll", "spin", "ack", "subscribe", "apply",
       "refresh", "fetch", "lock", "stage", "commitwait", "final", "convert",
       "reconvert", "monitor", "failed"}
Ctx == {"init", "case1", "case2", "notify", "retry", "trigger", "back", "backRetry"}

\* Nobody has connected.
Fresh ==
    /\ addr = None /\ roundctr = 0 /\ members = {} /\ stale = {} /\ joinlock = None
    /\ staged = [r \in Round |-> None]
    /\ committed = [r \in Round |-> 0]
    /\ pc = [c \in Client |-> "start"]
    /\ ctx = [c \in Client |-> "init"]
    /\ curr_entry = Solo
    /\ curr_round = [c \in Client |-> 0]
    /\ want = Solo
    /\ at = [c \in Client |-> 0]
    /\ del = [c \in Client |-> FALSE]

Init == Fresh /\ dead = {}

-----------------------------------------------------------------------------
(* Steps shared by the Redis calls *)

Alive(c, p) == c \notin dead /\ pc[c] = p

Goto(c, p) == pc' = [pc EXCEPT ![c] = p]

\* zremrangebyscore, then zadd of the caller: what zcard counts afterwards.
Refreshed(c) == (members \ stale) \cup {c}
Touch(c) == members' = Refreshed(c) /\ stale' = {}

\* The scripts delete the join lock when the caller holds it.
ReleaseOwnJoinlock(c) == joinlock' = IF joinlock = c THEN None ELSE joinlock

\* transition() returned round r to its caller.
TransitionOk(c, r) ==
    /\ Goto(c, CASE ctx[c] = "init"  -> "joined"
                 [] ctx[c] = "case1" -> "poll"
                 [] OTHER            -> "monitor")
    /\ curr_round' = IF ctx[c] = "init" THEN curr_round
                                        ELSE [curr_round EXCEPT ![c] = r]
    /\ curr_entry' = IF ctx[c] = "trigger" THEN [curr_entry EXCEPT ![c] = want[c]]
                                           ELSE curr_entry
    /\ UNCHANGED ctx

\* transition() returned an error to its caller: negotiation and an error out of
\* handle_notify end the client; a failed local trigger polls the entry again.
TransitionErr(c) ==
    /\ Goto(c, CASE ctx[c] = "trigger"   -> "poll"
                 [] ctx[c] = "backRetry" -> "monitor"
                 [] OTHER                -> "failed")
    /\ ctx' = IF ctx[c] = "trigger" THEN [ctx EXCEPT ![c] = "retry"] ELSE ctx
    /\ UNCHANGED <<curr_entry, curr_round>>

\* poll_entry returned NoMatch{e, r} in context k.
NoMatch(c, k, e, r) ==
    CASE k \in {"notify", "retry"} ->
            /\ curr_round' = [curr_round EXCEPT ![c] = r]
            /\ at' = [at EXCEPT ![c] = r]
            /\ IF e \in Offers[c]
               THEN /\ Goto(c, "ack")
                    /\ want' = [want EXCEPT ![c] = e]
                    /\ ctx' = [ctx EXCEPT ![c] = k]
               ELSE /\ Goto(c, "lock")
                    /\ want' = [want EXCEPT ![c] = curr_entry[c]]
                    /\ ctx' = [ctx EXCEPT ![c] = IF k = "notify" THEN "back" ELSE "backRetry"]
            /\ UNCHANGED curr_entry
      [] k = "case1" ->
            /\ Goto(c, IF e \in Offers[c] THEN "monitor" ELSE "failed")
            /\ curr_entry' = [curr_entry EXCEPT ![c] = want[c]]
            /\ UNCHANGED <<curr_round, at, want, ctx>>
      [] OTHER ->
            /\ Goto(c, "monitor")
            /\ UNCHANGED <<curr_entry, curr_round, at, want, ctx>>

-----------------------------------------------------------------------------
(* negotiate_rendezvous: try_init *)

\* setnx finds no semantics at addr.
UnsetIgnored == TRUE
Unset == addr = None

\* setnx succeeded: the client creates the connection.
TryInitCreate(c) ==
    /\ Alive(c, "start") /\ Unset
    /\ addr' = Solo[c]
    /\ roundctr' = 0
    /\ Touch(c)
    /\ curr_round' = [curr_round EXCEPT ![c] = 0]
    /\ Goto(c, "joined")
    /\ UNCHANGED <<joinlock, staged, committed, ctx, curr_entry, want, at, del, dead>>

\* tryinit.lua compares serialized stacks.  A stack is a HashMap, serialized in its
\* iteration order, so that equal stacks of several chunnels may differ as bytes.
SameBytes(c) == addr = Solo[c]
OtherBytes(c) == ~Unset /\ (addr # Solo[c] \/ addr \in Composite)

\* The semantics in force are the proposed ones: join.
TryInitMatch(c) ==
    /\ Alive(c, "start") /\ SameBytes(c)
    /\ Touch(c)
    /\ curr_round' = [curr_round EXCEPT ![c] = roundctr]
    /\ Goto(c, "joined")
    /\ UNCHANGED <<addr, roundctr, joinlock, staged, committed, ctx, curr_entry, want,
                   at, del, dead>>

\* SET NX on the join lock.  A refused SET replies nil, which Redis hands to Lua as
\* false, so the script's comparison with nil fails and it returns 1 either way.
TakeJoinlock(c) == joinlock' = IF joinlock = None THEN c ELSE joinlock

\* Other semantics are in force and somebody is in the connection: do not join.
TryInitNoMatch(c) ==
    /\ Alive(c, "start") /\ OtherBytes(c)
    /\ members \ stale # {}
    /\ members' = members \ stale /\ stale' = {}
    /\ TakeJoinlock(c)
    /\ curr_round' = [curr_round EXCEPT ![c] = roundctr]
    /\ want' = [want EXCEPT ![c] = addr]
    /\ Goto(c, "nomatch")
    /\ UNCHANGED <<addr, roundctr, staged, committed, ctx, curr_entry, at, del, dead>>

\* Other semantics are in force but nobody is in the connection: override them.
TryInitOverride(c) ==
    /\ Alive(c, "start") /\ OtherBytes(c)
    /\ members \ stale = {}
    /\ members' = {} /\ stale' = {}
    /\ TakeJoinlock(c)
    /\ curr_round' = [curr_round EXCEPT ![c] = roundctr]
    /\ want' = [want EXCEPT ![c] = Solo[c]]
    /\ ctx' = [ctx EXCEPT ![c] = "init"]
    /\ Goto(c, "lock")
    /\ UNCHANGED <<addr, roundctr, staged, committed, curr_entry, at, del, dead>>

\* The joinlock key expires (EX 3).
JoinlockExpire ==
    /\ joinlock # None
    /\ joinlock' = None
    /\ UNCHANGED <<addr, roundctr, members, stale, staged, committed, local>>

-----------------------------------------------------------------------------
(* negotiate_rendezvous: the three cases after try_init *)

\* Case 1: the caller's policy prefers another of its stacks.
PreferChange(c) ==
    /\ c \notin dead /\ pc[c] \in {"joined", "nomatch"}
    /\ \E e \in Offers[c] \ {Solo[c]} : want' = [want EXCEPT ![c] = e]
    /\ ctx' = [ctx EXCEPT ![c] = "case1"]
    /\ Goto(c, "lock")
    /\ UNCHANGED <<keys, curr_entry, curr_round, at, del, dead>>

\* Case 2: apply the stack found in force, then join through poll_entry.
AcceptExisting(c) ==
    /\ Alive(c, "nomatch") /\ want[c] \in Offers[c]
    /\ curr_entry' = [curr_entry EXCEPT ![c] = want[c]]
    /\ ctx' = [ctx EXCEPT ![c] = "case2"]
    /\ Goto(c, "poll")
    /\ UNCHANGED <<keys, curr_round, want, at, del, dead>>

\* Case 2, incompatible: leave().  It compares the lock's value, a client name, with
\* the address, so it takes the zrem branch and the lock stays.
Leave(c) ==
    /\ Alive(c, "nomatch") /\ want[c] \notin Offers[c]
    /\ members' = members \ {c} /\ stale' = stale \ {c}
    /\ Goto(c, "failed")
    /\ UNCHANGED <<addr, roundctr, joinlock, staged, committed, ctx, curr_entry,
                   curr_round, want, at, del, dead>>

\* Case 3: the client's own stack is in force.
KeepOwn(c) ==
    /\ Alive(c, "joined")
    /\ curr_entry' = [curr_entry EXCEPT ![c] = Solo[c]]
    /\ Goto(c, "monitor")
    /\ UNCHANGED <<keys, ctx, curr_round, want, at, del, dead>>

-----------------------------------------------------------------------------
(* poll_entry, called by negotiation, by notify() and after a failed trigger *)

Polling(c) == c \notin dead /\ pc[c] \in {"poll", "monitor"}
PollCtx(c) == IF pc[c] = "monitor" THEN "notify" ELSE ctx[c]

\* Negotiation case 1 polls with the default entry, which equals no stack.
EntryMatches(c) == PollCtx(c) # "case1" /\ addr = curr_entry[c]

\* Same round, same semantics.
PollMatched(c) ==
    /\ Polling(c) /\ roundctr = curr_round[c] /\ EntryMatches(c)
    /\ Touch(c) /\ ReleaseOwnJoinlock(c)
    /\ Goto(c, "monitor")
    /\ UNCHANGED <<addr, roundctr, staged, committed, ctx, curr_entry, curr_round, want,
                   at, del, dead>>

\* Same round, other semantics.
PollChanged(c) ==
    /\ Polling(c) /\ roundctr = curr_round[c] /\ ~EntryMatches(c)
    /\ Touch(c) /\ ReleaseOwnJoinlock(c)
    /\ NoMatch(c, PollCtx(c), addr, roundctr)
    /\ UNCHANGED <<addr, roundctr, staged, committed, del, dead>>

\* A later round: go on to read its staged key.  (An earlier one is an error.)
PollNewRound(c) ==
    /\ Polling(c) /\ roundctr # curr_round[c]
    /\ Touch(c) /\ ReleaseOwnJoinlock(c)
    /\ Goto(c, IF roundctr > curr_round[c] THEN "spin"
               ELSE IF PollCtx(c) = "retry" THEN "monitor" ELSE "failed")
    /\ at' = [at EXCEPT ![c] = roundctr]
    /\ ctx' = [ctx EXCEPT ![c] = PollCtx(c)]
    /\ UNCHANGED <<addr, roundctr, staged, committed, curr_entry, curr_round, want, del,
                   dead>>

\* notify's refresh timer: keep the membership alive, look at the round and the count.
RefreshClient(c) ==
    /\ Alive(c, "monitor")
    /\ Touch(c)
    /\ UNCHANGED <<addr, roundctr, joinlock, staged, committed, local>>

\* The key the loop of poll_entry reads.
StagedEntryFromAddr(c) == addr
StagedEntry(c) == staged[at[c]]

\* One iteration of the loop on the staged key of the round seen.
SpinStaged(c) ==
    /\ Alive(c, "spin")
    /\ Touch(c)
    /\ \/ /\ StagedEntry(c) # None
          /\ NoMatch(c, ctx[c], StagedEntry(c), at[c])
       \/ /\ StagedEntry(c) = None
          /\ UNCHANGED <<pc, ctx, curr_entry, curr_round, want, at>>
    /\ UNCHANGED <<addr, roundctr, joinlock, staged, committed, del, dead>>

-----------------------------------------------------------------------------
(* transition *)

\* A local trigger wins the monitor's select; the notify future is dropped.
Trigger(c) ==
    /\ c \notin dead
    /\ pc[c] = "monitor" \/ (pc[c] = "spin" /\ ctx[c] = "notify")
    /\ \E e \in Offers[c] : want' = [want EXCEPT ![c] = e]
    /\ ctx' = [ctx EXCEPT ![c] = "trigger"]
    /\ Goto(c, "lock")
    /\ UNCHANGED <<keys, curr_entry, curr_round, at, del, dead>>

\* No transition is in progress.
RoundFreeUnchecked == TRUE
RoundFree == ~Odd(roundctr)

\* transition.lua on an even round: the caller becomes the committer.
LockRound(c) ==
    /\ Alive(c, "lock") /\ RoundFree
    /\ roundctr < MaxRound
    /\ roundctr' = roundctr + 1
    /\ ReleaseOwnJoinlock(c)
    /\ at' = [at EXCEPT ![c] = roundctr + 1]
    /\ Goto(c, "stage")
    /\ UNCHANGED <<addr, members, stale, staged, committed, ctx, curr_entry, curr_round,
                   want, del, dead>>

\* transition.lua on an odd round: the caller converts to an applier.
ConvertToApplier(c) ==
    /\ Alive(c, "lock") /\ ~RoundFree
    /\ ReleaseOwnJoinlock(c)
    /\ at' = [at EXCEPT ![c] = roundctr]
    /\ Goto(c, "convert")
    /\ UNCHANGED <<addr, roundctr, members, stale, staged, committed, ctx, curr_entry,
                   curr_round, want, del, dead>>

\* set_nx of the staged value and of the counter; both must have been absent.
Stage(c) ==
    LET r == at[c]
        clean == staged[r] = None /\ committed[r] = 0
    IN
    /\ Alive(c, "stage")
    /\ Touch(c)
    /\ staged' = [staged EXCEPT ![r] = IF @ = None THEN want[c] ELSE @]
    /\ committed' = [committed EXCEPT ![r] = IF @ = 0 THEN 1 ELSE @]
    /\ \/ /\ clean
          /\ Goto(c, IF Cardinality(Refreshed(c)) > 1 THEN "commitwait" ELSE "final")
          /\ UNCHANGED <<ctx, curr_entry, curr_round>>
       \/ /\ ~clean
          /\ TransitionErr(c)
    /\ UNCHANGED <<addr, roundctr, joinlock, want, at, del, dead>>

\* As many acks, the committer's included, as unexpired participants.
EnoughAcksButOne(c) == committed[at[c]] + 1 = Cardinality(Refreshed(c))
EnoughAcks(c) == committed[at[c]] = Cardinality(Refreshed(c))

\* wait_committer: its subscription pattern carries the event name and matches no
\* channel, so it looks at the counter on its refresh timer only.
CommitRefresh(c) ==
    /\ Alive(c, "commitwait") /\ committed[at[c]] # 0
    /\ Touch(c)
    /\ IF EnoughAcks(c) THEN Goto(c, "final") ELSE UNCHANGED pc
    /\ UNCHANGED <<addr, roundctr, joinlock, staged, committed, ctx, curr_entry,
                   curr_round, want, at, del, dead>>

\* What the commit pipeline leaves in addr, in the staged keys and in the round counter.
CommittedEntryOld(c) == curr_entry[c]
CommittedEntry(c) == want[c]
StagedKept(c) == staged
StagedAfterCommit(c) == [staged EXCEPT ![at[c]] = None]
RoundUnlockedByDecr == roundctr - 1
RoundAfterCommit == roundctr + 1

\* The commit pipeline: write addr, delete the staging keys, make the round even.
\* Deleting the counter publishes "del" to the appliers subscribed to it.
Commit(c) ==
    /\ Alive(c, "final")
    /\ addr' = CommittedEntry(c)
    /\ staged' = StagedAfterCommit(c)
    /\ committed' = [committed EXCEPT ![at[c]] = 0]
    /\ roundctr' = RoundAfterCommit
    /\ del' = [d \in Client |-> del[d] \/ (pc[d] \in {"apply", "refresh"} /\ at[d] = at[c])]
    /\ TransitionOk(c, RoundAfterCommit)
    /\ UNCHANGED <<members, stale, joinlock, want, at, dead>>

\* A converted client waits for the counter, without incrementing it.
AwaitCounter(c) ==
    /\ Alive(c, "convert")
    /\ Touch(c)
    /\ \/ /\ committed[at[c]] # 0 /\ Cardinality(Refreshed(c)) > 1
          /\ Goto(c, "subscribe")
          /\ UNCHANGED <<ctx, curr_entry, curr_round>>
       \/ /\ committed[at[c]] # 0 /\ Cardinality(Refreshed(c)) = 1
          /\ TransitionErr(c)
       \/ /\ committed[at[c]] = 0
          /\ Goto(c, "reconvert")
          /\ UNCHANGED <<ctx, curr_entry, curr_round>>
    /\ UNCHANGED <<addr, roundctr, joinlock, staged, committed, want, at, del, dead>>

\* The second iteration re-sends the first one's commands with its own, so the reply
\* has eight parts where four are expected: the call fails.
AwaitCounterAgain(c) ==
    /\ Alive(c, "reconvert")
    /\ Touch(c)
    /\ TransitionErr(c)
    /\ UNCHANGED <<addr, roundctr, joinlock, staged, committed, want, at, del, dead>>

-----------------------------------------------------------------------------
(* staged_update and wait_applier *)

\* INCR of the counter; an absent counter becomes 1.
AckNotCounted(c) == committed
AckDecremented(c) == [committed EXCEPT ![at[c]] = @ - 1]
AckCounted(c) == [committed EXCEPT ![at[c]] = @ + 1]

Ack(c) ==
    /\ Alive(c, "ack")
    /\ Touch(c)
    /\ committed' = AckCounted(c)
    /\ Goto(c, "subscribe")
    /\ UNCHANGED <<addr, roundctr, joinlock, staged, ctx, curr_entry, curr_round, want, at,
                   del, dead>>

\* Events published before the subscription are not seen.
Subscribe(c) ==
    /\ Alive(c, "subscribe")
    /\ del' = [del EXCEPT ![c] = FALSE]
    /\ Goto(c, "apply")
    /\ UNCHANGED <<keys, ctx, curr_entry, curr_round, want, at, dead>>

RefreshTimer(c) ==
    /\ Alive(c, "apply")
    /\ Goto(c, "refresh")
    /\ UNCHANGED <<keys, ctx, curr_entry, curr_round, want, at, del, dead>>

\* refresh_commit loops until the counter exists.
RefreshCommit(c) ==
    /\ Alive(c, "refresh")
    /\ Touch(c)
    /\ Goto(c, IF committed[at[c]] # 0 THEN "apply" ELSE "refresh")
    /\ UNCHANGED <<addr, roundctr, joinlock, staged, committed, ctx, curr_entry,
                   curr_round, want, at, del, dead>>

DelEvent(c) ==
    /\ Alive(c, "apply") /\ del[c]
    /\ del' = [del EXCEPT ![c] = FALSE]
    /\ Goto(c, "fetch")
    /\ UNCHANGED <<keys, ctx, curr_entry, curr_round, want, at, dead>>

\* Fetch the new round and return it: to handle_notify's staged_update branch, which
\* adopts the stack unless yet another round has begun, or to transition()'s caller.
FetchRound(c) ==
    /\ Alive(c, "fetch")
    /\ Touch(c)
    /\ \/ /\ ctx[c] \in {"notify", "retry"}
          /\ Goto(c, "monitor")
          /\ IF roundctr > curr_round[c] + 1
             THEN UNCHANGED <<curr_round, curr_entry>>
             ELSE /\ curr_round' = [curr_round EXCEPT ![c] = roundctr]
                  /\ curr_entry' = [curr_entry EXCEPT ![c] = want[c]]
          /\ UNCHANGED ctx
       \/ /\ ctx[c] \notin {"notify", "retry"}
          /\ TransitionOk(c, roundctr)
    /\ UNCHANGED <<addr, roundctr, joinlock, staged, committed, want, at, del, dead>>

-----------------------------------------------------------------------------
(* The environment *)

\* The process crashes, or the application drops the connection: the monitor returns
\* without calling leave(), and the membership is left to expire.
Stop(c) ==
    /\ c \notin dead /\ pc[c] \notin {"start", "failed"}
    /\ dead' = dead \cup {c}
    /\ UNCHANGED <<keys, pc, ctx, curr_entry, curr_round, want, at, del>>

\* A member's score falls behind liveness_timeout.
Expire(c) ==
    /\ c \in members \ stale
    /\ c \in dead \/ pc[c] = "failed" \/ c \in MayStall
    /\ stale' = stale \cup {c}
    /\ UNCHANGED <<addr, roundctr, members, joinlock, staged, committed, local>>

Negotiate(c) ==
    \/ TryInitCreate(c) \/ TryInitMatch(c) \/ TryInitNoMatch(c) \/ TryInitOverride(c)
    \/ AcceptExisting(c) \/ Leave(c) \/ KeepOwn(c)
Poll(c) == PollMatched(c) \/ PollChanged(c) \/ PollNewRound(c) \/ SpinStaged(c) \/ RefreshClient(c)
Transition(c) ==
    \/ LockRound(c) \/ ConvertToApplier(c) \/ Stage(c) \/ CommitRefresh(c) \/ Commit(c)
    \/ AwaitCounter(c) \/ AwaitCounterAgain(c)
Apply(c) ==
    Ack(c) \/ Subscribe(c) \/ RefreshTimer(c) \/ RefreshCommit(c) \/ DelEvent(c) \/ FetchRound(c)

Step(c) == Negotiate(c) \/ Poll(c) \/ Transition(c) \/ Apply(c)

Next ==
    \/ \E c \in Client : Step(c) \/ PreferChange(c) \/ Trigger(c) \/ Stop(c) \/ Expire(c)
    \/ JoinlockExpire

Spec == Init /\ [][Next]_vars
-----------------------------------------------------------------------------
(* Properties *)

TypeOK ==
    /\ addr \in Entry \cup {None} /\ roundctr \in Round
    /\ members \subseteq Client /\ stale \subseteq members
    /\ joinlock \in Client \cup {None}
    /\ staged \in [Round -> Entry \cup {None}]
    /\ committed \in [Round -> Nat]
    /\ pc \in [Client -> PC] /\ ctx \in [Client -> Ctx]
    /\ curr_entry \in [Client -> Entry] /\ want \in [Client -> Entry]
    /\ curr_round \in [Client -> Round] /\ at \in [Client -> Round]
    /\ del \in [Client -> BOOLEAN]
    /\ dead \subseteq Client

\* c took the round lock in transition.lua and has not yet written the commit.
Holds(c) == pc[c] \in {"stage", "commitwait", "final"}

\* The round counter works as a lock: at most one client, counting the ones that died
\* in the middle of a transition, is between transition.lua and its commit pipeline,
\* and the round it locked is the store's current, odd round.
OneCommitter ==
    /\ \A c, d \in Client : Holds(c) /\ Holds(d) => c = d
    /\ \A c \in Client : Holds(c) => Odd(roundctr) /\ at[c] = roundctr

\* A staged value exists only for the transition in progress, and a committer past its
\* set_nx finds there the stack it proposed, whoever else polled, acked or crashed.
StagedIsCurrent ==
    /\ \A r \in Round : staged[r] # None => Odd(r) /\ r = roundctr
    /\ \A c \in Client : pc[c] \in {"commitwait", "final"} => staged[at[c]] = want[c]

\* The error "round_ctr ticked backwards" of poll_entry is never raised: no client is
\* ahead of the store's round counter.
NoBackwardRound ==
    \A c \in Client : curr_round[c] <= roundctr /\ at[c] <= roundctr

\* The semantics in force change only when a transition commits, to the value every
\* client could read under the staged key, and the step makes the round even.
CommitIsStaged ==
    [][addr' # addr => \/ addr = None
                       \/ /\ Odd(roundctr) /\ roundctr' = roundctr + 1
                          /\ addr' = staged[roundctr]]_vars

\* Seen through addr, the round counter and the current staged key, the clients and the
\* store implement the exclusive transitions of SharedStack.
Abstract == INSTANCE SharedStack WITH
    Stack <- Entry, NoStack <- None, value <- addr, round <- roundctr,
    proposal <- staged[roundctr]
ImplementsSharedStack == Abstract!Spec

Acked(d, r) ==
    /\ pc[d] \in {"subscribe", "apply", "refresh", "fetch"}
    /\ ctx[d] \in {"notify", "retry"} /\ at[d] = r

\* When wait_committer decides that it has enough acks, every other unexpired
\* participant has accepted the stack with staged_update.
EveryParticipantAcked ==
    [][\A c \in Client : pc[c] # "final" /\ pc'[c] = "final" =>
          \A d \in members' \ {c} : Acked(d, at[c])]_vars

\* The assertion "Locked commit but staged values already present" never fails: the
\* keys of a freshly locked round do not exist before its committer writes them.
LockedRoundIsClean ==
    \A c \in Client : pc[c] = "stage" => staged[at[c]] = None /\ committed[at[c]] = 0

\* A client that believes itself up to date, in an even round, holds the semantics in
\* force in the store.
EntryAgreement ==
    \A c \in Client :
        pc[c] = "monitor" /\ curr_round[c] = roundctr /\ ~Odd(roundctr)
            => curr_entry[c] = addr

-----------------------------------------------------------------------------
\* Environments in which the protocol is to make progress.  Everybody is in the connection:
Settled == \A c \in Client : pc[c] \notin {"start", "joined", "nomatch", "poll"}

\* p alone asks for other stacks, when everybody is in the connection and idle.
QuietTrigger(p) == Trigger(p) /\ \A c \in Client : pc[c] = "monitor"

\* A participant other than p exits before it has accepted a proposal.
StopUnacked(p, c) == c # p /\ Settled /\ pc[c] \in {"monitor", "spin", "ack"} /\ Stop(c)

NextQuiet(p) ==
    \/ \E c \in Client : Step(c) \/ Expire(c) \/ StopUnacked(p, c)
    \/ QuietTrigger(p)

\* Nobody that runs crashes, exits or stalls; some clients never run.
InitCalm == Fresh /\ dead \subseteq Client /\ MayStall \subseteq dead
NextCalm ==
    \/ \E c \in Client : Step(c) \/ PreferChange(c) \/ Trigger(c) \/ Expire(c)
    \/ JoinlockExpire
SpecCalm == InitCalm /\ [][NextCalm]_vars
=============================================================================
