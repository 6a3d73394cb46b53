----------------------------- MODULE MCRendezvous -----------------------------
(* Instances of Rendezvous for TLC. *)
EXTENDS Rendezvous

CONSTANTS c1, c2, c3, c4, c5, c6, e1, e2,
          Crashing, Many, One     \* groups of clients, see SpecRounds

Clients2 == {c1, c2}
Entries == {e1, e2}

\* Everybody can run both stacks; c1 prefers e1 and the others e2, or all prefer e1.
MCSolo == [c \in Client |-> IF c = c1 THEN e1 ELSE e2]
BothOffers == [c \in Client |-> {e1, e2}]
SameSolo == [c \in Client |-> e1]
NoClient == {}
NoEntry == {}

\* No process crashes or exits; members expire only after an error ended their client
\* (and with MayStall = {} no running client misses its refresh).  Everybody may prefer
\* another stack when it joins, and c2 asks for others later as well.
NextReliable ==
    \/ \E c \in Client : Step(c) \/ PreferChange(c) \/ Expire(c)
    \/ Trigger(c2)
    \/ JoinlockExpire
SpecReliable == Init /\ [][NextReliable]_vars

\* The scheduling the runtime gives every task: a client whose next Redis call (or due
\* timer) stays possible performs it, a queued event is taken when the applier is back in
\* its select (which polls the event stream before the timer), and the score of a client
\* that is gone grows old.
Fairness ==
    \A c \in Client : /\ WF_vars(Step(c)) /\ SF_vars(DelEvent(c))
                      /\ WF_vars(Expire(c))

\* c1 alone asks for other stacks, when everybody is idle, and nobody exits.
NextNoExit == QuietTrigger(c1) \/ \E c \in Client : Step(c)
SpecNoExit == Init /\ [][NextNoExit]_vars /\ Fairness

\* Everybody may ask for other stacks once everybody is in the connection.
NextConcurrent == \E c \in Client : Step(c) \/ (Settled /\ Trigger(c))
SpecConcurrent == Init /\ [][NextConcurrent]_vars /\ Fairness

\* c1 goes away and others come later; nobody asks for another stack.
NextTakeover == Stop(c1) \/ \E c \in Client : Step(c) \/ Expire(c)
SpecTakeover == Init /\ [][NextTakeover]_vars /\ Fairness

-----------------------------------------------------------------------------

\* A transition that has locked the round ends and its committer returns: transition()
\* returns once the counter reaches the number of unexpired participants.
TransitionEnds == \A c \in Client : Holds(c) ~> ~Holds(c)

\* staged_update() returns once the commit concludes: an applier whose round has been
\* committed gets out of wait_applier.
Applying(c) == pc[c] \in {"subscribe", "apply", "refresh", "fetch"} /\ roundctr > at[c]
StagedUpdateReturns == \A c \in Client : Applying(c) ~> ~Applying(c)

\* poll_entry() returns: its loop on the staged key of a new round ends.
PollReturns == \A c \in Client : pc[c] = "spin" ~> pc[c] # "spin" \/ c \in dead

-----------------------------------------------------------------------------
(***************************************************************************)
(* Rendezvous with three groups of clients, one of which Init chooses; the *)
(* others never run.  The clients of Crashing may crash, exit, stall past  *)
(* their liveness timeout and lose the join lock, and all propose.  Those  *)
(* of the other groups never crash or stall: c1 may prefer another stack   *)
(* when it joins and asks for others later; c3 may prefer another too, and *)
(* is not in One, where everybody can run every stack.                     *)
(***************************************************************************)
ASSUME GroupsAssumption ==
    /\ One \subseteq Client /\ Many \subseteq Client /\ Crashing \subseteq Client
    /\ c1 \in One /\ c3 \notin One /\ One # Many
    /\ Crashing \cap One = {} /\ Crashing \cap Many = {} /\ MayStall \subseteq Crashing
    /\ \A c \in One : Offers[c] = Entry

Everybody == {c1, c2, c3, c4, c5, c6}

RoundsSolo == [c \in Client |-> IF c \in {c1, c4} THEN e1 ELSE e2]
RoundsOffers == [c \in Client |-> IF c = c5 THEN {e2} ELSE {e1, e2}]

LoseJoinlock == joinlock \in Crashing /\ JoinlockExpire

InitRounds == Fresh /\ \E g \in {Crashing, Many, One} : dead = Client \ g
NextRounds ==
    \/ \E c \in Client : Step(c) \/ Expire(c)
    \/ \E c \in (Crashing \cup {c1, c3}) \cap Client : PreferChange(c)
    \/ \E c \in Crashing \cup {c1} : Trigger(c)
    \/ \E c \in Crashing : Stop(c)
    \/ LoseJoinlock
SpecRounds == InitRounds /\ [][NextRounds]_vars

OnlyOneProposes == dead = Client \ One

\* With one proposer, a client that is up to date holds the stack in force.
OneProposerAgrees == OnlyOneProposes => EntryAgreement

\* With one proposer, a committer finds the keys of the round that it locked as the last
\* commit left them.
OneProposerClean == OnlyOneProposes => LockedRoundIsClean
=============================================================================
