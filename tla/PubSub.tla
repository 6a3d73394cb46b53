------------------------------- MODULE PubSub -------------------------------
(***************************************************************************)
(* The chunnels over Google's PubSub: PubSubConn and OrderedPubSubConn.    *)
(* send looks up every topic of a burst before it publishes any of it, in  *)
(* batches by topic and group.  recv returns what is cached, or polls all  *)
(* subscriptions, caches what came, acknowledges it and returns it; it may *)
(* be dropped at any point.  A message that was handed out and is not      *)
(* acknowledged is handed out again after its deadline.                    *)
(* The service (Pull and the outcomes of the requests) is external.        *)
(***************************************************************************)
EXTENDS Integers, Sequences, FiniteSets, SequencesExt

CONSTANTS Task,      \* tasks that call recv on the connection
          Dest,      \* Dest[m]: the topic of message m, in a sequence
          Group,     \* Group[m]: its ordering key
          MayMiss,   \* the topics that may not exist
          Slots,     \* the slots of every call of recv
          MaxOut,    \* bound: how often a message is handed out
          MayFail,   \* requests may fail
          MayCancel, \* a call of recv may be dropped
          None

VARIABLES spc,       \* where send is: "topics", "publish", "ok" or "err"
          missing,   \* the topics that do not exist
          topics,    \* the topics whose handles are cached
          todo,      \* of the burst: not looked up yet
          batches,   \* topic_batches, by topic and group
          backlog,   \* the service: the messages that were published and not acknowledged
          handed,    \* ghost: how often a message was handed out
          pc,        \* of each task, where recv is
          got,       \* of each task, what its subscriptions gave it, then what it acknowledges
          cache,     \* recv_cache
          lock,      \* who holds its lock
          acked,     \* the messages that the service has forgotten
          returned   \* ghost: what recv has returned, in order

vars == <<spc, missing, topics, todo, batches, backlog, handed, pc, got, cache, lock, acked,
          returned>>

Msg == DOMAIN Dest
Topic == Range(Dest)
Key == Topic \X Range(Group)

TypeOK ==
    /\ spc \in {"topics", "publish", "ok", "err"}
    /\ missing \subseteq MayMiss /\ topics \subseteq Topic \ missing /\ todo \in Seq(Msg)
    /\ DOMAIN batches = Key /\ \A k \in Key : batches[k] \in Seq(Msg)
    /\ backlog \subseteq Msg /\ acked \subseteq Msg /\ handed \in [Msg -> 0..MaxOut]
    /\ pc \in [Task -> {"idle", "poll", "lock", "ack"}]
    /\ \A t \in Task : got[t] \in Seq(Msg)
    /\ cache \in Seq(Msg) /\ lock \in Task \cup {None} /\ returned \in Seq(Msg)

Init ==
    /\ spc = "topics" /\ missing \in SUBSET MayMiss /\ topics = {} /\ todo = [m \in Msg |-> m]
    /\ batches = [k \in Key |-> <<>>]
    /\ backlog = {} /\ handed = [m \in Msg |-> 0]
    /\ pc = [t \in Task |-> "idle"] /\ got = [t \in Task |-> <<>>]
    /\ cache = <<>> /\ lock = None /\ acked = {} /\ returned = <<>>

recvVars == <<handed, pc, got, cache, lock, acked, returned>>

----------------------------------------------------------------------------
(* send *)

LookupPublishes ==
    /\ spc = "topics" /\ todo # <<>>
    /\ LET m == Head(todo)  k == <<Dest[m], Group[m]>>
       IN IF Dest[m] \in missing
            THEN spc' = "err" /\ UNCHANGED <<todo, batches, backlog>>
            ELSE /\ todo' = Tail(todo) /\ backlog' = backlog \cup {m}
                 /\ UNCHANGED <<spc, batches>>
    /\ UNCHANGED <<missing, topics, recvVars>>

\* The handle of the next message's topic is cached or fetched; one that is missing is an error.
Lookup ==
    /\ spc = "topics" /\ todo # <<>>
    /\ LET m == Head(todo)  k == <<Dest[m], Group[m]>>
       IN IF Dest[m] \in missing
            THEN spc' = "err" /\ UNCHANGED <<todo, batches>>
            ELSE /\ todo' = Tail(todo) /\ batches' = [batches EXCEPT ![k] = Append(@, m)]
                 /\ UNCHANGED spc
    /\ UNCHANGED <<missing, topics, backlog, recvVars>>

LookedUp ==
    /\ spc = "topics" /\ todo = <<>> /\ spc' = "publish"
    /\ UNCHANGED <<missing, topics, todo, batches, backlog, recvVars>>

\* One batch is published; an error ends the call, with the other batches unsent.
Publish(k) ==
    /\ spc = "publish" /\ batches[k] # <<>>
    /\ \/ /\ backlog' = backlog \cup ToSet(batches[k])
          /\ batches' = [batches EXCEPT ![k] = <<>>] /\ UNCHANGED spc
       \/ /\ MayFail /\ spc' = "err" /\ UNCHANGED <<backlog, batches>>
    /\ UNCHANGED <<missing, topics, todo, recvVars>>

\* Everything was published: the new handles are cached.
SendReturns ==
    /\ spc = "publish" /\ \A k \in Key : batches[k] = <<>>
    /\ spc' = "ok" /\ topics' = Topic
    /\ UNCHANGED <<missing, todo, batches, backlog, recvVars>>

Send == Lookup \/ LookedUp \/ SendReturns \/ \E k \in Key : Publish(k)

sendVars == <<spc, missing, topics, todo, batches>>

----------------------------------------------------------------------------
(* recv *)

\* The front of the cache c, which is cloned to be acknowledged.
Drained(c) == SubSeq(c, 1, IF Len(c) < Slots THEN Len(c) ELSE Slots)

CallAnyway(t) ==
    /\ pc[t] = "idle"
    /\ IF cache # <<>>
         THEN /\ lock' = t /\ pc' = [pc EXCEPT ![t] = "ack"]
              /\ got' = [got EXCEPT ![t] = Drained(cache)]
         ELSE pc' = [pc EXCEPT ![t] = "poll"] /\ UNCHANGED <<lock, got>>
    /\ UNCHANGED <<sendVars, backlog, handed, cache, acked, returned>>

\* The lock is tried, not awaited; without it, or with nothing cached, recv polls.
Call(t) ==
    /\ pc[t] = "idle"
    /\ IF lock = None /\ cache # <<>>
         THEN /\ lock' = t /\ pc' = [pc EXCEPT ![t] = "ack"]
              /\ got' = [got EXCEPT ![t] = Drained(cache)]
         ELSE pc' = [pc EXCEPT ![t] = "poll"] /\ UNCHANGED <<lock, got>>
    /\ UNCHANGED <<sendVars, backlog, handed, cache, acked, returned>>

\* The service answers a subscription's request: some messages of one topic, those included whose
\* deadline has passed.  An empty answer or an error is retried.
Pull(t) ==
    /\ pc[t] = "poll"
    /\ \E q \in Topic : \E S \in SUBSET {m \in backlog : Dest[m] = q /\ handed[m] < MaxOut} :
         /\ S # {} /\ Cardinality(S) <= Slots
         /\ got' = [got EXCEPT ![t] = SetToSortSeq(S, <)]
         /\ handed' = [m \in Msg |-> IF m \in S THEN handed[m] + 1 ELSE handed[m]]
    /\ pc' = [pc EXCEPT ![t] = "lock"]
    /\ UNCHANGED <<sendVars, backlog, cache, lock, acked, returned>>

\* Every subscription has failed eleven times.
PullErr(t) ==
    /\ MayFail /\ pc[t] = "poll"
    /\ pc' = [pc EXCEPT ![t] = "idle"]
    /\ UNCHANGED <<sendVars, backlog, handed, got, cache, lock, acked, returned>>

\* What came is cached before any of it is acknowledged.
Cache(t) ==
    /\ pc[t] = "lock" /\ lock = None
    /\ lock' = t /\ cache' = cache \o got[t] /\ got' = [got EXCEPT ![t] = Drained(cache')]
    /\ pc' = [pc EXCEPT ![t] = "ack"]
    /\ UNCHANGED <<sendVars, backlog, handed, acked, returned>>

Acknowledge(S) == acked' = acked \cup S /\ backlog' = backlog \ S

\* Mutant of Ends: the lock is not released.
EndsLocked(t) == pc' = [pc EXCEPT ![t] = "idle"] /\ got' = [got EXCEPT ![t] = <<>>] /\ UNCHANGED lock

Ends(t) ==
    /\ pc' = [pc EXCEPT ![t] = "idle"] /\ got' = [got EXCEPT ![t] = <<>>]
    /\ lock' = IF lock = t THEN None ELSE lock

\* ack_and_drain_locked_cache succeeds: what was acknowledged is returned and leaves the cache.
Return(t) ==
    /\ pc[t] = "ack" /\ Acknowledge(ToSet(got[t])) /\ Ends(t)
    /\ returned' = returned \o got[t]
    /\ cache' = SubSeq(cache, Len(got[t]) + 1, Len(cache))
    /\ UNCHANGED <<sendVars, handed>>

StopDrains(t) ==
    /\ MayFail \/ MayCancel
    /\ pc[t] = "ack" /\ (\E S \in SUBSET ToSet(got[t]) : Acknowledge(S)) /\ Ends(t)
    /\ cache' = SubSeq(cache, Len(got[t]) + 1, Len(cache))
    /\ UNCHANGED <<sendVars, handed, returned>>

\* It fails or is dropped when only some were acknowledged: the cache stays as it is.
Stop(t) ==
    /\ MayFail \/ MayCancel
    /\ pc[t] = "ack" /\ (\E S \in SUBSET ToSet(got[t]) : Acknowledge(S)) /\ Ends(t)
    /\ UNCHANGED <<sendVars, handed, cache, returned>>

\* The call is dropped before it has the lock, and what it got with it.
Cancel(t) ==
    /\ MayCancel /\ pc[t] \in {"poll", "lock"}
    /\ Ends(t)
    /\ UNCHANGED <<sendVars, backlog, handed, cache, acked, returned>>

Recv(t) == Call(t) \/ Cache(t) \/ Return(t) \/ PullErr(t) \/ Stop(t) \/ Cancel(t)

Next == Send \/ \E t \in Task : Recv(t) \/ Pull(t)

Spec == Init /\ [][Next]_vars

----------------------------------------------------------------------------

\* A message that was acknowledged, and so is not handed out again, is in the cache or was
\* returned: no call that fails or is dropped loses it.
AckedIsKept == acked \subseteq ToSet(cache) \cup ToSet(returned)

\* A message is returned no more often than the service has handed it out: two calls never return
\* the same copy.
CopiesReturnedOnce ==
    \A m \in Msg : Len(SelectSeq(returned, LAMBDA x : x = m)) <= handed[m]

\* A burst with a topic that does not exist is not published in part.
MissingStopsAll == (\E m \in Msg : Dest[m] \in missing) => backlog \cup acked = {}

\* What MCProgress shows of every message that was published.
Published(m) == m \in backlog
Returned(m) == m \in ToSet(returned)
=============================================================================
