----------------------------- MODULE LocalName -----------------------------
(***************************************************************************)
(* The local fast path of localname-ctl: the controller's name table       *)
(* (ctl.rs), the client of it (client.rs), and the connection that sends   *)
(* to a local path instead of an address once it has looked the address    *)
(* up (runtime_fastpath.rs: LocalNameChunnel, LocalNameCn, query_ctl).     *)
(*                                                                         *)
(* Paths are numbered in the order in which get_addr makes them; a service *)
(* that restarts registers again and gets a new one, and nothing listens   *)
(* at the old one any more.  Time is abstract: an entry of the cache that  *)
(* is valid may become expired, and later "overdue" (expired for more than *)
(* 100 ms), at any moment.                                                 *)
(***************************************************************************)
EXTENDS Integers, Sequences, FiniteSets, TLAPS

CONSTANTS
    Addr,           \* the addresses that the service registers, all with one path
    MaxPath,        \* the number of registrations
    MaxQuery        \* queries that are under way at a time

VARIABLES
    table,          \* [address -> path, 0 if none]: the controller's name_table
    n_path,         \* paths made so far
    listening,      \* the path at which the service's socket is, 0 if none
    ctl,            \* the controller's connection is usable
    cache,          \* [address -> [kind, path, valid]]: addr_cache
    rev,            \* [path -> <<the address it was found for last>> or <<>>]: rev_addr_map
    queue,          \* [query -> [addr, st, ans, late]], in the order of the mutex; late (history)
                    \* if another answer for the address was applied since this one was received
    outcome         \* how the last send went

vars == <<table, n_path, listening, ctl, cache, rev, queue, outcome>>

NoEntry == [kind |-> "none", path |-> 0, valid |-> "expired"]

Init ==
    /\ table = [a \in Addr |-> 0] /\ n_path = 0 /\ listening = 0 /\ ctl = TRUE
    /\ cache = [a \in Addr |-> NoEntry]
    /\ rev = [p \in 1..MaxPath |-> <<>>]
    /\ queue = <<>>
    /\ outcome = "none"

\* LocalNameChunnel::server, register, assign_insert: one fresh path for all addresses, then the
\* connection listens at it.  The controller serves all its clients in one task.
Register ==
    /\ ctl /\ n_path < MaxPath
    /\ n_path' = n_path + 1
    /\ table' = [a \in Addr |-> n_path + 1]
    /\ listening' = n_path + 1
    /\ UNCHANGED <<ctl, cache, rev, queue, outcome>>

\* The service's process ends; its registration stays.
ServiceStops ==
    /\ listening # 0
    /\ listening' = 0
    /\ UNCHANGED <<table, n_path, ctl, cache, rev, queue, outcome>>

\* The controller exits: its table is gone and the connection to it fails from then on.
CtlStops ==
    /\ ctl
    /\ ctl' = FALSE /\ table' = [a \in Addr |-> 0]
    /\ UNCHANGED <<n_path, listening, cache, rev, queue, outcome>>

Expire(a) ==
    /\ \/ cache[a].kind # "none" /\ cache[a].valid \in {"short", "long"}
       \/ cache[a].kind = "hit" /\ cache[a].valid = "expired"
    /\ cache' = [cache EXCEPT ![a].valid = IF @ = "expired" THEN "overdue" ELSE "expired"]
    /\ UNCHANGED <<table, n_path, listening, ctl, rev, queue, outcome>>

-----------------------------------------------------------------------------
(* LocalNameCn::send *)

\* A mutant: an entry is used although it has expired.
MissNone(a) == cache[a].kind = "none"

Miss(a) == cache[a].kind = "none" \/ cache[a].valid \in {"expired", "overdue"}
Lookup(a) == Append(queue, [addr |-> a, st |-> "queued", ans |-> 0, late |-> FALSE])

\* A miss goes to the address itself and starts a query.
SendMiss(a) ==
    /\ Miss(a) /\ Len(queue) < MaxQuery
    /\ queue' = Lookup(a)
    /\ outcome' = "global"

\* A hit goes to the path.  If nothing listens there, send returns the error.
SendHit(a) ==
    /\ ~Miss(a) /\ cache[a].kind = "hit"
    /\ outcome' = IF cache[a].path = listening THEN "local" ELSE "error"
    /\ UNCHANGED queue

SendAnti(a) ==
    /\ ~Miss(a) /\ cache[a].kind = "anti"
    /\ outcome' = "global"
    /\ UNCHANGED queue

Send(a) ==
    /\ SendMiss(a) \/ SendHit(a) \/ SendAnti(a)
    /\ UNCHANGED <<table, n_path, listening, ctl, cache, rev>>

-----------------------------------------------------------------------------
(* query_ctl *)

\* A mutant: the client is not locked.
HoldingNever == FALSE

\* A query holds the client's mutex from its call to the answer.
Holding == \E i \in DOMAIN queue : queue[i].st \in {"asked", "served"}

Ask ==
    /\ ~Holding
    /\ \E i \in DOMAIN queue :
        /\ queue[i].st = "queued" /\ \A j \in 1..(i - 1) : queue[j].st # "queued"
        /\ queue' = [queue EXCEPT ![i].st = "asked"]
    /\ UNCHANGED <<table, n_path, listening, ctl, cache, rev, outcome>>

Moved(q, st, ans) == [q EXCEPT !.st = st, !.ans = ans]
Moves(i, st, ans) == queue' = [queue EXCEPT ![i] = Moved(queue[i], st, ans)]

\* BurritoNet::call answers from the table.  If the controller is gone the query fails, which
\* query_ctl treats like no answer.
Serve ==
    /\ \E i \in DOMAIN queue :
        queue[i].st = "asked" /\ Moves(i, "served", table[queue[i].addr])
    /\ UNCHANGED <<table, n_path, listening, ctl, cache, rev, outcome>>

\* The answer is received, unless the controller goes away first, and the client is unlocked.
\* On a runtime with several threads other queries may run before this one locks the cache.
Answer ==
    /\ \E i \in DOMAIN queue :
        /\ queue[i].st = "served"
        /\ \/ Moves(i, "unlocked", queue[i].ans)
           \/ ~ctl /\ Moves(i, "unlocked", 0)
    /\ UNCHANGED <<table, n_path, listening, ctl, cache, rev, outcome>>

\* A mutant: an entry that is there is kept (or_insert_with without the match that follows).
EntryKeeps(old, p) ==
    IF p = 0 THEN [kind |-> "anti", path |-> 0, valid |-> "short"]
    ELSE IF old.kind = "hit" THEN [old EXCEPT !.valid = "short"]
    ELSE [kind |-> "hit", path |-> p, valid |-> "short"]

\* The entry that an answer leaves.
Entry(old, p) ==
    IF p = 0 THEN [kind |-> "anti", path |-> 0, valid |-> "short"]
    ELSE IF old.kind = "hit" /\ old.path = p /\ old.valid = "overdue"
         THEN [old EXCEPT !.valid = "long"]
         ELSE [kind |-> "hit", path |-> p, valid |-> "short"]

\* What is left of a sequence when the element at i is taken out.
Without(s, i) == SubSeq(s, 1, i - 1) \o SubSeq(s, i + 1, Len(s))

\* History: the answers for a that are still to be applied are late now.
Overtaken(q, a) == [q EXCEPT !.late = @ \/ (q.addr = a /\ q.st = "unlocked")]
Overtake(s, a) == [j \in DOMAIN s |-> Overtaken(s[j], a)]

\* A mutant: the reverse map is filled only for an address that was not in the cache.
ApplyForwardOnly(i) ==
    LET q == queue[i] IN
    /\ q.st = "unlocked"
    /\ cache' = [cache EXCEPT ![q.addr] = Entry(@, q.ans)]
    /\ rev' = IF q.ans = 0 \/ cache[q.addr].kind # "none" THEN rev
              ELSE [rev EXCEPT ![q.ans] = <<q.addr>>]
    /\ queue' = Overtake(Without(queue, i), q.addr)

ApplyAt(i) ==
    LET q == queue[i] IN
    /\ q.st = "unlocked"
    /\ cache' = [cache EXCEPT ![q.addr] = Entry(@, q.ans)]
    /\ rev' = IF q.ans = 0 THEN rev ELSE [rev EXCEPT ![q.ans] = <<q.addr>>]
    /\ queue' = Overtake(Without(queue, i), q.addr)

Apply ==
    /\ \E i \in DOMAIN queue : ApplyAt(i)
    /\ UNCHANGED <<table, n_path, listening, ctl, outcome>>

-----------------------------------------------------------------------------
(* LocalNameCn::recv *)

\* Where a message that comes from path p is said to come from: an address, or p itself.
Sender(p) == IF rev[p] = <<>> THEN {} ELSE {rev[p][1]}

-----------------------------------------------------------------------------
Next ==
    \/ Register \/ ServiceStops \/ CtlStops
    \/ \E a \in Addr : Send(a) \/ Expire(a)
    \/ Ask \/ Serve \/ Answer \/ Apply

Spec == Init /\ [][Next]_vars

-----------------------------------------------------------------------------
TypeOK ==
    /\ \A a \in Addr : /\ table[a] \in 0..MaxPath /\ cache[a].path \in 0..MaxPath
                       /\ cache[a].kind = "hit" <=> cache[a].path # 0
    /\ Len(queue) <= MaxQuery

\* A path in the cache is one that the controller gave for this address, and replies that come
\* from it are attributed to an address of the same service: rev_addr_map knows every path that
\* the cache may send to.
CachedPathKnown ==
    \A a \in Addr : cache[a].kind = "hit" => Sender(cache[a].path) # {}

\* The cache goes back to a path that was replaced only if query_ctl applies an answer late:
\* another answer for the address was applied after this one was received.  On a runtime with
\* one thread that cannot be, since nothing is awaited between the two locks (:515-531); on
\* several it can.
CacheForward ==
    \A a \in Addr :
        cache[a].kind = "hit" /\ cache'[a].kind = "hit" /\ cache'[a].path < cache[a].path =>
            \E i \in DOMAIN queue : ApplyAt(i) /\ queue[i].addr = a /\ queue[i].late

\* What MCProgress waits for: when registrations stop, the cache comes to hold what the
\* controller has, whatever queries were under way; and a service that went away does not make
\* sends fail for ever.
Settled(a) == cache[a].path = table[a]
Recovered == outcome # "error"

-----------------------------------------------------------------------------
(***************************************************************************)
(* Proofs, for any addresses, registrations and queries.                   *)
(***************************************************************************)
Entries == [kind : {"none", "hit", "anti"}, path : 0..MaxPath,
            valid : {"short", "long", "expired", "overdue"}]
Queries == [addr : Addr, st : {"queued", "asked", "served", "unlocked"}, ans : 0..MaxPath,
            late : BOOLEAN]

\* The inductive invariant.  Every path that the cache may send to was made and has its address
\* (Known).  The controller's answers do not get older: it gives the newest path or none
\* (NameTypes), and one query at a time holds the client (Alone), so that the answer that is on
\* its way is at least as new as those that were received before (Ordered) and as what the cache
\* has, and stays so until another answer for its address is applied (Newer).
NameTypes ==
    /\ n_path \in 0..MaxPath /\ table \in [Addr -> {0, n_path}]
    /\ cache \in [Addr -> Entries] /\ rev \in [1..MaxPath -> Seq(Addr)]
    /\ queue \in Seq(Queries) /\ \A i \in DOMAIN queue : queue[i].ans <= n_path
Known ==
    \A a \in Addr : /\ cache[a].path <= n_path
                    /\ cache[a].kind = "hit" <=> cache[a].path # 0
                    /\ cache[a].path # 0 => rev[cache[a].path] # <<>>
Alone ==
    \A i, j \in DOMAIN queue :
        queue[i].st \in {"asked", "served"} /\ queue[j].st \in {"asked", "served"} => i = j
NoOlder(p, r) == p = 0 \/ r <= p
Ordered ==
    \A i, j \in DOMAIN queue :
        queue[i].st = "unlocked" /\ queue[j].st = "served" => NoOlder(queue[j].ans, queue[i].ans)
InTime(q) == q.st = "served" \/ (q.st = "unlocked" /\ ~q.late)
Newer ==
    \A i \in DOMAIN queue :
        InTime(queue[i]) => NoOlder(queue[i].ans, cache[queue[i].addr].path)
NameInv == NameTypes /\ Known /\ Alone /\ Ordered /\ Newer

\* The elements before i stay where they are, and those after it move up.
LEMMA TakenOut ==
    ASSUME NEW S, NEW s \in Seq(S), NEW i \in 1..Len(s)
    PROVE  /\ Without(s, i) \in Seq(S)
           /\ DOMAIN Without(s, i) = 1..(Len(s) - 1)
           /\ \A j \in 1..(Len(s) - 1) : Without(s, i)[j] = IF j < i THEN s[j] ELSE s[j + 1]
  <1> DEFINE u == SubSeq(s, 1, i - 1)  v == SubSeq(s, i + 1, Len(s))
  <1>1. Len(s) \in Nat /\ i \in 1..Len(s)
    OBVIOUS
  <1>2. u \in Seq(S) /\ Len(u) = i - 1 /\ \A j \in 1..(i - 1) : u[j] = s[j]
    BY <1>1
  <1>3. v \in Seq(S) /\ Len(v) = Len(s) - i /\ \A j \in 1..(Len(s) - i) : v[j] = s[j + i]
    BY <1>1
  <1> HIDE DEF u, v
  <1>4. Without(s, i) = u \o v
    BY Zenon DEF u, v, Without
  <1>5. u \o v \in Seq(S) /\ Len(u \o v) = Len(u) + Len(v)
    <2>1. Len(u \o v) = Len(u) + Len(v)
      <3>1. u \in Seq(S) /\ v \in Seq(S)
        BY <1>2, <1>3, Zenon
      <3> QED
        BY <3>1
    <2>2. u \o v \in Seq(S)
      BY <1>2, <1>3
    <2> QED
      BY <2>1, <2>2, Zenon
  <1>6. ASSUME NEW j \in 1..(Len(s) - 1)
        PROVE  (u \o v)[j] = IF j < i THEN s[j] ELSE s[j + 1]
    <2>1. j \in 1..(Len(u) + Len(v))
      BY <1>1, <1>2, <1>3
    <2>2. (u \o v)[j] = IF j <= Len(u) THEN u[j] ELSE v[j - Len(u)]
      <3>1. u \in Seq(S) /\ v \in Seq(S)
        BY <1>2, <1>3, Zenon
      <3> QED
        BY <2>1, <3>1
    <2>3. CASE j < i
      BY <1>1, <1>2, <2>2, <2>3
    <2>4. CASE ~(j < i)
      <3>1. j - (i - 1) \in 1..(Len(s) - i) /\ ~(j <= i - 1) /\ (j - (i - 1)) + i = j + 1
        BY <1>1, <2>4
      <3>2. v[j - (i - 1)] = s[(j - (i - 1)) + i]
        BY <1>3, <3>1, Zenon
      <3> QED
        BY <1>2, <2>2, <2>4, <3>1, <3>2, Zenon
    <2> QED
      BY <2>3, <2>4, Zenon
  <1>7. DOMAIN (u \o v) = 1..(Len(s) - 1)
    <2>1. Len(u) + Len(v) = Len(s) - 1
      BY <1>1, <1>2, <1>3
    <2>2. DOMAIN (u \o v) = 1..Len(u \o v)
      BY <1>5
    <2> QED
      BY <1>5, <2>1, <2>2, Zenon
  <1> QED
    BY <1>4, <1>5, <1>6, <1>7, Zenon

\* Skipping i maps no two numbers to one.
LEMMA SkipsOne ==
    \A i, j, k \in Int : (IF j < i THEN j ELSE j + 1) = (IF k < i THEN k ELSE k + 1) => j = k
  OBVIOUS

\* A query that is under way.
LEMMA MadeQuery ==
    ASSUME MaxPath \in Nat, NameInv, NEW i \in DOMAIN queue
    PROVE  /\ queue[i] \in Queries /\ queue[i].addr \in Addr
           /\ queue[i].ans \in Nat /\ queue[i].ans <= n_path /\ n_path \in Nat
  <1>1. queue[i] \in Queries
    BY DEF NameInv, NameTypes
  <1> QED
    BY <1>1 DEF Queries, NameInv, NameTypes

\* The steps of the service and of the controller.
LEMMA NameService ==
    ASSUME MaxPath \in Nat, NameInv, Register \/ ServiceStops \/ CtlStops
    PROVE  NameInv'
  <1>1. UNCHANGED <<cache, rev, queue>>
    BY Zenon DEF Register, ServiceStops, CtlStops
  <1>2. n_path' \in 0..MaxPath /\ n_path <= n_path' /\ table' \in [Addr -> {0, n_path'}]
    <2>1. n_path \in 0..MaxPath /\ table \in [Addr -> {0, n_path}]
      BY Zenon DEF NameInv, NameTypes
    <2> QED
      BY <2>1 DEF Register, ServiceStops, CtlStops
  <1>3. NameTypes'
    <2>1. ASSUME NEW i \in DOMAIN queue PROVE queue[i].ans <= n_path'
      <3>1. queue[i].ans \in Nat /\ queue[i].ans <= n_path /\ n_path \in Nat
        BY MadeQuery, Zenon
      <3> QED
        BY <1>2, <3>1
    <2> QED
      BY <1>1, <1>2, <2>1, Zenon DEF NameInv, NameTypes
  <1>4. Known'
    BY <1>1, <1>2 DEF NameInv, NameTypes, Known, Entries
  <1> QED
    BY <1>1, <1>3, <1>4, Zenon DEF NameInv, Alone, Ordered, Newer

\* A send, which may start a query, and the passing of time.
LEMMA NameSend ==
    ASSUME MaxPath \in Nat, NameInv, NEW a \in Addr, Send(a) \/ Expire(a)
    PROVE  NameInv'
  <1>1. CASE UNCHANGED <<table, n_path, cache, rev, queue>>
    BY <1>1, Zenon DEF NameInv, NameTypes, Known, Alone, Ordered, Newer
  <1>2. CASE Expire(a)
    <2>1. UNCHANGED <<table, n_path, rev, queue>>
      BY <1>2, Zenon DEF Expire
    <2>2. cache' \in [Addr -> Entries]
      <3> DEFINE v == IF cache[a].valid = "expired" THEN "overdue" ELSE "expired"
      <3>1. cache' = [cache EXCEPT ![a] = [cache[a] EXCEPT !.valid = v]]
        BY <1>2, Zenon DEF Expire
      <3>2. cache[a] \in Entries /\ v \in {"short", "long", "expired", "overdue"}
        BY Zenon DEF NameInv, NameTypes
      <3> HIDE DEF v
      <3>3. [cache[a] EXCEPT !.valid = v] \in Entries
        BY <3>2, Zenon DEF Entries
      <3> QED
        BY <3>1, <3>3, Zenon DEF NameInv, NameTypes
    <2>3. \A b \in Addr : cache'[b].kind = cache[b].kind /\ cache'[b].path = cache[b].path
      BY <1>2 DEF Expire, NameInv, NameTypes, Entries
    <2>4. NameTypes' /\ Alone' /\ Ordered'
      BY <2>1, <2>2, Zenon DEF NameInv, NameTypes, Alone, Ordered
    <2>6. Known'
      BY <2>1, <2>3, Zenon DEF NameInv, Known
    <2>5. Newer'
      BY <2>1, <2>3, MadeQuery, Zenon DEF NameInv, Newer
    <2> QED
      BY <2>4, <2>5, <2>6, Zenon DEF NameInv
  <1>3. CASE SendMiss(a) /\ Send(a)
    <2> DEFINE q == [addr |-> a, st |-> "queued", ans |-> 0, late |-> FALSE]
    <2>1. queue' = Append(queue, q) /\ UNCHANGED <<table, n_path, cache, rev>>
      BY <1>3, Zenon DEF SendMiss, Lookup, Send
    <2>2. q \in Queries /\ q.st = "queued" /\ q.ans = 0
      BY DEF Queries
    <2>3. queue \in Seq(Queries) /\ n_path \in Nat
      BY DEF NameInv, NameTypes
    <2> HIDE DEF q
    <2>4. /\ queue' \in Seq(Queries)
          /\ \A i \in DOMAIN queue' : queue'[i] = q \/ (i \in DOMAIN queue /\ queue'[i] = queue[i])
      <3>1. queue' \in Seq(Queries) /\ Len(queue') = Len(queue) + 1
        BY <2>1, <2>2, <2>3
      <3>2. /\ queue'[Len(queue) + 1] = q
            /\ \A i \in 1..Len(queue) : queue'[i] = queue[i]
        BY <2>1, <2>3
      <3>3. \A i \in 1..(Len(queue) + 1) : i = Len(queue) + 1 \/ i \in 1..Len(queue)
        BY <2>3
      <3>4. DOMAIN queue = 1..Len(queue) /\ DOMAIN queue' = 1..Len(queue')
        BY <2>3, <3>1
      <3> QED
        BY <3>1, <3>2, <3>3, <3>4, Zenon
    <2>5. NameTypes' /\ Known'
      BY <2>1, <2>2, <2>3, <2>4, SMTT(30) DEF NameInv, NameTypes, Known
    <2>6. Alone' /\ Ordered'
      BY <2>2, <2>4, Zenon DEF NameInv, Alone, Ordered
    <2>7. Newer'
      BY <2>1, <2>2, <2>4, Zenon DEF NameInv, Newer, InTime
    <2> QED
      BY <2>5, <2>6, <2>7, Zenon DEF NameInv
  <1> QED
    BY <1>1, <1>2, <1>3, Zenon DEF Send, SendHit, SendAnti

\* What becomes of the queue.
LEMMA NameMoves ==
    ASSUME MaxPath \in Nat, NameInv, NEW i \in DOMAIN queue,
           NEW st \in {"asked", "served", "unlocked"}, NEW ans \in 0..n_path, Moves(i, st, ans)
    PROVE  /\ queue' \in Seq(Queries) /\ DOMAIN queue' = DOMAIN queue
           /\ queue'[i].st = st /\ queue'[i].ans = ans /\ queue'[i].addr = queue[i].addr
           /\ \A j \in DOMAIN queue : j # i => queue'[j] = queue[j]
           /\ \A j \in DOMAIN queue : queue'[j].ans <= n_path
  <1> DEFINE r == Moved(queue[i], st, ans)
  <1>1. queue[i] \in Queries /\ queue \in Seq(Queries)
    BY MadeQuery, Zenon DEF NameInv, NameTypes
  <1>2. ans \in 0..MaxPath /\ ans <= n_path
    BY DEF NameInv, NameTypes
  <1>3. queue' = [queue EXCEPT ![i] = r]
    BY Zenon DEF Moves
  <1>4. r \in Queries /\ r.st = st /\ r.ans = ans /\ r.addr = queue[i].addr
    BY <1>1, <1>2, Zenon DEF Queries, Moved
  <1> HIDE DEF r
  <1>5. queue' \in Seq(Queries)
    BY <1>1, <1>3, <1>4
  <1>6. /\ DOMAIN queue' = DOMAIN queue /\ queue'[i] = r
        /\ \A j \in DOMAIN queue : j # i => queue'[j] = queue[j]
    BY <1>1, <1>3, Zenon
  <1>7. ASSUME NEW j \in DOMAIN queue PROVE queue'[j].ans <= n_path
    BY <1>2, <1>4, <1>6, MadeQuery, Zenon
  <1> QED
    BY <1>4, <1>5, <1>6, <1>7, Zenon

\* A query locks the client, is served, or unlocks the client.
LEMMA NameQuery ==
    ASSUME MaxPath \in Nat, NameInv, Ask \/ Serve \/ Answer
    PROVE  NameInv'
  <1>0. UNCHANGED <<table, n_path, cache, rev>>
    BY Zenon DEF Ask, Serve, Answer
  <1>1. ASSUME NEW i \in DOMAIN queue, NEW st \in {"asked", "served", "unlocked"},
               NEW ans \in 0..n_path, Moves(i, st, ans)
        PROVE  /\ NameTypes' /\ Known' /\ DOMAIN queue' = DOMAIN queue
               /\ queue'[i].st = st /\ queue'[i].ans = ans /\ queue'[i].addr = queue[i].addr
               /\ \A j \in DOMAIN queue : j # i => queue'[j] = queue[j]
    <2>1. /\ queue' \in Seq(Queries) /\ DOMAIN queue' = DOMAIN queue
          /\ queue'[i].st = st /\ queue'[i].ans = ans /\ queue'[i].addr = queue[i].addr
          /\ \A j \in DOMAIN queue : j # i => queue'[j] = queue[j]
          /\ \A j \in DOMAIN queue : queue'[j].ans <= n_path
      BY <1>1, NameMoves
    <2>2. NameTypes' /\ Known'
      BY <1>0, <2>1, Zenon DEF NameInv, NameTypes, Known
    <2> QED
      BY <2>1, <2>2, Zenon
  <1>2. CASE Ask
    <2>1. PICK i \in DOMAIN queue :
              queue[i].st = "queued" /\ queue' = [queue EXCEPT ![i].st = "asked"]
      BY <1>2, Zenon DEF Ask
    <2>2. queue[i].ans \in 0..n_path
      BY MadeQuery
    <2>3. Moves(i, "asked", queue[i].ans)
      <3>1. queue \in Seq(Queries) /\ queue[i] \in Queries
        BY MadeQuery, Zenon DEF NameInv, NameTypes
      <3>2. [queue[i] EXCEPT !.st = "asked"] = Moved(queue[i], "asked", queue[i].ans)
        BY <3>1, Zenon DEF Moved, Queries
      <3> QED
        BY <2>1, <3>1, <3>2, Zenon DEF Moves
    <2>4. /\ NameTypes' /\ Known' /\ DOMAIN queue' = DOMAIN queue
          /\ queue'[i].st = "asked" /\ \A j \in DOMAIN queue : j # i => queue'[j] = queue[j]
      BY <1>1, <2>2, <2>3
    <2>5. Alone'
      BY <1>2, <2>4, Zenon DEF Alone, Ask, Holding
    <2>6. Ordered' /\ Newer'
      BY <1>0, <2>4, Zenon DEF NameInv, Ordered, Newer, InTime
    <2> QED
      BY <2>4, <2>5, <2>6, Zenon DEF NameInv
  <1>3. CASE Serve
    <2>1. PICK i \in DOMAIN queue :
              queue[i].st = "asked" /\ Moves(i, "served", table[queue[i].addr])
      BY <1>3, Zenon DEF Serve
    <2> DEFINE p == table[queue[i].addr]
    <2>2. p \in {0, n_path} /\ n_path \in Nat
      BY MadeQuery, Zenon DEF NameInv, NameTypes
    <2>3. p \in 0..n_path
      BY <2>2
    <2>4. /\ NameTypes' /\ Known' /\ DOMAIN queue' = DOMAIN queue
          /\ queue'[i].st = "served" /\ queue'[i].ans = p /\ queue'[i].addr = queue[i].addr
          /\ \A j \in DOMAIN queue : j # i => queue'[j] = queue[j]
      BY <1>1, <2>1, <2>3
    <2> HIDE DEF p
    <2>5. Alone'
      BY <2>1, <2>4, Zenon DEF NameInv, Alone
    <2>6. Ordered'
      <3>1. \A j \in DOMAIN queue : NoOlder(p, queue[j].ans)
        BY <2>2, MadeQuery, Zenon DEF NoOlder
      <3>2. \A j \in DOMAIN queue : queue[j].st = "served" => j = i
        BY <2>1, Zenon DEF NameInv, Alone
      <3> QED
        BY <2>4, <3>1, <3>2, Zenon DEF Ordered
    <2>7. Newer'
      <3>1. NoOlder(p, cache[queue[i].addr].path)
        BY <2>2, MadeQuery, Zenon DEF NameInv, Known, NoOlder
      <3> QED
        BY <1>0, <2>4, <3>1, Zenon DEF NameInv, Newer
    <2> QED
      BY <2>4, <2>5, <2>6, <2>7, Zenon DEF NameInv
  <1>4. CASE Answer
    <2>1. PICK i \in DOMAIN queue :
              /\ queue[i].st = "served"
              /\ Moves(i, "unlocked", queue[i].ans) \/ Moves(i, "unlocked", 0)
      BY <1>4, Zenon DEF Answer
    <2>2. queue[i].ans \in 0..n_path /\ 0 \in 0..n_path
      BY MadeQuery
    <2>3. PICK p \in {0, queue[i].ans} : Moves(i, "unlocked", p)
      BY <2>1, Zenon
    <2>4. /\ NameTypes' /\ Known' /\ DOMAIN queue' = DOMAIN queue
          /\ queue'[i].st = "unlocked" /\ queue'[i].ans = p /\ queue'[i].addr = queue[i].addr
          /\ \A j \in DOMAIN queue : j # i => queue'[j] = queue[j]
      BY <1>1, <2>2, <2>3
    <2>5. \A j \in DOMAIN queue : queue[j].st \in {"asked", "served"} => j = i
      BY <2>1, Zenon DEF NameInv, Alone
    <2>6. Alone' /\ Ordered'
      BY <2>4, <2>5, Zenon DEF Alone, Ordered
    <2>7. Newer'
      <3>1. NoOlder(p, cache[queue[i].addr].path)
        BY <2>1, <2>3, Zenon DEF NameInv, Newer, InTime, NoOlder
      <3> QED
        BY <1>0, <2>4, <3>1, Zenon DEF NameInv, Newer
    <2> QED
      BY <2>4, <2>6, <2>7, Zenon DEF NameInv
  <1> QED
    BY <1>2, <1>3, <1>4, Zenon

\* The mark does not change what the query is about.
LEMMA Marked ==
    ASSUME NEW q \in Queries, NEW a
    PROVE  /\ Overtaken(q, a) \in Queries
           /\ Overtaken(q, a).addr = q.addr /\ Overtaken(q, a).st = q.st
           /\ Overtaken(q, a).ans = q.ans
           /\ InTime(Overtaken(q, a)) =>
                 InTime(q) /\ (q.st = "served" \/ q.addr # a)
  <1> DEFINE l == q.late \/ (q.addr = a /\ q.st = "unlocked")
  <1>1. l \in BOOLEAN
    BY Zenon
  <1>2. Overtaken(q, a) = [q EXCEPT !.late = l]
    BY Zenon DEF Overtaken
  <1>3. (q.late => l) /\ (q.addr = a /\ q.st = "unlocked" => l)
    BY Zenon
  <1> HIDE DEF l
  <1>4. /\ [q EXCEPT !.late = l] \in Queries
        /\ [q EXCEPT !.late = l].addr = q.addr /\ [q EXCEPT !.late = l].st = q.st
        /\ [q EXCEPT !.late = l].ans = q.ans /\ [q EXCEPT !.late = l].late = l
    BY <1>1, Zenon DEF Queries
  <1> QED
    BY <1>2, <1>3, <1>4, Zenon DEF InTime

\* An answer is put into the cache.
LEMMA NameApply ==
    ASSUME MaxPath \in Nat, NameInv, NEW i \in DOMAIN queue, ApplyAt(i),
           UNCHANGED <<table, n_path>>
    PROVE  /\ NameInv'
           /\ \A b \in Addr : \/ cache'[b].kind # "hit"
                              \/ cache[b].path <= cache'[b].path
                              \/ b = queue[i].addr /\ queue[i].late
  <1> DEFINE a == queue[i].addr  p == queue[i].ans  e == Entry(cache[a], p)
  <1>2. a \in Addr /\ p \in Nat /\ p <= n_path /\ n_path \in 0..MaxPath /\ cache[a] \in Entries
    BY MadeQuery, Zenon DEF NameInv, NameTypes
  <1>3. /\ queue[i].st = "unlocked"
        /\ cache' = [cache EXCEPT ![a] = e]
        /\ rev' = IF p = 0 THEN rev ELSE [rev EXCEPT ![p] = <<a>>]
        /\ queue' = Overtake(Without(queue, i), a)
    BY Zenon DEF ApplyAt
  <1>4. e \in Entries /\ e.path = p /\ (e.kind = "hit" <=> p # 0)
    <2>1. p \in 0..MaxPath
      BY <1>2
    <2>2. CASE p = 0
      BY <2>1, <2>2, Zenon DEF Entry, Entries
    <2>3. CASE p # 0 /\ ~(cache[a].kind = "hit" /\ cache[a].path = p /\ cache[a].valid = "overdue")
      BY <2>1, <2>3, Zenon DEF Entry, Entries
    <2>4. CASE p # 0 /\ cache[a].kind = "hit" /\ cache[a].path = p /\ cache[a].valid = "overdue"
      <3>1. e = [cache[a] EXCEPT !.valid = "long"]
        BY <2>4, Zenon DEF Entry
      <3> QED
        BY <1>2, <2>4, <3>1, Zenon DEF Entries
    <2> QED
      BY <2>2, <2>3, <2>4, Zenon
  <1> HIDE DEF a, p, e
  <1>5. cache' \in [Addr -> Entries] /\ cache'[a] = e /\ \A b \in Addr \ {a} : cache'[b] = cache[b]
    BY <1>2, <1>3, <1>4, Zenon DEF NameInv, NameTypes
  <1>6. /\ rev' \in [1..MaxPath -> Seq(Addr)] /\ (p # 0 => rev'[p] # <<>>)
        /\ \A x \in 1..MaxPath : rev[x] # <<>> => rev'[x] # <<>>
    <2>1. CASE p = 0
      BY <1>3, <2>1, Zenon DEF NameInv, NameTypes
    <2>2. CASE p # 0
      <3>1. p \in 1..MaxPath /\ <<a>> \in Seq(Addr) /\ <<a>> # <<>>
        BY <1>2, <2>2
      <3> QED
        BY <1>3, <2>2, <3>1, Zenon DEF NameInv, NameTypes
    <2> QED
      BY <2>1, <2>2, Zenon
  <1>7. PICK f \in [DOMAIN queue' -> DOMAIN queue] :
            /\ queue' \in Seq(Queries)
            /\ \A j, k \in DOMAIN queue' : f[j] = f[k] => j = k
            /\ \A j \in DOMAIN queue' : queue'[j] = Overtaken(queue[f[j]], a)
    <2> DEFINE w == Without(queue, i)
    <2>0. queue \in Seq(Queries)
      BY Zenon DEF NameInv, NameTypes
    <2>1. DOMAIN queue = 1..Len(queue) /\ Len(queue) \in Nat
      BY <2>0
    <2>2. /\ w \in Seq(Queries) /\ DOMAIN w = 1..(Len(queue) - 1)
          /\ \A j \in 1..(Len(queue) - 1) : w[j] = IF j < i THEN queue[j] ELSE queue[j + 1]
      BY <2>0, <2>1, TakenOut, Zenon
    <2>3. queue' = [j \in DOMAIN w |-> Overtaken(w[j], a)]
      BY <1>3, Zenon DEF Overtake
    <2> HIDE DEF w
    <2>4. DOMAIN queue' = DOMAIN w /\ \A j \in DOMAIN w : queue'[j] = Overtaken(w[j], a)
      BY <2>3, Zenon
    <2>5. queue' \in Seq(Queries)
      <3>1. Len(w) \in Nat /\ DOMAIN w = 1..Len(w) /\ \A j \in DOMAIN w : w[j] \in Queries
        BY <2>2
      <3>2. queue' \in [1..Len(w) -> Queries]
        BY <2>3, <3>1, Marked, Zenon
      <3> QED
        BY <3>1, <3>2
    <2> DEFINE g == [j \in DOMAIN queue' |-> IF j < i THEN j ELSE j + 1]
    <2>6. \A j \in DOMAIN queue' : (IF j < i THEN j ELSE j + 1) \in DOMAIN queue
      BY <2>1, <2>2, <2>4
    <2>7. g \in [DOMAIN queue' -> DOMAIN queue]
      BY <2>6, Zenon
    <2>8. \A j \in DOMAIN queue' : g[j] = IF j < i THEN j ELSE j + 1
      BY Zenon
    <2> HIDE DEF g
    <2>9. ASSUME NEW j \in DOMAIN queue', NEW k \in DOMAIN queue', g[j] = g[k] PROVE j = k
      <3>0. j \in 1..(Len(queue) - 1) /\ k \in 1..(Len(queue) - 1) /\ i \in 1..Len(queue)
        BY <2>1, <2>2, <2>4, Zenon
      <3>1. j \in Int /\ k \in Int /\ i \in Int
        BY <2>1, <3>0
      <3>2. (IF j < i THEN j ELSE j + 1) = (IF k < i THEN k ELSE k + 1)
        BY <2>8, <2>9, Zenon
      <3> QED
        BY <3>1, <3>2, SkipsOne, Zenon
    <2>10. \A j \in DOMAIN queue' : queue'[j] = Overtaken(queue[g[j]], a)
      BY <2>2, <2>4, <2>8
    <2> QED
      BY <2>5, <2>7, <2>9, <2>10, Zenon
  <1>a. ASSUME NEW j \in DOMAIN queue'
        PROVE  /\ queue'[j].addr = queue[f[j]].addr /\ queue'[j].st = queue[f[j]].st
               /\ queue'[j].ans = queue[f[j]].ans /\ f[j] \in DOMAIN queue
               /\ InTime(queue'[j]) =>
                     InTime(queue[f[j]]) /\ (queue[f[j]].st = "served" \/ queue[f[j]].addr # a)
    <2>1. f[j] \in DOMAIN queue
      BY <1>7, Zenon
    <2>2. queue[f[j]] \in Queries
      BY <2>1, MadeQuery, Zenon
    <2>3. queue'[j] = Overtaken(queue[f[j]], a)
      BY <1>7, Zenon
    <2> DEFINE q == queue[f[j]]  o == Overtaken(q, a)
    <2>4. /\ o.addr = q.addr /\ o.st = q.st /\ o.ans = q.ans
          /\ InTime(o) => InTime(q) /\ (q.st = "served" \/ q.addr # a)
      <3>1. q \in Queries
        BY <2>2, Zenon
      <3> HIDE DEF q
      <3> QED
        BY <3>1, Marked, Zenon
    <2> QED
      BY <2>1, <2>3, <2>4, Zenon
  <1>8. NameTypes'
    <2>1. /\ n_path \in 0..MaxPath /\ table \in [Addr -> {0, n_path}]
          /\ \A j \in DOMAIN queue : queue[j].ans <= n_path
      BY Zenon DEF NameInv, NameTypes
    <2>2. \A j \in DOMAIN queue' : queue'[j].ans <= n_path
      BY <1>a, <2>1, Zenon
    <2> QED
      BY <1>5, <1>6, <1>7, <2>1, <2>2, Zenon DEF NameTypes
  <1>9. Known'
    <2> SUFFICES ASSUME NEW b \in Addr
                 PROVE  /\ cache'[b].path <= n_path
                        /\ cache'[b].kind = "hit" <=> cache'[b].path # 0
                        /\ cache'[b].path # 0 => rev'[cache'[b].path] # <<>>
      BY Zenon DEF Known
    <2>1. CASE b = a
      BY <1>2, <1>4, <1>5, <1>6, <2>1, Zenon
    <2>2. CASE b # a
      <3>1. cache'[b] = cache[b] /\ cache[b].path \in 0..MaxPath
        BY <1>5, <2>2, Zenon DEF NameInv, NameTypes, Entries
      <3>2. /\ cache[b].path <= n_path
            /\ cache[b].kind = "hit" <=> cache[b].path # 0
            /\ cache[b].path # 0 => rev[cache[b].path] # <<>>
        BY Zenon DEF NameInv, Known
      <3>3. cache[b].path # 0 => rev'[cache[b].path] # <<>>
        <4>1. cache[b].path # 0 => cache[b].path \in 1..MaxPath
          BY <3>1
        <4> QED
          BY <1>6, <3>2, <4>1, Zenon
      <3> QED
        BY <3>1, <3>2, <3>3, Zenon
    <2> QED
      BY <2>1, <2>2, Zenon
  <1>10. Alone' /\ Ordered'
    <2> SUFFICES ASSUME NEW j \in DOMAIN queue', NEW k \in DOMAIN queue'
                 PROVE  /\ /\ queue'[j].st \in {"asked", "served"}
                           /\ queue'[k].st \in {"asked", "served"}
                           => j = k
                        /\ queue'[j].st = "unlocked" /\ queue'[k].st = "served" =>
                              NoOlder(queue'[k].ans, queue'[j].ans)
      BY Zenon DEF Alone, Ordered
    <2> DEFINE x == f[j]  y == f[k]
    <2>1. /\ x \in DOMAIN queue /\ queue'[j].st = queue[x].st /\ queue'[j].ans = queue[x].ans
          /\ y \in DOMAIN queue /\ queue'[k].st = queue[y].st /\ queue'[k].ans = queue[y].ans
          /\ x = y => j = k
      BY <1>7, <1>a, Zenon
    <2> HIDE DEF x, y
    <2> QED
      BY <2>1, Zenon DEF NameInv, Alone, Ordered
  <1>11. Newer'
    <2> SUFFICES ASSUME NEW j \in DOMAIN queue', InTime(queue'[j])
                 PROVE  NoOlder(queue'[j].ans, cache'[queue'[j].addr].path)
      BY Zenon DEF Newer
    <2> DEFINE k == f[j]
    <2>1. /\ k \in DOMAIN queue /\ queue'[j].addr = queue[k].addr /\ queue'[j].ans = queue[k].ans
          /\ InTime(queue[k]) /\ (queue[k].st = "served" \/ queue[k].addr # a)
          /\ queue[k].addr \in Addr
      BY <1>a, MadeQuery, Zenon
    <2> HIDE DEF k
    <2>2. CASE queue[k].addr # a
      BY <1>5, <2>1, <2>2, Zenon DEF NameInv, Newer
    <2>3. CASE queue[k].addr = a
      <3>1. NoOlder(queue[k].ans, p)
        BY <1>3, <2>1, <2>3, Zenon DEF NameInv, Ordered, p
      <3> QED
        BY <1>4, <1>5, <2>1, <2>3, <3>1, Zenon
    <2> QED
      BY <2>2, <2>3, Zenon
  <1>12. ASSUME NEW b \in Addr, cache'[b].kind = "hit", b # a \/ ~queue[i].late
         PROVE  cache[b].path <= cache'[b].path
    <2>1. CASE b = a
      <3>1. NoOlder(p, cache[a].path) /\ p # 0
        BY <1>3, <1>4, <1>5, <1>12, <2>1, Zenon DEF NameInv, Newer, InTime, a, p
      <3> QED
        BY <1>4, <1>5, <2>1, <3>1, Zenon DEF NoOlder
    <2>2. CASE b # a
      <3>1. cache'[b] = cache[b] /\ cache[b].path \in Nat
        BY <1>5, <2>2 DEF NameInv, NameTypes, Entries
      <3> QED
        BY <3>1
    <2> QED
      BY <2>1, <2>2, Zenon
  <1> QED
    BY <1>8, <1>9, <1>10, <1>11, <1>12, Zenon DEF NameInv, a

\* The invariant holds of every reachable state.
LEMMA NameAlways ==
    ASSUME MaxPath \in Nat
    PROVE  Spec => []NameInv
  <1>1. Init => NameInv
    <2> SUFFICES ASSUME Init PROVE NameInv
      BY Zenon
    <2>1. NoEntry \in Entries /\ NoEntry.kind = "none" /\ NoEntry.path = 0
      BY DEF NoEntry, Entries
    <2>2. \A a \in Addr : cache[a] = NoEntry
      BY Zenon DEF Init
    <2>3. NameTypes
      BY <2>1 DEF Init, NameTypes
    <2>4. Known /\ Alone /\ Ordered /\ Newer
      BY <2>1, <2>2 DEF Init, Known, Alone, Ordered, Newer
    <2> QED
      BY <2>3, <2>4, Zenon DEF NameInv
  <1>2. NameInv /\ [Next]_vars => NameInv'
    <2> SUFFICES ASSUME NameInv, [Next]_vars PROVE NameInv'
      BY Zenon
    <2>1. CASE UNCHANGED vars
      BY <2>1, Zenon DEF vars, NameInv, NameTypes, Known, Alone, Ordered, Newer
    <2> QED
      BY <2>1, NameService, NameSend, NameQuery, NameApply, Zenon DEF Next, Apply
  <1> QED
    BY <1>1, <1>2, PTL DEF Spec

\* Replies that come from a path that the cache may send to are attributed to an address: on one
\* thread or several, rev_addr_map knows every path that addr_cache holds
\* (localname-ctl's runtime_fastpath.rs).
THEOREM CachedPathsKnown ==
    ASSUME MaxPath \in Nat
    PROVE  Spec => []CachedPathKnown
  <1>1. NameInv => CachedPathKnown
    BY Zenon DEF NameInv, Known, CachedPathKnown, Sender
  <1> QED
    BY <1>1, NameAlways, PTL

\* On a runtime with one thread or several, and whatever queries were under way when the service
\* registered again, query_ctl puts an older path over a newer one only if its answer was
\* overtaken between the two locks (localname-ctl's runtime_fastpath.rs:515-531).
THEOREM CacheNeverGoesBack ==
    ASSUME MaxPath \in Nat
    PROVE  Spec => [][CacheForward]_vars
  <1>1. NameInv /\ [Next]_vars => [CacheForward]_vars
    <2> SUFFICES ASSUME NameInv, Next, NEW a \in Addr,
                        cache'[a].kind = "hit", cache'[a].path < cache[a].path
                 PROVE  \E i \in DOMAIN queue :
                            ApplyAt(i) /\ queue[i].addr = a /\ queue[i].late
      BY Zenon DEF CacheForward
    <2>1. cache[a].path \in Nat /\ cache'[a].path # cache[a].path
      BY DEF NameInv, NameTypes, Entries
    <2>2. CASE Apply
      <3>1. PICK i \in DOMAIN queue : ApplyAt(i) /\ UNCHANGED <<table, n_path>>
        BY <2>2, Zenon DEF Apply
      <3>2. cache[a].path <= cache'[a].path \/ (a = queue[i].addr /\ queue[i].late)
        BY <3>1, NameApply, Zenon
      <3>3. ~(cache[a].path <= cache'[a].path)
        <4>1. cache'[a].path \in Nat
          BY <3>1, NameApply DEF NameInv, NameTypes, Entries
        <4> QED
          BY <2>1, <4>1
      <3> QED
        BY <3>1, <3>2, <3>3, Zenon
    <2>3. ASSUME NEW b \in Addr, Expire(b)
          PROVE  cache'[a].path = cache[a].path
      BY <2>3, Zenon DEF Expire, NameInv, NameTypes, Entries
    <2>4. Apply \/ cache' = cache \/ \E b \in Addr : Expire(b)
      BY Zenon DEF Next, Register, ServiceStops, CtlStops, Send, Ask, Serve, Answer
    <2> QED
      BY <2>1, <2>2, <2>3, <2>4, Zenon
  <1> QED
    BY <1>1, NameAlways, PTL DEF Spec
=============================================================================
