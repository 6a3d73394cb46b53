----------------------------- MODULE GhostTunnel -----------------------------
(***************************************************************************)
(* The TLS chunnel that goes through ghostunnel processes.  `picked`       *)
(* starts the listening and the sending tunnel, one after the other: a     *)
(* process, its word that it listens, a connection through it, with a      *)
(* deadline; connect_wrap makes the connection of what has come up.  Its   *)
(* recv accepts streams of peers and reads a message from any of them, or  *)
(* from the sending tunnel; the address it returns with a request is the   *)
(* position of the stream, and send writes the response to that position.  *)
(***************************************************************************)
EXTENDS Integers, Sequences, Functions

CONSTANTS Sides,       \* the sides configured: a subset of {"listen", "send"}
          Peer,        \* the peers that connect
          MaxReq,      \* bound: requests of each peer
          MayFail,     \* the sides whose tunnel may fail
          MayClose,    \* the peers that may close their stream
          None

VARIABLES tunnel,      \* of each side: its progress
          process,     \* the sides whose process runs
          cn,          \* "none", "open" or "error": what connect_wrap returned
          backlog,     \* peers that have connected and were not accepted
          conns,       \* listen_conns: the peers of the streams accepted
          state,       \* of each peer: "new", "open", "closed"
          inbox,       \* of each peer: the requests it sent and nobody read
          made,        \* of each peer: how many requests it sent
          todo,        \* the request read by the server, with the address returned, or None
          answers      \* of each peer: the requests it was sent the responses of

vars == <<tunnel, process, cn, backlog, conns, state, inbox, made, todo, answers>>

Outgoing == 0   \* TlsConnAddr::Request

TypeOK ==
    /\ tunnel \in [Sides -> {"none", "spawned", "up", "ok", "err", "taken"}]
    /\ process \subseteq Sides /\ cn \in {"none", "open", "error"}
    /\ Range(conns) \cup Range(backlog) \subseteq Peer
    /\ state \in [Peer -> {"new", "open", "closed"}] /\ made \in [Peer -> 0..MaxReq]

Init ==
    /\ tunnel = [s \in Sides |-> "none"] /\ process = {} /\ cn = "none"
    /\ backlog = <<>> /\ conns = <<>> /\ state = [p \in Peer |-> "new"]
    /\ inbox = [p \in Peer |-> <<>>] /\ made = [p \in Peer |-> 0]
    /\ todo = None /\ answers = [p \in Peer |-> <<>>]

data == <<backlog, conns, state, inbox, made, todo, answers>>

\* The listening side first; the sending side when that has ended, well or not.
Turn(s) == s = "send" /\ "listen" \in Sides => tunnel["listen"] \in {"ok", "err"}

\* The process is spawned, and a task reads its standard error.
Spawn(s) ==
    /\ tunnel[s] = "none" /\ Turn(s) /\ cn = "none"
    /\ tunnel' = [tunnel EXCEPT ![s] = "spawned"] /\ process' = process \cup {s}
    /\ UNCHANGED <<cn, data>>

\* wait_up: the process says that it listens.
WaitUp(s) ==
    /\ tunnel[s] = "spawned"
    /\ tunnel' = [tunnel EXCEPT ![s] = "up"]
    /\ UNCHANGED <<process, cn, data>>

\* A connection through the tunnel is tried until it succeeds; then the tunnel is stored.
Connect(s) ==
    /\ tunnel[s] = "up"
    /\ tunnel' = [tunnel EXCEPT ![s] = "ok"]
    /\ UNCHANGED <<process, cn, data>>

\* Mutant of Fail: the process of a tunnel that did not come up is forgotten.
FailForgets(s) ==
    /\ s \in MayFail /\ tunnel[s] \in {"spawned", "up"}
    /\ tunnel' = [tunnel EXCEPT ![s] = "err"]
    /\ UNCHANGED <<process, cn, data>>

\* The process ends its standard error first, or the deadline passes: the error is stored, and the
\* handle is dropped, which kills the process.
Fail(s) ==
    /\ s \in MayFail /\ tunnel[s] \in {"spawned", "up"}
    /\ tunnel' = [tunnel EXCEPT ![s] = "err"] /\ process' = process \ {s}
    /\ UNCHANGED <<cn, data>>

Picked == \A s \in Sides : tunnel[s] \in {"ok", "err"}

\* connect_wrap takes the listening tunnel, then the sending one; an error ends it.
ConnectWrap ==
    /\ cn = "none" /\ Picked
    /\ cn' = IF \E s \in Sides : tunnel[s] = "err" THEN "error" ELSE "open"
    /\ LET lost == {s \in Sides \cap {"listen"} : cn' = "error" /\ tunnel[s] = "ok"}
       IN /\ process' = process \ lost
          /\ tunnel' = IF cn' = "open" THEN [s \in Sides |-> "taken"] ELSE tunnel
    /\ UNCHANGED data

----------------------------------------------------------------------------

Dial(p) ==
    /\ cn = "open" /\ "listen" \in Sides /\ state[p] = "new"
    /\ state' = [state EXCEPT ![p] = "open"] /\ backlog' = Append(backlog, p)
    /\ UNCHANGED <<tunnel, process, cn, conns, inbox, made, todo, answers>>

Request(p) ==
    /\ state[p] = "open" /\ made[p] < MaxReq
    /\ made' = [made EXCEPT ![p] = @ + 1] /\ inbox' = [inbox EXCEPT ![p] = Append(@, made[p] + 1)]
    /\ UNCHANGED <<tunnel, process, cn, backlog, conns, state, todo, answers>>

Close(p) ==
    /\ p \in MayClose /\ state[p] = "open"
    /\ state' = [state EXCEPT ![p] = "closed"]
    /\ UNCHANGED <<tunnel, process, cn, backlog, conns, inbox, made, todo, answers>>

\* recv accepts a stream, and goes on.
Accept ==
    /\ todo = None /\ backlog # <<>>
    /\ conns' = Append(conns, Head(backlog)) /\ backlog' = Tail(backlog)
    /\ UNCHANGED <<tunnel, process, cn, state, inbox, made, todo, answers>>

\* Mutant of Recv: the address is off by one.
RecvNext(i) ==
    /\ todo = None /\ i \in DOMAIN conns /\ inbox[conns[i]] # <<>>
    /\ todo' = [from |-> conns[i], req |-> Head(inbox[conns[i]]), addr |-> (i % Len(conns)) + 1]
    /\ inbox' = [inbox EXCEPT ![conns[i]] = Tail(@)]
    /\ UNCHANGED <<tunnel, process, cn, backlog, conns, state, made, answers>>

\* The address returned with a message of the stream at position i.  With a sending tunnel the last
\* stream is taken for it.
Address(i) == IF "send" \in Sides /\ i = Len(conns) THEN Outgoing ELSE i

\* recv reads a message from the stream at position i.
Recv(i) ==
    /\ todo = None /\ i \in DOMAIN conns /\ inbox[conns[i]] # <<>>
    /\ todo' = [from |-> conns[i], req |-> Head(inbox[conns[i]]), addr |-> Address(i)]
    /\ inbox' = [inbox EXCEPT ![conns[i]] = Tail(@)]
    /\ UNCHANGED <<tunnel, process, cn, backlog, conns, state, made, answers>>

\* A read fails: the stream is removed, and those after it move up.
RemoveConn(i) ==
    /\ todo = None /\ i \in DOMAIN conns
    /\ inbox[conns[i]] = <<>> /\ state[conns[i]] = "closed"
    /\ conns' = SubSeq(conns, 1, i - 1) \o SubSeq(conns, i + 1, Len(conns))
    /\ UNCHANGED <<tunnel, process, cn, backlog, state, inbox, made, todo, answers>>

\* The server sends the response to the address of the request: a stream, or the sending tunnel.
Send ==
    /\ todo # None
    /\ answers' = IF todo.addr = Outgoing THEN answers
                  ELSE [answers EXCEPT ![conns[todo.addr]] = Append(@, <<todo.from, todo.req>>)]
    /\ todo' = None
    /\ UNCHANGED <<tunnel, process, cn, backlog, conns, state, inbox, made>>

Next ==
    \/ \E s \in Sides : Spawn(s) \/ WaitUp(s) \/ Connect(s) \/ Fail(s)
    \/ ConnectWrap \/ Accept \/ Send
    \/ \E p \in Peer : Dial(p) \/ Request(p) \/ Close(p)
    \/ \E i \in DOMAIN conns : Recv(i) \/ RemoveConn(i)

Spec == Init /\ [][Next]_vars

----------------------------------------------------------------------------

\* Without a sending tunnel, a server that answers each request before it receives the next
\* answers the peer that asked, in order, although positions change when streams are removed.
AnswersReachAsker ==
    "send" \notin Sides => \A p \in Peer : \A i \in DOMAIN answers[p] : answers[p][i] = <<p, i>>

\* A process runs only while some handle of it is held, and an open connection has all its tunnels.
TunnelsHeld ==
    /\ \A s \in process : tunnel[s] \in {"spawned", "up", "ok", "taken"}
    /\ cn = "open" => process = Sides
=============================================================================
