------------------------------- MODULE TcpWrap -------------------------------
(***************************************************************************)
(* The chunnels that replace a negotiated connection by a TCP connection   *)
(* between the same addresses (tcp/src/lib.rs): TcpChunnelWrapServer takes *)
(* connections from one listening socket, keeps those of other peers in    *)
(* cached_conns, and TcpChunnelWrapClient connects.  A client's            *)
(* negotiation ends by calling connect_wrap on both sides.                 *)
(***************************************************************************)
EXTENDS Integers, Sequences, Functions

CONSTANTS Peer,
          Mismatched, \* peers whose negotiated connection has another local address than the
                      \* listener's, or no peer address
          Overlap,    \* negotiations may end while another connect_wrap waits
          MayFail     \* the sockets' bind, connect and accept may fail

VARIABLES client,     \* the client's side: "negotiating", "connecting", "open", "failed"
          wrap,       \* the server's connect_wrap: "none", "lock", "accept", "open", "failed"
          backlog,    \* connections to be accepted from the listening socket
          cached_conns,
          holder,     \* who holds the lock of listen_stream
          waiters     \* who waits for it

vars == <<client, wrap, backlog, cached_conns, holder, waiters>>
Nobody == "nobody"

Init ==
    /\ client = [p \in Peer |-> "negotiating"]
    /\ wrap = [p \in Peer |-> "none"]
    /\ backlog = <<>> /\ cached_conns = {}
    /\ holder = Nobody /\ waiters = <<>>

\* TcpChunnelWrapClient::connect_wrap.
ClientWrap(p) ==
    /\ client[p] = "negotiating"
    /\ client' = [client EXCEPT ![p] = "connecting"]
    /\ UNCHANGED <<wrap, backlog, cached_conns, holder, waiters>>

\* The kernel completes the handshake and queues the connection.
Connect(p) ==
    /\ client[p] = "connecting"
    /\ client' = [client EXCEPT ![p] = "open"]
    /\ backlog' = Append(backlog, p)
    /\ UNCHANGED <<wrap, cached_conns, holder, waiters>>

\* ... unless the socket cannot be bound to the negotiated address, or is refused.
ConnectFails(p) ==
    /\ MayFail /\ client[p] = "connecting"
    /\ client' = [client EXCEPT ![p] = "failed"]
    /\ UNCHANGED <<wrap, backlog, cached_conns, holder, waiters>>

\* connect_wrap checks the addresses and looks into the cache once, when it is called ...
Busy == \E p \in Peer : wrap[p] \in {"lock", "accept"}
ServerWrap(p) ==
    /\ wrap[p] = "none" /\ (Overlap \/ ~Busy)
    /\ \/ /\ p \in Mismatched
          /\ wrap' = [wrap EXCEPT ![p] = "failed"]
          /\ UNCHANGED <<cached_conns, waiters>>
       \/ /\ p \in cached_conns \ Mismatched
          /\ cached_conns' = cached_conns \ {p}
          /\ wrap' = [wrap EXCEPT ![p] = "open"]
          /\ UNCHANGED waiters
       \/ /\ p \notin cached_conns \cup Mismatched
          /\ wrap' = [wrap EXCEPT ![p] = "lock"]
          /\ waiters' = Append(waiters, p)
          /\ UNCHANGED cached_conns
    /\ UNCHANGED <<client, backlog, holder>>

\* ... then waits its turn for the listener (tokio's mutex is fair) ...
Lock ==
    /\ holder = Nobody /\ waiters # <<>>
    /\ holder' = Head(waiters) /\ waiters' = Tail(waiters)
    /\ wrap' = [wrap EXCEPT ![Head(waiters)] = "accept"]
    /\ UNCHANGED <<client, backlog, cached_conns>>

\* ... and accepts until its own connection comes.  A mutant: the connection of another peer is
\* dropped.
AcceptOwn(p) ==
    /\ wrap[p] = "accept" /\ backlog # <<>>
    /\ backlog' = Tail(backlog)
    /\ IF Head(backlog) = p THEN wrap' = [wrap EXCEPT ![p] = "open"] /\ holder' = Nobody
                            ELSE UNCHANGED <<wrap, holder>>
    /\ UNCHANGED <<client, cached_conns, waiters>>
Accept(p) ==
    /\ wrap[p] = "accept" /\ backlog # <<>>
    /\ backlog' = Tail(backlog)
    /\ IF Head(backlog) = p
       THEN /\ wrap' = [wrap EXCEPT ![p] = "open"] /\ holder' = Nobody
            /\ UNCHANGED cached_conns
       ELSE /\ cached_conns' = cached_conns \cup {Head(backlog)}
            /\ UNCHANGED <<wrap, holder>>
    /\ UNCHANGED <<client, waiters>>

AcceptFails(p) ==
    /\ MayFail /\ wrap[p] = "accept"
    /\ wrap' = [wrap EXCEPT ![p] = "failed"] /\ holder' = Nobody
    /\ UNCHANGED <<client, backlog, cached_conns, waiters>>

Client(p) == ClientWrap(p) \/ Connect(p) \/ ConnectFails(p)
Server(p) == ServerWrap(p) \/ Accept(p) \/ AcceptFails(p)
Next == Lock \/ \E p \in Peer : Client(p) \/ Server(p)

Spec == Init /\ [][Next]_vars

-----------------------------------------------------------------------------
TypeOK ==
    /\ client \in [Peer -> {"negotiating", "connecting", "open", "failed"}]
    /\ wrap \in [Peer -> {"none", "lock", "accept", "open", "failed"}]
    /\ Range(backlog) \subseteq Peer /\ cached_conns \subseteq Peer
    /\ holder \in Peer \cup {Nobody} /\ Range(waiters) \subseteq Peer

\* Where the server has a connection of p.
Places(p) ==
    {x \in {"backlog", "cache", "open"} :
       \/ x = "backlog" /\ p \in Range(backlog)
       \/ x = "cache" /\ p \in cached_conns
       \/ x = "open" /\ wrap[p] = "open"}

\* A client that is connected has, at the server, a connection that is waiting, put aside, or
\* its own: no accepted connection is lost, also when a wrap fails, and none is given to two
\* wraps.
ConnectionKept == \A p \in Peer : client[p] = "open" => \E x \in Places(p) : Places(p) = {x}

\* What MCProgress waits for.  It needs ~Overlap: a wrap that looked into the cache before
\* another one put its connection there waits for the listener for ever.
Wrapped(p) == wrap[p] = "open"
=============================================================================
