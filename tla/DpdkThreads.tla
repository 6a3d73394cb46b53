---------------------------- MODULE DpdkThreads -----------------------------
(***************************************************************************)
(* What the threads of a DpdkInlineChunnel share: the receive queues that  *)
(* are still unclaimed, the ephemeral ports, and the rules by which the    *)
(* network card steers a local port to receive queues (FlowSteering).      *)
(* dpdk-direct/src/dpdk_inline/mod.rs.  Each operation runs under the      *)
(* mutexes it needs; how packets are handled on one thread is DpdkInline.  *)
(***************************************************************************)
EXTENDS Integers, Sequences, FiniteSets, Bags

CONSTANTS Thread,
          Ephemeral,   \* the ports connect and listen_non_accept take from
          LocalPort,   \* ports of listen
          NumQueues,   \* num_dpdk_threads
          Mlx,         \* feature cx4_mlx: no rule over several queues
          MaxOps       \* bound: connections and streams made

VARIABLES mempools,    \* unclaimed DpdkStates, by receive queue
          dpdk_state,  \* DPDK_STATE of each thread: its receive queue, or 0
          ephemeral_ports,
          objs,        \* live connections and streams
          queues,      \* FlowSteering: the queues on each port, with repetitions
          rule,        \* the card's rule for each port; {} is none
          shutdown, n_ops

vars == <<mempools, dpdk_state, ephemeral_ports, objs, queues, rule, shutdown, n_ops>>

Port == Ephemeral \cup LocalPort

Init ==
    /\ mempools = [i \in 1..NumQueues |-> i]
    /\ dpdk_state = [t \in Thread |-> 0]
    /\ ephemeral_ports = Ephemeral
    /\ objs = {}
    /\ queues = [p \in Port |-> EmptyBag]
    /\ rule = [p \in Port |-> {}]
    /\ shutdown = FALSE
    /\ n_ops = 0

\* try_init_thread: a thread keeps its DpdkState, or takes the last unclaimed one.
Claims(t) == dpdk_state[t] = 0
CanInit(t) == ~Claims(t) \/ mempools # <<>>
QueueOf(t) == IF Claims(t) THEN mempools[Len(mempools)] ELSE dpdk_state[t]
InitThread(t) ==
    /\ CanInit(t)
    /\ dpdk_state' = [dpdk_state EXCEPT ![t] = QueueOf(t)]
    /\ mempools' = IF Claims(t) THEN SubSeq(mempools, 1, Len(mempools) - 1) ELSE mempools

\* add_flow with LocalDstOnly: the old rule is dropped, and one over all queues takes its place.
RuleFor(b) == IF Mlx /\ BagCardinality(b) > 1 THEN {} ELSE BagToSet(b)
AddFlow(p, q) ==
    /\ queues' = [queues EXCEPT ![p] = @ (+) SetToBag({q})]
    /\ rule' = [rule EXCEPT ![p] = RuleFor(queues'[p])]

\* remove_flow, by a thread whose queue is registered on the port.
RemoveFlowAll(p, q) ==
    /\ queues' = [queues EXCEPT ![p] = @ (-) SetToBag({q})]
    /\ rule' = [rule EXCEPT ![p] = {}]
RemoveFlow(p, q) ==
    /\ queues' = [queues EXCEPT ![p] = @ (-) SetToBag({q})]
    /\ rule' = [rule EXCEPT ![p] = RuleFor(queues'[p])]

Make(t, p, pooled) ==
    /\ n_ops < MaxOps /\ ~shutdown
    /\ InitThread(t)
    /\ AddFlow(p, QueueOf(t))
    /\ n_ops' = n_ops + 1
    /\ objs' = objs \cup {[id |-> n_ops', port |-> p, thread |-> t, pooled |-> pooled]}
    /\ UNCHANGED shutdown

\* connect and do_listen_non_accept take the port out of the pool; listen does not.
ConnectKeepsPort(t, p) ==
    /\ p \in ephemeral_ports
    /\ Make(t, p, TRUE)
    /\ UNCHANGED ephemeral_ports
Connect(t, p) ==
    /\ p \in ephemeral_ports
    /\ Make(t, p, TRUE)
    /\ ephemeral_ports' = ephemeral_ports \ {p}
Listen(t, p) ==
    /\ p \in LocalPort
    /\ Make(t, p, FALSE)
    /\ UNCHANGED ephemeral_ports

\* Dropped on the thread that made it: drop of DpdkInlineCn or StreamState.
Drop(o) ==
    /\ objs' = objs \ {o}
    /\ IF shutdown
       THEN /\ dpdk_state' = [dpdk_state EXCEPT ![o.thread] = 0]     \* deinit_thread
            /\ UNCHANGED <<ephemeral_ports, queues, rule>>
       ELSE /\ RemoveFlow(o.port, dpdk_state[o.thread])
            /\ ephemeral_ports' = ephemeral_ports \cup (IF o.pooled THEN {o.port} ELSE {})
            /\ UNCHANGED dpdk_state
    /\ UNCHANGED <<mempools, shutdown, n_ops>>

\* do_shutdown: the handles are dropped, and with them the rules.
ShutDown ==
    /\ ~shutdown /\ shutdown' = TRUE
    /\ queues' = [p \in Port |-> EmptyBag]
    /\ rule' = [p \in Port |-> {}]
    /\ UNCHANGED <<mempools, dpdk_state, ephemeral_ports, objs, n_ops>>

Next ==
    \/ \E t \in Thread, p \in Port : Connect(t, p) \/ Listen(t, p)
    \/ \E o \in objs : Drop(o)
    \/ ShutDown

Spec == Init /\ [][Next]_vars

-----------------------------------------------------------------------------
TypeOK ==
    /\ \A i \in DOMAIN mempools : mempools[i] \in 1..NumQueues
    /\ dpdk_state \in [Thread -> 0..NumQueues]
    /\ ephemeral_ports \subseteq Ephemeral
    /\ \A o \in objs : o.port \in Port /\ o.thread \in Thread
    /\ \A p \in Port : rule[p] \subseteq 1..NumQueues
    /\ shutdown \in BOOLEAN /\ n_ops \in 0..MaxOps

On(p) == {o \in objs : o.port = p}

\* The card steers a port to the threads that have something open on it: to all of them, and to
\* no other, whatever was opened and closed before.  (With cx4_mlx only while one object uses it.)
SteeredToOwners ==
    ~shutdown => \A p \in Port :
        (~Mlx \/ Cardinality(On(p)) <= 1) => rule[p] = {dpdk_state[o.thread] : o \in On(p)}

\* An ephemeral port has one connection at most, unless the pool was told of the port by nobody
\* (a port that is listened on stays in the pool).
PortsDistinct ==
    \A o1, o2 \in objs : o1.pooled /\ o2.pooled /\ o1.port = o2.port => o1 = o2
=============================================================================
