---------------------------- MODULE DatapathLock ----------------------------
(***************************************************************************)
(* Replacing the DPDK datapath with locks: dpdk-direct/src/switcher_lock.  *)
(* A connection sits in a tokio RwLock (first come, first served), which   *)
(* recv holds for reading as long as it waits for a message; a transition  *)
(* sends it a preemption message, on a channel of capacity one, and joins  *)
(* that with acquiring the lock for writing.  Streams of connections are   *)
(* preempted in the same way.                                              *)
(***************************************************************************)
EXTENDS Integers, FiniteSets

CONSTANTS Conn,
          MultiThread,  \* the transition and the connections run on different threads
          MaxSwap,      \* bound: transitions
          MayFail       \* tearing a datapath down and starting one may fail

VARIABLES rd,           \* recv: "idle", "want" (queued for the lock), "hold"
          snd,          \* send: the same
          wr,           \* the transition's request: "no", "queued", "held"
          preempt,      \* a message is in the channel new_datapath
          sent,         \* the transition's send_async has completed
          trig,         \* the transition
          gen, up,      \* the latest datapath; it is running
          dp            \* the datapath a connection belongs to

vars == <<rd, snd, wr, preempt, sent, trig, gen, up, dp>>

Init ==
    /\ rd = [c \in Conn |-> "idle"]
    /\ snd = [c \in Conn |-> "idle"]
    /\ wr = [c \in Conn |-> "no"]
    /\ preempt = {} /\ sent = {}
    /\ trig = "idle"
    /\ gen = 1 /\ up = TRUE
    /\ dp = [c \in Conn |-> 1]

(***************************************************************************)
(* recv: select(recv_fut, upgrade_fut) in a loop.                          *)
(***************************************************************************)
\* inner.read(): a reader waits behind a writer that is queued.
Acquired(c) == IF wr[c] = "no" THEN "hold" ELSE "want"

Call(c) ==
    /\ rd[c] = "idle"
    /\ rd' = [rd EXCEPT ![c] = Acquired(c)]
    /\ UNCHANGED <<snd, wr, preempt, sent, trig, gen, up, dp>>

Granted(c) ==
    /\ rd[c] = "want" /\ wr[c] = "no"
    /\ rd' = [rd EXCEPT ![c] = "hold"]
    /\ UNCHANGED <<snd, wr, preempt, sent, trig, gen, up, dp>>

\* A message arrives on the datapath the connection belongs to, or its recv fails.
Receive(c) ==
    /\ rd[c] = "hold" /\ ((up /\ dp[c] = gen) \/ MayFail)
    /\ rd' = [rd EXCEPT ![c] = "idle"]
    /\ UNCHANGED <<snd, wr, preempt, sent, trig, gen, up, dp>>

\* The preemption message: the future is dropped, with its lock, and a new one starts.
PreemptKeepsLock(c) ==
    /\ rd[c] \in {"want", "hold"} /\ c \in preempt
    /\ preempt' = preempt \ {c}
    /\ UNCHANGED <<rd, snd, wr, sent, trig, gen, up, dp>>
Preempt(c) ==
    /\ rd[c] \in {"want", "hold"} /\ c \in preempt
    /\ preempt' = preempt \ {c}
    /\ rd' = [rd EXCEPT ![c] = Acquired(c)]
    /\ UNCHANGED <<snd, wr, sent, trig, gen, up, dp>>

\* send holds the lock for reading too, and no preemption reaches it: it returns when the
\* datapath has taken the burst, or refuses it.
SendCall(c) ==
    /\ snd[c] = "idle"
    /\ snd' = [snd EXCEPT ![c] = Acquired(c)]
    /\ UNCHANGED <<rd, wr, preempt, sent, trig, gen, up, dp>>

SendGranted(c) ==
    /\ snd[c] = "want" /\ wr[c] = "no"
    /\ snd' = [snd EXCEPT ![c] = "hold"]
    /\ UNCHANGED <<rd, wr, preempt, sent, trig, gen, up, dp>>

SendDone(c) ==
    /\ snd[c] = "hold"
    /\ snd' = [snd EXCEPT ![c] = "idle"]
    /\ UNCHANGED <<rd, wr, preempt, sent, trig, gen, up, dp>>

(***************************************************************************)
(* trigger_transition.                                                     *)
(***************************************************************************)
Trigger ==
    /\ trig = "idle" /\ gen <= MaxSwap
    /\ \/ up' = FALSE /\ trig' = "join"
       \/ MayFail /\ up' \in {up, FALSE} /\ UNCHANGED trig      \* shut_down()?
    /\ UNCHANGED <<rd, snd, wr, preempt, sent, gen, dp>>

\* join!(preemptor.send_async(()), cn_mutex.write()) is polled: the send, if there is room, ...
SendPreempt(c) ==
    /\ preempt' = IF c \in sent THEN preempt ELSE preempt \cup {c}
    /\ sent' = IF c \in preempt THEN sent ELSE sent \cup {c}

\* ... and then the lock.
Request(c) == wr' = [wr EXCEPT ![c] = IF @ = "no" THEN "queued" ELSE @]

JoinPolled(c) ==
    /\ trig = "join"
    /\ c \notin sent \/ wr[c] = "no"
    /\ IF MultiThread
       THEN \/ c \notin sent /\ SendPreempt(c) /\ UNCHANGED wr
            \/ (c \in sent \/ c \in preempt) /\ Request(c) /\ UNCHANGED <<preempt, sent>>
       ELSE SendPreempt(c) /\ Request(c)
    /\ UNCHANGED <<rd, snd, trig, gen, up, dp>>

GrantUnchecked(c) ==
    /\ wr[c] = "queued"
    /\ wr' = [wr EXCEPT ![c] = "held"]
    /\ UNCHANGED <<rd, snd, preempt, sent, trig, gen, up, dp>>
Grant(c) ==
    /\ wr[c] = "queued" /\ rd[c] # "hold" /\ snd[c] # "hold"
    /\ wr' = [wr EXCEPT ![c] = "held"]
    /\ UNCHANGED <<rd, snd, preempt, sent, trig, gen, up, dp>>

\* All joined: the new datapath, the new connections, and the guards are dropped; or it cannot
\* be started, and the connections keep what was torn down.
Replace ==
    /\ trig = "join"
    /\ sent = Conn /\ \A c \in Conn : wr[c] = "held"
    /\ \/ /\ gen' = gen + 1 /\ up' = TRUE
          /\ dp' = [c \in Conn |-> gen + 1]
       \/ MayFail /\ UNCHANGED <<gen, up, dp>>
    /\ wr' = [c \in Conn |-> "no"]
    /\ sent' = {}
    /\ trig' = "idle"
    /\ UNCHANGED <<rd, snd, preempt>>

Reader(c) == Call(c) \/ Granted(c) \/ Receive(c) \/ Preempt(c)
Sender(c) == SendCall(c) \/ SendGranted(c) \/ SendDone(c)
Next == Trigger \/ Replace \/ \E c \in Conn : Reader(c) \/ Sender(c) \/ JoinPolled(c) \/ Grant(c)

Spec == Init /\ [][Next]_vars

-----------------------------------------------------------------------------
TypeOK ==
    /\ rd \in [Conn -> {"idle", "want", "hold"}] /\ snd \in [Conn -> {"idle", "want", "hold"}]
    /\ wr \in [Conn -> {"no", "queued", "held"}]
    /\ preempt \subseteq Conn /\ sent \subseteq Conn
    /\ trig \in {"idle", "join"}
    /\ gen \in 1..(MaxSwap + 1) /\ up \in BOOLEAN
    /\ dp \in [Conn -> 1..(MaxSwap + 1)]

\* The connection a recv or a send is inside of is not replaced under it.
NotReplacedWhileHeld == \A c \in Conn : dp'[c] # dp[c] => rd[c] # "hold" /\ snd[c] # "hold"

\* Within one thread a reader never takes the lock again between the preemption message and
\* the writer's request: while a transition waits for a connection that is being received on,
\* the preemption message is still in its channel.
HolderIsPreempted ==
    trig = "join" /\ ~MultiThread =>
        \A c \in Conn : rd[c] = "hold" /\ wr[c] = "queued" => c \in preempt

-----------------------------------------------------------------------------
\* What MCProgress says ends: a transition ends although every connection is being received on
\* and sent on, and no message comes.
Joining == trig = "join"
=============================================================================
