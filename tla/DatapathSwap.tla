---------------------------- MODULE DatapathSwap ----------------------------
(***************************************************************************)
(* Replacing the DPDK datapath under running connections without locks:    *)
(* dpdk-direct/src/switcher_lockfree.  One thread triggers the transition, *)
(* all threads meet at a barrier, the triggering thread tears the datapath *)
(* down, starts the other one and sends every connection its replacement.  *)
(*                                                                         *)
(* An object is a connection (DatapathCn) or a stream of connections       *)
(* (UpgradeStream); `using` an object is a DPDK operation.  Datapaths are  *)
(* numbered in the order they were started.                                *)
(***************************************************************************)
EXTENDS Integers, FiniteSets

CONSTANTS Thread,    \* the registered threads: the barrier's size
          Trig,      \* the one that calls trigger_transition
          Obj, Owner,
          Streams,   \* the objects that are streams
          MaxSwap,   \* bound: transitions
          MayFail    \* tearing a datapath down and starting one may fail

VARIABLES flag,      \* wait_for_datapath_swap_now
          waiting,   \* threads inside Barrier::wait
          pc, obj,   \* a thread's position, and the object it polls
          gen, up,   \* the latest datapath; it is running
          dp,        \* the datapath an object belongs to
          chan,      \* new_datapath / updates, flume::bounded(1); 0 is empty
          todo,      \* objects the transition has still to send to
          parked     \* connections whose send future waits for room in the datapath's channel

vars == <<flag, waiting, pc, obj, gen, up, dp, chan, todo, parked>>

Conns == Obj \ Streams

Init ==
    /\ flag = FALSE
    /\ waiting = {}
    /\ pc = [t \in Thread |-> "run"]
    /\ obj \in {f \in [Thread -> Obj] : \A t \in Thread : Owner[f[t]] = t}
    /\ gen = 1 /\ up = TRUE
    /\ dp = [o \in Obj |-> 1]
    /\ chan = [o \in Obj |-> 0]
    /\ todo = {} /\ parked = {}

Goto(t, l) == pc' = [pc EXCEPT ![t] = l]

\* Barrier::wait: the last of the threads lets all of them go, and the barrier is new again.
After(t) == IF t = Trig /\ pc[t] = "sync" THEN "down" ELSE "recv"
\* A mutant: the barrier counts a thread too many.
BarrierOpensLate(t) == Cardinality(waiting \cup {t}) > Cardinality(Thread)
BarrierOpens(t) == waiting \cup {t} = Thread
ArriveOneEarly(t) ==
    IF Cardinality(waiting) + 2 >= Cardinality(Thread)
    THEN /\ waiting' = {}
         /\ pc' = [u \in Thread |-> IF u \in waiting \cup {t} THEN After(u) ELSE pc[u]]
    ELSE waiting' = waiting \cup {t} /\ UNCHANGED pc
Arrive(t) ==
    IF BarrierOpens(t)
    THEN /\ waiting' = {}
         /\ pc' = [u \in Thread |-> IF u \in waiting \cup {t} THEN After(u) ELSE pc[u]]
    ELSE waiting' = waiting \cup {t} /\ UNCHANGED pc

(***************************************************************************)
(* A thread polls one of its objects: maybe_swap_datapath, then the        *)
(* operation on what the object holds.                                     *)
(***************************************************************************)
\* The flag is down: take an update if there is one.
PollDiscards(t, o) ==
    /\ pc[t] = "run" /\ Owner[o] = t /\ ~flag
    /\ obj' = [obj EXCEPT ![t] = o]
    /\ chan' = [chan EXCEPT ![o] = 0]
    /\ Goto(t, "using")
    /\ UNCHANGED <<flag, waiting, gen, up, dp, todo, parked>>
Poll(t, o) ==
    /\ pc[t] = "run" /\ Owner[o] = t /\ ~flag
    /\ obj' = [obj EXCEPT ![t] = o]
    /\ dp' = [dp EXCEPT ![o] = IF chan[o] # 0 THEN chan[o] ELSE @]
    /\ chan' = [chan EXCEPT ![o] = 0]
    /\ Goto(t, "using")
    /\ UNCHANGED <<flag, waiting, gen, up, todo, parked>>

\* The flag is up: wait at the barrier ...
PollSwap(t, o) ==
    /\ pc[t] = "run" /\ Owner[o] = t /\ flag
    /\ obj' = [obj EXCEPT ![t] = o]
    /\ Goto(t, "barrier")
    /\ UNCHANGED <<flag, waiting, gen, up, dp, chan, todo, parked>>

EnterBarrier(t) ==
    /\ pc[t] \in {"barrier", "sync"} /\ t \notin waiting
    /\ Arrive(t)
    /\ UNCHANGED <<flag, obj, gen, up, dp, chan, todo, parked>>

\* ... then block until the replacement is there, and use it.
Recv(t) ==
    /\ pc[t] = "recv" /\ chan[obj[t]] # 0
    /\ dp' = [dp EXCEPT ![obj[t]] = chan[obj[t]]]
    /\ chan' = [chan EXCEPT ![obj[t]] = 0]
    /\ Goto(t, "using")
    /\ UNCHANGED <<flag, waiting, obj, gen, up, todo, parked>>

Done(t) ==
    /\ pc[t] = "using"
    /\ Goto(t, "run")
    /\ UNCHANGED <<flag, waiting, obj, gen, up, dp, chan, todo, parked>>

\* send checks when it is called; its future may then wait for room, and is polled again as it
\* is, on the datapath it was made for.
Park(t) ==
    /\ pc[t] = "using" /\ obj[t] \in Conns
    /\ parked' = parked \cup {obj[t]}
    /\ Goto(t, "run")
    /\ UNCHANGED <<flag, waiting, obj, gen, up, dp, chan, todo>>

Resume(t, o) ==
    /\ pc[t] = "run" /\ Owner[o] = t /\ o \in parked
    /\ obj' = [obj EXCEPT ![t] = o]
    /\ Goto(t, "resend")
    /\ UNCHANGED <<flag, waiting, gen, up, dp, chan, todo, parked>>

SendDone(t) ==
    /\ pc[t] = "resend"
    /\ parked' = parked \ {obj[t]}
    /\ Goto(t, "run")
    /\ UNCHANGED <<flag, waiting, obj, gen, up, dp, chan, todo>>

(***************************************************************************)
(* trigger_transition of DpdkReqDatapath, which calls DpdkDatapath's.      *)
(***************************************************************************)
Trigger ==
    /\ pc[Trig] = "run" /\ gen <= MaxSwap
    /\ flag' = TRUE                                   \* and wakes the stored wakers
    /\ Goto(Trig, "sync")
    /\ UNCHANGED <<waiting, obj, gen, up, dp, chan, todo, parked>>

\* An error returns with the flag up: the other threads wait for an update that nobody sends,
\* and this one waits at the barrier as soon as it polls a connection or tries again.
ShutDown ==
    /\ pc[Trig] = "down"
    /\ \/ up' = FALSE /\ Goto(Trig, "start")
       \/ MayFail /\ up' \in BOOLEAN /\ Goto(Trig, "failed")
    /\ UNCHANGED <<flag, waiting, obj, gen, dp, chan, todo, parked>>

\* new_preconfig, load_connections.
Start ==
    /\ pc[Trig] = "start"
    /\ \/ /\ gen' = gen + 1 /\ up' = TRUE
          /\ todo' = Conns
          /\ Goto(Trig, "conns")
       \/ /\ MayFail /\ Goto(Trig, "failed")
          /\ UNCHANGED <<gen, up, todo>>
    /\ UNCHANGED <<flag, waiting, obj, dp, chan, parked>>

\* sender.send blocks while the previous update has not been taken.
Update(o) ==
    /\ pc[Trig] \in {"conns", "streams"} /\ o \in todo /\ chan[o] = 0
    /\ chan' = [chan EXCEPT ![o] = gen]
    /\ todo' = todo \ {o}
    /\ UNCHANGED <<flag, waiting, pc, obj, gen, up, dp, parked>>

\* A mutant: the streams are forgotten.
CompleteConnsOnly ==
    /\ pc[Trig] = "conns" /\ todo = {}
    /\ flag' = FALSE
    /\ todo' = {}
    /\ Goto(Trig, "streams")
    /\ UNCHANGED <<waiting, obj, gen, up, dp, chan, parked>>

\* The critical section ends; then the streams get their updates.
Complete ==
    /\ pc[Trig] = "conns" /\ todo = {}
    /\ flag' = FALSE
    /\ todo' = Streams
    /\ Goto(Trig, "streams")
    /\ UNCHANGED <<waiting, obj, gen, up, dp, chan, parked>>

Return ==
    /\ pc[Trig] = "streams" /\ todo = {}
    /\ Goto(Trig, "run")
    /\ UNCHANGED <<flag, waiting, obj, gen, up, dp, chan, todo, parked>>

Transition == Trigger \/ ShutDown \/ Start \/ (\E o \in Obj : Update(o)) \/ Complete \/ Return
Polling(t) ==
    \/ \E o \in Obj : Poll(t, o) \/ PollSwap(t, o) \/ Resume(t, o)
    \/ EnterBarrier(t) \/ Recv(t) \/ Done(t) \/ Park(t) \/ SendDone(t)
Next == Transition \/ \E t \in Thread : Polling(t)

Spec == Init /\ [][Next]_vars

-----------------------------------------------------------------------------
TypeOK ==
    /\ flag \in BOOLEAN /\ up \in BOOLEAN
    /\ waiting \subseteq Thread
    /\ pc \in [Thread -> {"run", "using", "resend", "barrier", "recv", "sync", "down",
                          "start", "conns", "streams", "failed"}]
    /\ obj \in [Thread -> Obj]
    /\ gen \in 1..(MaxSwap + 1)
    /\ dp \in [Obj -> 1..(MaxSwap + 1)]
    /\ chan \in [Obj -> 0..(MaxSwap + 1)]
    /\ todo \subseteq Obj /\ parked \subseteq Conns

\* wait_trigger_synchronize's "safety postcondition", extended to the end of the transition: a
\* thread in a DPDK operation uses the datapath that is running, never one that is being torn
\* down or was replaced.  (It holds for one connection per thread: with two, a thread passes
\* with the update that one of them did not take at the last transition; and a stream is still
\* on the old datapath between Complete and its update.)  Of a send that had to wait only the
\* first half is true: it is not polled while there is no datapath, but it can be polled on the
\* one that was replaced.
UseIsLive ==
    \A t \in Thread : /\ pc[t] = "using" => up /\ dp[obj[t]] = gen
                      /\ pc[t] = "resend" => up

\* No update is overwritten or skipped: an object is on the newest datapath, or its update is
\* in its channel or still to be sent.
NoUpdateLost ==
    pc[Trig] \in {"run", "using", "resend", "conns", "streams"} =>
        \/ pc[Trig] = "conns" /\ todo = Conns
        \/ \A o \in Obj : dp[o] = gen \/ chan[o] = gen \/ o \in todo \cup
                          (IF pc[Trig] = "conns" THEN Streams ELSE {})

-----------------------------------------------------------------------------
\* What MCProgress says ends, if the datapaths can be torn down and started: every thread comes
\* to the barrier, no update blocks, and trigger_transition returns.
Swapping == pc[Trig] \in {"sync", "down", "start", "conns", "streams"}
=============================================================================
