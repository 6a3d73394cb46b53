------------------------------ MODULE IoKernel ------------------------------
(***************************************************************************)
(* The one DpdkIoKernel thread of a process and its global handle, in      *)
(* dpdk-direct/src/dpdk_iokernel.rs: started on first use, shared by later *)
(* users, and shut down before the datapath is switched.  DpdkIoKernel     *)
(* itself is another crate: `run` returns after `shutdown` was called.     *)
(***************************************************************************)
EXTENDS Integers

CONSTANTS Caller,
          MaxStart     \* bound: kernels started

VARIABLES lock,        \* RUNTIME_HANDLE's mutex: its holder, or 0 when free
          handle,      \* RUNTIME_HANDLE: the kernel it is a handle of, or 0
          kernel,      \* the state of each kernel's thread
          stopping,    \* kernels whose handle.shutdown() was called
          pc, mine,    \* a caller's position, and the kernel whose handle it has
          n_start

vars == <<lock, handle, kernel, stopping, pc, mine, n_start>>

Kernel == 1..MaxStart

Init ==
    /\ lock = 0 /\ handle = 0
    /\ kernel = [k \in Kernel |-> "none"]
    /\ stopping = {}
    /\ pc = [c \in Caller |-> "idle"]
    /\ mine = [c \in Caller |-> 0]
    /\ n_start = 0

Goto(c, l) == pc' = [pc EXCEPT ![c] = l]

(***************************************************************************)
(* iokernel_start and iokernel_restart.                                    *)
(***************************************************************************)
SharedNever == FALSE
Shared == handle # 0

StartLock(c) ==
    /\ pc[c] = "idle" /\ mine[c] = 0 /\ lock = 0
    /\ IF Shared
       THEN /\ mine' = [mine EXCEPT ![c] = handle]
            /\ UNCHANGED <<lock, kernel, pc, n_start>>
       ELSE /\ n_start < MaxStart /\ n_start' = n_start + 1
            /\ kernel' = [kernel EXCEPT ![n_start'] = "starting"]    \* thread::spawn
            /\ lock' = c
            /\ mine' = [mine EXCEPT ![c] = n_start']
            /\ Goto(c, "wait")
    /\ UNCHANGED <<handle, stopping>>

\* The thread has sent its handle; the guard is still held.
Started(c) ==
    /\ pc[c] = "wait" /\ kernel[mine[c]] \in {"running", "exiting"}
    /\ handle' = mine[c]
    /\ lock' = 0
    /\ Goto(c, "idle")
    /\ UNCHANGED <<kernel, stopping, mine, n_start>>

(***************************************************************************)
(* The kernel's thread.                                                    *)
(***************************************************************************)
Runs(k) ==
    /\ kernel[k] = "starting"
    /\ kernel' = [kernel EXCEPT ![k] = "running"]
    /\ UNCHANGED <<lock, handle, stopping, pc, mine, n_start>>

Exits(k) ==
    /\ kernel[k] = "running" /\ k \in stopping
    /\ kernel' = [kernel EXCEPT ![k] = "exiting"]
    /\ UNCHANGED <<lock, handle, stopping, pc, mine, n_start>>

\* It clears the global handle when it is gone.
ClearsNot(k) ==
    /\ kernel[k] = "exiting" /\ lock = 0
    /\ kernel' = [kernel EXCEPT ![k] = "gone"]
    /\ UNCHANGED <<lock, handle, stopping, pc, mine, n_start>>
ClearsEarly(k) ==
    /\ kernel[k] = "running" /\ k \in stopping /\ lock = 0
    /\ handle' = 0
    /\ UNCHANGED <<lock, kernel, stopping, pc, mine, n_start>>
Clears(k) ==
    /\ kernel[k] = "exiting" /\ lock = 0
    /\ kernel' = [kernel EXCEPT ![k] = "gone"]
    /\ handle' = 0
    /\ UNCHANGED <<lock, stopping, pc, mine, n_start>>

(***************************************************************************)
(* do_shutdown, which spins until the handle is gone.                      *)
(***************************************************************************)
ShutDown(c) ==
    /\ pc[c] = "idle" /\ mine[c] # 0
    /\ stopping' = stopping \cup {mine[c]}
    /\ Goto(c, "spin")
    /\ UNCHANGED <<lock, handle, kernel, mine, n_start>>

Seen(c) ==
    /\ pc[c] = "spin" /\ lock = 0 /\ handle = 0
    /\ mine' = [mine EXCEPT ![c] = 0]
    /\ Goto(c, "idle")
    /\ UNCHANGED <<lock, handle, kernel, stopping, n_start>>

Next ==
    \/ \E c \in Caller : StartLock(c) \/ Started(c) \/ ShutDown(c) \/ Seen(c)
    \/ \E k \in Kernel : Runs(k) \/ Exits(k) \/ Clears(k)

Spec == Init /\ [][Next]_vars

-----------------------------------------------------------------------------
TypeOK ==
    /\ lock \in Caller \cup {0} /\ handle \in Kernel \cup {0}
    /\ kernel \in [Kernel -> {"none", "starting", "running", "exiting", "gone"}]
    /\ stopping \subseteq Kernel
    /\ pc \in [Caller -> {"idle", "wait", "spin"}]
    /\ mine \in [Caller -> Kernel \cup {0}]
    /\ n_start \in 0..MaxStart

\* Two kernels never drive the card at the same time.
OneKernel ==
    \A k, l \in Kernel :
        kernel[k] \in {"starting", "running"} /\ kernel[l] \in {"starting", "running"} => k = l

\* When do_shutdown returns, the kernel the caller was using is gone.
ShutDownMeansGone ==
    \A c \in Caller : mine[c] # 0 /\ mine'[c] = 0 => kernel[mine[c]] = "gone"

-----------------------------------------------------------------------------
\* What MCProgress says ends: do_shutdown returns, if no other thread starts the kernel again
\* behind its back.
Spinning(c) == pc[c] = "spin"
=============================================================================
