------------------------------ MODULE SharedStack ------------------------------
(***************************************************************************)
(* What the rendezvous store promises the endpoints of one connection: a   *)
(* single stack in force, changed only by transitions that exclude each    *)
(* other.  A transition begins, publishes one proposal for everybody to    *)
(* read, and either commits exactly that proposal or is never finished.    *)
(***************************************************************************)
EXTENDS Naturals

CONSTANTS Stack, NoStack

VARIABLES
    value,      \* the stack in force
    round,      \* two per transition: odd while one is in progress
    proposal    \* what the transition in progress proposes

vars == <<value, round, proposal>>

Init == value = NoStack /\ round = 0 /\ proposal = NoStack

Create(s) ==
    /\ value = NoStack
    /\ value' = s
    /\ UNCHANGED <<round, proposal>>

Begin ==
    /\ value # NoStack /\ round % 2 = 0
    /\ round' = round + 1
    /\ UNCHANGED <<value, proposal>>

Propose(s) ==
    /\ round % 2 = 1 /\ proposal = NoStack
    /\ proposal' = s
    /\ UNCHANGED <<value, round>>

Commit ==
    /\ round % 2 = 1 /\ proposal # NoStack
    /\ value' = proposal
    /\ proposal' = NoStack
    /\ round' = round + 1

Next == Begin \/ Commit \/ \E s \in Stack : Create(s) \/ Propose(s)

Spec == Init /\ [][Next]_vars
=============================================================================
