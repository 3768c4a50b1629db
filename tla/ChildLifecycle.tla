--------------------------- MODULE ChildLifecycle ---------------------------
(***************************************************************************)
(* What the manager of the child process promises to everyone else: it     *)
(* attends to one child at a time, and before it starts the next, the      *)
(* Reset that tells of the end of the last one is on its way, and the      *)
(* cache that one filled was cleared.  Mux and Supervision implement it.   *)
(***************************************************************************)
EXTENDS Naturals

VARIABLES
    phase,  \* "down"; "up", a child runs; "reset", its Reset was sent
    epoch,  \* the number of children started
    told    \* a Reset is on its way to the router

vars == <<phase, epoch, told>>

Init ==
    /\ phase = "down"
    /\ epoch = 0
    /\ told = FALSE

Start ==
    /\ phase = "down"
    /\ phase' = "up"
    /\ epoch' = epoch + 1
    /\ told' = told

Tell ==
    /\ phase = "up"
    /\ phase' = "reset"
    /\ told' = TRUE
    /\ epoch' = epoch

Clear ==
    /\ phase = "reset"
    /\ phase' = "down"
    /\ UNCHANGED <<epoch, told>>

\* The router takes a Reset; an earlier or a later one may be queued too.
Deliver ==
    /\ told
    /\ told' \in BOOLEAN
    /\ UNCHANGED <<phase, epoch>>

Next == Start \/ Tell \/ Clear \/ Deliver

Spec == Init /\ [][Next]_vars
=============================================================================
