------------------------------- MODULE RunSlot -------------------------------
(***************************************************************************)
(* What a session promises about its one run slot, without handlers,       *)
(* goroutines, storage or history.  A run holds the slot while exactly one *)
(* worker (the request that prepares, answers or executes it) works on it, *)
(* while it is parked on a question to the user, or, once nobody works on  *)
(* it and nobody was asked, abandoned.  Only the worker lets go of the      *)
(* slot; a parked or an abandoned run is let go by a restart alone.         *)
(***************************************************************************)
EXTENDS Naturals, FiniteSets

CONSTANTS Request, None

VARIABLES holder,   \* the run in the slot, None when it is free
          workers,  \* the requests at work on it
          parked,   \* the run waits for the user
          epoch     \* restarts of the process

vars == <<holder, workers, parked, epoch>>

Init == holder = None /\ workers = {} /\ parked = FALSE /\ epoch = 0

Acquire(w) ==
    /\ holder = None
    /\ holder' = w /\ workers' = {w}
    /\ UNCHANGED <<parked, epoch>>

Park ==
    /\ workers # {}
    /\ workers' = {} /\ parked' = TRUE
    /\ UNCHANGED <<holder, epoch>>

Answer(w) ==
    /\ parked
    /\ workers' = {w} /\ parked' = FALSE
    /\ UNCHANGED <<holder, epoch>>

Release ==
    /\ workers # {}
    /\ holder' = None /\ workers' = {}
    /\ UNCHANGED <<parked, epoch>>

Abandon ==
    /\ workers # {} \/ parked
    /\ workers' = {} /\ parked' = FALSE
    /\ UNCHANGED <<holder, epoch>>

Crash ==
    /\ holder' = None /\ workers' = {} /\ parked' = FALSE
    /\ epoch' = epoch + 1

Next ==
    \/ \E w \in Request : Acquire(w) \/ Answer(w)
    \/ Park \/ Release \/ Abandon
    \/ Crash

Spec == Init /\ [][Next]_vars
=============================================================================
