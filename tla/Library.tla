------------------------------ MODULE Library ------------------------------
(***************************************************************************)
(* What the generated library promises its caller (spec section 6): the   *)
(* init function returns a new state handle, or a null handle when any    *)
(* dependency initialiser reports a nonzero status; the exit function      *)
(* releases the state handle unconditionally and returns a nonzero status *)
(* exactly when some dependency finaliser failed.  Which initialisers and  *)
(* finalisers fail is fixed when the library is loaded (faultyInit,        *)
(* faultyFin).                                                             *)
(***************************************************************************)
CONSTANTS Initialisers, Finalisers

VARIABLES
    lib,         \* "unloaded" (no handle), "ready" (handle live), "closed"
    mem,         \* the state object behind the handle is allocated
    status,      \* the status the exit function returned (0 or 1)
    faultyInit,  \* the initialisers that report failure
    faultyFin    \* the finalisers that report failure

libVars == <<lib, mem, status, faultyInit, faultyFin>>

LibInit ==
    /\ lib = "unloaded"
    /\ mem = FALSE
    /\ status = 0
    /\ faultyInit \in SUBSET Initialisers
    /\ faultyFin \in SUBSET Finalisers

\* Init returns a live handle: only when no initialiser failed.
InitSucceeds ==
    /\ lib = "unloaded"
    /\ faultyInit = {}
    /\ lib' = "ready"
    /\ mem' = TRUE
    /\ UNCHANGED <<status, faultyInit, faultyFin>>

\* Exit returns: the state is released whatever the finalisers report,
\* and the status says whether one of them failed.
Exit ==
    /\ lib = "ready"
    /\ lib' = "closed"
    /\ mem' = FALSE
    /\ status' = IF faultyFin = {} THEN 0 ELSE 1
    /\ UNCHANGED <<faultyInit, faultyFin>>

LibNext == InitSucceeds \/ Exit

LibSpec == LibInit /\ [][LibNext]_libVars
=============================================================================
