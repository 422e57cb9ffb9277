------------------------------ MODULE InitExit ------------------------------
(***************************************************************************)
(* The init and exit functions DaCeCodeGenerator.generate_footer emits,    *)
(* and a caller that loads the library, runs the program and unloads it.  *)
(*                                                                         *)
(* __dace_init_<sdfg> allocates the state object, calls every target      *)
(* initialiser OR-ing the statuses into __result, runs the environments'   *)
(* init code and the persistent allocations (_initcode), and then either   *)
(* deletes the state and returns nullptr (__result nonzero) or returns it. *)
(* __dace_exit_<sdfg> runs the persistent deallocations (_exitcode), calls *)
(* every target finaliser, keeping the last nonzero status in __err, runs  *)
(* the environments' finalisation code in reverse, deletes the state and   *)
(* returns __err.  Each emitted statement is one step below.               *)
(***************************************************************************)
EXTENDS Naturals, Sequences, SequencesExt

CONSTANTS
    TargetOrder,  \* used_targets, in the (fixed) order both loops visit them
    HasInit,      \* targets with has_initializer
    HasFin,       \* targets with has_finalizer
    EnvOrder,     \* self.environments, in dependency order
    EnvInit,      \* environments with nonempty init_code
    EnvFin,       \* environments with nonempty finalize_code
    Persistent,   \* the component name of the persistent allocations
    MaxInits,     \* most calls of the init function
    MaxRuns       \* most calls of the program

Targets == ToSet(TargetOrder)
Envs == ToSet(EnvOrder)
Components == Targets \cup Envs \cup {Persistent}

ASSUME IsInjective(TargetOrder) /\ IsInjective(EnvOrder)
ASSUME HasInit \subseteq Targets /\ HasFin \subseteq Targets
ASSUME EnvInit \subseteq Envs /\ EnvFin \subseteq Envs
ASSUME Persistent \notin Targets \cup Envs
ASSUME MaxInits \in Nat \ {0} /\ MaxRuns \in Nat

VARIABLES
    call,        \* the library function running: "idle", "init" or "exit"
    at,          \* index of the next statement of that function
    result,      \* __result of the init function (0 or 1)
    err,         \* __err of the exit function: 0 or the failing target
    ret,         \* the status the last exit call returned (0 or 1)
    stateLive,   \* the object behind __state is allocated
    handle,      \* the caller's handle: "none", "live" or "closed"
    acquired,    \* components initialised and not yet finalised
    brokenInit,  \* target initialisers that report failure
    brokenFin,   \* target finalisers that report failure
    inits,       \* init calls made so far
    runs         \* program calls made so far

vars == <<call, at, result, err, ret, stateLive, handle, acquired,
          brokenInit, brokenFin, inits, runs>>

Step(kind, c) == [kind |-> kind, c |-> c]

\* The statements of __dace_init_<sdfg>, in emission order.
InitSteps ==
    <<Step("new", Persistent)>>
    \o [i \in 1..Len(SelectSeq(TargetOrder, LAMBDA t : t \in HasInit)) |->
          Step("target", SelectSeq(TargetOrder, LAMBDA t : t \in HasInit)[i])]
    \o [i \in 1..Len(SelectSeq(EnvOrder, LAMBDA e : e \in EnvInit)) |->
          Step("env", SelectSeq(EnvOrder, LAMBDA e : e \in EnvInit)[i])]
    \o <<Step("persistent", Persistent), Step("return", Persistent)>>

\* Mutant: the persistent deallocations (_exitcode) are not emitted.
ExitStepsNoPersistent ==
    [i \in 1..Len(SelectSeq(TargetOrder, LAMBDA t : t \in HasFin)) |->
       Step("target", SelectSeq(TargetOrder, LAMBDA t : t \in HasFin)[i])]
    \o [i \in 1..Len(SelectSeq(Reverse(EnvOrder), LAMBDA e : e \in EnvFin)) |->
          Step("env", SelectSeq(Reverse(EnvOrder), LAMBDA e : e \in EnvFin)[i])]
    \o <<Step("delete", Persistent), Step("return", Persistent)>>

\* The statements of __dace_exit_<sdfg>, in emission order.
ExitSteps ==
    <<Step("persistent", Persistent)>>
    \o [i \in 1..Len(SelectSeq(TargetOrder, LAMBDA t : t \in HasFin)) |->
          Step("target", SelectSeq(TargetOrder, LAMBDA t : t \in HasFin)[i])]
    \o [i \in 1..Len(SelectSeq(Reverse(EnvOrder), LAMBDA e : e \in EnvFin)) |->
          Step("env", SelectSeq(Reverse(EnvOrder), LAMBDA e : e \in EnvFin)[i])]
    \o <<Step("delete", Persistent), Step("return", Persistent)>>

\* The statement about to run in function f.
Current(f) ==
    IF f = "init" THEN InitSteps[at] ELSE ExitSteps[at]

Running(f, kind) ==
    /\ call = f
    /\ at \in DOMAIN (IF f = "init" THEN InitSteps ELSE ExitSteps)
    /\ Current(f).kind = kind

Next1 == at' = at + 1

-----------------------------------------------------------------------------
(* The caller.                                                              *)

Init ==
    /\ call = "idle"
    /\ at = 1
    /\ result = 0
    /\ err = 0
    /\ ret = 0
    /\ stateLive = FALSE
    /\ handle = "none"
    /\ acquired = {}
    /\ brokenInit \in SUBSET HasInit
    /\ brokenFin \in SUBSET HasFin
    /\ inits = 0
    /\ runs = 0

\* The caller loads the library, or retries after a null handle.
CallInit ==
    /\ call = "idle"
    /\ handle = "none"
    /\ inits < MaxInits
    /\ call' = "init"
    /\ at' = 1
    /\ inits' = inits + 1
    /\ UNCHANGED <<result, err, ret, stateLive, handle, acquired,
                   brokenInit, brokenFin, runs>>

\* __program_<sdfg>(__state, ...): runs the program on a live handle.
RunProgram ==
    /\ call = "idle"
    /\ handle = "live"
    /\ runs < MaxRuns
    /\ runs' = runs + 1
    /\ UNCHANGED <<call, at, result, err, ret, stateLive, handle, acquired,
                   brokenInit, brokenFin, inits>>

\* The caller unloads the library.
CallExit ==
    /\ call = "idle"
    /\ handle = "live"
    /\ call' = "exit"
    /\ at' = 1
    /\ err' = 0
    /\ UNCHANGED <<result, ret, stateLive, handle, acquired,
                   brokenInit, brokenFin, inits, runs>>

-----------------------------------------------------------------------------
(* __dace_init_<sdfg> (framecode.py:279-313).                              *)

\* int __result = 0; __state = new <state struct>;
NewState ==
    /\ Running("init", "new")
    /\ result' = 0
    /\ stateLive' = TRUE
    /\ Next1
    /\ UNCHANGED <<call, err, ret, handle, acquired, brokenInit, brokenFin, inits, runs>>

\* Mutant: __result = __dace_init_<target>(...) overwrites earlier failures.
InitTargetAssign ==
    /\ Running("init", "target")
    /\ LET t == Current("init").c
       IN  IF t \in brokenInit
           THEN /\ result' = 1
                /\ UNCHANGED acquired
           ELSE /\ acquired' = acquired \cup {t}
                /\ result' = 0
    /\ Next1
    /\ UNCHANGED <<call, err, ret, stateLive, handle, brokenInit, brokenFin, inits, runs>>

\* Mutant: __result += ... adds the failure statuses up.
InitTargetSum ==
    /\ Running("init", "target")
    /\ LET t == Current("init").c
       IN  IF t \in brokenInit
           THEN /\ result' = result + 1
                /\ UNCHANGED acquired
           ELSE /\ acquired' = acquired \cup {t}
                /\ UNCHANGED result
    /\ Next1
    /\ UNCHANGED <<call, err, ret, stateLive, handle, brokenInit, brokenFin, inits, runs>>

\* __result |= __dace_init_<target>(__state, ...);
InitTarget ==
    /\ Running("init", "target")
    /\ LET t == Current("init").c
       IN  IF t \in brokenInit
           THEN /\ result' = 1
                /\ UNCHANGED acquired
           ELSE /\ acquired' = acquired \cup {t}
                /\ UNCHANGED result
    /\ Next1
    /\ UNCHANGED <<call, err, ret, stateLive, handle, brokenInit, brokenFin, inits, runs>>

\* The init code of an environment, or the persistent allocations.
InitCode ==
    /\ \/ Running("init", "env")
       \/ Running("init", "persistent")
    /\ acquired' = acquired \cup {Current("init").c}
    /\ Next1
    /\ UNCHANGED <<call, result, err, ret, stateLive, handle, brokenInit, brokenFin, inits, runs>>

\* if (__result) { delete __state; return nullptr; } return __state;
InitReturn ==
    /\ Running("init", "return")
    /\ IF result # 0
       THEN /\ stateLive' = FALSE
            /\ UNCHANGED handle
       ELSE /\ handle' = "live"
            /\ UNCHANGED stateLive
    /\ call' = "idle"
    /\ at' = 1
    /\ UNCHANGED <<result, err, ret, acquired, brokenInit, brokenFin, inits, runs>>

-----------------------------------------------------------------------------
(* __dace_exit_<sdfg> (framecode.py:316-352).                              *)

\* The persistent deallocations (_exitcode), or an environment's
\* finalize_code.
ExitCode ==
    /\ \/ Running("exit", "persistent")
       \/ Running("exit", "env")
    /\ acquired' = acquired \ {Current("exit").c}
    /\ Next1
    /\ UNCHANGED <<call, result, err, ret, stateLive, handle, brokenInit, brokenFin, inits, runs>>

\* Mutant: __err = __err_t, the last finaliser's status wins.
ExitTargetLastStatus ==
    /\ Running("exit", "target")
    /\ LET t == Current("exit").c
       IN  /\ acquired' = acquired \ {t}
           /\ err' = IF t \in brokenFin THEN t ELSE 0
    /\ Next1
    /\ UNCHANGED <<call, result, ret, stateLive, handle, brokenInit, brokenFin, inits, runs>>

\* int __err_t = __dace_exit_<target>(__state); if (__err_t) __err = __err_t;
ExitTarget ==
    /\ Running("exit", "target")
    /\ LET t == Current("exit").c
       IN  /\ acquired' = acquired \ {t}
           /\ err' = IF t \in brokenFin THEN t ELSE err
    /\ Next1
    /\ UNCHANGED <<call, result, ret, stateLive, handle, brokenInit, brokenFin, inits, runs>>

\* delete __state;
ExitDelete ==
    /\ Running("exit", "delete")
    /\ stateLive' = FALSE
    /\ Next1
    /\ UNCHANGED <<call, result, err, ret, handle, acquired, brokenInit, brokenFin, inits, runs>>

\* return __err;
ExitReturn ==
    /\ Running("exit", "return")
    /\ ret' = IF err = 0 THEN 0 ELSE 1
    /\ handle' = "closed"
    /\ call' = "idle"
    /\ at' = 1
    /\ UNCHANGED <<result, err, stateLive, acquired, brokenInit, brokenFin, inits, runs>>

\* The caller is done: the library is unloaded, or no retry is left.
Finished ==
    /\ call = "idle"
    /\ \/ handle = "closed"
       \/ handle = "none" /\ inits = MaxInits
    /\ UNCHANGED vars

\* The statements of the generated functions.
Generated ==
    \/ NewState \/ InitTarget \/ InitCode \/ InitReturn
    \/ ExitCode \/ ExitTarget \/ ExitDelete \/ ExitReturn

Next ==
    \/ CallInit \/ RunProgram \/ CallExit
    \/ Generated
    \/ Finished

Spec == Init /\ [][Next]_vars

-----------------------------------------------------------------------------
(* Properties.                                                              *)

TypeOK ==
    /\ call \in {"idle", "init", "exit"}
    /\ at \in 1..(Len(InitSteps) + Len(ExitSteps))
    /\ result \in {0, 1}
    /\ err \in {0} \cup Targets
    /\ ret \in {0, 1}
    /\ stateLive \in BOOLEAN
    /\ handle \in {"none", "live", "closed"}
    /\ acquired \subseteq Components
    /\ inits \in 0..MaxInits /\ runs \in 0..MaxRuns

\* The program (__program_<sdfg>) only ever runs on a state whose every
\* target initialiser succeeded and whose environments and persistent
\* buffers are initialised: the init function's __result must remember a
\* failure of any initialiser, not only of the last one.
ProgramRunsInitialised ==
    [][RunProgram => /\ stateLive
                     /\ HasInit \cup EnvInit \cup {Persistent} \subseteq acquired]_vars

\* Once exit has returned, every component that has a finaliser (the
\* persistent buffers, targets and environments) is released, and so is
\* the state object.
ExitReleasesAll ==
    handle = "closed" =>
        /\ ~stateLive
        /\ acquired \cap (HasFin \cup EnvFin \cup {Persistent}) = {}

\* When init returns nullptr, nothing it initialised stays initialised:
\* the caller holds no handle through which exit could release it.
InitFailureReleasesAll ==
    (call = "idle" /\ handle = "none") => acquired = {}

\* The refinement: the library as its caller sees it.
Abs == INSTANCE Library
         WITH Initialisers <- HasInit,
              Finalisers <- HasFin,
              lib <- CASE handle = "none" -> "unloaded"
                       [] handle = "live" -> "ready"
                       [] OTHER -> "closed",
              mem <- IF call = "init" THEN FALSE
                     ELSE IF call = "exit" THEN TRUE
                     ELSE stateLive,
              status <- ret,
              faultyInit <- brokenInit,
              faultyFin <- brokenFin

\* init returns a handle iff every initialiser succeeded; exit always
\* releases the state and returns nonzero iff some finaliser failed.
ImplementsLibrary == Abs!LibSpec
=============================================================================
