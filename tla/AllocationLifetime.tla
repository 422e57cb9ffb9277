------------------------- MODULE AllocationLifetime -------------------------
(***************************************************************************)
(* Allocation-lifetime planning of DaCeCodeGenerator (framecode.py) for   *)
(* one top-level SDFG, and the execution of the frame code it generates.  *)
(*                                                                         *)
(* Phase "plan": determine_allocation_lifetime visits the buffers one at   *)
(* a time (PlanBuffer) and appends (declare, allocate, deallocate) entries *)
(* to to_allocate, keyed by the SDFG, a state, or a map entry node; it     *)
(* may raise when no common post-dominator exists (Fail).                  *)
(* Later phases: the generated program runs.  generate_code allocates the *)
(* SDFG-scope entries first, generate_state emits, for every state, the    *)
(* state's allocations, the dataflow body, then its deallocations, and     *)
(* generate_code deallocates the SDFG-scope entries at the end.  The runs  *)
(* below check that this code never touches a buffer that is not live.     *)
(***************************************************************************)
EXTENDS Dominators, Naturals, FiniteSets

CONSTANTS
    States,       \* states of the SDFG (its control-flow blocks)
    Start,        \* the start state
    Entries,      \* map entry nodes of all states
    EntryState,   \* [Entries -> States]: the state holding each entry
    EntryParent,  \* [Entries -> Entries \cup {None}]: scope_dict of entries
    Schedule,     \* [Entries -> Schedules]: the schedule of each map
    Shapes,       \* control-flow graphs: [edge, order] with order a
                  \* topological block order (blockorder_topological_sort)
    Buffers,      \* data descriptors of the SDFG (sdfg.arrays)
    Descs,        \* descriptor attributes a buffer may have
    MaxNodes,     \* most access nodes of one buffer in one state
    MaxEdgeUses,  \* most inter-state edges naming one buffer
    SDFG,         \* the scope key of the SDFG itself
    None          \* Python None: no scope, no state

Schedules == {"Sequential", "CPU_Multicore", "GPU_Device"}
AllLifetimes == {"Persistent", "External", "Global", "SDFG", "State", "Scope"}
AllStorages == {"CPU_Heap", "GPU_Shared", "CPU_ThreadLocal"}

ASSUME Start \in States /\ Entries \cap States = {}
ASSUME EntryState \in [Entries -> States]
ASSUME EntryParent \in [Entries -> Entries \cup {None}]
ASSUME Schedule \in [Entries -> Schedules]
ASSUME Descs \subseteq [lifetime: AllLifetimes, storage: AllStorages,
                        transient: BOOLEAN, constant: BOOLEAN,
                        view: BOOLEAN, nonfree: BOOLEAN]
ASSUME MaxNodes \in Nat /\ MaxEdgeUses \in Nat

VARIABLES
    cfg,            \* the control-flow graph of the SDFG (one of Shapes)
    desc,           \* [Buffers -> descriptor attributes]
    nodesIn,        \* [Buffers -> [States -> Seq(scope)]]: access nodes
                    \* of the buffer in each state, in graph order, by the
                    \* scope (entry node, or None at state level) holding it
    edgeUse,        \* [Buffers -> set of edges whose condition or
                    \* assignments name the buffer]
    toPlan,         \* buffers determine_allocation_lifetime has not visited
    toAllocate,     \* self.to_allocate: [Keys -> Seq(Entry)]
    whereAllocated, \* self.where_allocated: [Buffers -> {SDFG, None, unset}]
    statestruct,    \* buffers with a field in the state struct
    pc,             \* [at |-> state, phase |-> plan/enter/body/edge/...]
    live            \* [Buffers -> BOOLEAN]: allocated in the running code

vars == <<cfg, desc, nodesIn, edgeUse, toPlan, toAllocate, whereAllocated,
          statestruct, pc, live>>

Keys == {SDFG} \cup States \cup Entries
Unset == "unset"
G == [node |-> States, edge |-> cfg.edge]

Entry == [buf: Buffers, state: States \cup {None},
          declare: BOOLEAN, allocate: BOOLEAN, deallocate: BOOLEAN]
MkEntry(b, s, d, a, f) ==
    [buf |-> b, state |-> s, declare |-> d, allocate |-> a, deallocate |-> f]

-----------------------------------------------------------------------------
(* Scope tree of the dataflow graphs (dace.sdfg.scope, not in src).        *)

RECURSIVE ScopePath(_)
\* The entry node e and its enclosing entry nodes, innermost first.
ScopePath(e) == IF e = None THEN <<>> ELSE <<e>> \o ScopePath(EntryParent[e])

\* scope_contains_scope: a is b or encloses it.
Encloses(a, b) == a \in Range(ScopePath(b))

\* common_parent_scope: the innermost entry node enclosing both, or None
\* when only the state itself encloses both.
CommonParentScope(a, b) ==
    LET common == Range(ScopePath(a)) \cap Range(ScopePath(b))
    IN  IF common = {} THEN None
        ELSE CHOOSE c \in common : \A o \in common : Encloses(o, c)

\* is_devicelevel_gpu(sdfg, state, node): node lies inside a GPU kernel.
DeviceLevelGPU(node) ==
    node # None /\ \E e \in Range(ScopePath(node)) : Schedule[e] = "GPU_Device"

\* dtypes.can_allocate: host memory from host schedules, shared memory in
\* kernels, thread-local memory anywhere.
CanAllocateStorage(storage, schedule) ==
    CASE storage = "CPU_Heap"   -> schedule \in {"Sequential", "CPU_Multicore"}
      [] storage = "GPU_Shared" -> schedule = "GPU_Device"
      [] OTHER                  -> TRUE

-----------------------------------------------------------------------------
(* Helpers of DaCeCodeGenerator.                                           *)

\* _get_schedule: a map's own schedule; top-level states, the SDFG and
\* None run Sequential.
GetSchedule(scope) == IF scope \in Entries THEN Schedule[scope] ELSE "Sequential"

\* _can_allocate(sdfg, state, desc, scope).
CanAllocate(d, scope) ==
    \/ CanAllocateStorage(d.storage, GetSchedule(scope))
    \/ /\ d.storage = "GPU_Shared"
       /\ DeviceLevelGPU(IF scope \in Entries THEN scope ELSE None)

\* The loop that climbs the scope tree until the descriptor can be
\* allocated; returns the final curscope and cursdfg (None once it has
\* climbed out of the top-level SDFG).  curstate is implied by the scope.
RECURSIVE Climb(_, _, _)
Climb(d, cursdfg, curscope) ==
    IF CanAllocate(d, curscope) \/ curscope = None
    THEN [scope |-> curscope, sdfg |-> cursdfg]
    ELSE IF curscope \in Entries
         THEN Climb(d, cursdfg, IF EntryParent[curscope] = None
                                THEN EntryState[curscope]
                                ELSE EntryParent[curscope])
         ELSE Climb(d, None, None)

-----------------------------------------------------------------------------
(* The analysis inputs of determine_allocation_lifetime.                   *)

\* access_instances[name]: the buffer's access nodes state by state in
\* topological block order, then one instance per state adjacent to an
\* inter-state edge that names the buffer.  An instance is <<state, scope>>.
Instances(b) ==
    LET PerState(s) ==
          [i \in 1..Len(nodesIn[b][s]) |-> <<s, nodesIn[b][s][i]>>]
          \o (IF \E e \in edgeUse[b] : s \in {e[1], e[2]}
              THEN <<<<s, "edge">>>> ELSE <<>>)
    IN  FlattenSeq([i \in 1..Len(cfg.order) |-> PerState(cfg.order[i])])

UsedIn(b) == {s \in States : nodesIn[b][s] # <<>>}

\* StateReachability: states reachable from s by at least one edge.
Reachable(s) ==
    {t \in States : \E e \in cfg.edge : e[1] = s /\ ConnectionsIn(G)[e[2], t]}

\* sdfg.shared_transients(): transients accessed in more than one state or
\* named by an inter-state edge.
Shared(b) == Cardinality(UsedIn(b)) > 1 \/ edgeUse[b] # {}

\* The Scope-lifetime scan over every access node, state by state: the
\* innermost common scope, the state using it, or multistate.  curscope
\* None stands both for "nothing found yet" and for a common parent scope
\* that is the state itself, exactly as in the code.
ScopeStep(acc, node) ==
    LET s     == node[1]
        scope == IF node[2] = None THEN s ELSE node[2]
        acc1  == [acc EXCEPT !.curstate = s]
    IN  IF acc.multi THEN acc
        ELSE IF acc.curstate # None /\ acc.curstate # s
             THEN [acc EXCEPT !.multi = TRUE]
        ELSE IF acc.curscope = None THEN [acc1 EXCEPT !.curscope = scope]
        ELSE IF scope \in States THEN [acc1 EXCEPT !.curscope = scope]
        ELSE IF acc.curscope \in States THEN acc1
        ELSE [acc1 EXCEPT !.curscope = CommonParentScope(scope, acc.curscope)]

ScopeScan(b) ==
    LET nodes == FlattenSeq([i \in 1..Len(cfg.order) |->
                   LET s == cfg.order[i]
                   IN  [j \in 1..Len(nodesIn[b][s]) |-> <<s, nodesIn[b][s][j]>>]])
    IN  FoldLeft(ScopeStep,
                 [curscope |-> None, curstate |-> None, multi |-> edgeUse[b] # {}],
                 nodes)

\* The candidate scope and state, or None when nothing is allocated.
Candidate(b) ==
    LET d    == desc[b]
        inst == Instances(b)
        scan == ScopeScan(b)
    IN  IF Shared(b) \/ d.lifetime = "SDFG"
        THEN [scope |-> IF inst = <<>> THEN None ELSE SDFG,
              state |-> IF inst = <<>> THEN None ELSE inst[1][1]]
        ELSE IF d.lifetime = "State"
        THEN CASE Cardinality(UsedIn(b)) > 1 -> [scope |-> SDFG, state |-> None]
               [] UsedIn(b) = {}             -> [scope |-> None, state |-> None]
               [] OTHER -> LET s == CHOOSE s \in UsedIn(b) : TRUE
                           IN  [scope |-> s, state |-> s]
        ELSE IF scan.multi THEN [scope |-> SDFG, state |-> None]
        ELSE [scope |-> scan.curscope, state |-> scan.curstate]

-----------------------------------------------------------------------------
(* determine_allocation_lifetime, the body of its loop over one buffer:    *)
(* the <<key, entry>> pairs appended to to_allocate in order, the SDFG     *)
(* recorded in where_allocated, the state-struct fields; or Raises.       *)

NoPlan == [ok |-> TRUE, adds |-> <<>>, where |-> Unset, struct |-> {}]
\* The iteration raises (no common post-dominator).
Raises == [NoPlan EXCEPT !.ok = FALSE]

\* Persistent, External and Global: one entry at the SDFG, a struct field
\* unless the storage is thread-local (not checked for Global).
PlanPersistent(b, first) ==
    [ok     |-> TRUE,
     adds   |-> <<<<SDFG, MkEntry(b, first, TRUE, TRUE, TRUE)>>>>,
     where  |-> SDFG,
     struct |-> IF desc[b].lifetime # "Global" /\ desc[b].storage = "CPU_ThreadLocal"
                THEN {} ELSE {b}]

\* A view whose size depends on a non-free symbol: allocate and deallocate
\* at every instance.
PlanViewEverywhere(b, inst, cursdfg) ==
    [ok     |-> TRUE,
     adds   |-> FlattenSeq([i \in 1..Len(inst) |->
                  << <<inst[i][1], MkEntry(b, inst[i][1], FALSE, TRUE, FALSE)>>,
                     <<inst[i][1], MkEntry(b, inst[i][1], FALSE, FALSE, TRUE)>> >>]),
     where  |-> cursdfg,
     struct |-> {}]

\* Mutant: where_allocated records the scope instead of its SDFG.
WhereAllocatedScope(curscope, cursdfg) ==
    IF curscope = SDFG THEN SDFG ELSE curscope

\* The SDFG recorded in where_allocated once curscope is final.
WhereAllocatedOf(curscope, cursdfg) ==
    IF curscope = SDFG THEN SDFG ELSE cursdfg

\* Mutant: allocation and deallocation states swapped.
PlanSplitSwapped(b, cur, declState, a, f, cursdfg) ==
    [ok     |-> TRUE,
     adds   |-> << <<cur, MkEntry(b, declState, TRUE, FALSE, FALSE)>>,
                   <<f, MkEntry(b, f, FALSE, TRUE, FALSE)>>,
                   <<a, MkEntry(b, a, FALSE, FALSE, TRUE)>> >>,
     where  |-> WhereAllocatedOf(f, cursdfg),
     struct |-> {}]

\* Declared in the resolved scope, allocated in state a, freed in state f.
PlanSplit(b, cur, declState, a, f, cursdfg) ==
    [ok     |-> TRUE,
     adds   |-> << <<cur, MkEntry(b, declState, TRUE, FALSE, FALSE)>>,
                   <<a, MkEntry(b, a, FALSE, TRUE, FALSE)>>,
                   <<f, MkEntry(b, f, FALSE, FALSE, TRUE)>> >>,
     where  |-> WhereAllocatedOf(f, cursdfg),
     struct |-> {}]

PlanOf(b) ==
    LET d      == desc[b]
        inst   == Instances(b)
        first  == IF inst = <<>> THEN None ELSE inst[1][1]
        last   == IF inst = <<>> THEN None ELSE inst[Len(inst)][1]
        cand   == Candidate(b)
        cl     == Climb(d, SDFG, cand.scope)
        cur    == IF cl.scope = None THEN SDFG ELSE cl.scope
        states == [i \in 1..Len(inst) |-> inst[i][1]]
        dp     == GetDominatorAndPostdominator(G, Start, states)
        \* inst is a (state, node) pair tested against a set of states
        anyUnreachable == \E i \in 1..Len(inst) : inst[i] \notin Reachable(first)
    IN
    IF ~d.transient \/ d.constant THEN NoPlan
    ELSE IF d.lifetime \in {"Persistent", "External", "Global"}
    THEN IF inst = <<>> THEN NoPlan ELSE PlanPersistent(b, first)
    ELSE IF cand.scope = None THEN NoPlan
    ELSE IF cur \notin Entries /\ d.nonfree /\ first # last
    THEN IF d.view THEN PlanViewEverywhere(b, inst, cl.sdfg)
         ELSE IF ~anyUnreachable THEN PlanSplit(b, cur, first, first, last, cl.sdfg)
         ELSE IF ~dp.ok THEN Raises
         ELSE PlanSplit(b, cur, None, dp.dom, dp.postdom, cl.sdfg)
    ELSE IF cur \notin Entries /\ d.nonfree
    THEN [ok |-> TRUE, adds |-> <<<<first, MkEntry(b, first, TRUE, TRUE, TRUE)>>>>,
          where |-> WhereAllocatedOf(first, cl.sdfg), struct |-> {}]
    ELSE [ok |-> TRUE, adds |-> <<<<cur, MkEntry(b, first, TRUE, TRUE, TRUE)>>>>,
          where |-> WhereAllocatedOf(cur, cl.sdfg), struct |-> {}]

\* Appends the pairs of adds, in order, to the lists of their keys.
AppendAll(ta, adds) ==
    [k \in Keys |->
        LET sel == SelectSeq(adds, LAMBDA p : p[1] = k)
        IN  ta[k] \o [i \in 1..Len(sel) |-> sel[i][2]]]

\* Mutant: every entry of the buffer counts as an allocation.
AllocsAnyEntry(k, b) ==
    Cardinality({i \in DOMAIN toAllocate[k] : toAllocate[k][i].buf = b})

\* Number of entries of scope key k that allocate (deallocate) buffer b.
Allocs(k, b) ==
    Cardinality({i \in DOMAIN toAllocate[k] :
                   toAllocate[k][i].buf = b /\ toAllocate[k][i].allocate})
Deallocs(k, b) ==
    Cardinality({i \in DOMAIN toAllocate[k] :
                   toAllocate[k][i].buf = b /\ toAllocate[k][i].deallocate})

\* Allocation balance of a buffer kept within -1..3 (views may be bound
\* several times).
Bounded(n) == IF n > 3 THEN 3 ELSE IF n < -1 THEN -1 ELSE n

\* allocate_arrays_in_scope / deallocate_arrays_in_scope executed at run time.
RunAllocate(k) == [b \in Buffers |-> Bounded(live[b] + Allocs(k, b))]
RunDeallocate(k) == [b \in Buffers |-> Bounded(live[b] - Deallocs(k, b))]

\* The access nodes one state may hold for one buffer: distinct scopes of
\* that state, at most MaxNodes of them, in graph order.
NodeSeqs(s) ==
    {q \in BoundedSeq({None} \cup {e \in Entries : EntryState[e] = s}, MaxNodes) :
        IsInjective(q)}

\* Every assignment of such node lists to the states.
AccessChoices ==
    LET RECURSIVE Assign(_)
        Assign(D) ==
          IF D = {} THEN {[s \in {} |-> <<>>]}
          ELSE LET s == CHOOSE s \in D : TRUE
               IN  {f @@ (s :> q) : f \in Assign(D \ {s}), q \in NodeSeqs(s)}
    IN  Assign(States)

-----------------------------------------------------------------------------
(* Actions.                                                                 *)

Init ==
    /\ cfg \in Shapes
    /\ desc \in [Buffers -> Descs]
    /\ nodesIn \in [Buffers -> AccessChoices]
    /\ edgeUse \in [Buffers -> {E \in SUBSET cfg.edge : Cardinality(E) <= MaxEdgeUses}]
    /\ toPlan = Buffers
    /\ toAllocate = [k \in Keys |-> <<>>]
    /\ whereAllocated = [b \in Buffers |-> Unset]
    /\ statestruct = {}
    /\ pc = [at |-> None, phase |-> "plan"]
    /\ live = [b \in Buffers |-> 0]

\* One iteration of the loop over sdfg.arrays_recursive().
PlanBuffer(b) ==
    /\ pc.phase = "plan"
    /\ b \in toPlan
    /\ LET p == PlanOf(b)
       IN  /\ p.ok
           /\ toAllocate' = AppendAll(toAllocate, p.adds)
           /\ whereAllocated' = IF p.where = Unset THEN whereAllocated
                                ELSE [whereAllocated EXCEPT ![b] = p.where]
           /\ statestruct' = statestruct \cup p.struct
    /\ toPlan' = toPlan \ {b}
    /\ UNCHANGED <<cfg, desc, nodesIn, edgeUse, pc, live>>

\* The iteration raises NotImplementedError: code generation aborts.
PlanFails(b) ==
    /\ pc.phase = "plan"
    /\ b \in toPlan
    /\ ~PlanOf(b).ok
    /\ pc' = [at |-> None, phase |-> "failed"]
    /\ UNCHANGED <<cfg, desc, nodesIn, edgeUse, toPlan, toAllocate,
                   whereAllocated, statestruct, live>>

\* generate_code: allocate the SDFG-scope entries, then run the start state.
BeginProgram ==
    /\ pc.phase = "plan"
    /\ toPlan = {}
    /\ live' = RunAllocate(SDFG)
    /\ pc' = [at |-> Start, phase |-> "enter"]
    /\ UNCHANGED <<cfg, desc, nodesIn, edgeUse, toPlan, toAllocate,
                   whereAllocated, statestruct>>

\* generate_state, head: the state's allocations.
EnterState ==
    /\ pc.phase = "enter"
    /\ live' = RunAllocate(pc.at)
    /\ pc' = [pc EXCEPT !.phase = "body"]
    /\ UNCHANGED <<cfg, desc, nodesIn, edgeUse, toPlan, toAllocate,
                   whereAllocated, statestruct>>

\* generate_state, rest: the dataflow body (map-scope allocations are
\* opened and closed inside it), then the state's deallocations.
LeaveState ==
    /\ pc.phase = "body"
    /\ live' = RunDeallocate(pc.at)
    /\ pc' = [pc EXCEPT !.phase = "edge"]
    /\ UNCHANGED <<cfg, desc, nodesIn, edgeUse, toPlan, toAllocate,
                   whereAllocated, statestruct>>

\* The generated control flow follows an outgoing inter-state edge.
TakeEdge(e) ==
    /\ pc.phase = "edge"
    /\ e \in cfg.edge
    /\ e[1] = pc.at
    /\ pc' = [at |-> e[2], phase |-> "enter"]
    /\ UNCHANGED <<cfg, desc, nodesIn, edgeUse, toPlan, toAllocate,
                   whereAllocated, statestruct, live>>

\* A sink state ends the SDFG: generate_code deallocates the SDFG scope.
ExitProgram ==
    /\ pc.phase = "edge"
    /\ pc.at \in Sinks(G)
    /\ live' = RunDeallocate(SDFG)
    /\ pc' = [at |-> None, phase |-> "done"]
    /\ UNCHANGED <<cfg, desc, nodesIn, edgeUse, toPlan, toAllocate,
                   whereAllocated, statestruct>>

\* Code generation failed or the generated program returned.
Terminated ==
    /\ pc.phase \in {"done", "failed"}
    /\ UNCHANGED vars

Next ==
    \/ \E b \in Buffers : PlanBuffer(b) \/ PlanFails(b)
    \/ BeginProgram
    \/ EnterState
    \/ LeaveState
    \/ \E e \in cfg.edge : TakeEdge(e)
    \/ ExitProgram
    \/ Terminated

Spec == Init /\ [][Next]_vars

-----------------------------------------------------------------------------
(* Properties.                                                              *)

TypeOK ==
    /\ cfg \in Shapes
    /\ toPlan \subseteq Buffers
    /\ toAllocate \in [Keys -> Seq(Entry)]
    /\ whereAllocated \in [Buffers -> {SDFG, None, Unset}]
    /\ statestruct \subseteq Buffers
    /\ pc \in [at: States \cup {None},
               phase: {"plan", "enter", "body", "edge", "done", "failed"}]
    /\ live \in [Buffers -> -1..3]

\* Buffers the generated code must allocate itself: transient, not a
\* compile-time constant, and not a view (a view binds a pointer only).
Owned(b) == desc[b].transient /\ ~desc[b].constant /\ ~desc[b].view

\* An access node at scope sc of state s is covered by a live allocation
\* or by an allocation opened at an enclosing map entry of that state.
Covered(b, s, sc) ==
    \/ live[b] > 0
    \/ \E k \in Entries : EntryState[k] = s /\ sc # None /\ Encloses(k, sc)
                          /\ Allocs(k, b) > 0

\* Every access node of an owned buffer executed by a state's dataflow
\* body, and every inter-state condition evaluated when the state is left,
\* finds the buffer allocated (generate_state, to_allocate).
AccessedWhileLive ==
    \A b \in Buffers : Owned(b) =>
        /\ pc.phase = "body" =>
              \A i \in DOMAIN nodesIn[b][pc.at] : Covered(b, pc.at, nodesIn[b][pc.at][i])
        /\ pc.phase = "edge" =>
              \A e \in edgeUse[b] : e[1] = pc.at => live[b] > 0

\* The generated code never allocates an owned buffer that is allocated,
\* and never frees one that is not.
NoDoubleAllocation == \A b \in Buffers : Owned(b) => live[b] \in {0, 1}

\* When the SDFG returns, every owned buffer has been freed.
NoLeakAtExit == pc.phase = "done" => \A b \in Buffers : Owned(b) => live[b] = 0

\* Once planning completes, every owned buffer that is used has exactly
\* one allocating and one deallocating entry, and an unused one has none
\* (spec section 3, Allocation Action).
PlanAllocatesOnce ==
    (pc.phase \notin {"plan", "failed"}) =>
        \A b \in Buffers : Owned(b) =>
            LET n == IF Instances(b) = <<>> THEN 0 ELSE 1
            IN  /\ SumFunction([k \in Keys |-> Allocs(k, b)]) = n
                /\ SumFunction([k \in Keys |-> Deallocs(k, b)]) = n

\* The comment of determine_allocation_lifetime (framecode.py:758-759):
\* the dominator search, whose failure raises NotImplementedError, is only
\* for buffers accessed in a state not reachable from the first one.
\* Planning therefore never fails on a buffer all of whose accessed
\* states are the first state or reachable from it.
ReachableAccessesNeverRaise ==
    pc.phase = "failed" =>
        \E b \in toPlan :
            LET inst  == Instances(b)
                first == inst[1][1]
            IN  /\ inst # <<>>
                /\ \E i \in 1..Len(inst) :
                    inst[i][1] # first /\ inst[i][1] \notin Reachable(first)
=============================================================================
