----------------------------- MODULE ScopeClimb -----------------------------
(***************************************************************************)
(* The symbols and constants of every SDFG, resolved once when the code   *)
(* generator is built (framecode.py:51-78), composed with the end of       *)
(* determine_allocation_lifetime for one buffer of a possibly nested SDFG  *)
(* (framecode.py:719-796), whose non-free-symbol test reads them.  From   *)
(* the candidate scope the planner climbs the scope tree until the storage *)
(* can be allocated, crossing NestedSDFG nodes into parent SDFGs; falls    *)
(* back to the top-level SDFG; lets the non-free-symbol branch move a      *)
(* single-state buffer to its state; appends to to_allocate and records   *)
(* where_allocated.                                                        *)
(*                                                                         *)
(* Scopes are map entry nodes, states and SDFGs.  A nested SDFG g sits in *)
(* the state NestState[g], inside the map NestScope[g] or at the state's  *)
(* top level (None).  Symbols, constants and connectors are names.        *)
(***************************************************************************)
EXTENDS Naturals, Sequences, SequencesExt

CONSTANTS
    Top,          \* the top-level SDFG
    SDFGs,        \* Top and the nested SDFGs
    States,       \* states of all SDFGs
    Entries,      \* map entry nodes of all states
    StateSDFG,    \* [States -> SDFGs]: state.parent
    EntryState,   \* [Entries -> States]
    EntryParent,  \* [Entries -> Entries \cup {None}]: scope_dict
    Schedule,     \* [Entries -> schedule]
    NestState,    \* [SDFGs \ {Top} -> States]: state of parent_nsdfg_node
    NestScope,    \* [SDFGs \ {Top} -> Entries \cup {None}]: its entry_node
    Storages,     \* storage types of the buffers
    None          \* Python None

CONSTANTS
    FreeSyms,     \* [SDFGs -> SUBSET names]: sdfg.free_symbols
    ConstProp,    \* [SDFGs -> SUBSET names]: sdfg.constants_prop.keys()
    InEdges,      \* [SDFGs \ {Top} -> SUBSET (names \X names)]: the
                  \* (edge.data.data, edge.dst_conn) of the in-edges of the
                  \* NestedSDFG node
    Shapes        \* the sets of symbols a buffer's size may depend on

Scopes == Entries \cup States \cup SDFGs
ParentSDFG(g) == StateSDFG[NestState[g]]

\* The SDFG a scope belongs to.
SDFGOf(c) == CASE c \in SDFGs -> c
               [] c \in States -> StateSDFG[c]
               [] OTHER -> StateSDFG[EntryState[c]]

-----------------------------------------------------------------------------
(* dace.dtypes and dace.sdfg.scope (not in src).                           *)

CanAllocateStorage(storage, schedule) ==
    CASE storage = "CPU_Heap"   -> schedule \in {"Sequential", "CPU_Multicore"}
      [] storage = "GPU_Shared" -> schedule = "GPU_Device"
      [] OTHER                  -> TRUE

RECURSIVE EntryPath(_)
EntryPath(e) == IF e = None THEN <<>> ELSE <<e>> \o EntryPath(EntryParent[e])

\* is_devicelevel_gpu(sdfg, state, node): node, or the NestedSDFG node of
\* sdfg or of an SDFG around it, lies inside a GPU_Device map.
RECURSIVE InKernel(_, _)
InKernel(g, node) ==
    \/ \E e \in ToSet(EntryPath(node)) : Schedule[e] = "GPU_Device"
    \/ g # Top /\ InKernel(ParentSDFG(g), NestScope[g])

-----------------------------------------------------------------------------
(* Helpers of DaCeCodeGenerator.                                           *)

\* _get_schedule (lines 491-509).
RECURSIVE GetSchedule(_)
GetSchedule(scope) ==
    IF scope = None THEN "Sequential"
    ELSE IF scope \in Entries THEN Schedule[scope]
    ELSE IF SDFGOf(scope) = Top THEN "Sequential"
    ELSE IF NestScope[SDFGOf(scope)] # None
         THEN GetSchedule(NestScope[SDFGOf(scope)])
         ELSE GetSchedule(NestState[SDFGOf(scope)])

\* _can_allocate(sdfg, state, desc, scope) (lines 511-529).
CanAllocate(sdfg, storage, scope) ==
    \/ CanAllocateStorage(storage, GetSchedule(scope))
    \/ /\ storage = "GPU_Shared"
       /\ InKernel(IF scope \in SDFGs THEN scope ELSE sdfg,
                   IF scope \in Entries THEN scope ELSE None)

-----------------------------------------------------------------------------

VARIABLES
    symconst,   \* _symbols_and_constants, by SDFG
    buf,        \* the buffer: [sdfg, start (alloc_scope), storage, shape]
    cursdfg,    \* cursdfg of the climb
    curstate,   \* curstate of the climb
    curscope,   \* curscope of the climb
    phase,      \* "resolve", "climb", "placed" or "done"
    key,        \* the to_allocate key the buffer is appended to
    where       \* where_allocated[(sdfg, name)]

vars == <<symconst, buf, cursdfg, curstate, curscope, phase, key, where>>

StateOfStart(b) ==
    CASE b.start \in Entries -> EntryState[b.start]
      [] b.start \in States -> b.start
      [] OTHER -> CHOOSE s \in States : StateSDFG[s] = b.sdfg

Buffer == {b \in [sdfg: SDFGs, start: Scopes, storage: Storages, shape: Shapes] :
             SDFGOf(b.start) = b.sdfg}

\* The root's entry (lines 56-58).
RootEntry == FreeSyms[Top] \cup ConstProp[Top]

Init ==
    /\ symconst = (Top :> RootEntry)
    /\ buf \in Buffer
    /\ cursdfg = buf.sdfg
    /\ curstate = IF buf.start \in SDFGs THEN None ELSE StateOfStart(buf)
    /\ curscope = buf.start
    /\ phase = "resolve"
    /\ key = None
    /\ where = None

\* Mutant: only the parent's own constants make a connector constant.
ResolveOwnConstants(g) ==
    /\ phase = "resolve"
    /\ g \notin DOMAIN symconst
    /\ ParentSDFG(g) \in DOMAIN symconst
    /\ LET parent_constants == symconst[ParentSDFG(g)]
       IN  symconst' = symconst @@ (g :> (FreeSyms[g] \cup ConstProp[g] \cup parent_constants
                          \cup {e[2] : e \in {e \in InEdges[g] : e[1] \in ConstProp[ParentSDFG(g)]}}))
    /\ UNCHANGED <<buf, cursdfg, curstate, curscope, phase, key, where>>

\* One NestedSDFG node met by sdfg.all_nodes_recursive() (lines 60-78),
\* which yields the node of a nested SDFG before the nodes inside it: the
\* nested SDFG gets its own free symbols and constants, every entry of its
\* parent, and the connectors fed by data the parent holds constant.
ResolveNested(g) ==
    /\ phase = "resolve"
    /\ g \notin DOMAIN symconst
    /\ ParentSDFG(g) \in DOMAIN symconst
    /\ LET parent_constants == symconst[ParentSDFG(g)]
       IN  symconst' = symconst @@ (g :> (FreeSyms[g] \cup ConstProp[g] \cup parent_constants
                          \cup {e[2] : e \in {e \in InEdges[g] : e[1] \in parent_constants}}))
    /\ UNCHANGED <<buf, cursdfg, curstate, curscope, phase, key, where>>

\* The generator is built; determine_allocation_lifetime reads the entry of
\* every SDFG into fsyms (lines 542-544), and reaches the buffer.
Resolved ==
    /\ phase = "resolve"
    /\ DOMAIN symconst = SDFGs
    /\ phase' = "climb"
    /\ UNCHANGED <<symconst, buf, cursdfg, curstate, curscope, key, where>>

\* utils.is_nonfree_sym_dependent(node, desc, state, fsymbols) (not in
\* src): the size uses a symbol outside fsyms[sdfg.cfg_id] (line 753).
NonFree(b) == ~(b.shape \subseteq symconst[b.sdfg])

CannotAllocate ==
    /\ phase = "climb"
    /\ curscope # None
    /\ ~CanAllocate(cursdfg, buf.storage, curscope)

\* Go one scope up (lines 730-734).
ClimbEntry ==
    /\ CannotAllocate
    /\ curscope \in Entries
    /\ curscope' = IF EntryParent[curscope] = None THEN curstate ELSE EntryParent[curscope]
    /\ UNCHANGED <<symconst, buf, cursdfg, curstate, phase, key, where>>

\* Go one SDFG up (lines 735-745): to the entry node of the NestedSDFG
\* node, which is None when that node is at the top level of its state.
ClimbSDFG ==
    /\ CannotAllocate
    /\ curscope \in States \cup SDFGs
    /\ LET g == SDFGOf(curscope)
       IN  IF g = Top
           THEN /\ curscope' = None /\ curstate' = None /\ cursdfg' = None
           ELSE /\ curstate' = NestState[g]
                /\ curscope' = NestScope[g]
                /\ cursdfg' = ParentSDFG(g)
    /\ UNCHANGED <<symconst, buf, phase, key, where>>

\* The loop ends (lines 726-729); None becomes the top-level SDFG (748-749).
\* With curscope None the loop ends whatever _can_allocate answers.
StopClimb ==
    /\ phase = "climb"
    /\ IF curscope = None THEN TRUE ELSE CanAllocate(cursdfg, buf.storage, curscope)
    /\ curscope' = IF curscope = None THEN Top ELSE curscope
    /\ phase' = "placed"
    /\ UNCHANGED <<symconst, buf, cursdfg, curstate, key, where>>

\* The non-free-symbol test and the append (lines 751-796), for a buffer
\* whose first and last instance are the same state.
\* Mutant of Record: where_allocated always takes the current SDFG, also
\* when the key is an SDFG reached by climbing.
RecordCurSDFG ==
    /\ phase = "placed"
    /\ key' = IF curscope \notin Entries /\ NonFree(buf)
              THEN StateOfStart(buf) ELSE curscope
    /\ where' = cursdfg
    /\ phase' = "done"
    /\ UNCHANGED <<symconst, buf, cursdfg, curstate, curscope>>

Record ==
    /\ phase = "placed"
    /\ key' = IF curscope \notin Entries /\ NonFree(buf)
              THEN StateOfStart(buf) ELSE curscope
    /\ where' = IF key' \in SDFGs THEN key' ELSE cursdfg
    /\ phase' = "done"
    /\ UNCHANGED <<symconst, buf, cursdfg, curstate, curscope>>

Done ==
    /\ phase = "done"
    /\ UNCHANGED vars

Next == (\E g \in SDFGs \ {Top} : ResolveNested(g)) \/ Resolved
        \/ ClimbEntry \/ ClimbSDFG \/ StopClimb \/ Record \/ Done

Spec == Init /\ [][Next]_vars

-----------------------------------------------------------------------------
\* The connectors of g fed, through the connectors of the NestedSDFG nodes
\* around it, by a constant of an enclosing SDFG.
RECURSIVE ConstIn(_)
ConstIn(g) ==
    IF g = Top THEN {}
    ELSE LET up == ConstProp[ParentSDFG(g)] \cup ConstIn(ParentSDFG(g))
         IN  {e[2] : e \in {e \in InEdges[g] : e[1] \in up}}

\* The names whose values are fixed for a whole run of g: its free symbols
\* (its arguments), its constants and its constant inputs.
FixedIn(g) == FreeSyms[g] \cup ConstProp[g] \cup ConstIn(g)

\* A buffer whose size depends only on names fixed for its SDFG (its
\* arguments, its constants and the constants passed down through the
\* connectors of enclosing NestedSDFG nodes) is not moved by the
\* non-free-symbol branch (lines 751-753, which read the symbols and
\* constants resolved at lines 51-78 across every level of nesting): it is
\* appended at the scope the climb ended on, and where_allocated holds
\* that scope's SDFG, also when the climb fell back to the top level.
SizeFixedKeepsClimbResult ==
    phase = "done" /\ buf.shape \subseteq FixedIn(buf.sdfg) =>
        key = curscope /\ where = SDFGOf(key)

\* Spec section 4.1, step 5: the planner records the final resolved scope
\* of the buffer.  where_allocated (lines 793-796) holds the SDFG of the
\* scope the buffer is appended to in to_allocate.
WhereAllocatedHoldsKey ==
    phase = "done" => where = SDFGOf(key)
=============================================================================
