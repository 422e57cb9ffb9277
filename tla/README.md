# Model checking DaCe's frame-code generator and schedule trees

This directory holds TLA+ models of the DaCe frame-code generator
(`src/dace/codegen/targets/framecode.py`) and of the schedule-tree transformer
(`src/dace/sdfg/analysis/schedule_tree/treenodes.py`). TLC checks the models.

## The system and its parts

`DaCeCodeGenerator` turns an SDFG into C++. An SDFG is a control-flow graph of
states, and each state holds a dataflow graph with nested map scopes. The parts
that change state, and how they interact:

| Part | Code | What it does |
|---|---|---|
| Allocation lifetime planner | `__init__` (51-78), `determine_allocation_lifetime` (531-796), `_get_schedule`, `_can_allocate` | Resolves the symbols and constants of every SDFG once, passing constant inputs down through NestedSDFG connectors. For every transient, decides which scope (the SDFG, a state or a map entry) declares, allocates and frees it. Writes `to_allocate`, `where_allocated` and `statestruct`. |
| Dominator search | `_get_dominator_and_postdominator` (1021-1055) | Finds the closest common dominator and post-dominator of the accessed states. Used for non-free-symbol buffers. |
| Frame orchestration | `generate_code` (830-1018), `generate_state` (406-470), `generate_states`, `allocate_/deallocate_arrays_in_scope` (798-828) | Emits the allocations of the SDFG scope, then every state (its allocations, body and deallocations), then the SDFG-scope deallocations. |
| Init/exit protocol | `generate_footer` (228-352) | Emits `__dace_init_*` and `__dace_exit_*`: target initialisers, environments, finalisers. |
| External memory | `generate_external_memory_management` (354-404) | Lays out External buffers by a running offset per storage type. |
| Code cleanup | `generate_code` (992-1015) | Removes unused labels and goto-then-label pairs from the emitted text. |
| File header | `generate_fileheader` (128-202) | Writes environment includes, the definitions of the custom types the arrays use, the constants, the state struct and global code. |
| Schedule tree | `treenodes.py` | Node classes, their `as_string` rendering with `LoopScope._check_loop_variant`, and `ScheduleNodeTransformer.generic_visit`, which splices children and resets parent links. |

The planner runs once, before any code is emitted. Orchestration then reads
`to_allocate` at every scope. The property that ties them together is that the
generated program touches an owned buffer only while it is allocated. This holds
on every control-flow path of the SDFG, not only along the topological order
the planner walked.

## Modules

- `Dominators.tla` covers dominance over a control-flow graph `[node, edge]`,
  using the community module `Graphs`.
  - Dominance, post-dominance (towards a virtual sink) and the immediate
    (post-)dominators come from `dace.sdfg.utils`. That code is not in the
    source tree, so they are defined from the spec.
  - `ClimbDominator`, `ClimbPostdominator` and
    `GetDominatorAndPostdominator` translate the two `while` loops and their
    `NotImplementedError` exits. A raise is returned as `ok = FALSE`.
- `AllocationLifetime.tla` covers the planner and the execution of the code it
  plans, for one top-level SDFG.
  - State:
    - the inputs `cfg`, `desc`, `nodesIn` (access nodes per state, by
      enclosing map) and `edgeUse` (inter-state edges naming the buffer);
    - the generator's `to_allocate`, `where_allocated` and `statestruct`;
    - `pc`, the point the generated program has reached;
    - `live`, the allocation balance of each buffer.
  - `PlanOf(b)` is one iteration of the planner's loop over the arrays:
    - the Persistent/External/Global cases;
    - `Candidate`, which covers the shared/SDFG, State and Scope lifetimes.
      The Scope case is the fold `ScopeScan` of `ScopeStep` over the access
      nodes, and treats curscope None exactly as the code does;
    - `Climb` (lines 721-749);
    - the non-free-symbol branch: views, the reachability test, the
      dominator placement and the one-state case;
    - the final append.

    `PlanBuffer` applies it, and `PlanFails` is the raise.
  - The remaining actions are the generated program:
    - `BeginProgram`: SDFG-scope allocations;
    - `EnterState` and `LeaveState`: the two halves of `generate_state`;
    - `TakeEdge`: the inter-state control flow;
    - `ExitProgram`: SDFG-scope deallocations;
    - `Terminated`: code generation failed or the program returned.
  - Map-scope allocations are opened and closed inside a state's body, so they
    appear only as the coverage they give (`Covered`).
- `MCAllocationLifetime.tla` sets up the instances to check:
  - states S0..S4;
  - a GPU kernel M1 with a sequential map M2 inside it, and a multicore map M3
    in S2 (`MCEntryStateDisjoint` puts all three in S1);
  - one buffer B1 of every lifetime, storage, view and non-free combination;
  - the control-flow shapes Linear, Diamond, TwoExits, Loop and Branch3.

- `ScopeClimb.tla` covers the symbols and constants resolved when the
  generator is built (51-78), and the end of the planner's loop for one
  buffer of a nested SDFG (719-796), whose non-free-symbol test reads them.
  - `symconst` is `_symbols_and_constants`. `Init` fills the root entry
    (`RootEntry`, 56-58). `ResolveNested(g)` is one NestedSDFG node met by
    `all_nodes_recursive`: g gets its free symbols, its constants, its
    parent's entry and the connectors fed by data in that entry. A nested
    SDFG is met after its parent. `Resolved` ends the resolution.
  - A buffer has the set of names its size uses. `NonFree` is
    `is_nonfree_sym_dependent` against the buffer's own SDFG entry (line 753).
  - `GetSchedule` is `_get_schedule`, with its recursion through NestedSDFG
    nodes. `CanAllocate` is `_can_allocate`.
  - The actions `ClimbEntry`, `ClimbSDFG` and `StopClimb` are the branches of
    the `while` loop.
  - `Record` is the single-state non-free-symbol branch, the append and the
    `where_allocated` record.
  - `FixedIn(g)` is the reference for the names whose values are fixed
    during a run of g: its arguments, its constants and the connectors fed
    by a constant of an enclosing SDFG, through any number of levels.
  - `MCScopeClimb` sets up the instance. The top SDFG's state TS has a GPU
    kernel GM holding nested SDFG N1, and a nested SDFG N3 at its top level.
    N1's state S1 has nested SDFG N2 at its top level. T has the argument N
    and the constant C. N1 takes C as input c1, and N2 takes c1 as input c2.
    A buffer's size uses nothing, N, c2, or the inter-state symbol i.
- `Library.tla` is the abstract promise of the generated library (spec
  section 6). Init returns a live handle only when no initialiser failed.
  Exit releases the state and returns nonzero exactly when a finaliser
  failed.
- `InitExit.tla` covers the generated `__dace_init_<sdfg>` and
  `__dace_exit_<sdfg>` (`generate_footer`, 279-352) and a caller.
  - `InitSteps` and `ExitSteps` list the emitted statements in order:
    - init: `new`, the target initialisers, the environments' init code, the
      persistent allocations, the return;
    - exit: the persistent frees, the target finalisers in init order, the
      environments' finalize code in reverse, `delete`, the return.
  - `at` is the statement reached. There is one action per kind of
    statement: `NewState`, `InitTarget` (`__result |= ...`), `InitCode`,
    `InitReturn`, `ExitCode`, `ExitTarget` (`if (__err_t) __err = __err_t`),
    `ExitDelete` and `ExitReturn`.
  - `acquired` is the set of targets, environments and persistent buffers
    currently initialised.
  - The caller (`CallInit`, `RunProgram`, `CallExit`) loads the library,
    retries after a null handle up to `MaxInits` times, runs the program and
    unloads it.
  - Which initialisers and finalisers fail (`brokenInit`, `brokenFin`) is
    fixed at the start, as a broken dependency stays broken.
  - `Abs == INSTANCE Library WITH ...` maps the handle, the state object and
    the returned status onto `Library`. The mapping of `mem` is FALSE during
    an init call and TRUE during an exit call, because the abstract steps
    happen at the returns.
- `ExternalMemory.tla` covers `generate_external_memory_management`
  (353-404).
  - `ExtArrays(s)`, `Size(s)` and `Offset(s, n)` are the grouping per
    storage, the size query and the running offset of the bind function.
  - A caller queries the size, allocates that many bytes and binds the
    region (`QueryAndAllocate`, `SetExternalMemory`).
- `CodeCleanup.tla` covers the clean-up loop at the end of `generate_code`
  (992-1015).
  - A line is blank, `;`, a statement, `goto l;` or a marked label
    `l: ////...`.
  - There is one action per branch of the loop body: `SkipBlank`,
    `DropUnusedLabel`, `CollapseGotoLabel` and `KeepLine`.
  - `Execution(c)` is the reference: the first `MaxOut` statements the code
    runs when gotos jump to their labels, and how it ends (exit, more
    statements, a loop without statements, or an undefined label).
- `ScheduleTree.tla` covers `ScheduleNodeTransformer.generic_visit`
  (414-429).
  - `stack` holds the nested `generic_visit` frames. `VisitChild(r)` is one
    iteration of the loop over the children, where `r` is what the
    transformer's visit method returns: generic recursion, None, a new leaf,
    a new scope over the child's children (built by
    `ScheduleTreeScope.__init__` or by a `@dataclass` subclass constructor),
    the child's children as a list, or a list holding a None.
  - `FinishFrame` sets the parents, replaces the children in place and
    returns the scope to the enclosing frame, or raises at a None.
  - `Preorder` is `preorder_traversal` and defines the tree reachable from
    the root.
- `TypeDefinitions.tla` covers the custom-type part of `generate_fileheader`
  (153-182).
  - Types are numbered in construction order: a pointer or struct can only
    name a type built before it. `TypeTables(n)` is every way of building
    n types as scalars, pointers and structs.
  - `EmitDefinitions(t, st)` is `_emit_definitions`: recurse into the base of
    a pointer or the fields of a struct, then write a struct's definition
    unless `emitted` holds it.
  - `EmitFor(typ)` is one iteration of `for typ in datatypes`. The set's
    order is a nondeterministic choice.
  - `Below(t)` is the reference: the types t names, directly or not.
- `Rendering.tla` covers the `as_string` methods of `treenodes.py`.
  - A node is a record of its class, its loop flags and its children. A line
    is its indentation level and a token standing for its text; conditions,
    names and memlets are left out. A string is kept split into lines, so
    `'\n'.join` is concatenation and a trailing `'\n'` is a blank line.
  - `ScopeString`, `LoopString` and `AsString` translate the scope, loop and
    per-class renderers. `LoopVariant` is `_check_loop_variant`.
  - `Render` is the call `stree.as_string()`.
  - `ReadBack` reads a text back by indentation, and `TableForm` is the
    spec's decision table for the loop forms.
- `MCInitExit`, `MCExternalMemory`, `MCCodeCleanup`, `MCScheduleTree`,
  `MCTypeDefinitions` and `MCRendering` give the constants values.

## Runs

| Run | cfg | Expect | What it shows |
|---|---|---|---|
| plan_safe | MCAllocationLifetime.cfg | pass | On the acyclic shapes, every plan keeps every access and inter-state condition covered (`AccessedWhileLive`), never allocates twice frees a free one (`NoDoubleAllocation`). The loop shapes are left to loop_use_after_free. About 2.0M distinct states, 1.5 minutes. |
| loop_use_after_free | _loop.cfg | violation | In the loop S1⇄S2, the post-dominator of S2 is S1. The buffer is allocated and freed inside S1, and the condition S1→S2 then reads freed memory. |
| reachable_raises | _reach.cfg | violation | Line 770 compares (state, node) tuples with a set of states, so a buffer whose accesses are all reachable still enters the dominator search. Here it raises `NotImplementedError`. |
| climb_legal | MCScopeClimb.cfg | pass | Every order of resolving the nested SDFGs, and every start scope, storage, size and SDFG of the instance. A buffer whose size uses only names fixed for its SDFG, c2 passed down two levels included, is not moved by the non-free branch: it is appended at the scope its climb ended on, and `where_allocated` holds that scope's SDFG, also after the fallback to the top level (`SizeFixedKeepsClimbResult`). 844 states. |
| where_allocated_stale | MCScopeClimb_where.cfg | violation | A CPU_Heap buffer of N2 sized by i climbs out of N2 into N1 and stops at the top-level fallback. The non-free branch puts it back in N2's state S2, but `where_allocated` records N1 (`WhereAllocatedHoldsKey`). |
| init_exit | MCInitExit.cfg | pass | Two targets and two environments, all with init and finalize code, every combination of failing initialisers and finalisers, and two inits. The program runs only on a state whose every initialiser succeeded (`ProgramRunsInitialised`). A closed handle has released everything (`ExitReleasesAll`). The functions implement `Library` (`ImplementsLibrary`). 344 states. |
| init_failure_leak | MCInitExit_initleak.cfg | violation | With T1 failing, init returns nullptr while T2, both environments and the persistent buffers stay initialised. The caller has no handle to finalise them, and a retry initialises T2 again. |
| cleanup_semantics | MCCodeCleanup.cfg | pass | For every code of up to 6 lines over 2 statements and 2 labels (1.4M states), the cleaned code executes like the original (`CleanupPreservesExecution`). |
| external_layout | MCExternalMemory.cfg | pass | For up to 3 arrays over 2 storages, both lifetimes, total sizes 1 and 3 and element sizes 1 and 4, bound arrays fit in the queried region and do not overlap (`BoundArraysFitAndDisjoint`). |
| transformer_rewrite | MCScheduleTree.cfg | pass | On the tree R[A, S1[B, S2[C]]], with every mix of visit results, the subclass constructors included, the children of every generically visited scope are what the spec's delete/replace/splice rule gives (`RewriteMatchesSpec`), and no None becomes a child (`ChildrenAreNodes`). |
| type_definitions | MCTypeDefinitions.cfg | pass | Every way of building four types and every set of array dtypes, taken in any order: each struct definition is written once, after every struct it names, and every struct an array reaches is defined (`DefinitionsOnceBeforeUse`). 154k states, 7 s. |
| rendering | MCRendering.cfg | violation | `ScheduleTreeScope.as_string` (treenodes.py:50) prints its children with no header line. A gblock holding an empty plain scope prints `gblock:` and then `pass` two levels deeper, a nesting that no header explains, so the text does not read back to the tree (`RenderingReadsBack`). The spec calls the rendering canonical and says re-parsing it preserves nesting depth and child order. |

Each property of a passing run has a mutant, a plausible bug that breaks it:

| Property | Mutant |
|---|---|
| `TypeOK` | `where_allocated` records the scope instead of its SDFG |
| `AccessedWhileLive` | allocation and free states are swapped |
| `NoDoubleAllocation` | every entry is counted as an allocation |
| `SizeFixedKeepsClimbResult` | a connector counts as constant only when fed by the parent's own constants |
| `SizeFixedKeepsClimbResult` | `where_allocated` takes the current SDFG even when the key is an SDFG |
| `TypeOK` (InitExit) | `__result += ...` instead of `|=` |
| `ProgramRunsInitialised` | `__result = ...` instead of `|=` |
| `ExitReleasesAll` | `_exitcode` not emitted |
| `ImplementsLibrary` | `__err = __err_t` whatever `__err_t` is |
| `TypeOK` (CodeCleanup) | the skip of a blank line also skips the next line |
| `CleanupPreservesExecution` | the goto/label pair collapsed whatever the goto count |
| `BoundArraysFitAndDisjoint` | offset advanced before the pointer is written |
| `RewriteMatchesSpec` | children replaced only when some new value is left |
| `ChildrenAreNodes` | `val.parent` set only on values that are not None, and the values stored as they are |
| `DefinitionsOnceBeforeUse` | a struct's definition written before its fields are visited |

## Bounds

The model uses one buffer. Buffers are planned independently, and no property
relates two of them.

Per state there are at most two access nodes (`MaxNodes`), at distinct scopes.
That is enough for one node at the state level and one in a map, and for a
nested map with its parent: S1 holds the GPU kernel M1 with the Sequential
map M2 inside it, and S2 the multicore map M3. Two sibling maps of one state
are left to the disjoint-maps case below, which no run checks. At most one inter-state
edge names the buffer (`MaxEdgeUses`), which is what makes a buffer shared.

Four or five states give every dominance situation the code distinguishes:
- a chain;
- a join;
- two sinks, where no post-dominator exists;
- a loop;
- a branch that bypasses the join.

Each run explores every choice of lifetime, storage, flags and access pattern
over its shapes.

ScopeClimb's instance nests two levels deep inside a GPU kernel. A nested
SDFG sits inside a map (N1), and one sits at a state's top level both below
the kernel (N2) and outside it (N3). Host, multicore and sequential maps give
every schedule `_get_schedule` tells apart.

InitExit uses two targets and two environments. That is the least that
can show an order between two finalisers, and a failure of one initialiser
next to the success of another. One persistent group stands for all
`_initcode`. Two inits allow one retry.

CodeCleanup's 6 lines hold a goto, a label and the lines between them, a
second goto to the same label, or a backward jump forming a loop. The
execution compares up to 3 statements, which is enough to tell any two
orders of two statements apart.

ExternalMemory's sizes 1 and 3 and element sizes 1 and 4 give odd and even
offsets and overlapping candidates. Three arrays give a middle array.

ScheduleTree's tree has a leaf and a scope at the root, and a scope nested
in a scope. Two fresh ids allow two constructed nodes in one rewrite.

TypeDefinitions builds four types, which gives a pointer to a struct, a struct
reached only through another struct or a pointer, and two structs sharing a
field type. Every subset of the types is a possible set of array dtypes.

Rendering's trees have a root with one or two children. The first is a leaf,
or a scope of any class, a plain ScheduleTreeScope included, holding nothing, a leaf or an empty scope. The second
is a leaf or an empty scope. The first child's loops take all 32 flag
settings. Nested and second loops take one setting per form. So every form is
printed empty, nested in every class and followed by a sibling.

## Fairness and refinement

AllocationLifetime, ScopeClimb, CodeCleanup, ExternalMemory, ScheduleTree,
TypeDefinitions and Rendering check safety only too. Each is a sequential pass whose end is a stuttering step, so
deadlock checking stays on.

InitExit checks safety and refinement only, so it assumes no fairness. The
generated functions are straight-line code with no loop and no wait, so a
started call returning is not a question the model can make interesting.

`ImplementsLibrary` checks `Abs!LibSpec` as a temporal property, which shows
that InitExit refines Library. Each generated step maps to a stutter of
`Library`, and the returns map to `InitSucceeds` or `Exit`. A failing init
maps to a stutter, so `Library` never sees a live handle for it.

## Disagreements seen but not run

The project may hold twelve runs, so some disagreements the models reach have
no run of their own. Each is reproducible by a cfg that differs from one of
the runs in one constant or in the property it checks.
- **Dominator placement leaks (line 785).** With `Shapes <- Branch3Shapes`
  and `States <- MCStates5` in a copy of `MCAllocationLifetime_loop.cfg`,
  checking `NoLeakAtExit`: S0 branches to S1, S2 and S4, and S1 and S2 join
  at S3. A non-free-symbol buffer named by the condition of S1→S3 is
  allocated at the dominator S0 and freed at the post-dominator S3. The path
  S0→S4 returns with it allocated. The cause is the same as in
  loop_use_after_free: dominance says nothing about the paths that skip the
  post-dominator.
- **Disjoint maps (line 705).** With `EntryState <- MCEntryStateDisjoint` and
  `Shapes <- AcyclicShapes`, checking `PlanAllocatesOnce`: a Scope-lifetime
  buffer in two disjoint top-level maps of S1 is never allocated.
  `common_parent_scope` returns None for the state, the loop reads curscope
  None as "no scope yet", and alloc_scope None skips the buffer at line 718.
  This rests on `common_parent_scope`, which is modelled from the spec.
- **Subclass scopes keep stale parents (treenodes.py:66).** With
  `MCScheduleTree.cfg` itself, checking
  `ParentsMatchContainment`: a visit that returns a `LoopScope` or other
  `@dataclass` subclass built over S1's children leaves B and S2 with S1 as
  parent, although S1 is no longer in the tree. Only
  `ScheduleTreeScope.__init__` sets `child.parent`, and `generic_visit` sets
  the parents of the values returned, not of their children. The spec says
  parent links are always kept consistent with containment.
- **Re-allocation at a loop header (line 416).** In a copy of
  `MCAllocationLifetime_loop.cfg` checking `NoDoubleAllocation`: in the loop
  S1→S2→S1 with exit S1→S3, a non-free-symbol buffer named only by the
  condition of S1→S3 is allocated at the dominator S1 and freed at S3.
  `generate_state` allocates a state's buffers every time the state runs,
  so the second pass through S1 allocates it again before any free. The
  cause is again dominator placement inside a loop.

The ScopeClimb model also reaches these:
- Leaving a nested SDFG whose node sits at the top level of its state makes
  curscope None (line 743). The climb then ends at the top-level SDFG, not at
  that state.
- The single-state non-free branch (line 788) puts the buffer back in its own
  state, even when that state is inside a GPU kernel. where_allocated_stale
  shows the record that goes with it.
- `where_allocated` can be None (line 796), when the climb left the top-level
  SDFG before the non-free branch.
- A nested SDFG's entry holds every name of its parent's entry, mapped or not
  (line 70). N2 gets N, although N is not its argument. If N2 bound its own N
  on an inter-state edge, a buffer sized by it would pass as free.

The bind function also packs external arrays without padding (line 401).

## Not modelled

1. **Nested SDFGs in the whole planner.** ScopeClimb covers the climb and
   the record for one buffer. The allocation model that runs the generated
   code (AllocationLifetime) still has one top-level SDFG.
2. **Schedule tree parts.**
   - `ScheduleNodeVisitor` changes no state.
   - `ScheduleNodeTransformer.visit` on a list (403-410) is not called by
     `generic_visit`.
   - `validate_has_no_other_node_types` changes no state. What it checks
     is the property `ChildrenAreNodes`.
3. **Init/exit details.**
   - User `init_code`/`exit_code` and the instrumentation report save run
     user code and touch no tracked resource.
   - Environments without init or finalize code emit nothing and are
     excluded.
4. **Inter-state symbol declarations (`generate_code`, 875-930).** The
   types come from `infer_expr_type`, `loop_analysis` and
   `InterstateEdge.new_symbols`, none of which is in src. What is left is a
   loop that keeps the first known type of each symbol and writes a
   declaration unless the symbol is an argument or mapped by the
   NestedSDFG. No property about it would be deeper than its code, and the
   run slots are spent on the allocation planner.
5. **External memory.** The model does not let the size query and the bind
   disagree about the init parameters (see the hazard at 387).

The rest of the file header (includes, constants, the state struct and global
code) and `generate_header` only write text in a fixed order, and are left out.
So are target-specific allocators, instrumentation and the contents of
dataflow bodies.
