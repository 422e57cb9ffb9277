--------------------------- MODULE MCScopeClimb ---------------------------
EXTENDS ScopeClimb

CONSTANTS T, N1, N2, N3, TS, S1, S2, S3, GM, M0, M1

(* T: state TS holds the GPU kernel GM, with nested SDFG N1 inside it, and *)
(*    a host map M0; nested SDFG N3 sits at TS's top level.                 *)
(* N1: state S1 holds a sequential map M1, and nested SDFG N2 at its top   *)
(*    level.  N2 and N3: one state each.                                    *)
MCSDFGs == {T, N1, N2, N3}
MCStates == {TS, S1, S2, S3}
MCEntries == {GM, M0, M1}
MCStateSDFG == (TS :> T) @@ (S1 :> N1) @@ (S2 :> N2) @@ (S3 :> N3)
MCEntryState == (GM :> TS) @@ (M0 :> TS) @@ (M1 :> S1)
MCEntryParent == (GM :> None) @@ (M0 :> None) @@ (M1 :> None)
MCSchedule == (GM :> "GPU_Device") @@ (M0 :> "CPU_Multicore") @@ (M1 :> "Sequential")
MCNestState == (N1 :> TS) @@ (N2 :> S1) @@ (N3 :> TS)
MCNestScope == (N1 :> GM) @@ (N2 :> None) @@ (N3 :> None)
MCStorages == {"CPU_Heap", "GPU_Shared"}

(* T has the argument N and the constant array C.  N1 takes C as its      *)
(* input c1, and N2 takes c1 of N1 as its input c2; N2 does not have N as *)
(* an argument.  i is bound on an inter-state edge.                        *)
MCFreeSyms == (T :> {"N"}) @@ (N1 :> {"N"}) @@ (N2 :> {}) @@ (N3 :> {})
MCConstProp == (T :> {"C"}) @@ (N1 :> {}) @@ (N2 :> {}) @@ (N3 :> {})
MCInEdges == (N1 :> {<<"C", "c1">>}) @@ (N2 :> {<<"c1", "c2">>}) @@ (N3 :> {})
MCShapes == {{}, {"N"}, {"c2"}, {"i"}}
=============================================================================
