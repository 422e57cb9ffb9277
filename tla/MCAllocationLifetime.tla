----------------------- MODULE MCAllocationLifetime -----------------------
(***************************************************************************)
(* Model-checking instances of AllocationLifetime: small control-flow     *)
(* graphs over four or five states, and the map scopes of the dataflow    *)
(* graphs.  State S1 holds a GPU kernel M1 with a sequential map M2 nested *)
(* in it; M3 is a multicore map, at the top level of S2 (or of S1).       *)
(***************************************************************************)
EXTENDS AllocationLifetime

CONSTANTS S0, S1, S2, S3, S4, M1, M2, M3, B1

MCStates4 == {S0, S1, S2, S3}
MCStates5 == {S0, S1, S2, S3, S4}
MCBuffers == {B1}

\* S0 -> S1 -> S2 -> S3
Linear == [edge |-> {<<S0, S1>>, <<S1, S2>>, <<S2, S3>>}, order |-> <<S0, S1, S2, S3>>]
\* S0 branches to S1 and S2, which join in S3
Diamond == [edge |-> {<<S0, S1>>, <<S0, S2>>, <<S1, S3>>, <<S2, S3>>},
            order |-> <<S0, S1, S2, S3>>]
\* S1 branches to two sink states S2 and S3
TwoExits == [edge |-> {<<S0, S1>>, <<S1, S2>>, <<S1, S3>>}, order |-> <<S0, S1, S2, S3>>]
\* A state-machine loop: guard S1, body S2, exit S3
Loop == [edge |-> {<<S0, S1>>, <<S1, S2>>, <<S2, S1>>, <<S1, S3>>},
         order |-> <<S0, S1, S2, S3>>]
\* S0 branches three ways; S1 and S2 join in S3, S4 returns directly
Branch3 == [edge |-> {<<S0, S1>>, <<S0, S2>>, <<S0, S4>>, <<S1, S3>>, <<S2, S3>>},
            order |-> <<S0, S1, S2, S4, S3>>]

AcyclicShapes == {Linear, Diamond, TwoExits}
LoopShapes == {Loop}
Branch3Shapes == {Branch3}
TwoExitsShapes == {TwoExits}

\* Transient, non-constant descriptors of every lifetime and storage; a
\* view only with a size bound to a non-free symbol (otherwise a view is
\* planned like any buffer and never checked).
MCDescs ==
    {d \in [lifetime: AllLifetimes, storage: {"CPU_Heap", "GPU_Shared", "CPU_ThreadLocal"},
            transient: {TRUE}, constant: {FALSE}, view: BOOLEAN, nonfree: BOOLEAN] :
        d.view => d.nonfree}

MCEntries == {M1, M2, M3}
\* M3 at the top level of S2, or of S1 next to the kernel M1
MCEntryState == [e \in MCEntries |-> IF e = M3 THEN S2 ELSE S1]
MCEntryStateDisjoint == [e \in MCEntries |-> S1]
MCEntryParent == [e \in MCEntries |-> IF e = M2 THEN M1 ELSE None]
MCSchedule == [e \in MCEntries |->
                 CASE e = M1 -> "GPU_Device" [] e = M2 -> "Sequential"
                   [] OTHER -> "CPU_Multicore"]
=============================================================================
