-------------------------- MODULE MCScheduleTree --------------------------
EXTENDS ScheduleTree

CONSTANTS R, A, S1, B, S2, C, F1, F2

\* R: [A, S1];  S1: [B, S2];  S2: [C]
MCNodes == {R, A, S1, B, S2, C, F1, F2}
MCFresh == {F1, F2}
MCScopes == {R, S1, S2}
MCInitChildren ==
    [n \in MCNodes \ MCFresh |->
        CASE n = R -> <<A, S1>>
          [] n = S1 -> <<B, S2>>
          [] n = S2 -> <<C>>
          [] OTHER -> <<>>]

\* Every result a visit method may give, but the subclass constructors.
MCResults == {"generic", "delete", "replace", "rescope", "unwrap", "with_none"}
MCResultsAll == MCResults \cup {"rescope_dataclass"}
=============================================================================
