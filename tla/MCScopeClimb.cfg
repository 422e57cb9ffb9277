CONSTANTS
    T = T
    N1 = N1
    N2 = N2
    N3 = N3
    TS = TS
    S1 = S1
    S2 = S2
    S3 = S3
    GM = GM
    M0 = M0
    M1 = M1
    None = None
    Top = T
    SDFGs <- MCSDFGs
    States <- MCStates
    Entries <- MCEntries
    StateSDFG <- MCStateSDFG
    EntryState <- MCEntryState
    EntryParent <- MCEntryParent
    Schedule <- MCSchedule
    NestState <- MCNestState
    NestScope <- MCNestScope
    Storages <- MCStorages
    FreeSyms <- MCFreeSyms
    ConstProp <- MCConstProp
    InEdges <- MCInEdges
    Shapes <- MCShapes
SPECIFICATION Spec
INVARIANT SizeFixedKeepsClimbResult
