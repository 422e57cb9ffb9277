CONSTANTS
    S0 = S0
    S1 = S1
    S2 = S2
    S3 = S3
    S4 = S4
    M1 = M1
    M2 = M2
    M3 = M3
    B1 = B1
    SDFG = SDFG
    None = None
    States <- MCStates4
    Start = S0
    Entries <- MCEntries
    EntryState <- MCEntryState
    EntryParent <- MCEntryParent
    Schedule <- MCSchedule
    Shapes <- LoopShapes
    Buffers <- MCBuffers
    Descs <- MCDescs
    MaxNodes = 2
    MaxEdgeUses = 1
SPECIFICATION Spec
INVARIANT
    AccessedWhileLive
