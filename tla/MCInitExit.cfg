CONSTANTS
    T1 = T1
    T2 = T2
    E1 = E1
    E2 = E2
    P = P
    TargetOrder <- MCTargetOrder
    HasInit = {T1, T2}
    HasFin = {T1, T2}
    EnvOrder <- MCEnvOrder
    EnvInit = {E1, E2}
    EnvFin = {E1, E2}
    Persistent = P
    MaxInits = 2
    MaxRuns = 2
SPECIFICATION Spec
INVARIANT
    TypeOK
    ExitReleasesAll
PROPERTY
    ProgramRunsInitialised
    ImplementsLibrary
