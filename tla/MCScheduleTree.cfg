CONSTANTS
    R = R
    A = A
    S1 = S1
    B = B
    S2 = S2
    C = C
    F1 = F1
    F2 = F2
    Root = R
    Nodes <- MCNodes
    Fresh <- MCFresh
    InitScopes <- MCScopes
    InitChildren <- MCInitChildren
    Results <- MCResultsAll
SPECIFICATION Spec
INVARIANT RewriteMatchesSpec ChildrenAreNodes
