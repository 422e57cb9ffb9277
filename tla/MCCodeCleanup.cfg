CONSTANTS
    A = A
    B = B
    L1 = L1
    L2 = L2
    Stmts <- MCStmts
    Labels <- MCLabels
    MaxLines = 6
    MaxOut = 3
SPECIFICATION Spec
INVARIANT TypeOK CleanupPreservesExecution
