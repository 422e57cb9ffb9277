--------------------------- MODULE MCCodeCleanup ---------------------------
EXTENDS CodeCleanup

CONSTANTS A, B, L1, L2

MCStmts == {A, B}
MCLabels == {L1, L2}
=============================================================================
