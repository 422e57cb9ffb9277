------------------------------ MODULE MCInitExit ------------------------------
(***************************************************************************)
(* Two targets (a CPU-like one with an initialiser and a finaliser, and a *)
(* GPU-like one with both), two environments, of which the second depends *)
(* on the first, and the persistent allocations.                           *)
(***************************************************************************)
EXTENDS InitExit

CONSTANTS T1, T2, E1, E2, P

MCTargetOrder == <<T1, T2>>
MCEnvOrder == <<E1, E2>>
=============================================================================
