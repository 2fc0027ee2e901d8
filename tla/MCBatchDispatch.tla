-------------------------- MODULE MCBatchDispatch --------------------------
(***************************************************************************)
(* TLC instances of BatchDispatch: which calls may raise, by run.          *)
(***************************************************************************)
EXTENDS BatchDispatch, TLC

Symmetry == Permutations(Job) \cup Permutations(Proc) \cup Permutations(Request)

NoFaults == {}
TransientFaults == {"create", "stage", "audit", "release", "check"}
LostCalls == {"claim", "announce"}
CheckFaults == {"stage", "release", "check"}
=============================================================================
