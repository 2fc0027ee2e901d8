---------------------------- MODULE MCAuditChain ----------------------------
(***************************************************************************)
(* TLC instances of AuditChain.                                            *)
(***************************************************************************)
EXTENDS AuditChain, TLC

Symmetry == Permutations(Matter) \cup Permutations(Proc) \cup Permutations(Slot)
=============================================================================
