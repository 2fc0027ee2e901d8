--------------------------- MODULE MCMatterAccess ---------------------------
(***************************************************************************)
(* TLC instances of MatterAccess.                                          *)
(***************************************************************************)
EXTENDS MatterAccess, TLC

CONSTANTS alice, bob

Symmetry == Permutations(Request)

Creation == [kind : {"create"}, by : {alice}]

Downloads == [kind : {"download"}, by : User]

Grants ==
  [kind : {"grant"}, by : User, user : User,
   perm : {"admin", "download_original"} \cup Unknown, confirm : {FALSE}]

Revokes(perms, confirms) ==
  [kind : {"revoke"}, by : User, user : User, perm : perms, confirm : confirms]

\* Two users who make each other admin and take it away again, and who grant,
\* take away and use the original.
Requests ==
  Creation \cup Downloads \cup Grants
    \cup Revokes({"admin"}, BOOLEAN) \cup Revokes({"download_original"}, {TRUE})
=============================================================================
