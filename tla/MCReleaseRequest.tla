-------------------------- MODULE MCReleaseRequest --------------------------
(***************************************************************************)
(* TLC instances of ReleaseRequest.                                        *)
(***************************************************************************)
EXTENDS ReleaseRequest

\* A plain inspection, and sanitizations and releases with a token.
AskedForToken ==
  [kind : {"inspect"}, token : {NoToken}]
    \cup [kind : {"release"}, token : {NoToken}]
    \cup [kind : {"sanitize", "release"}, token : Token]
=============================================================================
