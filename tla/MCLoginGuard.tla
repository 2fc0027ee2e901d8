----------------------------- MODULE MCLoginGuard -----------------------------
(* Guessing from two addresses against one process; a first boot; the secret *)
(* deleted under single sign-on; a restart into it; and the signing key.     *)
EXTENDS LoginGuard, TLC

CONSTANTS t1, t2, t3, t4, p1, p2, k1, k2

MCThread == {t1, t2, t3, t4}
MCProcOf == [t \in {t1, t2, t3} |-> p1] @@ t4 :> p2
MCPeerOf == [t \in {t1, t2, t4} |-> k1] @@ t3 :> k2
MCSymmetry == Permutations({t1, t2})     \* two threads of one process and peer
MCPerson == {[sub |-> "ann", mail |-> "ann@firm"], [sub |-> "bob", mail |-> "bob@other"]}
MCInvited == {"ann@firm"}

Site(tasks, threads, requests, seconds) ==
  [sso |-> FALSE, cookie |-> 1, faults |-> FALSE, deletes |-> FALSE,
   tasks |-> tasks, threads |-> threads, asks |-> requests, clock |-> seconds]

MCSites ==
  { Site({"login"}, {t1, t2, t3}, 4, 3),
    Site({"login"}, {t1, t3}, 4, 4),
    [Site({"login", "check", "revoke"}, {t1, t2, t4}, 4, 1) EXCEPT !.cookie = Missing],
    [Site({"redirect", "callback", "check"}, {t3, t4}, 3, 2)
       EXCEPT !.sso = TRUE, !.deletes = TRUE],
    [Site({"login", "check", "revoke"}, {t3, t4}, 3, 2)
       EXCEPT !.cookie = Missing, !.faults = TRUE],
    [Site({"sign"}, {t1, t2, t4}, 4, 0) EXCEPT !.faults = TRUE] }
==============================================================================
