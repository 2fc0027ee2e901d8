----------------------------- MODULE JobOutcome -----------------------------
(***************************************************************************)
(* What a caller may rely on for one sanitize or inspect Job: it ends      *)
(* once, either with a published bundle that passed the gate or with none. *)
(***************************************************************************)
VARIABLES outcome, passed

Init == outcome = "pending"

Publish == outcome = "pending" /\ passed /\ outcome' = "published"

Withhold == outcome = "pending" /\ outcome' = "withheld"

Next == Publish \/ Withhold

Ends == <>(outcome # "pending")

\* passed is the verdict on the bytes at hand: it may change while they do.
Spec == Init /\ [][Next]_outcome /\ Ends
=============================================================================
