------------------------------ MODULE AuditLog ------------------------------
(***************************************************************************)
(* What the audit chain promises its callers: per matter an append-only    *)
(* log that records no event twice, and no event in two matters.           *)
(***************************************************************************)
EXTENDS Sequences, Functions

CONSTANTS Matter, Event

VARIABLE log

Init == log = [m \in Matter |-> <<>>]

Recorded == UNION {Range(log[m]) : m \in Matter}

Record(m, e) ==
  /\ e \notin Recorded
  /\ log' = [log EXCEPT ![m] = Append(@, e)]

Next == \E m \in Matter, e \in Event : Record(m, e)

Spec == Init /\ [][Next]_log
=============================================================================
