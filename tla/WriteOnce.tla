----------------------------- MODULE WriteOnce -----------------------------
(***************************************************************************)
(* What the custody store promises: a key holds nothing until a writer's   *)
(* content is stored under it, and from then on that content for ever.  A  *)
(* writer is told "stored" only when its own content is what the key holds.*)
(***************************************************************************)
CONSTANTS Writer, Key, Content, KeyOf, DataOf, Empty

VARIABLES
  held,     \* what each key holds
  answer    \* what each writer was told: "none", "stored" or "raised"

Init ==
  /\ held = [k \in Key |-> Empty]
  /\ answer = [w \in Writer |-> "none"]

Store(w) ==
  /\ held[KeyOf[w]] = Empty
  /\ held' = [held EXCEPT ![KeyOf[w]] = DataOf[w]]

Tell(w, a) ==
  /\ answer[w] = "none"
  /\ a = "stored" => held'[KeyOf[w]] = DataOf[w]
  /\ answer' = [answer EXCEPT ![w] = a]

\* A process that dies ends all its calls at once.
Abandon ==
  /\ UNCHANGED held
  /\ \E W \in SUBSET {w \in Writer : answer[w] = "none"} :
       answer' = [w \in Writer |-> IF w \in W THEN "raised" ELSE answer[w]]

Next ==
  \/ Abandon
  \/ \E w \in Writer :
       \/ Store(w) /\ UNCHANGED answer
       \/ (Store(w) \/ UNCHANGED held) /\ \E a \in {"stored", "raised"} : Tell(w, a)

Spec == Init /\ [][Next]_<<held, answer>>
=============================================================================
