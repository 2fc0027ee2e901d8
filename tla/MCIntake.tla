------------------------------ MODULE MCIntake ------------------------------
(* A process with an upload and a reader next to one with an upload; a       *)
(* process with two uploads; three command lines that write one file, two of *)
(* them with the same content.                                               *)
EXTENDS Intake, TLC

CONSTANTS p1, p2, p3, c1, c2, c3, u1, u2, u3, u4, b1, b2, b3, r1, d1, d2, k1, k2, k3, k4, k5

MCProc == {p1, p2, p3, c1, c2, c3}
MCCommandLine == {c1, c2, c3}
MCWriter == {u1, u2, u3, u4, b1, b2, b3}
MCKey == {k1, k2, k3, k4, k5}
MCContent == {d1, d2}
MCProcOf == u1 :> p1 @@ u2 :> p2 @@ [w \in {u3, u4} |-> p3] @@ b1 :> c1 @@ b2 :> c2 @@ b3 :> c3
MCKeyOf == u1 :> k1 @@ u2 :> k2 @@ u3 :> k3 @@ u4 :> k4 @@ [w \in {b1, b2, b3} |-> k5]
MCDataOf == [w \in MCWriter \ {b3} |-> d1] @@ b3 :> d2
MCReader == {r1}
MCReaderProc == r1 :> p1
MCBodies ==
  {[size |-> "under", depth |-> 1, clam |-> "clean"],
   [size |-> "over",  depth |-> 1, clam |-> "clean"],
   [size |-> "under", depth |-> 3, clam |-> "not installed"]}
MCDeployments ==
  [mode : {"local", "s3"}, sealed : {"no", "volume"}, procs : {{p1, p2}}]
    \cup [mode : {"local", "s3"}, sealed : {"kms"}, procs : {{p3}}]
    \cup [mode : {"local"}, sealed : {"no"}, procs : {MCCommandLine}]
=============================================================================
