--------------------------- MODULE EngineJob_proofs ---------------------------
(***************************************************************************)
(* For any documents, requests, tools and configurations.  First about the *)
(* order of steps, with the readers, cleaners and checks unexpanded: a Job *)
(* that is done points at a complete bundle, nothing is written for bytes  *)
(* that did not pass the gate, and a Job has one outcome.  Then about what *)
(* is in a bundle, from the tables: what was targeted is gone, what is     *)
(* left is recorded, what the plan keeps is there, and a second clean      *)
(* changes nothing.                                                        *)
(***************************************************************************)
EXTENDS EngineJob, TLAPS

\* Where the worker stands before the gate has passed.
BeforeGate == {"idle", "read", "scan", "inspect", "plan", "layer_b", "verify"}

\* The files written once the worker is at f.
Before(f) ==
  CASE f = "original" -> {}
    [] f = "derivative" -> {"original"}
    [] f = "manifest" -> {"original", "derivative"}
    [] OTHER -> {"original", "derivative", "manifest"}

AllComplete == \A f \in Files : bundle[f] = "complete"

\* Before the gate no file exists.
NothingYet == worker \in BeforeGate => \A f \in Files : bundle[f] = "absent"

\* Behind the gate the bytes are those it saw.
GatePassed == worker \in Files => Verified

\* The files are written in their order.
InOrder ==
  worker \in Files => \A f \in Before(worker) : bundle[f] = "complete"

\* The worker knows its verdict when it comes to write it, and a sanitize
\* Job is done with a complete bundle only.
VerdictOfResult ==
  worker = "result" =>
    /\ verdict \in Ended
    /\ verdict = "done" /\ in.conf.kind = "sanitize" => AllComplete

\* What result.json says of a bundle is true.
ResultTrue ==
  /\ result.bundle => result.status = "done" /\ AllComplete
  /\ result.status = "done" /\ in.conf.kind = "sanitize" => result.bundle

\* And so is what the row says.
RowTrue ==
  /\ row.bundle => row.status = "done" /\ AllComplete
  /\ row.status = "done" /\ in.conf.kind = "sanitize" => row.bundle

\* The worker writes its result once.
ResultOnce == worker \notin {"gone"} => result = NoResult

\* There is no worker before the runner launches one.
LaunchFirst == runner \in {"queued", "launch"} => worker = "idle"

\* The runner settles the row in its last step.
OpenRow == runner # "end" => row.status \notin Ended

IInv ==
  /\ TypeOK /\ LaunchFirst /\ OpenRow
  /\ NothingYet /\ GatePassed /\ InOrder /\ VerdictOfResult
  /\ ResultTrue /\ RowTrue /\ ResultOnce
  /\ GateBeforeBundle

-----------------------------------------------------------------------------
LEMMA InitInv == Init => IInv
<1>. SUFFICES ASSUME Init PROVE IInv
  OBVIOUS
<1>1. in.conf \in Deployment /\ in.conf.faults \in Nat
  <2>1. PICK d \in Documents : \E r \in Requests(d), t \in Tools(d), c \in Deployments(d) :
          in = [doc |-> d, req |-> r, tools |-> t, conf |-> c]
    BY DEF Init
  <2>2. PICK c \in Deployments(d) : in.conf = c
    BY <2>1
  <2>. QED  BY <2>2, DeploymentAssumption DEF Deployment
<1>2. TypeOK
  <2>1. faults \in 0..in.conf.faults
    BY <1>1 DEF Init
  <2>2. bundle \in [Files -> {"absent", "partial", "complete"}]
    BY DEF Init
  <2>3. row \in [status : {"queued", "running"} \cup Ended, bundle : BOOLEAN]
    BY DEF Init
  <2>4. worker = "idle" /\ runner = "queued" /\ staged = FALSE /\ rewritten = FALSE /\ verdict = "none"
        /\ result = NoResult
    BY DEF Init
  <2>. QED  BY <1>1, <2>1, <2>2, <2>3, <2>4 DEF TypeOK
<1>3. NothingYet /\ GatePassed /\ InOrder /\ VerdictOfResult
  BY DEF Init, NothingYet, GatePassed, InOrder, VerdictOfResult, Files
<1>5. ResultTrue /\ RowTrue /\ ResultOnce
  BY DEF Init, ResultTrue, RowTrue, ResultOnce, NoResult
<1>4. GateBeforeBundle
  BY DEF Init, GateBeforeBundle
<1>6. LaunchFirst /\ OpenRow
  BY DEF Init, LaunchFirst, OpenRow, Ended
<1>. QED  BY <1>2, <1>3, <1>4, <1>5, <1>6 DEF IInv

\* A step that leaves the document, the cleaned bytes and the rewrite alone
\* leaves the verdict of the gate alone.
LEMMA VerdictKept == UNCHANGED <<in, marks, rewritten>> => Verified' = Verified
  BY DEF Verified

\* The runner's own steps, and the end of a worker, touch neither the bytes
\* nor the files.
LEMMA RunnerKeeps ==
  ASSUME IInv,
         UNCHANGED <<in, marks, rewritten, bundle, verdict, result>>,
         worker' \in {worker, "gone"} \/ (worker = "idle" /\ worker' = "read")
  PROVE  /\ NothingYet' /\ GatePassed' /\ InOrder' /\ VerdictOfResult'
         /\ ResultTrue' /\ ResultOnce' /\ GateBeforeBundle'
<1>1. Verified' = Verified
  BY VerdictKept
<1>2. NothingYet' \/ worker' = "gone"
  BY DEF IInv, NothingYet, BeforeGate
<1>3. NothingYet' /\ GatePassed' /\ InOrder' /\ VerdictOfResult'
  BY <1>1, <1>2 DEF IInv, NothingYet, GatePassed, InOrder, VerdictOfResult, BeforeGate, Files, AllComplete
<1>4. ResultTrue' /\ ResultOnce'
  BY DEF IInv, ResultTrue, ResultOnce, AllComplete
<1>5. GateBeforeBundle'
  BY <1>1 DEF IInv, GateBeforeBundle
<1>. QED  BY <1>3, <1>4, <1>5

LEMMA RunnerTyped ==
  ASSUME TypeOK, RunnerStep \/ LaunchFails \/ TimesOut \/ WorkerDies
  PROVE  TypeOK'
<1>1. faults' \in 0..in'.conf.faults /\ in' = in
  BY DEF TypeOK, Deployment, RunnerStep, Start, WorkerExits, Cleanup, SyncJob, LaunchFails,
         TimesOut, WorkerDies, Launch, runnerVars
<1>2. row' \in [status : {"queued", "running"} \cup Ended, bundle : BOOLEAN]
  <2>1. Settled \in [status : Ended, bundle : BOOLEAN]
    BY DEF TypeOK, Settled, Ended
  <2>2. CASE SyncJob
    BY <2>1, <2>2 DEF TypeOK, SyncJob
  <2>3. CASE Start
    BY <2>3 DEF TypeOK, Start
  <2>4. CASE ~SyncJob /\ ~Start
    BY <2>4 DEF TypeOK, RunnerStep, WorkerExits, Cleanup, LaunchFails, TimesOut, WorkerDies, Launch,
           runnerVars
  <2>. QED  BY <2>2, <2>3, <2>4
<1>3. UNCHANGED <<verdict, rewritten, bundle, result>>
  BY DEF RunnerStep, Start, Launch, WorkerExits, Cleanup, SyncJob, LaunchFails, TimesOut, WorkerDies,
         workerVars, runnerVars
<1>4. /\ runner' \in {"queued", "launch", "wait", "cleanup", "sync", "end"}
      /\ staged' \in BOOLEAN
  BY DEF TypeOK, RunnerStep, Start, Launch, WorkerExits, Cleanup, SyncJob, LaunchFails, TimesOut,
         WorkerDies, runnerVars
<1>5. worker' \in {worker, "gone", "read"}
  BY DEF RunnerStep, Start, Launch, WorkerExits, Cleanup, SyncJob, LaunchFails, TimesOut,
         WorkerDies, workerVars
<1>. QED  BY <1>1, <1>2, <1>3, <1>4, <1>5 DEF TypeOK

LEMMA RunnerInv ==
  ASSUME IInv, RunnerStep \/ LaunchFails \/ TimesOut \/ WorkerDies
  PROVE  IInv'
<1>1. UNCHANGED <<in, marks, rewritten, bundle, verdict, result>>
  BY DEF RunnerStep, Start, Launch, WorkerExits, Cleanup, SyncJob, LaunchFails, TimesOut, WorkerDies,
         workerVars, runnerVars
<1>2. worker' \in {worker, "gone"} \/ (worker = "idle" /\ worker' = "read")
  BY DEF IInv, LaunchFirst, RunnerStep, Start, Launch, WorkerExits, Cleanup, SyncJob, LaunchFails,
         TimesOut, WorkerDies, workerVars
<1>3. TypeOK'
  BY RunnerTyped DEF IInv
<1>4. RowTrue'
  <2>1. CASE SyncJob
    BY <1>1, <2>1 DEF IInv, RowTrue, ResultTrue, AllComplete, SyncJob, Settled, NoResult, Ended
  <2>2. CASE Start
    BY <1>1, <2>2 DEF IInv, OpenRow, TypeOK, RowTrue, AllComplete, Start, Ended
  <2>3. CASE ~SyncJob /\ ~Start
    <3>1. row' = row
      BY <2>3 DEF RunnerStep, WorkerExits, Cleanup, LaunchFails, TimesOut, WorkerDies, Launch, runnerVars
    <3>. QED  BY <1>1, <3>1 DEF IInv, RowTrue, AllComplete
  <2>. QED  BY <2>1, <2>2, <2>3
<1>5. LaunchFirst'
  BY DEF IInv, LaunchFirst, RunnerStep, Start, Launch, WorkerExits, Cleanup, SyncJob, LaunchFails,
         TimesOut, WorkerDies, workerVars, runnerVars
<1>6. OpenRow'
  BY DEF IInv, OpenRow, TypeOK, RunnerStep, Start, Launch, WorkerExits, Cleanup, SyncJob, LaunchFails,
         TimesOut, WorkerDies, runnerVars, Ended
<1>. QED  BY <1>1, <1>2, <1>3, <1>4, <1>5, <1>6, RunnerKeeps DEF IInv

-----------------------------------------------------------------------------
(* The worker.                                                             *)

\* Up to the gate a step may change the bytes, but there are no files; it
\* ends before the gate, at it, or with a verdict that is not "done", or of
\* a Job that has no bundle.
LEMMA BeforeGateInv ==
  ASSUME IInv, worker \in BeforeGate, worker # "idle",
         UNCHANGED <<in, runner, row, staged, bundle, result>>,
         faults' \in 0..in.conf.faults, rewritten' \in BOOLEAN,
         \/ worker' \in BeforeGate \ {"idle"} /\ verdict' = verdict
         \/ /\ worker' = "result" /\ verdict' \in Ended
            /\ verdict' = "done" => in.conf.kind = "inspect"
         \/ worker' = "original" /\ Verified' /\ verdict' = verdict
  PROVE  IInv'
<1>1. TypeOK'
  BY DEF IInv, TypeOK, BeforeGate, Files
<1>2. \A f \in Files : bundle'[f] = "absent"
  BY DEF IInv, NothingYet
<1>3. NothingYet' /\ GateBeforeBundle'
  BY <1>2 DEF NothingYet, GateBeforeBundle
<1>4. GatePassed'
  BY DEF GatePassed, BeforeGate, Files
<1>5. InOrder'
  BY DEF InOrder, BeforeGate, Files, Before
<1>6. VerdictOfResult'
  BY DEF VerdictOfResult, BeforeGate
<1>7. ResultTrue' /\ RowTrue' /\ LaunchFirst' /\ OpenRow'
  BY DEF IInv, ResultTrue, RowTrue, LaunchFirst, OpenRow, AllComplete
<1>8. ResultOnce'
  BY DEF IInv, ResultOnce, BeforeGate
<1>. QED  BY <1>1, <1>3, <1>4, <1>5, <1>6, <1>7, <1>8 DEF IInv

LEMMA ReadToGateInv ==
  ASSUME IInv, ReadInput \/ Scan \/ Inspect \/ PlanAndApply \/ ApplyTimesOut \/ LayerB \/ Gate
  PROVE  IInv'
<1>1. worker \in BeforeGate /\ worker # "idle"
  BY DEF BeforeGate, ReadInput, Scan, Inspect, PlanAndApply, ApplyTimesOut, LayerB, Gate, Step, Finish
<1>2. UNCHANGED <<in, runner, row, staged, bundle, result>>
  BY DEF ReadInput, Scan, Inspect, PlanAndApply, ApplyTimesOut, LayerB, Gate, Keep, runnerVars
<1>3. faults' \in 0..in.conf.faults
  BY DEF IInv, TypeOK, Deployment, ReadInput, Scan, Inspect, PlanAndApply, ApplyTimesOut, LayerB, Gate, Keep
<1>4. rewritten' \in BOOLEAN
  BY DEF IInv, TypeOK, ReadInput, Scan, Inspect, PlanAndApply, ApplyTimesOut, LayerB, Gate
<1>5. \/ worker' \in BeforeGate \ {"idle"} /\ verdict' = verdict
      \/ /\ worker' = "result" /\ verdict' \in Ended
         /\ verdict' = "done" => in.conf.kind = "inspect"
      \/ worker' = "original" /\ Verified' /\ verdict' = verdict
  <2>1. CASE Gate
    <3>1. Verified' = Verified
      BY <2>1, VerdictKept DEF Gate, Keep
    <3>. QED  BY <2>1, <3>1 DEF Gate, Step, Finish, Ended
  <2>2. CASE ReadInput \/ Scan \/ Inspect
    BY <2>2 DEF ReadInput, Scan, Inspect, Step, Finish, Ended, BeforeGate
  <2>3. CASE PlanAndApply
    BY <2>3 DEF PlanAndApply, Step, Finish, Ended, BeforeGate
  <2>4. CASE ApplyTimesOut \/ LayerB
    BY <2>4 DEF ApplyTimesOut, LayerB, Step, Finish, Ended, BeforeGate
  <2>. QED  BY <2>1, <2>2, <2>3, <2>4
<1>. QED  BY <1>1, <1>2, <1>3, <1>4, <1>5, BeforeGateInv

\* No bundle is linked while the worker still writes it.
LEMMA NotLinkedYet ==
  ASSUME IInv, NEW f \in Files, bundle[f] # "complete"
  PROVE  ~result.bundle /\ ~row.bundle
  BY DEF IInv, ResultTrue, RowTrue, AllComplete

LEMMA CreateInv ==
  ASSUME IInv, NEW f \in Files, Create(f)
  PROVE  IInv'
<1>1. UNCHANGED <<in, runner, row, staged, worker, verdict, marks, rewritten, result, faults>>
  BY DEF Create, Keep, runnerVars
<1>2. TypeOK'
  BY <1>1 DEF IInv, TypeOK, Create
<1>3. Verified' = Verified /\ Verified
  BY <1>1, VerdictKept DEF IInv, GatePassed, Create
<1>4. \A g \in Files \ {f} : bundle'[g] = bundle[g]
  BY DEF IInv, TypeOK, Create
<1>5. NothingYet' /\ GatePassed' /\ GateBeforeBundle'
  BY <1>1, <1>3 DEF Create, NothingYet, GatePassed, GateBeforeBundle, BeforeGate, Files
<1>6. InOrder'
  BY <1>1, <1>4 DEF IInv, InOrder, Create, Files, Before
<1>7. VerdictOfResult'
  BY <1>1 DEF Create, VerdictOfResult, Files
<1>8. ResultTrue' /\ RowTrue'
  BY <1>1, NotLinkedYet DEF IInv, ResultTrue, RowTrue, Create
<1>9. LaunchFirst' /\ OpenRow' /\ ResultOnce'
  BY <1>1 DEF IInv, LaunchFirst, OpenRow, ResultOnce
<1>. QED  BY <1>2, <1>5, <1>6, <1>7, <1>8, <1>9 DEF IInv

LEMMA FillInv ==
  ASSUME IInv, NEW f \in Files, Fill(f)
  PROVE  IInv'
<1>1. UNCHANGED <<in, runner, row, staged, marks, rewritten, result, faults>>
  BY DEF Fill, Keep, runnerVars
<1>2. bundle' = [bundle EXCEPT ![f] = "complete"] /\ bundle[f] = "partial" /\ worker = f
      /\ worker' = After(f)
  BY DEF Fill
<1>3. \/ f = "original" /\ After(f) = "derivative"
      \/ f = "derivative" /\ After(f) = "manifest"
      \/ f = "manifest" /\ After(f) = "report"
      \/ f = "report" /\ After(f) = "result"
  BY DEF Files, After
<1>4. verdict' = IF f = "report" THEN "done" ELSE verdict
  BY <1>3 DEF Fill
<1>5. TypeOK'
  BY <1>1, <1>2, <1>3, <1>4 DEF IInv, TypeOK, Files, Ended
<1>6. Verified' = Verified /\ Verified
  BY <1>1, <1>2, VerdictKept DEF IInv, GatePassed
<1>7. \A g \in Files : bundle'[g] = IF g = f THEN "complete" ELSE bundle[g]
  BY <1>2 DEF IInv, TypeOK
<1>8. NothingYet' /\ GatePassed' /\ GateBeforeBundle'
  BY <1>2, <1>3, <1>6 DEF NothingYet, GatePassed, GateBeforeBundle, BeforeGate
<1>9. \A g \in Before(f) \cup {f} : bundle'[g] = "complete"
  BY <1>2, <1>7 DEF IInv, InOrder, Before, Files
<1>10. InOrder' /\ VerdictOfResult'
  BY <1>2, <1>3, <1>4, <1>9 DEF InOrder, VerdictOfResult, AllComplete, Before, Files, Ended
<1>11. ResultTrue' /\ RowTrue'
  BY <1>1, <1>2, NotLinkedYet DEF IInv, ResultTrue, RowTrue
<1>12. LaunchFirst' /\ OpenRow' /\ ResultOnce'
  BY <1>1, <1>2, <1>3 DEF IInv, LaunchFirst, OpenRow, ResultOnce
<1>. QED  BY <1>5, <1>8, <1>10, <1>11, <1>12 DEF IInv

LEMMA WriteFailsInv ==
  ASSUME IInv, NEW f \in Files, WriteFails(f)
  PROVE  IInv'
<1>1. UNCHANGED <<in, runner, row, staged, marks, rewritten, result>>
  BY DEF WriteFails, runnerVars
<1>2. /\ worker = f /\ worker' = "result" /\ verdict' = "failed" /\ bundle[f] = "partial"
      /\ bundle' = [bundle EXCEPT ![f] = "absent"]
  BY DEF WriteFails, Finish, Step
<1>3. faults' \in 0..in.conf.faults
  BY DEF IInv, TypeOK, Deployment, WriteFails
<1>4. TypeOK'
  BY <1>1, <1>2, <1>3 DEF IInv, TypeOK, Ended
<1>5. Verified' = Verified /\ Verified
  BY <1>1, <1>2, VerdictKept DEF IInv, GatePassed
<1>6. NothingYet' /\ GatePassed' /\ GateBeforeBundle' /\ InOrder' /\ VerdictOfResult'
  BY <1>2, <1>5 DEF NothingYet, GatePassed, GateBeforeBundle, InOrder, VerdictOfResult, BeforeGate,
         Files, Ended
<1>7. ResultTrue' /\ RowTrue'
  BY <1>1, <1>2, NotLinkedYet DEF IInv, ResultTrue, RowTrue
<1>8. LaunchFirst' /\ OpenRow' /\ ResultOnce'
  BY <1>1, <1>2 DEF IInv, LaunchFirst, OpenRow, ResultOnce, Files
<1>. QED  BY <1>4, <1>6, <1>7, <1>8 DEF IInv

LEMMA WriteResultInv ==
  ASSUME IInv, WriteResult
  PROVE  IInv'
<1>1. UNCHANGED <<in, runner, row, staged, verdict, marks, rewritten, bundle, faults>>
  BY DEF WriteResult, Keep, runnerVars
<1>2. /\ worker = "result" /\ worker' = "gone"
      /\ result' = [status |-> verdict, bundle |-> verdict = "done" /\ in.conf.kind = "sanitize"]
  BY DEF WriteResult, Step
<1>3. verdict \in Ended
  BY <1>2 DEF IInv, VerdictOfResult
<1>4. TypeOK'
  <2>1. result' \in [status : Ended, bundle : BOOLEAN]
    BY <1>2, <1>3
  <2>. QED  BY <1>1, <1>2, <2>1 DEF IInv, TypeOK
<1>5. Verified' = Verified
  BY <1>1, VerdictKept
<1>6. NothingYet' /\ GatePassed' /\ GateBeforeBundle' /\ InOrder' /\ VerdictOfResult'
  BY <1>1, <1>2, <1>5 DEF IInv, NothingYet, GatePassed, GateBeforeBundle, InOrder, VerdictOfResult,
         BeforeGate, Files
<1>7. ResultTrue'
  BY <1>1, <1>2 DEF IInv, VerdictOfResult, ResultTrue, AllComplete
<1>8. RowTrue' /\ LaunchFirst' /\ OpenRow' /\ ResultOnce'
  BY <1>1, <1>2 DEF IInv, RowTrue, LaunchFirst, OpenRow, ResultOnce, AllComplete
<1>. QED  BY <1>4, <1>6, <1>7, <1>8 DEF IInv

LEMMA StutterInv == IInv /\ UNCHANGED vars => IInv'
<1>. SUFFICES ASSUME IInv, UNCHANGED vars PROVE IInv'
  OBVIOUS
<1>1. UNCHANGED <<in, runner, row, staged, worker, verdict, marks, rewritten, bundle, result, faults>>
  BY DEF vars
<1>2. Verified' = Verified
  BY <1>1, VerdictKept
<1>3. TypeOK' /\ NothingYet' /\ InOrder' /\ VerdictOfResult' /\ ResultTrue' /\ RowTrue'
  BY <1>1 DEF IInv, TypeOK, NothingYet, InOrder, VerdictOfResult, ResultTrue, RowTrue, AllComplete
<1>4. GatePassed' /\ GateBeforeBundle' /\ LaunchFirst' /\ OpenRow' /\ ResultOnce'
  BY <1>1, <1>2 DEF IInv, GatePassed, GateBeforeBundle, LaunchFirst, OpenRow, ResultOnce
<1>. QED  BY <1>3, <1>4 DEF IInv

LEMMA NextInv == IInv /\ [Next]_vars => IInv'
<1>. SUFFICES ASSUME IInv, [Next]_vars PROVE IInv'
  OBVIOUS
<1>1. CASE RunnerStep \/ LaunchFails \/ TimesOut \/ WorkerDies
  BY <1>1, RunnerInv
<1>2. CASE ReadInput \/ Scan \/ Inspect \/ PlanAndApply \/ ApplyTimesOut \/ LayerB \/ Gate
  BY <1>2, ReadToGateInv
<1>3. CASE WriteResult
  BY <1>3, WriteResultInv
<1>4. CASE \E f \in Files : Create(f) \/ Fill(f) \/ WriteFails(f)
  BY <1>4, CreateInv, FillInv, WriteFailsInv
<1>5. CASE UNCHANGED vars
  BY <1>5, StutterInv
<1>. QED  BY <1>1, <1>2, <1>3, <1>4, <1>5 DEF Next, WorkerStep, Fault

LEMMA Inductive == Spec => []IInv
  BY InitInv, NextInv, PTL DEF Spec

-----------------------------------------------------------------------------
\* Every variable keeps its type, whatever documents the Jobs are about.
THEOREM TypeCorrect == Spec => []TypeOK
<1>1. IInv => TypeOK
  BY DEF IInv
<1>. QED  BY <1>1, Inductive, PTL

\* The row of a finished Job points at a complete bundle exactly when the Job
\* made one (run_job, sync_job, clean_to_bundle).
THEOREM BundlesAreComplete == Spec => []LinkedIsComplete
<1>1. IInv => LinkedIsComplete
  BY DEF IInv, RowTrue, LinkedIsComplete, Published, AllComplete
<1>. QED  BY <1>1, Inductive, PTL

\* No file of a bundle exists for bytes the gate did not accept.
THEOREM GateComesFirst == Spec => []GateBeforeBundle
<1>1. IInv => GateBeforeBundle
  BY DEF IInv
<1>. QED  BY <1>1, Inductive, PTL

\* Whatever a cleaner left behind: what the plan targets is not found in a
\* published derivative when it is read once more.
TargetsNotFound == Published => Targeted(in.req) \cap PresentSubtypes(Derivative) = {}

THEOREM NothingTargetedIsPublished == Spec => []TargetsNotFound
<1>1. ASSUME IInv, Published PROVE Targeted(in.req) \cap PresentSubtypes(Derivative) = {}
  <2>1. AllComplete
    BY <1>1 DEF IInv, RowTrue, Published
  <2>2. Verified
    BY <1>1, <2>1 DEF IInv, GateBeforeBundle, AllComplete, Files
  <2>. QED  BY <2>2 DEF Verified, VerifyDerivative, ReinspectTargetedGone, Derivative
<1>2. IInv => TargetsNotFound
  BY <1>1 DEF TargetsNotFound
<1>. QED  BY <1>2, Inductive, PTL

\* Every step of a Job is a step of its promise, or none: it is pending, then
\* published with bytes that passed the gate, or withheld, and stays so.
THEOREM OneOutcome == Spec => Outcome!Init /\ [][Outcome!Next]_outcome
<1>1. Init => Outcome!Init
  BY DEF Init, Outcome!Init, outcome, Ended
<1>2. ASSUME IInv, IInv', [Next]_vars PROVE [Outcome!Next]_outcome
  <2>1. CASE SyncJob
    <3>1. row.status \notin Ended /\ row' = Settled
      BY <2>1, <1>2 DEF SyncJob, IInv, OpenRow
    <3>2. CASE row'.bundle
      <4>1. AllComplete'
        BY <1>2, <3>2 DEF IInv, RowTrue
      <4>2. Verified'
        BY <1>2, <4>1 DEF IInv, GateBeforeBundle, AllComplete, Files
      <4>3. Verified
        BY <2>1, <4>2, VerdictKept DEF SyncJob, workerVars
      <4>4. row'.status = "done"
        BY <1>2, <3>2 DEF IInv, RowTrue
      <4>. QED  BY <3>1, <3>2, <4>3, <4>4 DEF outcome, Outcome!Next, Outcome!Publish, Ended
    <3>3. CASE ~row'.bundle
      <4>1. row'.status \in Ended
        BY <3>1, <1>2 DEF IInv, TypeOK, Settled, Ended, NoResult
      <4>. QED  BY <3>1, <3>3, <4>1 DEF outcome, Outcome!Next, Outcome!Withhold
    <3>. QED  BY <3>2, <3>3
  <2>2. CASE Start
    BY <2>2, <1>2 DEF Start, IInv, TypeOK, OpenRow, outcome, Ended
  <2>3. CASE ~SyncJob /\ ~Start
    <3>1. row' = row
      BY <2>3, <1>2 DEF Next, RunnerStep, WorkerStep, Fault, WorkerExits, Cleanup, LaunchFails, TimesOut,
             WorkerDies, Launch, ReadInput, Scan, Inspect, PlanAndApply, ApplyTimesOut, LayerB, Gate,
             WriteResult, Create, Fill, WriteFails, Keep, runnerVars, vars
    <3>. QED  BY <3>1 DEF outcome
  <2>. QED  BY <2>1, <2>2, <2>3
<1>. QED  BY <1>1, <1>2, Inductive, PTL DEF Spec

-----------------------------------------------------------------------------
(***************************************************************************)
(* What is in a bundle.  From here on the readers' and the cleaners'       *)
(* tables count.  Behind the plan the bytes and the records are those that *)
(* apply_actions returned, a rewrite or not.                               *)
(***************************************************************************)

\* The records of what survives are added to the cleaner's result, and the
\* bytes are those of the cleaner.
Impl(doc, req, tools) == ApplyImpl(doc, req, PlanActions(req), PresentSubtypes(doc), tools)

\* A cleaner that did something and was not stopped.
Did(r) == r = Applied(r.marks, r.records)

LEMMA AppliedDid ==
  ASSUME NEW m, NEW s
  PROVE  Did(Applied(m, s)) /\ Applied(m, s).ok /\ Applied(m, s).marks = m
  BY DEF Did, Applied

LEMMA NotOk == ASSUME NEW m PROVE ~Refuses(m).ok /\ ~Raised(m).ok
  BY DEF Refuses, Raised

LEMMA OtherDid ==
  ASSUME NEW fmt, NEW m, NEW plan, ApplyOther(fmt, m, plan).ok
  PROVE  Did(ApplyOther(fmt, m, plan))
  BY AppliedDid, NotOk DEF ApplyOther

LEMMA OoxmlDid ==
  ASSUME NEW fmt, NEW m, NEW plan
  PROVE  Did(ApplyOoxml(fmt, m, plan))
  BY AppliedDid, NotOk DEF ApplyOoxml

LEMMA PdfDid ==
  ASSUME NEW m, NEW req, NEW plan, NEW present, NEW tools, ApplyPdf(m, req, plan, present, tools).ok
  PROVE  Did(ApplyPdf(m, req, plan, present, tools))
  BY AppliedDid, NotOk DEF ApplyPdf, ExiftoolPrivacyPdf

LEMMA ImageDid ==
  ASSUME NEW fmt, NEW m, NEW plan, NEW tools, ApplyImage(fmt, m, plan, tools).ok
  PROVE  Did(ApplyImage(fmt, m, plan, tools))
  BY AppliedDid, NotOk DEF ApplyImage, ExiftoolPrivacyJpeg

LEMMA AvDid ==
  ASSUME NEW fmt, NEW m, ApplyAv(fmt, m).ok
  PROVE  Did(ApplyAv(fmt, m))
  BY AppliedDid, NotOk DEF ApplyAv

\* The cleaner that ran, by the kind of the file.
LEMMA ByKind ==
  ASSUME NEW doc, NEW req, NEW tools, Impl(doc, req, tools).ok
  PROVE  LET r == Impl(doc, req, tools)
             plan == PlanActions(req)
         IN  /\ req.policy # "evidence_preservation"
             /\ Did(r)
             /\ \/ /\ Kind(doc) = "text"
                   /\ r = Applied(doc.marks \ {"layer_a_body"}, {<<"layer_a_body", "sanitize">>})
                \/ Kind(doc) = "image" /\ r = ApplyImage(doc.fmt, doc.marks, plan, tools)
                \/ Kind(doc) = "av" /\ r = ApplyAv(doc.fmt, doc.marks)
                \/ /\ Kind(doc) = "container" /\ Sniffed(doc) = "pdf"
                   /\ r = ApplyPdf(doc.marks, req, plan, PresentSubtypes(doc), tools)
                \/ /\ Kind(doc) = "container" /\ Sniffed(doc) \in Ooxml
                   /\ r = ApplyOoxml(Sniffed(doc), doc.marks, plan)
                \/ /\ Kind(doc) = "container" /\ Sniffed(doc) \notin Ooxml \cup {"pdf"}
                   /\ r = ApplyOther(Sniffed(doc), doc.marks, plan)
<1>. DEFINE r == Impl(doc, req, tools)
            plan == PlanActions(req)
<1>1. req.policy # "evidence_preservation"
  BY NotOk DEF Impl, ApplyImpl
<1>2. Kind(doc) \in {"text", "image", "av", "container", "unknown"}
  BY DEF Kind
<1>3. Kind(doc) # "unknown"
  <2>1. SUFFICES ASSUME Kind(doc) = "unknown" PROVE r = Refuses(doc.marks)
    BY NotOk
  <2>. QED  BY <2>1, <1>1 DEF Impl, ApplyImpl
<1>4. CASE Kind(doc) = "text"
  <2>1. r = Applied(doc.marks \ {"layer_a_body"}, {<<"layer_a_body", "sanitize">>})
    BY <1>1, <1>4 DEF Impl, ApplyImpl
  <2>. QED  BY <1>1, <1>4, <2>1, AppliedDid
<1>5. CASE Kind(doc) = "image"
  <2>1. r = ApplyImage(doc.fmt, doc.marks, plan, tools)
    BY <1>1, <1>5 DEF Impl, ApplyImpl
  <2>. QED  BY <1>1, <1>5, <2>1, ImageDid
<1>6. CASE Kind(doc) = "av"
  <2>1. r = ApplyAv(doc.fmt, doc.marks)
    BY <1>1, <1>6 DEF Impl, ApplyImpl
  <2>. QED  BY <1>1, <1>6, <2>1, AvDid
<1>7. CASE Kind(doc) = "container"
  <2>0. r = IF Sniffed(doc) = "pdf" THEN ApplyPdf(doc.marks, req, plan, PresentSubtypes(doc), tools)
            ELSE IF Sniffed(doc) \in Ooxml THEN ApplyOoxml(Sniffed(doc), doc.marks, plan)
            ELSE ApplyOther(Sniffed(doc), doc.marks, plan)
    BY <1>1, <1>7 DEF Impl, ApplyImpl
  <2>. HIDE DEF r, plan
  <2>1. CASE Sniffed(doc) = "pdf"
    BY <1>1, <1>7, <2>0, <2>1, PdfDid DEF r, plan
  <2>2. CASE Sniffed(doc) # "pdf" /\ Sniffed(doc) \in Ooxml
    BY <1>1, <1>7, <2>0, <2>2, OoxmlDid DEF r, plan
  <2>3. CASE Sniffed(doc) \notin Ooxml \cup {"pdf"}
    BY <1>1, <1>7, <2>0, <2>3, OtherDid DEF r, plan
  <2>. QED  BY <2>1, <2>2, <2>3
<1>. QED  BY <1>2, <1>3, <1>4, <1>5, <1>6, <1>7

\* ByKind, kind by kind.
LEMMA ImplOf ==
  ASSUME NEW doc, NEW req, NEW tools, Impl(doc, req, tools).ok
  PROVE  LET r == Impl(doc, req, tools)
             plan == PlanActions(req)
         IN  /\ Kind(doc) = "text" => r.marks = doc.marks \ {"layer_a_body"}
             /\ Kind(doc) = "image" => r = ApplyImage(doc.fmt, doc.marks, plan, tools)
             /\ Kind(doc) = "av" => r = ApplyAv(doc.fmt, doc.marks)
             /\ Kind(doc) = "container" /\ Sniffed(doc) = "pdf" =>
                  r = ApplyPdf(doc.marks, req, plan, PresentSubtypes(doc), tools)
             /\ Kind(doc) = "container" /\ Sniffed(doc) \in Ooxml =>
                  r = ApplyOoxml(Sniffed(doc), doc.marks, plan)
             /\ Kind(doc) = "container" /\ Sniffed(doc) \notin Ooxml \cup {"pdf"} =>
                  r = ApplyOther(Sniffed(doc), doc.marks, plan)
             /\ Kind(doc) \in {"text", "image", "av", "container"}
<1>. DEFINE r == Impl(doc, req, tools)
            plan == PlanActions(req)
            t == Applied(doc.marks \ {"layer_a_body"}, {<<"layer_a_body", "sanitize">>})
            p == ApplyPdf(doc.marks, req, plan, PresentSubtypes(doc), tools)
            o == ApplyOoxml(Sniffed(doc), doc.marks, plan)
            x == ApplyOther(Sniffed(doc), doc.marks, plan)
<1>1. \/ Kind(doc) = "text" /\ r = t
      \/ Kind(doc) = "image" /\ r = ApplyImage(doc.fmt, doc.marks, plan, tools)
      \/ Kind(doc) = "av" /\ r = ApplyAv(doc.fmt, doc.marks)
      \/ Kind(doc) = "container" /\ Sniffed(doc) = "pdf" /\ r = p
      \/ Kind(doc) = "container" /\ Sniffed(doc) \in Ooxml /\ r = o
      \/ Kind(doc) = "container" /\ Sniffed(doc) \notin Ooxml \cup {"pdf"} /\ r = x
  BY ByKind
<1>2. t.marks = doc.marks \ {"layer_a_body"}
  BY AppliedDid
<1>3. "pdf" \notin Ooxml
  BY DEF Ooxml
<1>. HIDE DEF r, plan, t, p, o, x
<1>4. /\ Kind(doc) = "text" => r.marks = doc.marks \ {"layer_a_body"}
      /\ Kind(doc) = "image" => r = ApplyImage(doc.fmt, doc.marks, plan, tools)
      /\ Kind(doc) = "av" => r = ApplyAv(doc.fmt, doc.marks)
      /\ Kind(doc) \in {"text", "image", "av", "container"}
  BY <1>1, <1>2
<1>5. /\ Kind(doc) = "container" /\ Sniffed(doc) = "pdf" => r = p
      /\ Kind(doc) = "container" /\ Sniffed(doc) \in Ooxml => r = o
      /\ Kind(doc) = "container" /\ Sniffed(doc) \notin Ooxml \cup {"pdf"} => r = x
  BY <1>1, <1>3
<1>. QED  BY <1>4, <1>5 DEF r, plan, p, o, x

\* apply_actions hands on the bytes of the cleaner, and adds to its records
\* what survives.
LEMMA ActionsOfImpl ==
  ASSUME NEW doc, NEW req, NEW tools, ApplyActions(doc, req, tools).ok
  PROVE  /\ Impl(doc, req, tools).ok
         /\ ApplyActions(doc, req, tools).marks = Impl(doc, req, tools).marks
         /\ SurvivingFindingRecords(PlanActions(req), PresentSubtypes(doc))
              \subseteq ApplyActions(doc, req, tools).records
<1>1. ApplyActions(doc, req, tools) =
        IF Impl(doc, req, tools).ok
          THEN [Impl(doc, req, tools) EXCEPT
                  !.records = @ \cup SurvivingFindingRecords(PlanActions(req), PresentSubtypes(doc))]
          ELSE Impl(doc, req, tools)
  BY DEF ApplyActions, Impl
<1>2. Impl(doc, req, tools).ok
  BY <1>1
<1>3. PICK m, s : Impl(doc, req, tools) = Applied(m, s)
  BY <1>2, ByKind DEF Did
<1>. QED  BY <1>1, <1>2, <1>3 DEF Applied

-----------------------------------------------------------------------------

\* The Job is about one of the documents, as somebody may ask for it.
AsAsked ==
  /\ in.doc \in [name : STRING, fmt : STRING, marks : SUBSET STRING]
  /\ in.req.policy \in PolicyIds
  /\ in.tools \in [exiftool : {"absent", "fails", "ok"},
                  qpdf : {"absent", "fails", "flaky", "ok"}]

Late == {"layer_b", "verify"} \cup Files

AnyFile == \E f \in Files : bundle[f] # "absent"

Cleaned ==
  LET r == ApplyActions(in.doc, in.req, in.tools)
  IN  /\ ~PlanRefused(in.req, PresentSubtypes(in.doc)) /\ ~LooksBinary(in.doc)
      /\ r.ok /\ records = r.records /\ marks = r.marks

AppliedInv ==
  /\ AsAsked
  /\ worker = "plan" => ~LooksBinary(in.doc)
  /\ worker \in Late \/ AnyFile => Cleaned

LEMMA InitApplied == Init => AppliedInv
<1>. SUFFICES ASSUME Init PROVE AppliedInv
  OBVIOUS
<1>1. PICK d \in Documents : \E r \in Requests(d), t \in Tools(d), c \in Deployments(d) :
        in = [doc |-> d, req |-> r, tools |-> t, conf |-> c]
  BY DEF Init
<1>2. PICK r \in Requests(d), t \in Tools(d) : in.doc = d /\ in.req = r /\ in.tools = t
  BY <1>1
<1>3. AsAsked
  BY <1>2, DocumentAssumption, RequestAssumption, ToolAssumption DEF AsAsked
<1>4. worker = "idle" /\ ~AnyFile
  BY DEF Init, AnyFile
<1>. QED  BY <1>3, <1>4 DEF AppliedInv, Late, Files

LEMMA CleanedKept == UNCHANGED <<in, marks, records>> => Cleaned' = Cleaned
  BY DEF Cleaned

\* Steps that leave the cleaned bytes alone, and come no closer to a bundle.
LEMMA AppliedFrame ==
  ASSUME AppliedInv, UNCHANGED <<in, marks, records>>,
         worker' = "plan" => worker = "plan" \/ ~LooksBinary(in.doc),
         worker' \in Late \/ AnyFile' => worker \in Late \/ AnyFile
  PROVE  AppliedInv'
<1>1. AsAsked'
  BY DEF AppliedInv, AsAsked
<1>2. LooksBinary(in.doc)' = LooksBinary(in.doc)
  OBVIOUS
<1>. QED  BY <1>1, <1>2, CleanedKept DEF AppliedInv

\* A text is cleaned of invisible characters and nothing else, so that a
\* rewrite leaves nothing less.
LEMMA TextCleaned ==
  ASSUME NEW doc, NEW req, NEW tools, Kind(doc) = "text", ApplyActions(doc, req, tools).ok
  PROVE  ApplyActions(doc, req, tools).marks = doc.marks \ {"layer_a_body"}
  BY ActionsOfImpl, ImplOf

LEMMA StepApplied == AppliedInv /\ [Next]_vars => AppliedInv'
<1>. SUFFICES ASSUME AppliedInv, [Next]_vars PROVE AppliedInv'
  OBVIOUS
<1>1. CASE PlanAndApply
  <2>1. UNCHANGED <<in, bundle>> /\ worker = "plan"
    BY <1>1 DEF PlanAndApply, Keep, Step, Finish
  <2>2. CASE Applying.ok
    <3>1. marks' = Applying.marks /\ records' = Applying.records
      BY <1>1, <2>2 DEF PlanAndApply
    <3>2. worker' \in {"layer_b", "verify"}
      BY <1>1, <2>2 DEF PlanAndApply, Step
    <3>3. ~PlanRefused(in.req, PresentSubtypes(in.doc))
      BY <2>2 DEF Applying, Refuses
    <3>4. Cleaned'
      BY <2>1, <2>2, <3>1, <3>3 DEF Cleaned, Applying, AppliedInv
    <3>. QED  BY <2>1, <3>2, <3>4 DEF AppliedInv, AsAsked
  <2>3. CASE ~Applying.ok
    <3>1. UNCHANGED <<marks, records>> /\ worker' = "result"
      BY <1>1, <2>3 DEF PlanAndApply, Finish, Step
    <3>. QED  BY <2>1, <3>1, AppliedFrame DEF AnyFile, Late, Files
  <2>. QED  BY <2>2, <2>3
<1>2. CASE LayerB
  <2>1. UNCHANGED <<in, records, bundle>> /\ worker = "layer_b" /\ worker' # "plan"
    BY <1>2 DEF LayerB, Keep, Step, Finish
  <2>2. Cleaned
    BY <2>1 DEF AppliedInv, Late
  <2>3. marks' = marks
    <3>1. CASE Kind(in.doc) = "text" /\ marks' = marks \ {"layer_a_body"}
      BY <2>2, <3>1, TextCleaned DEF Cleaned
    <3>. QED  BY <1>2, <3>1 DEF LayerB
  <2>. QED  BY <2>1, <2>3, AppliedFrame DEF Late
<1>3. CASE RunnerStep \/ LaunchFails \/ TimesOut \/ WorkerDies
  <2>1. UNCHANGED <<in, marks, records, bundle>> /\ worker' \in {worker, "gone", "read"}
    BY <1>3 DEF RunnerStep, Start, Launch, WorkerExits, Cleanup, SyncJob, LaunchFails, TimesOut,
       WorkerDies, workerVars, runnerVars
  <2>. QED  BY <2>1, AppliedFrame DEF AnyFile, Late, Files
<1>4. CASE ReadInput \/ Scan \/ ApplyTimesOut \/ WriteResult
  <2>1. /\ UNCHANGED <<in, marks, records, bundle>>
        /\ worker' \in {"scan", "inspect", "result", "gone"}
    BY <1>4 DEF ReadInput, Scan, ApplyTimesOut, WriteResult, Keep, Step, Finish
  <2>. QED  BY <2>1, AppliedFrame DEF AnyFile, Late, Files
<1>5. CASE Inspect
  <2>1. /\ UNCHANGED <<in, marks, records, bundle>> /\ worker' \in {"plan", "result"}
        /\ worker' = "plan" => ~LooksBinary(in.doc)
    BY <1>5 DEF Inspect, Keep, Step, Finish
  <2>. QED  BY <2>1, AppliedFrame DEF AnyFile, Late, Files
<1>6. CASE Gate
  <2>1. UNCHANGED <<in, marks, records, bundle>> /\ worker = "verify" /\ worker' # "plan"
    BY <1>6 DEF Gate, Keep, Step, Finish
  <2>. QED  BY <2>1, AppliedFrame DEF Late
<1>7. ASSUME NEW f \in Files, Create(f) \/ Fill(f) \/ WriteFails(f) PROVE AppliedInv'
  <2>1. UNCHANGED <<in, marks, records>> /\ worker \in Late
    BY <1>7 DEF Create, Fill, WriteFails, Finish, Step, Keep, Late
  <2>2. worker' # "plan"
    BY <1>7 DEF Create, Fill, WriteFails, Finish, Step, After, Files
  <2>. QED  BY <2>1, <2>2, AppliedFrame
<1>8. CASE UNCHANGED vars
  BY <1>8, AppliedFrame DEF vars, AnyFile
<1>. QED  BY <1>1, <1>2, <1>3, <1>4, <1>5, <1>6, <1>7, <1>8 DEF Next, WorkerStep, Fault

LEMMA AppliedAlways == Spec => []AppliedInv
  BY InitApplied, StepApplied, PTL DEF Spec

\* What was published is what apply_actions made of the document, and it
\* passed the gate.
LEMMA PublishedIsCleaned ==
  ASSUME IInv, AppliedInv, Published
  PROVE  Cleaned /\ Verified /\ AsAsked
<1>1. AllComplete
  BY DEF IInv, RowTrue, Published
<1>2. AnyFile
  BY <1>1 DEF AllComplete, AnyFile, Files
<1>. QED  BY <1>2 DEF IInv, GateBeforeBundle, AppliedInv, AnyFile

-----------------------------------------------------------------------------
(* What the plan targets.                                                  *)

\* The file as published is read as the original was.
LEMMA SameReader ==
  ASSUME NEW doc, doc \in [name : STRING, fmt : STRING, marks : SUBSET STRING], NEW m
  PROVE  LET after == [doc EXCEPT !.marks = m]
         IN  /\ after.name = doc.name /\ after.fmt = doc.fmt /\ after.marks = m
             /\ Kind(after) = Kind(doc) /\ ReadAs(after) = ReadAs(doc) /\ Sniffed(after) = Sniffed(doc)
<1>. DEFINE after == [doc EXCEPT !.marks = m]
<1>1. after.name = doc.name /\ after.fmt = doc.fmt /\ after.marks = m
  OBVIOUS
<1>. HIDE DEF after
<1>2. Kind(after) = Kind(doc)
  BY <1>1 DEF Kind
<1>3. DetectContainerFormat(after) = DetectContainerFormat(doc)
  BY <1>1 DEF DetectContainerFormat
<1>4. Sniffed(after) = Sniffed(doc)
  BY <1>1 DEF Sniffed
<1>. QED  BY <1>1, <1>2, <1>3, <1>4 DEF ReadAs, after

\* What a reader of the file's own format sees is a row, outside of films.
LEMMA SeenIsPresent ==
  ASSUME NEW doc, ReadAs(doc) = doc.fmt, Kind(doc) # "av",
         NEW m \in doc.marks \cap DOMAIN Reader(doc.fmt)
  PROVE  See(SubtypeOf, {Reader(doc.fmt)[m]}) \subseteq PresentSubtypes(doc)
<1>1. Reader(doc.fmt)[m] \in Findings(doc)
  BY DEF Findings, See
<1>. QED  BY <1>1 DEF PresentSubtypes, See

\* A stripper of sound or film takes what its reader sees, save UngatedMarks.
LEMMA AvStrips ==
  ASSUME NEW fmt \in Sounds, NEW m
  PROVE  CleanAv(fmt, m) \cap DOMAIN Reader(fmt) \subseteq UngatedMarks
<1>1. CASE fmt = "mp4"
  <2>1. Reader(fmt) = InspectMp4
    BY <1>1 DEF Reader, InspectAv, Rasters, Sounds, Ooxml
  <2>2. CleanAv(fmt, m) = m \ StripMp4
    BY <1>1 DEF CleanAv
  <2>. QED  BY <2>1, <2>2 DEF InspectMp4, InspectIsobmff, StripMp4, StripIsobmff, StripMoovUdta,
                                 UngatedMarks, ++
<1>2. CASE fmt = "mp3"
  <2>1. Reader(fmt) = InspectId3v2
    BY <1>2 DEF Reader, InspectAv, Rasters, Sounds, Ooxml
  <2>2. CleanAv(fmt, m) = m \ StripId3v2
    BY <1>2 DEF CleanAv
  <2>. QED  BY <2>1, <2>2 DEF InspectId3v2, StripId3v2
<1>3. CASE fmt = "flac"
  <2>1. Reader(fmt) = InspectFlac
    BY <1>3 DEF Reader, InspectAv, Rasters, Sounds, Ooxml
  <2>2. CleanAv(fmt, m) = m \ StripFlac
    BY <1>3 DEF CleanAv
  <2>. QED  BY <2>1, <2>2 DEF InspectFlac, StripFlac
<1>4. CASE fmt = "wav"
  <2>1. Reader(fmt) = InspectWav
    BY <1>4 DEF Reader, InspectAv, Rasters, Sounds, Ooxml
  <2>2. CleanAv(fmt, m) = m \ StripWav
    BY <1>4 DEF CleanAv
  <2>. QED  BY <2>1, <2>2 DEF InspectWav, InspectId3v2, StripWav, StripId3v2, ++
<1>. QED  BY <1>1, <1>2, <1>3, <1>4 DEF Sounds

\* What was published, as the lemmas below speak of it.
LEMMA PublishedOutcome ==
  ASSUME IInv, AppliedInv, Published
  PROVE  /\ in.doc \in [name : STRING, fmt : STRING, marks : SUBSET STRING]
         /\ in.req.policy \in PolicyIds
         /\ Impl(in.doc, in.req, in.tools).ok
         /\ marks = Impl(in.doc, in.req, in.tools).marks
         /\ SurvivingFindingRecords(PlanActions(in.req), PresentSubtypes(in.doc)) \subseteq records
         /\ ~PlanRefused(in.req, PresentSubtypes(in.doc)) /\ ~LooksBinary(in.doc)
         /\ ReinspectTargetedGone(in.req, Derivative)
         /\ FormatValid(Derivative, in.tools)
         /\ PartInventory(in.doc, in.req, Derivative)
  BY PublishedIsCleaned, ActionsOfImpl DEF Cleaned, Verified, VerifyDerivative, AsAsked, Derivative

LEMMA GatedTargetedGone ==
  ASSUME IInv, AppliedInv, Published
  PROVE  TargetedGone
<1>. SUFFICES ASSUME ReadAs(in.doc) = in.doc.fmt,
                     NEW m \in (marks \cap DOMAIN Reader(in.doc.fmt)) \ UngatedMarks
              PROVE  See(SubtypeOf, {Reader(in.doc.fmt)[m]}) \cap Targeted(in.req) = {}
  BY DEF TargetedGone
<1>1. CASE Kind(in.doc) # "av"
  <2>1. ReadAs(Derivative) = Derivative.fmt /\ Kind(Derivative) # "av"
        /\ Derivative.fmt = in.doc.fmt /\ Derivative.marks = marks
    BY <1>1, PublishedOutcome, SameReader DEF Derivative
  <2>2. See(SubtypeOf, {Reader(in.doc.fmt)[m]}) \subseteq PresentSubtypes(Derivative)
    BY <2>1, SeenIsPresent
  <2>. QED  BY <2>2, PublishedOutcome DEF ReinspectTargetedGone
<1>2. CASE Kind(in.doc) = "av"
  <2>1. Impl(in.doc, in.req, in.tools) = ApplyAv(in.doc.fmt, in.doc.marks)
    BY <1>2, PublishedOutcome, ByKind
  <2>2. in.doc.fmt \in Sounds /\ marks = CleanAv(in.doc.fmt, in.doc.marks)
    BY <2>1, PublishedOutcome, NotOk, AppliedDid DEF ApplyAv
  <2>. QED  BY <2>2, AvStrips
<1>. QED  BY <1>1, <1>2

\* The rows of the two policies with a bar on tooling.
LEMMA StrictRows ==
  ASSUME NEW req, req.policy \in StrictTooling
  PROVE  /\ PlanActions(req)["authoring_props"].action = "strip"
         /\ PlanActions(req)["jpeg_gps"].action = "strip"
         /\ PlanActions(req)["pdf_incremental"].action = "rebuild"
         /\ PlanActions(req)["c2pa"].action \in {"strip", "strip_if_authorized"}
         /\ PlanActions(req)["layer_a_body"].action = "sanitize"
<1>1. /\ DefaultPolicy(req.policy, "authoring_props") = "strip"
      /\ DefaultPolicy(req.policy, "jpeg_gps") = "strip"
      /\ DefaultPolicy(req.policy, "pdf_incremental") = "rebuild"
      /\ DefaultPolicy(req.policy, "c2pa") \in {"strip", "strip_if_authorized"}
      /\ DefaultPolicy(req.policy, "layer_a_body") = "sanitize"
  <2>1. CASE req.policy = "external_sharing"
    BY <2>1 DEF DefaultPolicy, ExternalSharing
  <2>2. CASE req.policy = "production"
    BY <2>2 DEF DefaultPolicy, Production
  <2>. QED  BY <2>1, <2>2 DEF StrictTooling
<1>. QED  BY <1>1 DEF PlanActions, PlanRow, Subtypes

\* And of the policy that only looks after privacy.
LEMMA PrivateRows ==
  ASSUME NEW req, req.policy = "privacy_only"
  PROVE  /\ PlanActions(req)["authoring_props"].action = "strip_listed"
         /\ PlanActions(req)["jpeg_gps"].action = "strip"
         /\ PlanActions(req)["layer_a_body"].action = "sanitize"
         /\ PlanActions(req)["macros_vba"].action = "refuse"
         /\ \A st \in Subtypes \ {"authoring_props", "jpeg_gps", "layer_a_body", "macros_vba"} :
              PlanActions(req)[st].action = "keep"
<1>1. /\ DefaultPolicy(req.policy, "authoring_props") = "strip_listed"
      /\ DefaultPolicy(req.policy, "jpeg_gps") = "strip"
      /\ DefaultPolicy(req.policy, "layer_a_body") = "sanitize"
      /\ DefaultPolicy(req.policy, "macros_vba") = "refuse"
  BY DEF DefaultPolicy, PrivacyOnly
<1>2. ASSUME NEW st \in Subtypes \ {"authoring_props", "jpeg_gps", "layer_a_body", "macros_vba"}
      PROVE  DefaultPolicy(req.policy, st) = "keep"
  BY <1>2 DEF DefaultPolicy, PrivacyOnly
<1>. QED  BY <1>1, <1>2 DEF PlanActions, PlanRow, Subtypes

\* The policies a cleaner runs under.
LEMMA PolicyCases ==
  ASSUME NEW p \in PolicyIds, p # "evidence_preservation"
  PROVE  p \in StrictTooling \/ p = "privacy_only"
  BY DEF PolicyIds, StrictTooling

\* A PDF under a bar on tooling: exiftool was there, and the file was rebuilt.
LEMMA StrictPdf ==
  ASSUME NEW doc, NEW req, NEW tools, req.policy \in StrictTooling, doc.fmt = "pdf",
         ~LooksBinary(doc), Impl(doc, req, tools).ok
  PROVE  LET out == CleanPdf(doc.marks, tools)
         IN  /\ Kind(doc) = "container"
             /\ tools.exiftool # "absent" /\ Rewrites(tools.qpdf, 1)
             /\ Impl(doc, req, tools).marks = out.marks
<1>. DEFINE plan == PlanActions(req)
            out == CleanPdf(doc.marks, tools)
<1>0. plan["authoring_props"].action = "strip"
  BY StrictRows
<1>1. Sniffed(doc) = "pdf"
  BY DEF Sniffed
<1>2. Kind(doc) # "text"
  BY DEF LooksBinary
<1>3. Kind(doc) # "image"
  <2>1. ~ApplyImage(doc.fmt, doc.marks, plan, tools).ok
    BY <1>0, NotOk DEF ApplyImage, Rasters
  <2>. QED  BY <2>1, ByKind
<1>4. Kind(doc) # "av"
  <2>1. ~ApplyAv(doc.fmt, doc.marks).ok
    BY NotOk DEF ApplyAv, Sounds
  <2>. QED  BY <2>1, ByKind
<1>5. /\ Kind(doc) = "container"
      /\ Impl(doc, req, tools) = ApplyPdf(doc.marks, req, plan, PresentSubtypes(doc), tools)
  BY <1>1, <1>2, <1>3, <1>4, ByKind DEF Ooxml
<1>6. out.mode = "exiftool" /\ out.structural_rewrite /\ Impl(doc, req, tools).marks = out.marks
  <2>. HIDE DEF plan, out
  <2>. QED  BY <1>0, <1>5, NotOk, AppliedDid DEF ApplyPdf, out
<1>7. tools.exiftool # "absent"
  BY <1>6 DEF CleanPdf
<1>8. Rewrites(tools.qpdf, 1)
  BY <1>6 DEF CleanPdf
<1>. QED  BY <1>5, <1>6, <1>7, <1>8

\* The marks clean_pdf leaves of a file it rebuilt, step by step.
EditedPdf(m, exiftool) ==
  IF exiftool = "ok" THEN ExiftoolEdit(m, {"author", "info", "producer", "xmp", "xmp_ai"}) ELSE m

ClearedPdf(m, qpdf) ==
  StructuralRewrite(m) \ (IF Rewrites(qpdf, 2) THEN {"author", "info", "producer"} ELSE {})

StrippedPdf(m, qpdf) ==
  IF m \cap PdfImageMetadata = {} THEN m
  ELSE IF Rewrites(qpdf, 3) THEN StructuralRewrite(m \ PdfImageMetadata)
  ELSE (m \ PdfImageMetadata) \cup {"stale_xref"}

LEMMA RebuiltInSteps ==
  ASSUME NEW m, NEW tools, tools.exiftool \in {"fails", "ok"}, Rewrites(tools.qpdf, 1)
  PROVE  CleanPdf(m, tools).marks =
           StrippedPdf(ClearedPdf(EditedPdf(m, tools.exiftool), tools.qpdf), tools.qpdf)
<1>. DEFINE edited == CASE tools.exiftool = "ok" ->
                             ExiftoolEdit(m, {"author", "info", "producer", "xmp", "xmp_ai"})
                        [] tools.exiftool = "fails" -> m
                        [] OTHER -> m \ {"xmp", "xmp_ai"}
            rebuilt == StructuralRewrite(edited)
            cleared == IF Rewrites(tools.qpdf, 2) THEN rebuilt \ {"author", "info", "producer"} ELSE rebuilt
            stripped == cleared \cap PdfImageMetadata
            done == IF stripped = {} THEN cleared
                    ELSE IF Rewrites(tools.qpdf, 3) THEN StructuralRewrite(cleared \ stripped)
                    ELSE (cleared \ stripped) \cup {"stale_xref"}
<1>1. CleanPdf(m, tools).marks = done
  BY DEF CleanPdf
<1>2. edited = EditedPdf(m, tools.exiftool)
  <2>1. CASE tools.exiftool = "ok"
    BY <2>1 DEF EditedPdf
  <2>2. CASE tools.exiftool = "fails"
    BY <2>2 DEF EditedPdf
  <2>. QED  BY <2>1, <2>2
<1>. HIDE DEF edited
<1>3. cleared = ClearedPdf(edited, tools.qpdf)
  BY DEF ClearedPdf
<1>. HIDE DEF cleared
<1>4. done = StrippedPdf(cleared, tools.qpdf)
  <2>1. cleared \ stripped = cleared \ PdfImageMetadata
    OBVIOUS
  <2>. QED  BY <2>1 DEF StrippedPdf
<1>. QED  BY <1>1, <1>2, <1>3, <1>4

\* None of what a rebuild drops is left, no metadata in the pictures inside,
\* and nothing a second pass of the tools would take.
LEMMA RebuiltPdf ==
  ASSUME NEW m, NEW tools, tools.exiftool \in {"fails", "ok"}, Rewrites(tools.qpdf, 1),
         NEW n, n = CleanPdf(m, tools).marks
  PROVE  /\ {"old_info", "old_producer", "old_xmp", "old_xmp_ai", "revisions", "image_meta_indirect"}
              \cap n = {}
         /\ n \cap PdfImageMetadata = {}
         /\ tools.exiftool = "ok" => {"author", "info", "producer", "xmp", "xmp_ai"} \cap n = {}
         /\ Rewrites(tools.qpdf, 2) => {"author", "info", "producer"} \cap n = {}
<1>. DEFINE edited == EditedPdf(m, tools.exiftool)
            cleared == ClearedPdf(edited, tools.qpdf)
            old == {"old_info", "old_producer", "old_xmp", "old_xmp_ai", "revisions", "image_meta_indirect"}
<1>1. tools.exiftool = "ok" => {"author", "info", "producer", "xmp", "xmp_ai"} \cap edited = {}
  BY DEF EditedPdf, ExiftoolEdit
<1>2. n = StrippedPdf(cleared, tools.qpdf)
  BY RebuiltInSteps
<1>. HIDE DEF edited
<1>3. /\ old \cap cleared = {}
      /\ tools.exiftool = "ok" => {"author", "info", "producer", "xmp", "xmp_ai"} \cap cleared = {}
      /\ Rewrites(tools.qpdf, 2) => {"author", "info", "producer"} \cap cleared = {}
  BY <1>1 DEF ClearedPdf, StructuralRewrite
<1>. HIDE DEF cleared
<1>4. n \subseteq (cleared \ PdfImageMetadata) \cup {"stale_xref"}
  BY <1>2, <1>3 DEF StrippedPdf, StructuralRewrite
<1>. QED  BY <1>3, <1>4 DEF PdfImageMetadata

LEMMA RebuiltTwice ==
  ASSUME NEW m, NEW tools, tools.exiftool \in {"fails", "ok"}, Rewrites(tools.qpdf, 1),
         NEW n, n = CleanPdf(m, tools).marks
  PROVE  CleanPdf(n, tools).marks = n \ {"stale_xref"}
<1>1. EditedPdf(n, tools.exiftool) = n
  BY RebuiltPdf DEF EditedPdf, ExiftoolEdit
<1>2. StructuralRewrite(n) = n \ {"stale_xref"}
  BY RebuiltPdf DEF StructuralRewrite
<1>3. ClearedPdf(n, tools.qpdf) = n \ {"stale_xref"}
  BY <1>2, RebuiltPdf DEF ClearedPdf
<1>4. StrippedPdf(n \ {"stale_xref"}, tools.qpdf) = n \ {"stale_xref"}
  BY RebuiltPdf DEF StrippedPdf
<1>. QED  BY <1>1, <1>3, <1>4, RebuiltInSteps

LEMMA RebuiltNothingOld ==
  ASSUME IInv, AppliedInv, Published
  PROVE  NothingRecoverable
<1>. SUFFICES ASSUME in.doc.fmt = "pdf", in.req.policy \in StrictTooling
              PROVE  {"old_info", "old_producer", "old_xmp", "old_xmp_ai"} \cap marks = {}
  BY DEF NothingRecoverable
<1>1. in.tools.exiftool \in {"absent", "fails", "ok"}
  BY PublishedIsCleaned DEF AsAsked
<1>2. /\ in.tools.exiftool # "absent" /\ Rewrites(in.tools.qpdf, 1)
      /\ marks = CleanPdf(in.doc.marks, in.tools).marks
  BY StrictPdf, PublishedOutcome
<1>. QED  BY <1>1, <1>2, RebuiltPdf

\* What the plan sets out to remove is gone from a published derivative: the
\* readers of the gate see no row of it, and under a bar on tooling exiftool's
\* revisions were rebuilt away (policies.py, _apply_pdf; verify.py).
THEOREM NothingTargetedRemains == Spec => []NothingTargetedIsLeft
<1>1. IInv /\ AppliedInv => NothingTargetedIsLeft
  BY GatedTargetedGone, RebuiltNothingOld DEF NothingTargetedIsLeft, TargetedGone, NothingRecoverable
<1>. QED  BY <1>1, Inductive, AppliedAlways, PTL

-----------------------------------------------------------------------------
(* What survives.                                                          *)

\* A reader of a PDF finds in n no more than in m, save that m was edited.
ShowsNoMore(m, n) ==
  See(InspectPdf, n) \subseteq See(InspectPdf, m) \cup {"pdf_incremental_updates"}

LEMMA ShowsTransitive ==
  ASSUME NEW l, NEW m, NEW n, ShowsNoMore(l, m), ShowsNoMore(m, n)
  PROVE  ShowsNoMore(l, n)
  BY DEF ShowsNoMore

LEMMA CutShows ==
  ASSUME NEW m, NEW n, n \subseteq m \cup {"stale_xref", "revisions"}
  PROVE  ShowsNoMore(m, n)
<1>. SUFFICES ASSUME NEW x \in n \cap DOMAIN InspectPdf
              PROVE  InspectPdf[x] \in See(InspectPdf, m) \cup {"pdf_incremental_updates"}
  BY DEF ShowsNoMore, See
<1>1. CASE x \in m
  BY <1>1 DEF See
<1>2. CASE x \notin m
  BY <1>2 DEF InspectPdf
<1>. QED  BY <1>1, <1>2

LEMMA EditShows ==
  ASSUME NEW m, NEW gone \in SUBSET {"author", "info", "producer", "xmp", "xmp_ai"}
  PROVE  ShowsNoMore(m, ExiftoolEdit(m, gone))
<1>. SUFFICES ASSUME NEW x \in ExiftoolEdit(m, gone) \cap DOMAIN InspectPdf, x \notin m
              PROVE  InspectPdf[x] \in See(InspectPdf, m) \cup {"pdf_incremental_updates"}
  BY DEF ShowsNoMore, See
<1>1. CASE x = "revisions"
  BY <1>1 DEF InspectPdf
<1>2. CASE x # "revisions"
  <2>1. PICK y \in m \cap gone :
          x = [author |-> "old_info", info |-> "old_info", xmp |-> "old_xmp",
               xmp_ai |-> "old_xmp_ai", producer |-> "old_producer"][y]
    BY <1>2 DEF ExiftoolEdit
  <2>2. x # "old_producer"
    BY DEF InspectPdf
  <2>3. y \in {"author", "info", "xmp", "xmp_ai", "producer"}
    OBVIOUS
  <2>4. \/ y \in {"author", "info"} /\ x = "old_info"
        \/ y = "xmp" /\ x = "old_xmp"
        \/ y = "xmp_ai" /\ x = "old_xmp_ai"
    BY <2>1, <2>2, <2>3
  <2>5. y \in DOMAIN InspectPdf /\ InspectPdf[y] = InspectPdf[x]
    BY <2>4 DEF InspectPdf
  <2>. QED  BY <2>1, <2>5 DEF See
<1>. QED  BY <1>1, <1>2

LEMMA RebuildShows ==
  ASSUME NEW m
  PROVE  ShowsNoMore(m, StructuralRewrite(m))
<1>. SUFFICES ASSUME NEW x \in StructuralRewrite(m) \cap DOMAIN InspectPdf, x \notin m
              PROVE  InspectPdf[x] \in See(InspectPdf, m)
  BY DEF ShowsNoMore, See
<1>1. x = "image_meta" /\ "image_meta_indirect" \in m
  BY DEF StructuralRewrite
<1>2. "image_meta_indirect" \in DOMAIN InspectPdf /\ InspectPdf["image_meta_indirect"] = InspectPdf[x]
  BY <1>1 DEF InspectPdf
<1>. QED  BY <1>1, <1>2 DEF See

\* Neither a clean that rebuilt the file ...
LEMMA CleanShows ==
  ASSUME NEW m, NEW tools, tools.exiftool \in {"fails", "ok"}, Rewrites(tools.qpdf, 1)
  PROVE  ShowsNoMore(m, CleanPdf(m, tools).marks)
<1>. DEFINE edited == EditedPdf(m, tools.exiftool)
            cleared == ClearedPdf(edited, tools.qpdf)
<1>1. ShowsNoMore(m, edited)
  BY EditShows, CutShows DEF EditedPdf
<1>. HIDE DEF edited
<1>2. ShowsNoMore(edited, cleared)
  <2>1. ShowsNoMore(StructuralRewrite(edited), cleared)
    BY CutShows DEF ClearedPdf
  <2>. QED  BY <2>1, RebuildShows, ShowsTransitive
<1>. HIDE DEF cleared
<1>3. ShowsNoMore(cleared, StrippedPdf(cleared, tools.qpdf))
  <2>1. ShowsNoMore(cleared, cleared \ PdfImageMetadata)
    BY CutShows
  <2>2. ShowsNoMore(cleared, StructuralRewrite(cleared \ PdfImageMetadata))
    BY <2>1, RebuildShows, ShowsTransitive
  <2>3. /\ ShowsNoMore(cleared, cleared)
        /\ ShowsNoMore(cleared, (cleared \ PdfImageMetadata) \cup {"stale_xref"})
    BY CutShows
  <2>. QED  BY <2>2, <2>3 DEF StrippedPdf
<1>. QED  BY <1>1, <1>2, <1>3, RebuiltInSteps, ShowsTransitive DEF edited, cleared

\* ... nor the short one of privacy_only shows more.
LEMMA GpsShows ==
  ASSUME NEW m, NEW qpdf
  PROVE  ShowsNoMore(m, StripPdfImageGps(m, qpdf))
<1>1. ShowsNoMore(m, m) /\ ShowsNoMore(m, m \ {"image_gps"})
      /\ ShowsNoMore(m, (m \ {"image_gps"}) \cup {"stale_xref"})
  BY CutShows
<1>2. ShowsNoMore(m, StructuralRewrite(m \ {"image_gps"}))
  BY <1>1, RebuildShows, ShowsTransitive
<1>. QED  BY <1>1, <1>2 DEF StripPdfImageGps

\* What ApplyPdf does under each policy.
LEMMA PdfByPolicy ==
  ASSUME NEW m, NEW req, NEW present, NEW tools, tools.exiftool \in {"absent", "fails", "ok"},
         req.policy \in PolicyIds, req.policy # "evidence_preservation",
         ApplyPdf(m, req, PlanActions(req), present, tools).ok
  PROVE  LET n == ApplyPdf(m, req, PlanActions(req), present, tools).marks
             edited == ExiftoolEdit(m, {"author"})
         IN  \/ /\ req.policy \in StrictTooling
                /\ tools.exiftool \in {"fails", "ok"} /\ Rewrites(tools.qpdf, 1)
                /\ n = CleanPdf(m, tools).marks
             \/ /\ req.policy = "privacy_only" /\ tools.exiftool = "ok"
                /\ n = StripPdfImageGps(edited, tools.qpdf)
<1>. DEFINE plan == PlanActions(req)
            out == CleanPdf(m, tools)
            edited == ExiftoolEdit(m, {"author"})
<1>1. CASE req.policy \in StrictTooling
  <2>1. plan["authoring_props"].action = "strip"
    BY <1>1, StrictRows
  <2>2. out.mode = "exiftool" /\ out.structural_rewrite
        /\ ApplyPdf(m, req, plan, present, tools).marks = out.marks
    <3>. HIDE DEF plan, out
    <3>. QED  BY <1>1, <2>1, NotOk, AppliedDid DEF ApplyPdf, out, plan
  <2>3. tools.exiftool # "absent"
    BY <2>2 DEF CleanPdf
  <2>4. Rewrites(tools.qpdf, 1)
    BY <2>2 DEF CleanPdf
  <2>. QED  BY <1>1, <2>2, <2>3, <2>4
<1>2. CASE req.policy = "privacy_only"
  <2>1. plan["authoring_props"].action = "strip_listed" /\ plan["pdf_incremental"].action # "rebuild"
    BY <1>2, PrivateRows DEF Subtypes
  <2>2. ApplyPdf(m, req, plan, present, tools) = ExiftoolPrivacyPdf(m, tools)
    <3>. HIDE DEF plan, out
    <3>. QED  BY <2>1, NotOk DEF ApplyPdf, plan
  <2>3. tools.exiftool = "ok"
    BY <2>2, NotOk DEF ExiftoolPrivacyPdf
  <2>. HIDE DEF edited
  <2>4. "image_gps" \notin edited => StripPdfImageGps(edited, tools.qpdf) = edited
    BY DEF StripPdfImageGps
  <2>5. ExiftoolPrivacyPdf(m, tools).marks = StripPdfImageGps(edited, tools.qpdf)
    BY <2>3, <2>4, AppliedDid DEF ExiftoolPrivacyPdf, edited, PdfImageMetadata
  <2>. QED  BY <1>2, <2>2, <2>3, <2>5 DEF edited
<1>. QED  BY <1>1, <1>2, PolicyCases

\* A clean takes marks away; only in a PDF it may put some in their place.
LEMMA CleanShrinks ==
  ASSUME NEW doc, NEW req, NEW tools, tools.exiftool \in {"absent", "fails", "ok"},
         req.policy \in PolicyIds, Impl(doc, req, tools).ok
  PROVE  LET n == Impl(doc, req, tools).marks
         IN  n \subseteq doc.marks \/ (doc.fmt = "pdf" /\ ShowsNoMore(doc.marks, n))
<1>. DEFINE r == Impl(doc, req, tools)
            plan == PlanActions(req)
<1>1. CASE r = Applied(doc.marks \ {"layer_a_body"}, {<<"layer_a_body", "sanitize">>})
  BY <1>1, AppliedDid
<1>2. CASE r = ApplyImage(doc.fmt, doc.marks, plan, tools)
  <2>1. ApplyImage(doc.fmt, doc.marks, plan, tools).marks \subseteq doc.marks
    BY <1>2, NotOk, AppliedDid DEF ApplyImage, ExiftoolPrivacyJpeg, CleanImage
  <2>. QED  BY <1>2, <2>1
<1>3. CASE r = ApplyAv(doc.fmt, doc.marks)
  <2>1. CleanAv(doc.fmt, doc.marks) \subseteq doc.marks
    BY DEF CleanAv
  <2>2. ApplyAv(doc.fmt, doc.marks).marks \subseteq doc.marks
    BY <1>3, <2>1, NotOk, AppliedDid DEF ApplyAv
  <2>. QED  BY <1>3, <2>2
<1>4. CASE Sniffed(doc) = "pdf" /\ r = ApplyPdf(doc.marks, req, plan, PresentSubtypes(doc), tools)
  <2>1. doc.fmt = "pdf"
    BY <1>4 DEF Sniffed
  <2>2. req.policy # "evidence_preservation"
    BY ByKind
  <2>3. ShowsNoMore(doc.marks, ExiftoolEdit(doc.marks, {"author"}))
    BY EditShows
  <2>4. ShowsNoMore(doc.marks, r.marks)
    BY <1>4, <2>2, <2>3, PdfByPolicy, CleanShows, GpsShows, ShowsTransitive
  <2>. QED  BY <2>1, <2>4
<1>5. CASE r = ApplyOoxml(Sniffed(doc), doc.marks, plan)
  <2>1. ApplyOoxml(Sniffed(doc), doc.marks, plan).marks \subseteq doc.marks
    BY AppliedDid DEF ApplyOoxml
  <2>. QED  BY <1>5, <2>1
<1>6. CASE r = ApplyOther(Sniffed(doc), doc.marks, plan)
  <2>1. ApplyOther(Sniffed(doc), doc.marks, plan).marks \subseteq doc.marks
    BY <1>6, NotOk, AppliedDid DEF ApplyOther
  <2>. QED  BY <1>6, <2>1
<1>. QED  BY <1>1, <1>2, <1>3, <1>4, <1>5, <1>6, ByKind

\* So that a second inspection finds no row the first did not, but the
\* revisions of an edited PDF.
LEMMA NoNewRows ==
  ASSUME NEW doc, doc \in [name : STRING, fmt : STRING, marks : SUBSET STRING], NEW n,
         n \subseteq doc.marks \/ (doc.fmt = "pdf" /\ ShowsNoMore(doc.marks, n))
  PROVE  PresentSubtypes([doc EXCEPT !.marks = n]) \subseteq PresentSubtypes(doc) \cup {"pdf_incremental"}
<1>. DEFINE after == [doc EXCEPT !.marks = n]
<1>1. /\ after.name = doc.name /\ after.fmt = doc.fmt /\ after.marks = n
      /\ Kind(after) = Kind(doc) /\ ReadAs(after) = ReadAs(doc)
  BY SameReader
<1>. HIDE DEF after
<1>2. See(Reader(doc.fmt), n) \subseteq See(Reader(doc.fmt), doc.marks) \cup {"pdf_incremental_updates"}
  <2>1. CASE n \subseteq doc.marks
    BY <2>1 DEF See
  <2>2. CASE doc.fmt = "pdf" /\ ShowsNoMore(doc.marks, n)
    <3>1. Reader("pdf") = InspectPdf
      BY DEF Reader, Rasters, Sounds, Ooxml
    <3>. QED  BY <2>2, <3>1 DEF ShowsNoMore
  <2>. QED  BY <2>1, <2>2
<1>3. Findings(after) \subseteq Findings(doc) \cup {"pdf_incremental_updates"}
  BY <1>1, <1>2 DEF Findings
<1>4. SubtypeOf["pdf_incremental_updates"] = "pdf_incremental"
  BY DEF SubtypeOf, ImageSubtypes, TextSubtypes, RefuseSubtypes, PdfSubtypes, OfficeSubtypes,
     SheetAndSlideSubtypes, ++
<1>5. See(SubtypeOf, Findings(after)) \subseteq See(SubtypeOf, Findings(doc)) \cup {"pdf_incremental"}
  BY <1>3, <1>4 DEF See
<1>. QED  BY <1>1, <1>5 DEF PresentSubtypes, after

\* The readers, one by one.
LEMMA ReaderOf ==
  ASSUME NEW fmt
  PROVE  /\ fmt = "docx" => Reader(fmt) = InspectDocx ++ OfficeRisks
         /\ fmt = "xlsx" => Reader(fmt) = InspectXlsx ++ OfficeRisks
         /\ fmt = "pptx" => Reader(fmt) = InspectPptx ++ OfficeRisks
         /\ fmt = "odt" => Reader(fmt) = InspectOdt
         /\ fmt = "epub" => Reader(fmt) = InspectEpub
         /\ fmt = "svg" => Reader(fmt) = InspectSvg
         /\ fmt = "html" => Reader(fmt) = InspectHtml
         /\ fmt = "markdown" => Reader(fmt) = InspectMarkdown
         /\ fmt = "pdf" => Reader(fmt) = InspectPdf
         /\ fmt = "text" => Reader(fmt) = InspectText
         /\ fmt \in Rasters => Reader(fmt) = InspectImage(fmt)
         /\ fmt \in Sounds => Reader(fmt) = InspectAv(fmt)
         /\ fmt \notin Ooxml \cup {"odt", "epub", "svg", "html", "markdown", "pdf", "text"}
                         \cup Rasters \cup Sounds => Reader(fmt) = <<>>
<1>1. /\ fmt = "docx" => Reader(fmt) = InspectDocx ++ OfficeRisks
      /\ fmt = "xlsx" => Reader(fmt) = InspectXlsx ++ OfficeRisks
      /\ fmt = "pptx" => Reader(fmt) = InspectPptx ++ OfficeRisks
  BY DEF Reader, Rasters, Sounds
<1>2. /\ fmt = "odt" => Reader(fmt) = InspectOdt
      /\ fmt = "epub" => Reader(fmt) = InspectEpub
      /\ fmt = "svg" => Reader(fmt) = InspectSvg
      /\ fmt = "html" => Reader(fmt) = InspectHtml
  BY DEF Reader, Rasters, Sounds
<1>3. /\ fmt = "markdown" => Reader(fmt) = InspectMarkdown
      /\ fmt = "pdf" => Reader(fmt) = InspectPdf
      /\ fmt = "text" => Reader(fmt) = InspectText
  BY DEF Reader, Rasters, Sounds
<1>4. fmt \in Rasters => Reader(fmt) = InspectImage(fmt)
  BY DEF Reader, Rasters, Sounds
<1>5. fmt \in Sounds => Reader(fmt) = InspectAv(fmt)
  BY DEF Reader, Rasters, Sounds
<1>6. fmt \notin Ooxml \cup {"odt", "epub", "svg", "html", "markdown", "pdf", "text"}
                         \cup Rasters \cup Sounds => Reader(fmt) = <<>>
  BY DEF Reader, Ooxml
<1>. QED  BY <1>1, <1>2, <1>3, <1>4, <1>5, <1>6

\* Pictures, sound and film: only provenance, AI names and locations.
LEMMA MediaFindings ==
  ASSUME NEW fmt \in Rasters \cup Sounds, NEW m \in DOMAIN Reader(fmt)
  PROVE  Reader(fmt)[m] \in {"c2pa", "ai", "gps"}
<1>1. CASE fmt \in Rasters
  <2>1. m \in DOMAIN InspectImage(fmt) /\ Reader(fmt)[m] = InspectImage(fmt)[m]
    BY <1>1, ReaderOf
  <2>2. \A t \in {InspectPng, InspectJpeg ++ JpegHasGps, InspectWebp, InspectIsobmff, InspectBmp,
                  InspectGif, InspectTiff ++ IfdsHaveGps} :
          \A x \in DOMAIN t : t[x] \in {"c2pa", "ai", "gps"}
    BY DEF InspectPng, InspectJpeg, JpegHasGps, InspectWebp, InspectIsobmff, InspectBmp,
       InspectGif, InspectTiff, IfdsHaveGps, ++
  <2>3. InspectImage(fmt) \in {InspectPng, InspectJpeg ++ JpegHasGps, InspectWebp, InspectIsobmff,
                               InspectBmp, InspectGif, InspectTiff ++ IfdsHaveGps}
    BY <1>1 DEF InspectImage, Rasters
  <2>. QED  BY <2>1, <2>2, <2>3
<1>2. CASE fmt \in Sounds
  <2>1. m \in DOMAIN InspectAv(fmt) /\ Reader(fmt)[m] = InspectAv(fmt)[m]
    BY <1>2, ReaderOf
  <2>2. \A t \in {InspectMp4, InspectId3v2, InspectFlac, InspectWav} :
          \A x \in DOMAIN t : t[x] \in {"c2pa", "ai", "gps"}
    BY DEF InspectMp4, InspectIsobmff, InspectId3v2, InspectFlac, InspectWav, ++
  <2>3. InspectAv(fmt) \in {InspectMp4, InspectId3v2, InspectFlac, InspectWav}
    BY <1>2 DEF InspectAv, Sounds
  <2>. QED  BY <2>1, <2>2, <2>3
<1>. QED  BY <1>1, <1>2

\* The findings a refusal of ApplyPdf is about come from a PDF's reader.
LEMMA ActiveIsPdf ==
  ASSUME NEW fmt, NEW m \in DOMAIN Reader(fmt),
         Reader(fmt)[m] \in {"pdf_js", "pdf_annots", "pdf_embeddedfiles"}
  PROVE  fmt = "pdf"
<1>1. fmt \notin Rasters \cup Sounds
  BY MediaFindings
<1>2. fmt \notin Ooxml
  <2>1. \A t \in {InspectDocx ++ OfficeRisks, InspectXlsx ++ OfficeRisks, InspectPptx ++ OfficeRisks} :
          \A x \in DOMAIN t : t[x] \notin {"pdf_js", "pdf_annots", "pdf_embeddedfiles"}
    BY DEF InspectDocx, InspectXlsx, InspectPptx, InspectOoxmlZip, InspectOoxmlLayerA, OfficeRisks, ++
  <2>. QED  BY <2>1, ReaderOf DEF Ooxml
<1>3. fmt \notin {"odt", "epub", "svg", "html", "markdown", "text"}
  BY ReaderOf DEF InspectOdt, InspectEpub, InspectSvg, InspectHtml, InspectMarkdown, InspectText
<1>4. DOMAIN Reader(fmt) # {}
  OBVIOUS
<1>5. DOMAIN <<>> = {}
  OBVIOUS
<1>. QED  BY <1>1, <1>2, <1>3, <1>4, <1>5, ReaderOf

\* The rows some policy refuses.
RefusableRows == {"pdf_js_actions", "pdf_attachments", "pdf_annots", "macros_vba"}

\* What a row of a plan may say.
LEMMA RowCases ==
  ASSUME NEW req, req.policy \in PolicyIds, req.policy # "evidence_preservation", NEW st \in Subtypes
  PROVE  LET decided == PlanActions(req)[st]
         IN  \/ decided.action \in Mutating \cup SilentActions \cup {"flag"}
             \/ DefaultPolicy(req.policy, st) = "keep"
             \/ decided.action = "keep" /\ decided.reason \in {"no_decision", "operator_kept", "operator_approved"}
             \/ decided.action = "refuse" /\ st \in RefusableRows
<1>. DEFINE default == DefaultPolicy(req.policy, st)
            external == ExternalSharing(st)
<1>1. PlanActions(req)[st] = PlanRow(req, st)
  BY DEF PlanActions
<1>2. /\ external \in {"flag", "refuse", "accept_all", "rebuild", "sanitize", "keep",
                       "refuse_unless_attest", "strip"}
      /\ external = "refuse" => st \in RefusableRows
      /\ external = "refuse_unless_attest" => st = "cms_or_xml_dsig"
  BY DEF ExternalSharing, RefusableRows
<1>3. /\ default \in {"flag", "refuse", "accept_all", "rebuild", "sanitize", "keep", "strip",
                      "refuse_unless_attest", "strip_listed", "strip_if_authorized", "approve"}
      /\ default = "refuse" => st \in RefusableRows
      /\ default = "approve" => st # "cms_or_xml_dsig"
  <2>1. CASE req.policy = "external_sharing"
    <3>1. default = external
      BY <2>1 DEF DefaultPolicy
    <3>. HIDE DEF default, external
    <3>. QED  BY <1>2, <3>1
  <2>2. CASE req.policy = "privacy_only"
    <3>1. default = PrivacyOnly(st)
      BY <2>2 DEF DefaultPolicy
    <3>. HIDE DEF default
    <3>. QED  BY <3>1 DEF PrivacyOnly, RefusableRows
  <2>3. CASE req.policy = "production"
    <3>1. default = Production(st)
      BY <2>3 DEF DefaultPolicy
    <3>. HIDE DEF default
    <3>. QED  BY <3>1 DEF Production, RefusableRows
  <2>. QED  BY <2>1, <2>2, <2>3 DEF PolicyIds
<1>. HIDE DEF default, external
<1>4. PlanRow(req, st) =
        IF default = "approve" /\ st \in req.decisions.approve
          THEN [action |-> external, reason |-> "operator_approved"]
        ELSE IF default = "approve"
          THEN [action |-> "keep",
                reason |-> IF st \in req.decisions.keep THEN "operator_kept" ELSE "no_decision"]
        ELSE IF default = "refuse_unless_attest" THEN [action |-> "rebuild", reason |-> "attested"]
        ELSE [action |-> default, reason |-> "policy_default"]
  BY DEF PlanRow, default, external
<1>5. CASE default = "approve" /\ st \in req.decisions.approve
  BY <1>1, <1>2, <1>3, <1>4, <1>5 DEF Mutating, SilentActions
<1>6. CASE default = "approve" /\ st \notin req.decisions.approve
  BY <1>1, <1>4, <1>6
<1>7. CASE default # "approve"
  BY <1>1, <1>3, <1>4, <1>7 DEF Mutating, SilentActions, default
<1>. QED  BY <1>5, <1>6, <1>7

LEMMA Merged ==
  ASSUME NEW f, NEW g, NEW x \in DOMAIN (f ++ g)
  PROVE  \/ x \in DOMAIN f /\ (f ++ g)[x] = f[x]
         \/ x \in DOMAIN g /\ (f ++ g)[x] = g[x]
  BY DEF ++

\* A finding has its row from one of the tables.
LEMMA RowFromTable ==
  ASSUME NEW f \in DOMAIN SubtypeOf
  PROVE  \E t \in {ImageSubtypes, TextSubtypes, RefuseSubtypes, PdfSubtypes, OfficeSubtypes,
                   SheetAndSlideSubtypes} : f \in DOMAIN t /\ SubtypeOf[f] = t[f]
<1>. DEFINE t2 == ImageSubtypes ++ TextSubtypes
            t3 == t2 ++ RefuseSubtypes
            t4 == t3 ++ PdfSubtypes
            t5 == t4 ++ OfficeSubtypes
<1>1. SubtypeOf = t5 ++ SheetAndSlideSubtypes
  BY DEF SubtypeOf
<1>2. \/ f \in DOMAIN t5 /\ SubtypeOf[f] = t5[f]
      \/ f \in DOMAIN SheetAndSlideSubtypes /\ SubtypeOf[f] = SheetAndSlideSubtypes[f]
  <2>. HIDE DEF t5
  <2>. QED  BY <1>1, Merged
<1>3. f \in DOMAIN t5 => \/ f \in DOMAIN t4 /\ t5[f] = t4[f]
                         \/ f \in DOMAIN OfficeSubtypes /\ t5[f] = OfficeSubtypes[f]
  <2>. HIDE DEF t4
  <2>. QED  BY Merged
<1>4. f \in DOMAIN t4 => \/ f \in DOMAIN t3 /\ t4[f] = t3[f]
                         \/ f \in DOMAIN PdfSubtypes /\ t4[f] = PdfSubtypes[f]
  <2>. HIDE DEF t3
  <2>. QED  BY Merged
<1>5. f \in DOMAIN t3 => \/ f \in DOMAIN t2 /\ t3[f] = t2[f]
                         \/ f \in DOMAIN RefuseSubtypes /\ t3[f] = RefuseSubtypes[f]
  <2>. HIDE DEF t2
  <2>. QED  BY Merged
<1>6. f \in DOMAIN t2 => \/ f \in DOMAIN ImageSubtypes /\ t2[f] = ImageSubtypes[f]
                         \/ f \in DOMAIN TextSubtypes /\ t2[f] = TextSubtypes[f]
  BY Merged
<1>. HIDE DEF t2, t3, t4, t5
<1>. QED  BY <1>2, <1>3, <1>4, <1>5, <1>6

\* No row names a finding outside the policies.
LEMMA RowsAreKnown ==
  ASSUME NEW doc PROVE PresentSubtypes(doc) \subseteq Subtypes
<1>1. \A t \in {ImageSubtypes, TextSubtypes, RefuseSubtypes} : \A f \in DOMAIN t : t[f] \in Subtypes
  BY DEF ImageSubtypes, TextSubtypes, RefuseSubtypes, Subtypes
<1>2. \A t \in {PdfSubtypes, OfficeSubtypes} : \A f \in DOMAIN t : t[f] \in Subtypes
  BY DEF PdfSubtypes, OfficeSubtypes, Subtypes
<1>3. \A f \in DOMAIN SheetAndSlideSubtypes : SheetAndSlideSubtypes[f] \in Subtypes
  BY DEF SheetAndSlideSubtypes, Subtypes
<1>4. \A f \in DOMAIN SubtypeOf : SubtypeOf[f] \in Subtypes
  BY <1>1, <1>2, <1>3, RowFromTable
<1>. QED  BY <1>4 DEF PresentSubtypes, See

LEMMA ActiveRows ==
  ASSUME NEW f \in DOMAIN SubtypeOf, SubtypeOf[f] \in {"pdf_js_actions", "pdf_attachments", "pdf_annots"}
  PROVE  f \in {"pdf_js", "pdf_annots", "pdf_embeddedfiles"}
<1>1. \A t \in {ImageSubtypes, TextSubtypes, RefuseSubtypes, OfficeSubtypes} :
        \A g \in DOMAIN t : t[g] \notin {"pdf_js_actions", "pdf_attachments", "pdf_annots"}
  BY DEF ImageSubtypes, TextSubtypes, RefuseSubtypes, OfficeSubtypes
<1>2. \A g \in DOMAIN SheetAndSlideSubtypes :
        SheetAndSlideSubtypes[g] \notin {"pdf_js_actions", "pdf_attachments", "pdf_annots"}
  BY DEF SheetAndSlideSubtypes
<1>3. \A g \in DOMAIN PdfSubtypes : PdfSubtypes[g] \in {"pdf_js_actions", "pdf_attachments", "pdf_annots"}
        => g \in {"pdf_js", "pdf_annots", "pdf_embeddedfiles"}
  BY DEF PdfSubtypes
<1>. QED  BY <1>1, <1>2, <1>3, RowFromTable

\* A row that the plan refuses is not there in anything that was cleaned.
LEMMA RefusedIsAbsent ==
  ASSUME NEW doc, NEW req, NEW tools, req.policy \in PolicyIds, Impl(doc, req, tools).ok,
         ~PlanRefused(req, PresentSubtypes(doc)),
         NEW st \in PresentSubtypes(doc), PlanActions(req)[st].action = "refuse",
         st \in RefusableRows
  PROVE  FALSE
<1>1. req.policy # "evidence_preservation"
  BY ByKind
<1>2. st # "macros_vba"
  <2>1. DefaultPolicy(req.policy, "macros_vba") = "refuse"
    <3>1. CASE req.policy = "external_sharing"
      BY <3>1 DEF DefaultPolicy, ExternalSharing
    <3>2. CASE req.policy = "privacy_only"
      BY <3>2 DEF DefaultPolicy, PrivacyOnly
    <3>3. CASE req.policy = "production"
      BY <3>3 DEF DefaultPolicy, Production
    <3>. QED  BY <1>1, <3>1, <3>2, <3>3 DEF PolicyIds
  <2>. QED  BY <2>1 DEF PlanRefused
<1>3. PICK f \in Findings(doc) \cap DOMAIN SubtypeOf : st = SubtypeOf[f]
  BY DEF PresentSubtypes, See
<1>4. f \in {"pdf_js", "pdf_annots", "pdf_embeddedfiles"}
  BY <1>2, <1>3, ActiveRows DEF RefusableRows
<1>5. ReadAs(doc) = doc.fmt /\ f \in See(Reader(doc.fmt), doc.marks)
  BY <1>3, <1>4 DEF Findings
<1>6. doc.fmt = "pdf"
  BY <1>4, <1>5, ActiveIsPdf DEF See
<1>7. Kind(doc) = "container"
  BY <1>5, <1>6 DEF ReadAs, Rasters, Sounds
<1>8. Sniffed(doc) = "pdf" /\ "pdf" \notin Ooxml
  BY <1>6 DEF Sniffed, Ooxml
<1>9. Impl(doc, req, tools) = ApplyPdf(doc.marks, req, PlanActions(req), PresentSubtypes(doc), tools)
  BY <1>7, <1>8, ByKind
<1>10. ApplyPdf(doc.marks, req, PlanActions(req), PresentSubtypes(doc), tools) = Refuses(doc.marks)
  BY <1>2 DEF ApplyPdf, Unstrippable, RefusableRows
<1>. QED  BY <1>9, <1>10, NotOk

LEMMA WhatSurvivesIsRecorded ==
  ASSUME IInv, AppliedInv, Published
  PROVE  SurvivorsDisclosed
<1>. DEFINE doc == in.doc
            req == in.req
            present == PresentSubtypes(in.doc)
<1>. SUFFICES ASSUME NEW st \in PresentSubtypes(Derivative)
              PROVE  \/ <<st, Plan[st].action>> \in records
                     \/ DefaultPolicy(in.req.policy, st) = "keep"
                     \/ Plan[st].action \in SilentActions
  BY DEF SurvivorsDisclosed
<1>1. in.tools.exiftool \in {"absent", "fails", "ok"} /\ in.req.policy # "evidence_preservation"
  BY PublishedOutcome, PublishedIsCleaned, ByKind DEF AsAsked
<1>2. st \in present \/ st = "pdf_incremental"
  BY <1>1, PublishedOutcome, CleanShrinks, NoNewRows DEF Derivative
<1>3. st \in Subtypes
  BY RowsAreKnown
<1>4. Plan[st].action \in Mutating => st = "cms_or_xml_dsig"
  BY <1>3, PublishedOutcome DEF ReinspectTargetedGone, Targeted, Plan, PlanActions
<1>5. CASE st = "pdf_incremental"
  <2>1. CASE in.req.policy \in StrictTooling
    BY <1>5, <2>1, StrictRows DEF Plan, SilentActions
  <2>2. CASE in.req.policy = "privacy_only"
    BY <1>5, <2>2 DEF DefaultPolicy, PrivacyOnly
  <2>. QED  BY <1>1, <2>1, <2>2, PublishedOutcome, PolicyCases
<1>6. CASE st = "cms_or_xml_dsig"
  <2>1. CASE in.req.policy \in StrictTooling
    <3>1. DefaultPolicy(in.req.policy, st) = "refuse_unless_attest"
      <4>1. CASE in.req.policy = "external_sharing"
        BY <1>6, <4>1 DEF DefaultPolicy, ExternalSharing
      <4>2. CASE in.req.policy = "production"
        BY <1>6, <4>2 DEF DefaultPolicy, Production
      <4>. QED  BY <2>1, <4>1, <4>2 DEF StrictTooling
    <3>. QED  BY <1>3, <3>1 DEF Plan, PlanActions, PlanRow, SilentActions
  <2>2. CASE in.req.policy = "privacy_only"
    BY <1>6, <2>2 DEF DefaultPolicy, PrivacyOnly
  <2>. QED  BY <1>1, <2>1, <2>2, PublishedOutcome, PolicyCases
<1>7. CASE st \in present /\ st # "cms_or_xml_dsig"
  <2>1. \/ Plan[st].action \in SilentActions \cup {"flag"}
        \/ DefaultPolicy(in.req.policy, st) = "keep"
        \/ Plan[st].action = "keep" /\ Plan[st].reason \in {"no_decision", "operator_kept", "operator_approved"}
        \/ Plan[st].action = "refuse" /\ st \in RefusableRows
    BY <1>1, <1>3, <1>4, <1>7, PublishedOutcome, RowCases DEF Plan
  <2>2. ~(Plan[st].action = "refuse" /\ st \in RefusableRows)
    BY <1>7, PublishedOutcome, RefusedIsAbsent DEF Plan
  <2>3. CASE Plan[st].action = "flag" \/ (Plan[st].action = "keep"
              /\ Plan[st].reason \in {"no_decision", "operator_kept", "operator_approved"})
    <3>1. <<st, Plan[st].action>> \in SurvivingFindingRecords(PlanActions(in.req), present)
      BY <1>7, <2>3 DEF SurvivingFindingRecords, Plan
    <3>. QED  BY <3>1, PublishedOutcome
  <2>. QED  BY <2>1, <2>2, <2>3
<1>. QED  BY <1>2, <1>5, <1>6, <1>7

\* Whatever can still be found in a published derivative is in its manifest
\* with the action it stayed under, unless the policy itself keeps it
\* (policies.py, _surviving_finding_records).
THEOREM SurvivorsAreRecorded == Spec => []SurvivorsDisclosed
<1>1. IInv /\ AppliedInv => SurvivorsDisclosed
  BY WhatSurvivesIsRecorded DEF SurvivorsDisclosed
<1>. QED  BY <1>1, Inductive, AppliedAlways, PTL

-----------------------------------------------------------------------------
(* Twice the same clean.                                                   *)

LEMMA ImageTwice ==
  ASSUME NEW fmt, NEW m, NEW plan, NEW tools, NEW n,
         ApplyImage(fmt, m, plan, tools).ok, n = ApplyImage(fmt, m, plan, tools).marks,
         ApplyImage(fmt, n, plan, tools).ok
  PROVE  ApplyImage(fmt, n, plan, tools).marks = n
<1>1. CASE plan["authoring_props"].action = "strip_listed" /\ fmt = "jpeg"
  <2>1. \A x : ApplyImage(fmt, x, plan, tools) = ExiftoolPrivacyJpeg(x, tools)
    BY <1>1 DEF ApplyImage
  <2>2. \A x : ExiftoolPrivacyJpeg(x, tools).ok => ExiftoolPrivacyJpeg(x, tools).marks = x \ {"app_gps"}
    BY NotOk, AppliedDid DEF ExiftoolPrivacyJpeg
  <2>. QED  BY <2>1, <2>2
<1>2. CASE plan["authoring_props"].action = "strip_listed" /\ fmt # "jpeg"
  <2>1. \A x : ApplyImage(fmt, x, plan, tools).marks = x
    BY <1>2, AppliedDid DEF ApplyImage
  <2>. QED  BY <2>1
<1>3. CASE plan["authoring_props"].action # "strip_listed"
  <2>. DEFINE gone == ImageStripper(fmt) \cup
                        (IF fmt \notin {"png", "jpeg"} /\ tools.exiftool = "ok" THEN ExiftoolAll ELSE {})
  <2>1. \A x : ApplyImage(fmt, x, plan, tools).ok => ApplyImage(fmt, x, plan, tools).marks = x \ gone
    BY <1>3, NotOk, AppliedDid DEF ApplyImage, CleanImage
  <2>. HIDE DEF gone
  <2>. QED  BY <2>1
<1>. QED  BY <1>1, <1>2, <1>3

LEMMA AvTwice ==
  ASSUME NEW fmt, NEW m, NEW n, ApplyAv(fmt, m).ok, n = ApplyAv(fmt, m).marks, ApplyAv(fmt, n).ok
  PROVE  ApplyAv(fmt, n).marks = n
<1>1. PICK gone : \A x : CleanAv(fmt, x) = x \ gone
  BY DEF CleanAv
<1>2. \A x : ApplyAv(fmt, x).ok => ApplyAv(fmt, x).marks = x \ gone
  BY <1>1, NotOk, AppliedDid DEF ApplyAv
<1>. QED  BY <1>2

\* What the part cleaner of a format drops, given the options.
OoxmlLegal(fmt, m, k) ==
  IF fmt = "docx" THEN DocxLegalClean(m, k)
  ELSE IF fmt = "xlsx" THEN XlsxLegalClean(m, k) ELSE PptxLegalClean(m, k)

LEMMA OoxmlMarks ==
  ASSUME NEW fmt, NEW m, NEW plan
  PROVE  ApplyOoxml(fmt, m, plan).marks =
           m \ (OoxmlLegal(fmt, m, OoxmlKwargs(plan)) \cup ScrubOoxmlZip(OoxmlKwargs(plan)))
<1>. DEFINE k == OoxmlKwargs(plan)
            legal == CASE fmt = "docx" -> DocxLegalClean(m, k)
                       [] fmt = "xlsx" -> XlsxLegalClean(m, k)
                       [] OTHER -> PptxLegalClean(m, k)
<1>1. legal = OoxmlLegal(fmt, m, k)
  BY DEF OoxmlLegal
<1>2. ApplyOoxml(fmt, m, plan).marks = m \ (m \cap (legal \cup ScrubOoxmlZip(k)))
  BY AppliedDid DEF ApplyOoxml
<1>. HIDE DEF legal, k
<1>. QED  BY <1>1, <1>2 DEF k

LEMMA OoxmlTwice ==
  ASSUME NEW fmt, NEW m, NEW plan, NEW n, n = ApplyOoxml(fmt, m, plan).marks
  PROVE  ApplyOoxml(fmt, n, plan).marks = n
<1>. DEFINE k == OoxmlKwargs(plan)
<1>. HIDE DEF k
<1>1. "malformed_xml" \notin OoxmlLegal(fmt, m, k) \cup ScrubOoxmlZip(k)
  BY DEF OoxmlLegal, DocxLegalClean, DocxAcceptAll, XlsxLegalClean, PptxLegalClean, ScrubOoxmlZip
<1>2. n = m \ (OoxmlLegal(fmt, m, k) \cup ScrubOoxmlZip(k))
  BY OoxmlMarks DEF k
<1>3. OoxmlLegal(fmt, n, k) = OoxmlLegal(fmt, m, k)
  BY <1>1, <1>2 DEF OoxmlLegal, DocxLegalClean, XlsxLegalClean, PptxLegalClean
<1>4. ApplyOoxml(fmt, n, plan).marks = n \ (OoxmlLegal(fmt, n, k) \cup ScrubOoxmlZip(k))
  BY OoxmlMarks DEF k
<1>. QED  BY <1>2, <1>3, <1>4

LEMMA OtherMarks ==
  ASSUME NEW fmt \in {"odt", "epub"}, NEW m, NEW plan, ApplyOther(fmt, m, plan).ok
  PROVE  ApplyOther(fmt, m, plan).marks =
           IF \A st \in Subtypes : plan[st].action \notin {"strip", "accept_all", "sanitize"} THEN m
           ELSE IF fmt = "odt" THEN m \ CleanOdt ELSE m \ CleanEpub
<1>. DEFINE idle == \A st \in Subtypes : plan[st].action \notin {"strip", "accept_all", "sanitize"}
            cleaner == CASE fmt = "odt" -> CleanOdt
                         [] fmt = "epub" -> CleanEpub
                         [] OTHER -> CleanSvg(m)
<1>1. cleaner = IF fmt = "odt" THEN CleanOdt ELSE CleanEpub
  <2>1. CASE fmt = "odt"
    BY <2>1
  <2>2. CASE fmt = "epub"
    BY <2>2
  <2>. QED  BY <2>1, <2>2
<1>2. ApplyOther(fmt, m, plan).marks = IF idle THEN m ELSE m \ cleaner
  BY NotOk, AppliedDid DEF ApplyOther
<1>. HIDE DEF idle, cleaner
<1>. QED  BY <1>1, <1>2 DEF idle

LEMMA OtherTwice ==
  ASSUME NEW fmt \in {"odt", "epub"}, NEW m, NEW plan, NEW n,
         ApplyOther(fmt, m, plan).ok, n = ApplyOther(fmt, m, plan).marks, ApplyOther(fmt, n, plan).ok
  PROVE  ApplyOther(fmt, n, plan).marks = n
<1>1. PICK gone : \A x : ApplyOther(fmt, x, plan).ok => ApplyOther(fmt, x, plan).marks = x \ gone
  <2>. DEFINE idle == \A st \in Subtypes : plan[st].action \notin {"strip", "accept_all", "sanitize"}
              gone == IF idle THEN {} ELSE IF fmt = "odt" THEN CleanOdt ELSE CleanEpub
  <2>1. ASSUME NEW x, ApplyOther(fmt, x, plan).ok
        PROVE  ApplyOther(fmt, x, plan).marks = x \ gone
    <3>1. ApplyOther(fmt, x, plan).marks =
            IF idle THEN x ELSE IF fmt = "odt" THEN x \ CleanOdt ELSE x \ CleanEpub
      BY <2>1, OtherMarks
    <3>. HIDE DEF idle
    <3>. QED  BY <3>1
  <2>. HIDE DEF gone
  <2>. QED  BY <2>1
<1>. QED  BY <1>1

\* But for a table of offsets that was left broken.
Alike(m, n) == m \cup {"stale_xref"} = n \cup {"stale_xref"}

LEMMA PdfTwice ==
  ASSUME NEW m, NEW req, NEW before, NEW after, NEW tools,
         tools.exiftool \in {"absent", "fails", "ok"},
         req.policy \in PolicyIds, req.policy # "evidence_preservation",
         ApplyPdf(m, req, PlanActions(req), before, tools).ok,
         NEW n, n = ApplyPdf(m, req, PlanActions(req), before, tools).marks,
         ApplyPdf(n, req, PlanActions(req), after, tools).ok
  PROVE  Alike(ApplyPdf(n, req, PlanActions(req), after, tools).marks, n)
<1>1. CASE req.policy \in StrictTooling
  <2>1. /\ tools.exiftool \in {"fails", "ok"} /\ Rewrites(tools.qpdf, 1)
        /\ n = CleanPdf(m, tools).marks
        /\ ApplyPdf(n, req, PlanActions(req), after, tools).marks = CleanPdf(n, tools).marks
    BY <1>1, PdfByPolicy DEF StrictTooling
  <2>. QED  BY <2>1, RebuiltTwice DEF Alike
<1>2. CASE req.policy = "privacy_only"
  <2>. DEFINE edited == ExiftoolEdit(m, {"author"})
  <2>1. /\ n = StripPdfImageGps(edited, tools.qpdf)
        /\ ApplyPdf(n, req, PlanActions(req), after, tools).marks =
             StripPdfImageGps(ExiftoolEdit(n, {"author"}), tools.qpdf)
    BY <1>2, PdfByPolicy DEF StrictTooling
  <2>2. "author" \notin edited
    BY DEF ExiftoolEdit
  <2>. HIDE DEF edited
  <2>3. "author" \notin n /\ "image_gps" \notin n
    BY <2>1, <2>2 DEF StripPdfImageGps, StructuralRewrite
  <2>4. ExiftoolEdit(n, {"author"}) = n
    BY <2>3 DEF ExiftoolEdit
  <2>. QED  BY <2>1, <2>3, <2>4 DEF StripPdfImageGps, Alike
<1>. QED  BY <1>1, <1>2, PolicyCases

LEMMA ImplTwice ==
  ASSUME NEW doc, NEW again, NEW req, NEW tools, tools.exiftool \in {"absent", "fails", "ok"},
         req.policy \in PolicyIds, Impl(doc, req, tools).ok, Impl(again, req, tools).ok,
         again.fmt = doc.fmt, again.marks = Impl(doc, req, tools).marks,
         Kind(again) = Kind(doc), Sniffed(again) = Sniffed(doc), FormatValid(again, tools)
  PROVE  Alike(Impl(again, req, tools).marks, again.marks)
<1>. DEFINE plan == PlanActions(req)
            r == Impl(doc, req, tools)
            s == Impl(again, req, tools)
<1>1. CASE Kind(doc) = "text"
  <2>1. r.marks = doc.marks \ {"layer_a_body"} /\ s.marks = again.marks \ {"layer_a_body"}
    BY <1>1, ImplOf
  <2>. QED  BY <2>1 DEF Alike
<1>2. CASE Kind(doc) = "image"
  <2>1. r = ApplyImage(doc.fmt, doc.marks, plan, tools) /\ s = ApplyImage(doc.fmt, again.marks, plan, tools)
    BY <1>2, ImplOf
  <2>. QED  BY <2>1, ImageTwice DEF Alike
<1>3. CASE Kind(doc) = "av"
  <2>1. r = ApplyAv(doc.fmt, doc.marks) /\ s = ApplyAv(doc.fmt, again.marks)
    BY <1>3, ImplOf
  <2>. QED  BY <2>1, AvTwice DEF Alike
<1>4. CASE Kind(doc) = "container" /\ Sniffed(doc) = "pdf"
  <2>1. /\ r = ApplyPdf(doc.marks, req, plan, PresentSubtypes(doc), tools)
        /\ s = ApplyPdf(again.marks, req, plan, PresentSubtypes(again), tools)
    BY <1>4, ImplOf
  <2>2. req.policy # "evidence_preservation"
    BY ByKind
  <2>. DEFINE p == ApplyPdf(doc.marks, req, plan, PresentSubtypes(doc), tools)
              q == ApplyPdf(again.marks, req, plan, PresentSubtypes(again), tools)
  <2>3. p.ok /\ again.marks = p.marks /\ q.ok
    BY <2>1
  <2>4. Alike(q.marks, again.marks)
    BY <2>2, <2>3, PdfTwice
  <2>. QED  BY <2>1, <2>4
<1>5. CASE Kind(doc) = "container" /\ Sniffed(doc) \in Ooxml
  <2>1. r = ApplyOoxml(Sniffed(doc), doc.marks, plan) /\ s = ApplyOoxml(Sniffed(doc), again.marks, plan)
    BY <1>5, ImplOf
  <2>. QED  BY <2>1, OoxmlTwice DEF Alike
<1>6. CASE Kind(doc) = "container" /\ Sniffed(doc) \notin Ooxml \cup {"pdf"}
  <2>1. r = ApplyOther(Sniffed(doc), doc.marks, plan) /\ s = ApplyOther(Sniffed(doc), again.marks, plan)
    BY <1>6, ImplOf
  <2>2. Sniffed(doc) \in {"odt", "epub"}
    BY <1>6 DEF FormatValid, Sniffed, Ooxml
  <2>. DEFINE p == ApplyOther(Sniffed(doc), doc.marks, plan)
              q == ApplyOther(Sniffed(doc), again.marks, plan)
  <2>3. p.ok /\ again.marks = p.marks /\ q.ok
    BY <2>1
  <2>4. q.marks = again.marks
    BY <2>2, <2>3, OtherTwice
  <2>. QED  BY <2>1, <2>4 DEF Alike
<1>7. Kind(doc) \in {"text", "image", "av", "container"}
  BY ImplOf
<1>. QED  BY <1>1, <1>2, <1>3, <1>4, <1>5, <1>6, <1>7

LEMMA CleanedTwice ==
  ASSUME IInv, AppliedInv, Published
  PROVE  CleanIsStable
<1>. SUFFICES ASSUME ApplyActions(Derivative, in.req, in.tools).ok
              PROVE  ApplyActions(Derivative, in.req, in.tools).marks \cup {"stale_xref"}
                       = marks \cup {"stale_xref"}
  BY DEF CleanIsStable
<1>1. /\ Impl(Derivative, in.req, in.tools).ok
      /\ ApplyActions(Derivative, in.req, in.tools).marks = Impl(Derivative, in.req, in.tools).marks
  BY ActionsOfImpl
<1>2. /\ Derivative.fmt = in.doc.fmt /\ Derivative.marks = marks
      /\ Kind(Derivative) = Kind(in.doc) /\ Sniffed(Derivative) = Sniffed(in.doc)
  BY PublishedOutcome, SameReader DEF Derivative
<1>3. in.tools.exiftool \in {"absent", "fails", "ok"}
  BY PublishedIsCleaned DEF AsAsked
<1>. QED  BY <1>1, <1>2, <1>3, PublishedOutcome, ImplTwice DEF Alike

\* A second run over a published derivative changes nothing but a table of
\* offsets the first could not repair: no cleaner leaves for a second pass
\* what the first could take (policies.py, container_meta.py).
THEOREM ASecondCleanChangesNothing == Spec => []CleanIsStable
<1>1. IInv /\ AppliedInv => CleanIsStable
  BY CleanedTwice DEF CleanIsStable
<1>. QED  BY <1>1, Inductive, AppliedAlways, PTL

-----------------------------------------------------------------------------
(* What the plan keeps.                                                    *)

\* The row of a mark is kept or flagged.
RowKept(req, fmt, m) ==
  \E st \in See(SubtypeOf, {Reader(fmt)[m]}) : PlanActions(req)[st].action \in {"keep", "flag"}

LEMMA RowValues ==
  /\ SubtypeOf["c2pa"] = "c2pa" /\ SubtypeOf["ai"] = "c2pa" /\ SubtypeOf["gps"] = "jpeg_gps"
  /\ SubtypeOf["layer_a"] = "layer_a_body" /\ SubtypeOf["authoring_props"] = "authoring_props"
  /\ SubtypeOf["pdf_incremental_updates"] = "pdf_incremental"
  /\ SubtypeOf["docx_comments"] = "comments_and_notes"
  /\ SubtypeOf["docx_tracked_changes"] = "tracked_changes"
  /\ SubtypeOf["docx_embeddings"] = "embeddings_ole"
  /\ SubtypeOf["xlsx_comments"] = "comments_and_notes"
  /\ SubtypeOf["xlsx_threaded_comments"] = "comments_and_notes"
  /\ SubtypeOf["xlsx_external_links"] = "external_links"
  /\ SubtypeOf["pptx_notes"] = "comments_and_notes"
  /\ SubtypeOf["pptx_comments"] = "comments_and_notes"
  /\ {"xmp_packet", "embedded_image_metadata"} \cap DOMAIN SubtypeOf = {}
<1>1. SubtypeOf["c2pa"] = "c2pa" /\ SubtypeOf["ai"] = "c2pa" /\ SubtypeOf["gps"] = "jpeg_gps"
  BY DEF SubtypeOf, ImageSubtypes, TextSubtypes, RefuseSubtypes, PdfSubtypes, OfficeSubtypes,
     SheetAndSlideSubtypes, ++
<1>2. SubtypeOf["layer_a"] = "layer_a_body" /\ SubtypeOf["authoring_props"] = "authoring_props"
  BY DEF SubtypeOf, ImageSubtypes, TextSubtypes, RefuseSubtypes, PdfSubtypes, OfficeSubtypes,
     SheetAndSlideSubtypes, ++
<1>3. /\ SubtypeOf["pdf_incremental_updates"] = "pdf_incremental"
      /\ SubtypeOf["docx_comments"] = "comments_and_notes"
  BY DEF SubtypeOf, ImageSubtypes, TextSubtypes, RefuseSubtypes, PdfSubtypes, OfficeSubtypes,
     SheetAndSlideSubtypes, ++
<1>4. /\ SubtypeOf["docx_tracked_changes"] = "tracked_changes"
      /\ SubtypeOf["docx_embeddings"] = "embeddings_ole"
  BY DEF SubtypeOf, ImageSubtypes, TextSubtypes, RefuseSubtypes, PdfSubtypes, OfficeSubtypes,
     SheetAndSlideSubtypes, ++
<1>5. /\ SubtypeOf["xlsx_comments"] = "comments_and_notes"
      /\ SubtypeOf["xlsx_threaded_comments"] = "comments_and_notes"
  BY DEF SubtypeOf, ImageSubtypes, TextSubtypes, RefuseSubtypes, PdfSubtypes, OfficeSubtypes,
     SheetAndSlideSubtypes, ++
<1>6. SubtypeOf["xlsx_external_links"] = "external_links"
  BY DEF SubtypeOf, ImageSubtypes, TextSubtypes, RefuseSubtypes, PdfSubtypes, OfficeSubtypes,
     SheetAndSlideSubtypes, ++
<1>7. SubtypeOf["pptx_notes"] = "comments_and_notes" /\ SubtypeOf["pptx_comments"] = "comments_and_notes"
  BY DEF SubtypeOf, ImageSubtypes, TextSubtypes, RefuseSubtypes, PdfSubtypes, OfficeSubtypes,
     SheetAndSlideSubtypes, ++
<1>8. {"xmp_packet", "embedded_image_metadata"} \cap DOMAIN SubtypeOf = {}
  <2>1. ASSUME NEW f \in {"xmp_packet", "embedded_image_metadata"} \cap DOMAIN SubtypeOf PROVE FALSE
    <3>1. PICK t \in {ImageSubtypes, TextSubtypes, RefuseSubtypes, PdfSubtypes, OfficeSubtypes,
                      SheetAndSlideSubtypes} : f \in DOMAIN t
      BY RowFromTable
    <3>2. f \notin DOMAIN ImageSubtypes /\ f \notin DOMAIN TextSubtypes /\ f \notin DOMAIN RefuseSubtypes
      BY DEF ImageSubtypes, TextSubtypes, RefuseSubtypes
    <3>3. f \notin DOMAIN PdfSubtypes /\ f \notin DOMAIN OfficeSubtypes
      BY DEF PdfSubtypes, OfficeSubtypes
    <3>4. f \notin DOMAIN SheetAndSlideSubtypes
      BY DEF SheetAndSlideSubtypes
    <3>. QED  BY <3>1, <3>2, <3>3, <3>4
  <2>. QED  BY <2>1
<1>. QED  BY <1>1, <1>2, <1>3, <1>4, <1>5, <1>6, <1>7, <1>8

\* No policy that cleans keeps these, and only privacy_only keeps the rows of
\* provenance and revisions.
LEMMA KeptRows ==
  ASSUME NEW req, req.policy \in PolicyIds, req.policy # "evidence_preservation",
         NEW fmt, NEW m, RowKept(req, fmt, m)
  PROVE  LET k == OoxmlKwargs(PlanActions(req))
             f == Reader(fmt)[m]
         IN  /\ f \notin {"authoring_props", "gps", "layer_a", "xmp_packet", "embedded_image_metadata"}
             /\ f \in {"c2pa", "ai", "pdf_incremental_updates"} => req.policy = "privacy_only"
             /\ f \in {"docx_comments", "xlsx_comments", "xlsx_threaded_comments", "pptx_notes",
                       "pptx_comments"} => ~k.comments
             /\ f = "docx_tracked_changes" => ~k.accept
             /\ f = "docx_embeddings" => ~k.embeddings
             /\ f = "xlsx_external_links" => ~k.external
<1>. DEFINE f == Reader(fmt)[m]
            plan == PlanActions(req)
            k == OoxmlKwargs(plan)
<1>1. f \in DOMAIN SubtypeOf /\ plan[SubtypeOf[f]].action \in {"keep", "flag"}
  BY DEF RowKept, See
<1>2. /\ plan["authoring_props"].action \notin {"keep", "flag"}
      /\ plan["jpeg_gps"].action \notin {"keep", "flag"}
      /\ plan["layer_a_body"].action \notin {"keep", "flag"}
  BY StrictRows, PrivateRows, PolicyCases
<1>3. plan["c2pa"].action \in {"keep", "flag"} \/ plan["pdf_incremental"].action \in {"keep", "flag"}
        => req.policy = "privacy_only"
  BY StrictRows, PolicyCases
<1>. HIDE DEF plan
<1>4. /\ k.comments => plan["comments_and_notes"].action = "strip"
      /\ k.accept => plan["tracked_changes"].action = "accept_all"
      /\ k.embeddings => plan["embeddings_ole"].action = "strip"
      /\ k.external => plan["external_links"].action = "strip"
  BY DEF OoxmlKwargs
<1>. HIDE DEF k, f
<1>5. f \notin {"authoring_props", "gps", "layer_a", "xmp_packet", "embedded_image_metadata"}
  BY <1>1, <1>2, RowValues
<1>6. f \in {"c2pa", "ai", "pdf_incremental_updates"} => req.policy = "privacy_only"
  BY <1>1, <1>3, RowValues
<1>7. f \in {"docx_comments", "xlsx_comments", "xlsx_threaded_comments", "pptx_notes", "pptx_comments"}
        => ~k.comments
  BY <1>1, <1>4, RowValues
<1>8. /\ f = "docx_tracked_changes" => ~k.accept
      /\ f = "docx_embeddings" => ~k.embeddings
      /\ f = "xlsx_external_links" => ~k.external
  BY <1>1, <1>4, RowValues
<1>. QED  BY <1>5, <1>6, <1>7, <1>8 DEF f, k, plan

LEMMA PdfKeeps ==
  ASSUME NEW m, NEW req, NEW present, NEW tools, tools.exiftool \in {"absent", "fails", "ok"},
         req.policy \in PolicyIds, req.policy # "evidence_preservation",
         ApplyPdf(m, req, PlanActions(req), present, tools).ok,
         NEW n, n = ApplyPdf(m, req, PlanActions(req), present, tools).marks,
         NEW x \in m \cap DOMAIN InspectPdf, RowKept(req, "pdf", x),
         "image_gps" \in m => x \notin {"revisions", "old_info", "old_xmp", "old_xmp_ai"}
  PROVE  x \in n
<1>. DEFINE edited == ExiftoolEdit(m, {"author"})
<1>1. InspectPdf[x] \notin {"authoring_props", "gps", "layer_a", "xmp_packet", "embedded_image_metadata"}
      /\ (InspectPdf[x] \in {"c2pa", "ai", "pdf_incremental_updates"} => req.policy = "privacy_only")
  BY KeptRows, ReaderOf
<1>2. x \notin {"author", "info", "xmp", "old_info", "old_xmp", "image_meta", "image_gps",
                "image_meta_indirect", "producer", "old_producer", "stale_xref"}
  BY <1>1 DEF InspectPdf
<1>3. CASE req.policy \in StrictTooling
  <2>1. /\ tools.exiftool \in {"fails", "ok"} /\ Rewrites(tools.qpdf, 1)
        /\ n = CleanPdf(m, tools).marks
    BY <1>3, PdfByPolicy DEF StrictTooling
  <2>2. x \notin {"xmp_ai", "old_xmp_ai", "revisions", "image_c2pa"}
    BY <1>1, <1>3 DEF InspectPdf, StrictTooling
  <2>3. x \in EditedPdf(m, tools.exiftool)
    BY <1>2, <2>2 DEF EditedPdf, ExiftoolEdit
  <2>4. \A y : x \in y => x \in StructuralRewrite(y) /\ x \in y \ PdfImageMetadata
    BY <1>2, <2>2 DEF StructuralRewrite, PdfImageMetadata
  <2>5. x \in ClearedPdf(EditedPdf(m, tools.exiftool), tools.qpdf)
    BY <1>2, <2>3, <2>4 DEF ClearedPdf
  <2>6. x \in StrippedPdf(ClearedPdf(EditedPdf(m, tools.exiftool), tools.qpdf), tools.qpdf)
    BY <2>4, <2>5 DEF StrippedPdf
  <2>. QED  BY <2>1, <2>6, RebuiltInSteps
<1>4. CASE req.policy = "privacy_only"
  <2>1. n = StripPdfImageGps(edited, tools.qpdf)
    BY <1>4, PdfByPolicy DEF StrictTooling
  <2>2. x \in edited /\ ("image_gps" \in edited => "image_gps" \in m)
    BY <1>2 DEF ExiftoolEdit
  <2>. HIDE DEF edited
  <2>3. "image_gps" \in edited => x \notin {"revisions", "old_info", "old_xmp", "old_xmp_ai"}
    BY <2>2
  <2>. QED  BY <1>2, <2>1, <2>2, <2>3 DEF StripPdfImageGps, StructuralRewrite
<1>. QED  BY <1>3, <1>4, PolicyCases

LEMMA OoxmlKeeps ==
  ASSUME NEW fmt \in Ooxml, NEW m, NEW req, req.policy \in PolicyIds,
         req.policy # "evidence_preservation",
         NEW x \in (m \cap DOMAIN Reader(fmt)) \ LostAnyway, RowKept(req, fmt, x)
  PROVE  x \in ApplyOoxml(fmt, m, PlanActions(req)).marks
<1>. DEFINE k == OoxmlKwargs(PlanActions(req))
            f == Reader(fmt)[x]
<1>1. /\ f \notin {"authoring_props", "gps", "layer_a"}
      /\ f \in {"c2pa", "ai"} => req.policy = "privacy_only"
      /\ f \in {"docx_comments", "xlsx_comments", "xlsx_threaded_comments", "pptx_notes",
                "pptx_comments"} => ~k.comments
      /\ f = "docx_tracked_changes" => ~k.accept
      /\ f = "docx_embeddings" => ~k.embeddings
      /\ f = "xlsx_external_links" => ~k.external
  BY KeptRows
<1>2. req.policy = "privacy_only" => ~k.custom
  <2>1. req.policy = "privacy_only" => PlanActions(req)["custom_xml"].action = "keep"
    BY PrivateRows DEF Subtypes
  <2>. QED  BY <2>1 DEF OoxmlKwargs
<1>3. x \notin {"media_c2pa", "media_ai", "comment_anchor", "external_refs"}
  BY DEF LostAnyway
<1>4. ASSUME fmt = "docx" PROVE x \notin OoxmlLegal(fmt, m, k) \cup ScrubOoxmlZip(k)
  <2>1. x \in DOMAIN (InspectDocx ++ OfficeRisks) /\ f = (InspectDocx ++ OfficeRisks)[x]
    BY <1>4, ReaderOf
  <2>. HIDE DEF f, k
  <2>2. /\ x \in {"identity", "pii_property", "keywords"} => f = "authoring_props"
        /\ x = "custom_ai" => f = "ai"
        /\ x = "layer_a_body" => f = "layer_a"
        /\ x = "comments" => f = "docx_comments"
        /\ x = "embedding" => f = "docx_embeddings"
        /\ x \in {"insertion", "deletion", "row_deletion", "format_change"} => f = "docx_tracked_changes"
        /\ x \notin {"custom_xml", "people"}
    BY <2>1 DEF InspectDocx, InspectOoxmlZip, InspectOoxmlLayerA, OfficeRisks, ++
  <2>3. x \notin ScrubOoxmlZip(k)
    BY <1>1, <1>2, <1>3, <2>2 DEF ScrubOoxmlZip
  <2>4. x \notin DocxLegalClean(m, k)
    BY <1>1, <1>3, <2>2 DEF DocxLegalClean, DocxAcceptAll
  <2>. QED  BY <1>4, <2>3, <2>4 DEF OoxmlLegal
<1>5. ASSUME fmt = "xlsx" PROVE x \notin OoxmlLegal(fmt, m, k) \cup ScrubOoxmlZip(k)
  <2>1. x \in DOMAIN (InspectXlsx ++ OfficeRisks) /\ f = (InspectXlsx ++ OfficeRisks)[x]
    BY <1>5, ReaderOf
  <2>. HIDE DEF f, k
  <2>2. /\ x \in {"identity", "pii_property", "keywords"} => f = "authoring_props"
        /\ x = "custom_ai" => f = "ai"
        /\ x = "layer_a_body" => f = "layer_a"
        /\ x = "comments" => f = "xlsx_comments"
        /\ x = "threaded_comments" => f = "xlsx_threaded_comments"
        /\ x = "external_links" => f = "xlsx_external_links"
        /\ x \notin {"custom_xml", "people"}
    BY <2>1 DEF InspectXlsx, InspectOoxmlZip, InspectOoxmlLayerA, OfficeRisks, ++
  <2>3. x \notin ScrubOoxmlZip(k)
    BY <1>1, <1>2, <1>3, <2>2 DEF ScrubOoxmlZip
  <2>4. x \notin XlsxLegalClean(m, k)
    BY <1>1, <1>3, <2>2 DEF XlsxLegalClean
  <2>. QED  BY <1>5, <2>3, <2>4 DEF OoxmlLegal
<1>6. ASSUME fmt = "pptx" PROVE x \notin OoxmlLegal(fmt, m, k) \cup ScrubOoxmlZip(k)
  <2>1. x \in DOMAIN (InspectPptx ++ OfficeRisks) /\ f = (InspectPptx ++ OfficeRisks)[x]
    BY <1>6, ReaderOf
  <2>. HIDE DEF f, k
  <2>2. /\ x \in {"identity", "pii_property", "keywords"} => f = "authoring_props"
        /\ x = "custom_ai" => f = "ai"
        /\ x = "layer_a_body" => f = "layer_a"
        /\ x = "comments" => f = "pptx_comments"
        /\ x = "notes" => f = "pptx_notes"
        /\ x \notin {"custom_xml"}
    BY <2>1 DEF InspectPptx, InspectOoxmlZip, InspectOoxmlLayerA, OfficeRisks, ++
  <2>3. x \notin ScrubOoxmlZip(k)
    BY <1>1, <1>2, <1>3, <2>2 DEF ScrubOoxmlZip
  <2>4. x \notin PptxLegalClean(m, k)
    BY <1>1, <2>2 DEF PptxLegalClean
  <2>. QED  BY <1>6, <2>3, <2>4 DEF OoxmlLegal
<1>. HIDE DEF k, f
<1>7. x \notin OoxmlLegal(fmt, m, k) \cup ScrubOoxmlZip(k)
  BY <1>4, <1>5, <1>6 DEF Ooxml
<1>. QED  BY <1>7, OoxmlMarks DEF k

LEMMA ImageKeeps ==
  ASSUME NEW fmt, NEW m, NEW req, NEW tools, req.policy \in PolicyIds,
         req.policy # "evidence_preservation",
         ApplyImage(fmt, m, PlanActions(req), tools).ok,
         NEW x \in m \cap DOMAIN Reader(fmt), RowKept(req, fmt, x)
  PROVE  x \in ApplyImage(fmt, m, PlanActions(req), tools).marks
<1>1. /\ Reader(fmt)[x] # "gps"
      /\ Reader(fmt)[x] \in {"c2pa", "ai"} => req.policy = "privacy_only"
  BY KeptRows
<1>2. CASE req.policy = "privacy_only"
  <2>1. PlanActions(req)["authoring_props"].action = "strip_listed"
    BY <1>2, PrivateRows
  <2>2. CASE fmt = "jpeg"
    <3>1. Reader(fmt) = InspectJpeg ++ JpegHasGps
      BY <2>2, ReaderOf DEF InspectImage, Rasters
    <3>2. x # "app_gps"
      BY <1>1, <3>1 DEF InspectJpeg, JpegHasGps, ++
    <3>3. ApplyImage(fmt, m, PlanActions(req), tools).marks = m \ {"app_gps"}
      <4>1. ApplyImage(fmt, m, PlanActions(req), tools) = ExiftoolPrivacyJpeg(m, tools)
        BY <2>1, <2>2 DEF ApplyImage
      <4>. QED  BY <4>1, NotOk, AppliedDid DEF ExiftoolPrivacyJpeg
    <3>. QED  BY <3>2, <3>3
  <2>3. CASE fmt # "jpeg"
    BY <2>1, <2>3, AppliedDid DEF ApplyImage
  <2>. QED  BY <2>2, <2>3
<1>3. CASE req.policy \in StrictTooling
  <2>1. PlanActions(req)["authoring_props"].action = "strip"
    BY <1>3, StrictRows
  <2>2. fmt \in Rasters
    BY <2>1, NotOk DEF ApplyImage
  <2>. QED  BY <1>1, <1>3, <2>2, MediaFindings DEF StrictTooling
<1>. QED  BY <1>2, <1>3, PolicyCases

LEMMA OtherKeeps ==
  ASSUME NEW fmt \in {"odt", "epub"}, NEW m, NEW req, req.policy \in PolicyIds,
         req.policy # "evidence_preservation",
         ApplyOther(fmt, m, PlanActions(req)).ok, NEW n, n = ApplyOther(fmt, m, PlanActions(req)).marks,
         req.policy \in StrictPolicies => DroppedParts(m, n) = {},
         NEW x \in (m \cap DOMAIN Reader(fmt)) \ LostAnyway, RowKept(req, fmt, x)
  PROVE  x \in n
<1>1. /\ Reader(fmt)[x] # "layer_a"
      /\ Reader(fmt)[x] \in {"c2pa", "ai"} => req.policy = "privacy_only"
  BY KeptRows
<1>2. Reader(fmt)[x] \in {"c2pa", "ai"}
  BY <1>1, ReaderOf DEF InspectOdt, InspectEpub
<1>3. x # "layer_a_body"
  BY <1>1, ReaderOf DEF InspectOdt, InspectEpub
<1>4. CASE x = "ai_part"
  <2>1. DroppedParts(m, n) = {}
    BY <1>1, <1>2 DEF StrictPolicies
  <2>2. "ai_part" \in DOMAIN DropTag
    BY DEF DropTag
  <2>. QED  BY <1>4, <2>1, <2>2 DEF DroppedParts, See
<1>5. CASE x # "ai_part"
  <2>1. x \notin CleanOdt /\ x \notin CleanEpub
    BY <1>3, <1>5 DEF CleanOdt, CleanEpub, ScrubEpubOpf, LostAnyway
  <2>. DEFINE idle == \A st \in Subtypes :
                        PlanActions(req)[st].action \notin {"strip", "accept_all", "sanitize"}
  <2>2. n = IF idle THEN m ELSE IF fmt = "odt" THEN m \ CleanOdt ELSE m \ CleanEpub
    BY OtherMarks
  <2>. HIDE DEF idle
  <2>. QED  BY <2>1, <2>2
<1>. QED  BY <1>4, <1>5

LEMMA WhatIsKeptStays ==
  ASSUME IInv, AppliedInv, Published
  PROVE  KeptStays
<1>. DEFINE fmt == in.doc.fmt
            plan == PlanActions(in.req)
            r == Impl(in.doc, in.req, in.tools)
<1>. SUFFICES ASSUME NEW m \in in.doc.marks \cap DOMAIN Reader(fmt), m \notin LostAnyway \cup LostInRebuild,
                     NEW st \in See(SubtypeOf, {Reader(fmt)[m]}) \cap PresentSubtypes(in.doc),
                     Plan[st].action \in {"keep", "flag"}
              PROVE  m \in marks
  BY DEF KeptStays
<1>1. RowKept(in.req, fmt, m)
  BY DEF RowKept, Plan
<1>2. /\ in.req.policy \in PolicyIds /\ in.tools.exiftool \in {"absent", "fails", "ok"}
      /\ r.ok /\ marks = r.marks /\ in.req.policy # "evidence_preservation"
  BY PublishedOutcome, PublishedIsCleaned, ByKind DEF AsAsked
<1>. HIDE DEF r
<1>3. CASE Kind(in.doc) = "text"
  <2>1. marks = in.doc.marks \ {"layer_a_body"}
    BY <1>2, <1>3, ImplOf DEF r
  <2>2. fmt \in {"text", "html", "markdown", "svg"}
    BY <1>3, PublishedOutcome DEF LooksBinary
  <2>3. m = "layer_a_body" => Reader(fmt)[m] = "layer_a"
    BY <2>2, ReaderOf DEF InspectText, InspectHtml, InspectMarkdown, InspectSvg
  <2>. QED  BY <1>1, <1>2, <2>1, <2>3, KeptRows
<1>4. CASE Kind(in.doc) = "image"
  <2>1. r = ApplyImage(fmt, in.doc.marks, plan, in.tools)
    BY <1>2, <1>4, ImplOf DEF r
  <2>. QED  BY <1>1, <1>2, <2>1, ImageKeeps
<1>5. CASE Kind(in.doc) = "av"
  BY <1>5 DEF PresentSubtypes
<1>6. CASE Kind(in.doc) = "container" /\ Sniffed(in.doc) = "pdf"
  <2>1. r = ApplyPdf(in.doc.marks, in.req, plan, PresentSubtypes(in.doc), in.tools)
    BY <1>2, <1>6, ImplOf DEF r
  <2>2. fmt = "pdf" /\ Reader(fmt) = InspectPdf
    BY <1>6, ReaderOf DEF Sniffed
  <2>3. "image_gps" \in in.doc.marks => m \notin {"revisions", "old_info", "old_xmp", "old_xmp_ai"}
    BY DEF LostInRebuild
  <2>4. m \in in.doc.marks \cap DOMAIN InspectPdf /\ RowKept(in.req, "pdf", m)
    BY <1>1, <2>2
  <2>. QED  BY <1>2, <2>1, <2>3, <2>4, PdfKeeps
<1>7. CASE Kind(in.doc) = "container" /\ Sniffed(in.doc) \in Ooxml
  <2>1. r = ApplyOoxml(Sniffed(in.doc), in.doc.marks, plan)
    BY <1>2, <1>7, ImplOf DEF r
  <2>2. Sniffed(in.doc) = fmt
    BY <1>7 DEF Sniffed, Ooxml
  <2>. QED  BY <1>1, <1>2, <1>7, <2>1, <2>2, OoxmlKeeps
<1>8. CASE Kind(in.doc) = "container" /\ Sniffed(in.doc) \notin Ooxml \cup {"pdf"}
  <2>1. r = ApplyOther(Sniffed(in.doc), in.doc.marks, plan)
    BY <1>2, <1>8, ImplOf DEF r
  <2>2. Kind(Derivative) = "container" /\ Derivative.fmt = fmt /\ Derivative.marks = marks
    BY <1>8, PublishedOutcome, SameReader DEF Derivative
  <2>3. Sniffed(in.doc) = fmt /\ fmt \in {"odt", "epub"}
    BY <1>8, <2>2, PublishedOutcome DEF FormatValid, Sniffed, Ooxml
  <2>4. in.req.policy \in StrictPolicies => DroppedParts(in.doc.marks, marks) = {}
    BY <1>8, <2>2, PublishedOutcome DEF PartInventory
  <2>. QED  BY <1>1, <1>2, <2>1, <2>3, <2>4, OtherKeeps
<1>. QED  BY <1>2, <1>3, <1>4, <1>5, <1>6, <1>7, <1>8, ImplOf DEF r

\* What the plan keeps or only flags is still in a published derivative: no
\* cleaner does more than it was told to, apart from what LostAnyway and
\* LostInRebuild list (policies.py, container_meta.py, image_meta.py).
THEOREM CleanersTakeNoMore == Spec => []KeptStays
<1>1. IInv /\ AppliedInv => KeptStays
  BY WhatIsKeptStays DEF KeptStays
<1>. QED  BY <1>1, Inductive, AppliedAlways, PTL

=============================================================================
