------------------------------ MODULE EngineJob ------------------------------
(***************************************************************************)
(* One run of one Job: the runner in the API process                       *)
(* (service/app/runner.py), the worker it launches as a subprocess or a    *)
(* container (service/app/worker.py), and clean_to_bundle inside it        *)
(* (service/scripts/engine_api.py): inspect, plan, apply, rewrite, verify, *)
(* and only then write the bundle.  What the steps do to the document is   *)
(* in Policies and Verify.  Who claims the Job and what a restart makes of *)
(* it are in BatchDispatch and ReleaseRequest.                             *)
(***************************************************************************)
EXTENDS Verify, Integers

CONSTANTS
  Documents,       \* the documents Jobs are about
  Requests(_),     \* what may be asked for a document
  Tools(_),        \* what exiftool and qpdf may answer about it
  Deployments(_)   \* the configurations it is tried under

Files == {"original", "derivative", "manifest", "report"}

\* worker_mode is docker; the Job asks for a rewrite (layerb), the flag for
\* watermark tools is still on (enabled), a rewrite backend is configured.
\* faults bounds the kills, timeouts and failed writes of the run.
Deployment ==
  [kind : {"inspect", "sanitize"}, docker : BOOLEAN, layerb : BOOLEAN, enabled : BOOLEAN,
   backend : BOOLEAN, faults : Nat]

ASSUME DocumentAssumption ==
  Documents \subseteq [name : STRING, fmt : STRING, marks : SUBSET STRING]

ASSUME DeploymentAssumption ==
  \A d \in Documents : Deployments(d) \subseteq Deployment

\* plan_actions knows no other policy.
ASSUME RequestAssumption ==
  \A d \in Documents : \A r \in Requests(d) : r.policy \in PolicyIds

ASSUME ToolAssumption ==
  \A d \in Documents :
    Tools(d) \subseteq [exiftool : {"absent", "fails", "ok"},
                       qpdf : {"absent", "fails", "flaky", "ok"}]

VARIABLES
  in,         \* the Job: [doc, req, tools, conf]
  runner,     \* where run_job and sync_job stand
  row,        \* the Job row: [status, bundle]
  staged,     \* the copy of the document in the job directory
  worker,     \* where the worker stands
  verdict,    \* the status the worker is about to write
  marks,      \* what the cleaned bytes carry
  records,    \* what was done and what was left, for the manifest
  rewritten,  \* Layer B has replaced the text
  bundle,     \* the files of the bundle
  result,     \* result.json
  faults

vars == <<in, runner, row, staged, worker, verdict, marks, records, rewritten, bundle, result, faults>>

Ended == {"done", "refused", "failed"}
NoResult == [status |-> "none", bundle |-> FALSE]

Init ==
  /\ \E d \in Documents : \E r \in Requests(d), t \in Tools(d), c \in Deployments(d) :
       in = [doc |-> d, req |-> r, tools |-> t, conf |-> c]
  /\ runner = "queued" /\ row = [status |-> "queued", bundle |-> FALSE]
  /\ staged = FALSE
  /\ worker = "idle" /\ verdict = "none"
  /\ marks = in.doc.marks /\ records = {} /\ rewritten = FALSE
  /\ bundle = [f \in Files |-> "absent"]
  /\ result = NoResult /\ faults = 0

-----------------------------------------------------------------------------
(* The runner.                                                             *)

runnerVars == <<runner, row, staged>>
workerVars == <<worker, verdict, marks, records, rewritten, bundle, result>>

\* A rewrite is not run when the flag went off after the Job was queued.
Start ==
  /\ runner = "queued"
  /\ IF in.conf.layerb /\ ~in.conf.enabled
       THEN runner' = "sync" /\ UNCHANGED <<row, staged>>
       ELSE /\ runner' = "launch" /\ staged' = TRUE
            /\ row' = [row EXCEPT !.status = "running"]
  /\ UNCHANGED <<in, workerVars, faults>>

Launch ==
  /\ runner = "launch"
  /\ runner' = "wait" /\ worker' = "read"
  /\ UNCHANGED <<in, row, staged, verdict, marks, records, rewritten, bundle, result, faults>>

\* An unpinned image, no docker, no memory: caught, and a failed Job.
LaunchFails ==
  /\ runner = "launch" /\ faults < in.conf.faults
  /\ runner' = "cleanup" /\ faults' = faults + 1
  /\ UNCHANGED <<in, row, staged, workerVars>>

\* Mutant: the runner waits for a result.
WorkerExitsWithResult ==
  /\ runner = "wait" /\ worker = "gone" /\ result # NoResult
  /\ runner' = "cleanup"
  /\ UNCHANGED <<in, row, staged, workerVars, faults>>

WorkerExits ==
  /\ runner = "wait" /\ worker = "gone"
  /\ runner' = "cleanup"
  /\ UNCHANGED <<in, row, staged, workerVars, faults>>

\* The timeout kills the process it started: the worker, or the docker
\* client, and then the container works on.
TimesOut ==
  /\ runner = "wait" /\ worker # "gone" /\ faults < in.conf.faults
  /\ runner' = "cleanup" /\ faults' = faults + 1
  /\ worker' = IF in.conf.docker THEN worker ELSE "gone"
  /\ UNCHANGED <<in, row, staged, verdict, marks, records, rewritten, bundle, result>>

Cleanup ==
  /\ runner = "cleanup"
  /\ runner' = "sync" /\ staged' = FALSE
  /\ UNCHANGED <<in, row, workerVars, faults>>

\* Mutant: the Job takes the bundle's directory whether or not it is done.
SettledWithDirectory ==
  IF result = NoResult
    THEN [status |-> "failed", bundle |-> \E f \in Files : bundle[f] # "absent"]
    ELSE result

\* result.json decides, whatever became of the worker.
Settled == IF result = NoResult THEN [status |-> "failed", bundle |-> FALSE] ELSE result

SyncJob ==
  /\ runner = "sync"
  /\ runner' = "end"
  /\ row' = IF row.status \in Ended THEN row ELSE Settled
  /\ UNCHANGED <<in, staged, workerVars, faults>>

-----------------------------------------------------------------------------
(* The worker.                                                             *)

Step(from, to) == worker = from /\ worker' = to

Finish(from, status) == Step(from, "result") /\ verdict' = status

Keep == UNCHANGED <<in, runnerVars, faults>>

\* The staged copy may be gone when a container reads it after the timeout.
ReadInput ==
  /\ IF staged THEN Step("read", "scan") /\ UNCHANGED verdict ELSE Finish("read", "failed")
  /\ Keep /\ UNCHANGED <<marks, records, rewritten, bundle, result>>

\* The scanner is asked again, and may answer otherwise than at the upload.
Scan ==
  /\ \/ Step("scan", "inspect") /\ UNCHANGED verdict
     \/ Finish("scan", "refused")
  /\ Keep /\ UNCHANGED <<marks, records, rewritten, bundle, result>>

\* Bytes that are no text are not read as one.
Inspect ==
  /\ IF LooksBinary(in.doc) THEN Finish("inspect", "failed")
     ELSE IF in.conf.kind = "inspect" THEN Finish("inspect", "done")
     ELSE Step("inspect", "plan") /\ UNCHANGED verdict
  /\ Keep /\ UNCHANGED <<marks, records, rewritten, bundle, result>>

\* The outcome of plan_actions and apply_actions.
Applying ==
  IF PlanRefused(in.req, PresentSubtypes(in.doc)) THEN Refuses(in.doc.marks)
  ELSE ApplyActions(in.doc, in.req, in.tools)

\* A refusal by the policy is refused, any other exception is failed.
PlanAndApply ==
  /\ LET r == Applying
     IN IF r.ok
          THEN /\ Step("plan", IF in.conf.layerb THEN "layer_b" ELSE "verify") /\ UNCHANGED verdict
               /\ marks' = r.marks /\ records' = r.records
          ELSE /\ Finish("plan", IF r.refused THEN "refused" ELSE "failed")
               /\ UNCHANGED <<marks, records>>
  /\ Keep /\ UNCHANGED <<rewritten, bundle, result>>

\* _run_capped gives up on a cleaner that takes too long.
ApplyTimesOut ==
  /\ faults < in.conf.faults /\ faults' = faults + 1
  /\ Finish("plan", "failed")
  /\ UNCHANGED <<in, runnerVars, marks, records, rewritten, bundle, result>>

\* The rewrite: of a text only, by a configured backend, and with a result
\* that passes the meaning lock and is not the text it was given.
LayerB ==
  /\ \/ /\ Kind(in.doc) = "text" /\ in.conf.backend
        /\ Step("layer_b", "verify") /\ UNCHANGED verdict
        /\ rewritten' = TRUE /\ marks' = marks \ {"layer_a_body"}
     \/ Finish("layer_b", "failed") /\ UNCHANGED <<rewritten, marks>>
  /\ Keep /\ UNCHANGED <<records, bundle, result>>

Verified == VerifyDerivative(in.doc, in.req, in.tools, marks, rewritten)

Gate ==
  /\ IF Verified THEN Step("verify", "original") /\ UNCHANGED verdict
                 ELSE Finish("verify", "failed")
  /\ Keep /\ UNCHANGED <<marks, records, rewritten, bundle, result>>

\* The order in which clean_to_bundle writes.
After(f) ==
  CASE f = "original" -> "derivative"
    [] f = "derivative" -> "manifest"
    [] f = "manifest" -> "report"
    [] OTHER -> "result"

\* write_once: created exclusively, then filled.
Create(f) ==
  /\ worker = f /\ bundle[f] = "absent"
  /\ bundle' = [bundle EXCEPT ![f] = "partial"]
  /\ Keep /\ UNCHANGED <<worker, verdict, marks, records, rewritten, result>>

Fill(f) ==
  /\ worker = f /\ bundle[f] = "partial"
  /\ bundle' = [bundle EXCEPT ![f] = "complete"]
  /\ worker' = After(f)
  /\ verdict' = IF After(f) = "result" THEN "done" ELSE verdict
  /\ Keep /\ UNCHANGED <<marks, records, rewritten, result>>

\* A failed write takes its own partial file away.
WriteFails(f) ==
  /\ worker = f /\ bundle[f] = "partial" /\ faults < in.conf.faults
  /\ faults' = faults + 1
  /\ bundle' = [bundle EXCEPT ![f] = "absent"]
  /\ Finish(f, "failed")
  /\ UNCHANGED <<in, runnerVars, marks, records, rewritten, result>>

\* A temporary file and a rename: there or not there.
WriteResult ==
  /\ Step("result", "gone")
  /\ result' = [status |-> verdict, bundle |-> verdict = "done" /\ in.conf.kind = "sanitize"]
  /\ Keep /\ UNCHANGED <<verdict, marks, records, rewritten, bundle>>

\* Out of memory, or the result itself cannot be written.
WorkerDies ==
  /\ worker \notin {"idle", "gone"} /\ faults < in.conf.faults
  /\ worker' = "gone" /\ faults' = faults + 1
  /\ UNCHANGED <<in, runnerVars, verdict, marks, records, rewritten, bundle, result>>

-----------------------------------------------------------------------------
RunnerStep == Start \/ Launch \/ WorkerExits \/ Cleanup \/ SyncJob

WorkerStep ==
  \/ ReadInput \/ Scan \/ Inspect \/ PlanAndApply \/ LayerB \/ Gate \/ WriteResult
  \/ \E f \in Files : Create(f) \/ Fill(f)

Fault ==
  \/ LaunchFails \/ TimesOut \/ ApplyTimesOut \/ WorkerDies
  \/ \E f \in Files : WriteFails(f)

Next == RunnerStep \/ WorkerStep \/ Fault

Spec == Init /\ [][Next]_vars

\* The runner's thread or the worker goes on as long as one of them can: each
\* is a sequence of steps.  A worker that hangs is ended by the timeout, a
\* fault like any other here.
FairSpec == Spec /\ WF_vars(RunnerStep \/ WorkerStep)

-----------------------------------------------------------------------------
(* Properties.                                                             *)

Derivative == [in.doc EXCEPT !.marks = marks]

Published == row.status = "done" /\ in.conf.kind = "sanitize"

Plan == PlanActions(in.req)

TypeOK ==
  /\ in.conf \in Deployment
  /\ runner \in {"queued", "launch", "wait", "cleanup", "sync", "end"}
  /\ row \in [status : {"queued", "running"} \cup Ended, bundle : BOOLEAN]
  /\ staged \in BOOLEAN /\ rewritten \in BOOLEAN
  /\ worker \in {"idle", "read", "scan", "inspect", "plan", "layer_b", "verify", "result", "gone"}
                  \cup Files
  /\ verdict \in {"none"} \cup Ended
  /\ bundle \in [Files -> {"absent", "partial", "complete"}]
  /\ result \in {NoResult} \cup [status : Ended, bundle : BOOLEAN]
  /\ faults \in 0..in.conf.faults

\* What a film keeps where its stripper does not reach, in a report that no
\* finding is made of.
UngatedMarks == {"item_ai", "mdat_c2pa"}

\* A Job that is done has a complete bundle, and no other Job points at one:
\* what a killed worker leaves behind is never downloaded.
LinkedIsComplete ==
  /\ row.bundle => row.status = "done" /\ \A f \in Files : bundle[f] = "complete"
  /\ Published => row.bundle

\* Nothing is written for a derivative that has not passed the gate.  Proved in
\* EngineJob_proofs.
GateBeforeBundle == (\E f \in Files : bundle[f] # "absent") => Verified

\* Nothing the plan said it would remove is left in what was published,
\* wherever the format keeps it, if the file is what its name says.  On sound
\* and film the gate is blind: see UngatedMarks.
TargetedGone ==
  Published /\ ReadAs(in.doc) = in.doc.fmt =>
    \A m \in (marks \cap DOMAIN Reader(in.doc.fmt)) \ UngatedMarks :
      See(SubtypeOf, {Reader(in.doc.fmt)[m]}) \cap Targeted(in.req) = {}

\* Actions that are neither carried out for certain nor recorded when they
\* leave the finding there: a provenance marker under production, a broken
\* signature that was consented to, and the properties outside the short list
\* of privacy_only.
SilentActions == {"strip_if_authorized", "rebuild", "strip_listed"}

\* Whatever can still be found in a published derivative is in the manifest
\* with the action it stayed under, unless the policy itself keeps it.
SurvivorsDisclosed ==
  Published =>
    \A st \in PresentSubtypes(Derivative) :
      \/ <<st, Plan[st].action>> \in records
      \/ DefaultPolicy(in.req.policy, st) = "keep"
      \/ Plan[st].action \in SilentActions

\* Marks that may go although the plan keeps their row: the anchors of kept
\* comments, the workbook's list of external references and embedded media go
\* in every OOXML clean, the AI metadata of OpenDocument and EPUB in every
\* clean, and the cut tail of a film when its boxes are put together again.
LostAnyway ==
  {"comment_anchor", "external_refs", "media_c2pa", "media_ai", "cut_media",
   "ai_generator", "ai_creator", "ai_opf_meta", "ai_opf_creator", "ai_html"}

\* What a rebuild drops when the location of a picture inside had to go.
LostInRebuild ==
  IF "image_gps" \in in.doc.marks THEN {"revisions", "old_info", "old_xmp", "old_xmp_ai"} ELSE {}

\* A finding whose row the plan keeps or only flags is still there: a
\* cleaner does no more than it was told to.
KeptStays ==
  Published =>
    \A m \in (in.doc.marks \cap DOMAIN Reader(in.doc.fmt)) \ (LostAnyway \cup LostInRebuild) :
      \A st \in See(SubtypeOf, {Reader(in.doc.fmt)[m]}) \cap PresentSubtypes(in.doc) :
        Plan[st].action \in {"keep", "flag"} => m \in marks

\* Under the two policies with a bar on tooling no replaced value is left in
\* the bytes of a PDF for somebody to recover.
NothingRecoverable ==
  Published /\ in.doc.fmt = "pdf" /\ in.req.policy \in StrictTooling =>
    {"old_info", "old_producer", "old_xmp", "old_xmp_ai"} \cap marks = {}

\* What the plan sets out to remove is gone for every reader: for the
\* inspection that follows, and for somebody who opens the bytes.
NothingTargetedIsLeft == TargetedGone /\ NothingRecoverable

\* A second run over a published derivative changes nothing but a table of
\* offsets the first one could not repair.
CleanIsStable ==
  Published =>
    LET again == ApplyActions(Derivative, in.req, in.tools)
    IN again.ok => again.marks \cup {"stale_xref"} = marks \cup {"stale_xref"}

\* What the caller sees of the Job.
outcome ==
  IF row.status \notin Ended THEN "pending"
  ELSE IF row.bundle THEN "published" ELSE "withheld"

\* The promise to the caller: one outcome, and a publication only of what
\* passed the gate.
Outcome == INSTANCE JobOutcome WITH outcome <- outcome, passed <- Verified

JobIsSettled == Outcome!Spec

=============================================================================
