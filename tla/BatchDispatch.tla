--------------------------- MODULE BatchDispatch ---------------------------
(***************************************************************************)
(* The batch dispatcher: one Batch, its child Jobs and their Releases, the *)
(* API processes that create, run, cancel and recover them, and the audit  *)
(* events they leave (service/app/dispatcher.py, and the batch routes and  *)
(* boot recovery of service/app/main.py).                                  *)
(*                                                                         *)
(* A step is one database statement, or one transaction when nothing can   *)
(* come between its statements.  Every transaction that reads in one       *)
(* statement and writes in a later one is split; on SQLite, where each     *)
(* transaction is BEGIN IMMEDIATE, the actor then keeps the write lock     *)
(* (tx) from the first statement to the commit, on Postgres (READ          *)
(* COMMITTED) it keeps nothing.                                            *)
(***************************************************************************)
EXTENDS Integers, Sequences, FiniteSets, SequencesExt

CONSTANTS
  Job,            \* the children of the batch
  Proc,           \* API processes sharing the database
  Request,        \* cancel requests each process may receive
  Wrapped,        \* TRUE: created by create_batch_release, with Releases
  Serializable,   \* TRUE: SQLite (BEGIN IMMEDIATE), FALSE: Postgres
  MaxConcurrent,  \* cfg.batch_max_concurrent, worker threads per process
  MaxCrash,       \* bound on process deaths
  FaultKind,      \* which database or storage calls may raise
  MaxFault        \* bound on the calls that raise

ASSUME JobAssumption == IsFiniteSet(Job)
ASSUME FlagAssumption == Wrapped \in BOOLEAN /\ Serializable \in BOOLEAN
ASSUME BoundAssumption ==
  /\ MaxConcurrent \in Nat \ {0}
  /\ MaxCrash \in Nat
  /\ MaxFault \in Nat

Terminal == {"done", "refused", "failed"}
Status == {"absent", "queued", "running"} \cup Terminal

(***************************************************************************)
(* The threads of a process: a pool task per in-flight child, the poll     *)
(* loop, a cancel request, and the main thread that boots the process.     *)
(***************************************************************************)
Tasks   == [kind : {"task"}, proc : Proc, id : Job]
Pollers == [kind : {"poll"}, proc : Proc]
Boots   == [kind : {"boot"}, proc : Proc]
Cancels == [kind : {"cancel"}, proc : Proc, id : Request]
Actor   == Tasks \cup Pollers \cup Boots \cup Cancels
NoActor == [kind |-> "none"]
NoProc  == [kind |-> "nobody"]

PC == {"idle", "pending", "claimed", "loaded", "executing", "broken",
       "audit", "release", "count", "claim", "announce", "down", "mark",
       "sync", "reconcile", "heal", "up", "update", "requery", "over"}

VARIABLES
  batch,        \* the Batch row: no row, finished_utc NULL, finished_utc set
  status,       \* Job.status of each child, "absent" while there is no row
  cancelled,    \* the jobs whose Job.error is "cancelled by operator"
  release,      \* Release.status of each child's Release, "none" without one
  evJob,        \* job.* events of each child, as the statuses they record
  evRelease,    \* release.terminal events of each child, likewise
  evCancelled,  \* batch.cancelled events, as the counts they record
  evCompleted,  \* batch.completed events, as the counts they record
  pc,           \* where each thread stands
  ids,          \* row ids a thread selected and still has to work on
  session,      \* Job.status in a thread's SQLAlchemy identity map
  tries,        \* failed attempts of the finalizer a task is in
  creator,      \* the process whose create_batch_release is under way
  tx,           \* holder of SQLite's write lock across statements
  runs,         \* how often run_job launched a worker for each child
  crashes,      \* process deaths so far
  faults        \* raised calls so far

rows  == <<batch, status, cancelled, release>>
chain == <<evJob, evRelease, evCancelled, evCompleted>>
local == <<ids, session, tries, creator>>
tally == <<runs, crashes, faults>>
vars  == <<rows, chain, pc, local, tx, tally>>

Init ==
  /\ batch = "absent"
  /\ status = [j \in Job |-> "absent"]
  /\ cancelled = {}
  /\ release = [j \in Job |-> "none"]
  /\ evJob = [j \in Job |-> <<>>]
  /\ evRelease = [j \in Job |-> <<>>]
  /\ evCancelled = <<>>
  /\ evCompleted = <<>>
  /\ pc = [a \in Actor |-> IF a \in Boots THEN "down" ELSE "idle"]
  /\ ids = [a \in Actor |-> {}]
  /\ session = [a \in Actor |-> [j \in Job |-> "expired"]]
  /\ tries = [a \in Actor |-> 0]
  /\ creator = NoProc
  /\ tx = NoActor
  /\ runs = [j \in Job |-> 0]
  /\ crashes = 0
  /\ faults = 0

BootOf(p) == [kind |-> "boot", proc |-> p]
Up(p) == pc[BootOf(p)] = "up"

Go(a, label) == pc' = [pc EXCEPT ![a] = label]

\* BEGIN IMMEDIATE: no other thread's transaction may be open.
Free(a) == Serializable => tx \in {NoActor, a}
Hold(a) == tx' = IF Serializable THEN a ELSE NoActor
Commit == tx' = NoActor
Rollback(a) == tx' = IF tx = a THEN NoActor ELSE tx

\* s.get(Job): the identity map's copy unless a rollback or expire_all
\* emptied it (the session factory sets expire_on_commit=False).
Seen(a, j) ==
  IF session[a][j] = "expired" THEN status[j] ELSE session[a][j]

Remember(a, j, value) == session' = [session EXCEPT ![a][j] = value]

Fault(kind) ==
  /\ kind \in FaultKind
  /\ faults < MaxFault
  /\ faults' = faults + 1

----------------------------------------------------------------------------
(***************************************************************************)
(* Creation.  create_batch commits the Batch and every child at once.      *)
(* create_batch_release commits the Batch with its batch.created event,    *)
(* then each child and its Release with their release.created event.       *)
(***************************************************************************)
CreateBatch(p) ==
  /\ ~Wrapped
  /\ Up(p) /\ Free(BootOf(p))
  /\ batch = "absent"
  /\ batch' = "open"
  /\ status' = [j \in Job |-> "queued"]
  /\ UNCHANGED <<cancelled, release, chain, pc, local, tx, tally>>

CreateReleaseBatch(p) ==
  /\ Wrapped
  /\ Up(p) /\ Free(BootOf(p))
  /\ batch = "absent"
  /\ batch' = "open"
  /\ creator' = p
  /\ UNCHANGED <<status, cancelled, release, chain, pc, ids, session, tries,
                 tx, tally>>

CreateChild(j) ==
  /\ creator # NoProc
  /\ Free(BootOf(creator))
  /\ status[j] = "absent"
  /\ status' = [status EXCEPT ![j] = "queued"]
  /\ release' = [release EXCEPT ![j] = "queued"]
  /\ creator' = IF \E k \in Job \ {j} : status[k] = "absent"
                THEN creator ELSE NoProc
  /\ UNCHANGED <<batch, cancelled, chain, pc, ids, session, tries, tx, tally>>

\* A release.created append raises: the request ends, what it has committed stays.
CreateRaises ==
  /\ creator # NoProc
  /\ Fault("create")
  /\ creator' = NoProc
  /\ UNCHANGED <<rows, chain, pc, ids, session, tries, tx, runs, crashes>>

----------------------------------------------------------------------------
(***************************************************************************)
(* check_batch_completion, run by a finished task, the poll loop, a cancel *)
(* request and the boot sequence: count the children still outstanding,    *)
(* claim finished_utc, commit, append batch.completed.                     *)
(***************************************************************************)
AfterCheck(a) ==
  CASE a.kind = "boot"   -> "reconcile"
    [] a.kind = "cancel" -> "over"
    [] OTHER             -> "idle"

\* Mutant: a running child does not hold the batch back.
OutstandingQueued == {j \in Job : status[j] = "queued"}

Outstanding == {j \in Job : status[j] \in {"queued", "running"}}

\* Mutant: the poll loop no longer reconciles unfinished batches.
ReadyWithoutPoll(a) == Outstanding = {} /\ a \notin Pollers

Ready(a) == Outstanding = {} /\ (a \in Pollers => batch = "open")

Count(a) ==
  /\ pc[a] = "count" /\ Free(a)
  /\ IF Ready(a)
       THEN Go(a, "claim") /\ Hold(a)
       ELSE Go(a, AfterCheck(a)) /\ Commit
  /\ UNCHANGED <<rows, chain, local, tally>>

\* Mutant: finished_utc is set without the "IS NULL" guard.
UnclaimedUnguarded == batch # "absent"

Unclaimed == batch = "open"

ClaimBatch(a) ==
  /\ pc[a] = "claim" /\ Free(a)
  /\ IF Unclaimed
       THEN batch' = "finished" /\ Go(a, "announce")
       ELSE batch' = batch /\ Go(a, AfterCheck(a))
  /\ Commit
  /\ UNCHANGED <<status, cancelled, release, chain, local, tally>>

Tally(s) == Cardinality({j \in Job : status[j] = s})

Announce(a) ==
  /\ pc[a] = "announce" /\ Free(a)
  /\ evCompleted' = Append(evCompleted,
       [done |-> Tally("done"), refused |-> Tally("refused"),
        failed |-> Tally("failed")])
  /\ Go(a, AfterCheck(a))
  /\ UNCHANGED <<rows, evJob, evRelease, evCancelled, local, tx, tally>>

\* The append raises after finished_utc is committed.  (At boot an exception
\* ends the process: Crash.)
AnnounceRaises(a) ==
  /\ pc[a] = "announce" /\ a \notin Boots
  /\ Fault("announce")
  /\ Go(a, AfterCheck(a))
  /\ UNCHANGED <<rows, chain, local, tx, runs, crashes>>

\* A task's or a request's own check never gets to run its first statement.
CountRaises(a) ==
  /\ pc[a] = "count" /\ a \in Tasks \cup Cancels
  /\ Fault("check")
  /\ Go(a, AfterCheck(a)) /\ Rollback(a)
  /\ UNCHANGED <<rows, chain, local, runs, crashes>>

----------------------------------------------------------------------------
(***************************************************************************)
(* sync_release: mirror the job's status into its Release, if it has one,  *)
(* and append release.terminal, in one commit.                             *)
(***************************************************************************)
SyncRelease(a, j) ==
  IF release[j] = "none"
    THEN UNCHANGED <<release, evRelease>>
    ELSE /\ release' = [release EXCEPT ![j] = Seen(a, j)]
         /\ evRelease' = [evRelease EXCEPT ![j] = Append(@, Seen(a, j))]

\* The loops of cancel_batch and _sweep_orphaned_jobs, which then check the
\* batch, and of _reconcile_stale_releases, after which the process serves.
SyncEach(a) ==
  /\ pc[a] \in {"sync", "heal"} /\ Free(a)
  /\ \E j \in ids[a] :
       /\ SyncRelease(a, j)
       /\ ids' = [ids EXCEPT ![a] = @ \ {j}]
       /\ IF ids[a] # {j} THEN pc' = pc
          ELSE Go(a, IF pc[a] = "sync" THEN "count" ELSE "up")
  /\ Commit
  /\ UNCHANGED <<batch, status, cancelled, evJob, evCancelled, evCompleted,
                 session, tries, creator, tally>>

----------------------------------------------------------------------------
(***************************************************************************)
(* The poll loop: submit every queued child that is not in flight in this  *)
(* process (a task that is not "idle" is in _in_flight), then check the    *)
(* unfinished batch.                                                       *)
(***************************************************************************)
Submittable(a) == pc[a] = "idle" /\ status[a.id] = "queued"

Poll(a) ==
  /\ Up(a.proc) /\ pc[a] = "idle" /\ Free(a)
  /\ pc' = [b \in Actor |->
       IF b = a THEN "count"
       ELSE IF b \in Tasks /\ b.proc = a.proc /\ Submittable(b) THEN "pending"
       ELSE pc[b]]
  /\ UNCHANGED <<rows, chain, local, tx, tally>>

(***************************************************************************)
(* A pool task (_run_one).  Its slot is one of the MaxConcurrent threads.  *)
(***************************************************************************)
Busy(p) == {a \in Tasks : a.proc = p /\ pc[a] \notin {"idle", "pending"}}

\* Mutants: the claim lets a running, or a cancelled, job through.
ClaimableRunning(j) == status[j] \in {"queued", "running"}
ClaimableFailed(j) == status[j] \in {"queued", "failed"}

Claimable(j) == status[j] = "queued"

ClaimJob(a) ==
  /\ pc[a] = "pending" /\ Free(a)
  /\ Cardinality(Busy(a.proc)) < MaxConcurrent
  /\ IF Claimable(a.id)
       THEN status' = [status EXCEPT ![a.id] = "running"] /\ Go(a, "claimed")
       ELSE status' = status /\ Go(a, "idle")
  /\ UNCHANGED <<batch, cancelled, release, chain, local, tx, tally>>

\* run_job's s.get(Job); on SQLite this opens the transaction that its
\* commit of "running" ends.
LoadJob(a) ==
  /\ pc[a] = "claimed" /\ Free(a)
  /\ Go(a, "loaded") /\ Hold(a)
  /\ Remember(a, a.id, status[a.id])
  /\ UNCHANGED <<rows, chain, ids, tries, creator, tally>>

\* The input is staged, the ORM writes "running" if its copy differs, and the
\* worker is launched.
Execute(a) ==
  /\ pc[a] = "loaded" /\ Free(a)
  /\ status' = IF session[a][a.id] = "running" THEN status
               ELSE [status EXCEPT ![a.id] = "running"]
  /\ Remember(a, a.id, "running")
  /\ runs' = [runs EXCEPT ![a.id] = @ + 1]
  /\ Go(a, "executing") /\ Commit
  /\ UNCHANGED <<batch, cancelled, release, chain, ids, tries, creator,
                 crashes, faults>>

\* storage.read raises while the input is being staged.
StageRaises(a) ==
  /\ pc[a] = "loaded"
  /\ Fault("stage")
  /\ Go(a, "broken") /\ Commit
  /\ Remember(a, a.id, "expired")
  /\ UNCHANGED <<rows, chain, ids, tries, creator, runs, crashes>>

\* The worker ended, timed out or was lost, and sync_job writes the outcome
\* over whatever the row holds: its own copy says "running".
SyncJob(a) ==
  /\ pc[a] = "executing" /\ Free(a)
  /\ \E outcome \in Terminal :
       /\ status' = [status EXCEPT ![a.id] = outcome]
       /\ Remember(a, a.id, outcome)
  /\ cancelled' = cancelled \ {a.id}
  /\ Go(a, "audit")
  /\ UNCHANGED <<batch, release, chain, ids, tries, creator, tx, tally>>

\* _run_one_inner's except clause.
Backstop(a) ==
  /\ pc[a] = "broken" /\ Free(a)
  /\ LET last == IF status[a.id] \in Terminal THEN status[a.id] ELSE "failed"
     IN  /\ status' = [status EXCEPT ![a.id] = last]
         /\ Remember(a, a.id, last)
  /\ Go(a, "audit")
  /\ UNCHANGED <<batch, cancelled, release, chain, ids, tries, creator, tx,
                 tally>>

\* A call between the committed claim and the backstop's try, or the
\* backstop's own commit, raises: _run_one ends and nothing is finalized.
ClaimRaises(a) ==
  /\ pc[a] \in {"claimed", "broken"}
  /\ Fault("claim")
  /\ Go(a, "idle")
  /\ UNCHANGED <<rows, chain, local, tx, runs, crashes>>

(***************************************************************************)
(* Finalization: the job.* event (three attempts, then one degraded        *)
(* append), then the Release (two attempts), then the completion check.    *)
(***************************************************************************)
AppendChildAudit(a) ==
  /\ pc[a] = "audit" /\ Free(a)
  /\ evJob' = [evJob EXCEPT ![a.id] = Append(@, Seen(a, a.id))]
  /\ tries' = [tries EXCEPT ![a] = 0]
  /\ Go(a, "release")
  /\ UNCHANGED <<rows, evRelease, evCancelled, evCompleted, ids, session,
                 creator, tx, tally>>

\* Without a Release nothing is committed: the transaction its SELECT opened
\* lasts until the completion check.
FinalizeRelease(a) ==
  /\ pc[a] = "release" /\ Free(a)
  /\ SyncRelease(a, a.id)
  /\ IF release[a.id] = "none" THEN Hold(a) ELSE Commit
  /\ tries' = [tries EXCEPT ![a] = 0]
  /\ Go(a, "count")
  /\ UNCHANGED <<batch, status, cancelled, evJob, evCancelled, evCompleted,
                 ids, session, creator, tally>>

\* Mutant: an append that raises is not tried again.
AttemptsOne(label) == 1

Attempts(label) == IF label = "audit" THEN 4 ELSE 2

\* An attempt raises; its rollback empties the identity map.  The last one
\* moves on with nothing written.
FinalizeRaises(a) ==
  /\ pc[a] \in {"audit", "release"} /\ a \in Tasks
  /\ Fault(pc[a])
  /\ Remember(a, a.id, "expired")
  /\ IF tries[a] + 1 < Attempts(pc[a])
       THEN tries' = [tries EXCEPT ![a] = @ + 1] /\ pc' = pc
       ELSE /\ tries' = [tries EXCEPT ![a] = 0]
            /\ Go(a, IF pc[a] = "audit" THEN "release" ELSE "count")
  /\ UNCHANGED <<rows, chain, ids, creator, tx, runs, crashes>>

----------------------------------------------------------------------------
(***************************************************************************)
(* cancel_batch: select the queued children, fail those that are still     *)
(* queued (with batch.cancelled in the same commit), select again the ones *)
(* that carry the cancellation error, sync their Releases, check the batch.*)
(***************************************************************************)
CancelSelect(a) ==
  /\ pc[a] = "idle" /\ Up(a.proc) /\ Free(a)
  /\ batch # "absent"
  /\ ids' = [ids EXCEPT ![a] = {j \in Job : status[j] = "queued"}]
  /\ Go(a, "update") /\ Hold(a)
  /\ UNCHANGED <<rows, chain, session, tries, creator, tally>>

\* Mutant: the UPDATE without its status guard.
FlippedUnguarded(a) == ids[a]

Flipped(a) == {j \in ids[a] : status[j] = "queued"}

CancelUpdate(a) ==
  /\ pc[a] = "update" /\ Free(a)
  /\ status' = [j \in Job |-> IF j \in Flipped(a) THEN "failed" ELSE status[j]]
  /\ cancelled' = cancelled \cup Flipped(a)
  /\ evCancelled' = IF Flipped(a) = {} THEN evCancelled
                    ELSE Append(evCancelled, Cardinality(Flipped(a)))
  /\ Go(a, "requery") /\ Commit
  /\ UNCHANGED <<batch, release, evJob, evRelease, evCompleted, local, tally>>

CancelRequery(a) ==
  /\ pc[a] = "requery" /\ Free(a)
  /\ LET mine == {j \in ids[a] : status[j] = "failed" /\ j \in cancelled}
     IN  /\ ids' = [ids EXCEPT ![a] = mine]
         /\ Go(a, IF mine = {} THEN "count" ELSE "sync")
  /\ Hold(a)
  /\ UNCHANGED <<rows, chain, session, tries, creator, tally>>

CancelRaises(a) ==
  /\ pc[a] = "sync" /\ a \in Cancels
  /\ Fault("release")
  /\ Go(a, "over") /\ Rollback(a)
  /\ ids' = [ids EXCEPT ![a] = {}]
  /\ UNCHANGED <<rows, chain, session, tries, creator, runs, crashes>>

----------------------------------------------------------------------------
(***************************************************************************)
(* Boot: _sweep_orphaned_jobs fails the running jobs, the swept batch is   *)
(* checked, _reconcile_stale_releases syncs the Releases whose Job is      *)
(* already terminal, and only then does the process serve and poll.        *)
(* Children are never queued without a batch, so no queued row is swept.   *)
(***************************************************************************)
Orphans == {j \in Job : status[j] = "running"}

SweepSelect(a) ==
  /\ pc[a] = "down" /\ Free(a)
  /\ ids' = [ids EXCEPT ![a] = Orphans]
  /\ Go(a, "mark") /\ Hold(a)
  /\ UNCHANGED <<rows, chain, session, tries, creator, tally>>

SweepMark(a) ==
  /\ pc[a] = "mark" /\ Free(a)
  /\ status' = [j \in Job |-> IF j \in ids[a] THEN "failed" ELSE status[j]]
  /\ cancelled' = cancelled \ ids[a]
  /\ Go(a, IF ids[a] = {} THEN "reconcile" ELSE "sync") /\ Commit
  /\ UNCHANGED <<batch, release, chain, local, tally>>

\* Mutant: a Release whose job failed is left as it is.
StaleDone(j) == release[j] = "queued" /\ status[j] \in {"done", "refused"}

Stale(j) == release[j] \in {"queued", "running"} /\ status[j] \in Terminal

Reconcile(a) ==
  /\ pc[a] = "reconcile" /\ Free(a)
  /\ LET stale == {j \in Job : Stale(j)}
     IN  /\ ids' = [ids EXCEPT ![a] = stale]
         /\ session' = [session EXCEPT ![a] =
              [j \in Job |-> IF j \in stale THEN status[j] ELSE "expired"]]
         /\ IF stale = {} THEN Go(a, "up") /\ Commit
                          ELSE Go(a, "heal") /\ Hold(a)
  /\ UNCHANGED <<rows, chain, tries, creator, tally>>

(***************************************************************************)
(* A process dies: its threads, its requests and its open transaction are  *)
(* gone; the database keeps what was committed.  A worker subprocess that  *)
(* outlives it writes a result.json nobody reads.                          *)
(***************************************************************************)
Crash(p) ==
  /\ pc[BootOf(p)] # "down"
  /\ crashes < MaxCrash
  /\ crashes' = crashes + 1
  /\ pc' = [a \in Actor |->
       IF a.proc # p THEN pc[a]
       ELSE IF a \in Boots THEN "down"
       ELSE IF a \in Cancels /\ pc[a] # "idle" THEN "over"
       ELSE "idle"]
  /\ ids' = [a \in Actor |-> IF a.proc = p THEN {} ELSE ids[a]]
  /\ session' = [a \in Actor |->
       IF a.proc = p THEN [j \in Job |-> "expired"] ELSE session[a]]
  /\ tries' = [a \in Actor |-> IF a.proc = p THEN 0 ELSE tries[a]]
  /\ creator' = IF creator = p THEN NoProc ELSE creator
  /\ tx' = IF tx # NoActor /\ tx.proc = p THEN NoActor ELSE tx
  /\ UNCHANGED <<rows, chain, runs, faults>>

----------------------------------------------------------------------------
Check(a) == Count(a) \/ ClaimBatch(a) \/ Announce(a)

TaskStep(a) ==
  \/ ClaimJob(a) \/ LoadJob(a) \/ Execute(a) \/ SyncJob(a) \/ Backstop(a)
  \/ AppendChildAudit(a) \/ FinalizeRelease(a)

CancelStep(a) == CancelUpdate(a) \/ CancelRequery(a)

BootStep(a) == SweepSelect(a) \/ SweepMark(a) \/ Reconcile(a)

Create(p) == CreateBatch(p) \/ CreateReleaseBatch(p)

Raise(a) ==
  \/ AnnounceRaises(a) \/ CountRaises(a) \/ StageRaises(a) \/ ClaimRaises(a)
  \/ FinalizeRaises(a) \/ CancelRaises(a)

Next ==
  \/ \E p \in Proc : Create(p) \/ Crash(p)
  \/ \E j \in Job : CreateChild(j)
  \/ CreateRaises
  \/ \E a \in Actor : Check(a) \/ SyncEach(a) \/ Raise(a)
  \/ \E a \in Tasks : TaskStep(a)
  \/ \E a \in Pollers : Poll(a)
  \/ \E a \in Cancels : CancelSelect(a) \/ CancelStep(a)
  \/ \E a \in Boots : BootStep(a)

Spec == Init /\ [][Next]_vars

(***************************************************************************)
(* Threads that have started keep running, a worker ends (run_job gives it *)
(* a timeout), the poll loop polls, and a dead process is restarted        *)
(* (compose.yaml, restart: unless-stopped).  Nobody has to submit a batch  *)
(* or ask for a cancellation.                                              *)
(***************************************************************************)
Fairness ==
  /\ \A j \in Job : WF_vars(CreateChild(j))
  /\ \A a \in Actor : WF_vars(Check(a) \/ SyncEach(a))
  /\ \A a \in Tasks : WF_vars(TaskStep(a))
  /\ \A a \in Pollers : WF_vars(Poll(a))
  /\ \A a \in Cancels : WF_vars(CancelStep(a))
  /\ \A a \in Boots : WF_vars(BootStep(a))

FairSpec == Spec /\ Fairness

----------------------------------------------------------------------------
InFlight(j) == {a \in Tasks : a.id = j /\ pc[a] \notin {"idle", "pending"}}

TypeOK ==
  /\ batch \in {"absent", "open", "finished"}
  /\ status \in [Job -> Status]
  /\ cancelled \in SUBSET Job
  /\ release \in [Job -> Status \cup {"none"}]
  /\ evJob \in [Job -> Seq(Status)]
  /\ evRelease \in [Job -> Seq(Status)]
  /\ evCancelled \in Seq(Nat)
  /\ evCompleted \in Seq([done : Nat, refused : Nat, failed : Nat])
  /\ pc \in [Actor -> PC]
  /\ ids \in [Actor -> SUBSET Job]
  /\ session \in [Actor -> [Job -> Status \cup {"expired"}]]
  /\ tries \in [Actor -> Nat]
  /\ creator \in Proc \cup {NoProc}
  /\ tx \in Actor \cup {NoActor}
  /\ runs \in [Job -> Nat]
  /\ crashes \in Nat
  /\ faults \in Nat

(***************************************************************************)
(* Properties.                                                             *)
(***************************************************************************)
\* However many processes poll, sweep, cancel and crash, the worker of a child
\* is launched at most once: the claim in _run_one_inner is a guarded UPDATE
\* and no path puts a job back to "queued".
JobRunsAtMostOnce == \A j \in Job : runs[j] <= 1

\* While the only process serves, a "running" child has a pool task working on
\* it: the sweep at boot, the backstop and the finalizers leave none behind.
RunningIsOwned ==
  \A p \in Proc, j \in Job :
    Up(p) /\ status[j] = "running" => InFlight(j) # {}

\* finished_utc is set only once every child of the batch has left queued and
\* running, and no child appears afterwards.
FinishedMeansTerminal ==
  batch = "finished" => \A j \in Job : status[j] \in Terminal

\* The per-status counts of batch.completed add up to the batch's total.
CompletedCountsAddUp ==
  \A i \in DOMAIN evCompleted :
    LET n == evCompleted[i]
    IN  n.done + n.refused + n.failed = Cardinality(Job)

\* Of the tasks, pollers, cancels and boots that all observe the last child
\* terminal, at most one appends batch.completed.
AnnouncedAtMostOnce == Len(evCompleted) <= 1

\* While no process dies: once finished_utc is set and nobody is about to
\* append, the batch.completed event is in the chain.
FinishedIsAnnounced ==
  crashes = 0 /\ batch = "finished" /\ (\A a \in Actor : pc[a] # "announce")
    => evCompleted # <<>>

\* While no process dies: a child that ran to an end and whose task is over
\* has its job.* event, whatever attempts of the finalizer raised.
EndedChildIsRecorded ==
  \A j \in Job :
    crashes = 0 /\ status[j] \in Terminal /\ j \notin cancelled /\ InFlight(j) = {}
      => evJob[j] # <<>>

\* release.terminal is appended once per Release, whoever gets there: the
\* task, a cancel, the sweep or the reconciliation.
ReleaseTerminalOnce == \A j \in Job : Len(evRelease[j]) <= 1

\* What the chain and the Release say of a child is what its row says: a job.*
\* or release.terminal event is never contradicted by the row.
RecordsAgree ==
  \A j \in Job :
    /\ \A i \in DOMAIN evJob[j] : evJob[j][i] = status[j]
    /\ \A i \in DOMAIN evRelease[j] : evRelease[j][i] = status[j]
    /\ release[j] \in Terminal => release[j] = status[j]

\* What ended, ran or was announced is accounted for in the row, the Release and
\* the chain alike, whoever was at it and whatever raised or died.
ChildrenAccountedFor ==
  /\ RunningIsOwned /\ EndedChildIsRecorded /\ FinishedIsAnnounced
  /\ ReleaseTerminalOnce /\ RecordsAgree

\* The counts that batch.cancelled events report are the children that carry
\* the cancellation error, none counted twice and none missing.
CancelCountsTruthful ==
  FoldLeft(+, 0, evCancelled) = Cardinality(cancelled)

\* What batch.completed and batch.cancelled say of a batch is so, and stays so.
CountsAreTrue == FinishedMeansTerminal /\ CompletedCountsAddUp /\ CancelCountsTruthful

\* A cancelled child never ran, and no cancellation turns a running child.
CancelSparesClaimed ==
  [][\A j \in cancelled' \ cancelled :
       status[j] = "queued" /\ InFlight(j) = {}]_vars

\* A terminal status is never overwritten.
TerminalIsFinal ==
  [][\A j \in Job : status[j] \in Terminal => status'[j] = status[j]]_vars

\* When a process starts to serve, no Release is left behind a terminal job.
HealedBeforeServing ==
  [][\A p \in Proc : ~Up(p) /\ Up(p)'
       => \A j \in Job : release'[j] \in {"queued", "running"}
                           => status'[j] \notin Terminal]_vars

\* Once submitted in full, a batch is finished, whatever crashes and failed
\* completion checks come first.
BatchFinishes == batch = "open" /\ creator = NoProc ~> batch = "finished"

\* Every queued child reaches a terminal status.
ChildEnds == \A j \in Job : status[j] = "queued" ~> status[j] \in Terminal

\* A batch ends, and every child of it.
BatchEnds == BatchFinishes /\ ChildEnds
=============================================================================
