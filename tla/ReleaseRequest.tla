--------------------------- MODULE ReleaseRequest ---------------------------
(***************************************************************************)
(* The routes that run one job inside the request that created it          *)
(* (inspect_job, sanitize_job and create_release of service/app/main.py),  *)
(* the one-shot attestation a content-altering run needs                   *)
(* (service/app/security.py, AttestationUse), and what a restart does with *)
(* the jobs and releases it finds.  One API process serves the requests;   *)
(* append_event is one step here, AuditChain is about its inside.          *)
(***************************************************************************)
EXTENDS Integers, Sequences, FiniteSets

CONSTANTS
  Request,       \* requests, each handled by its own thread
  Token,         \* attestation tokens issued for the document
  Asked,         \* what the requests may ask for
  Serializable,  \* TRUE: SQLite (BEGIN IMMEDIATE), FALSE: Postgres
  MaxCrash,      \* bound on process deaths
  MaxFault       \* bound on calls that raise

NoToken == "no token"
NoRequest == "no request"

Body ==
  [kind : {"inspect"}, token : {NoToken}]
    \cup [kind : {"sanitize", "release"}, token : Token \cup {NoToken}]

ASSUME RequestAssumption ==
  /\ IsFiniteSet(Request)
  /\ NoRequest \notin Request /\ NoToken \notin Token
  /\ Asked \subseteq Body
  /\ Serializable \in BOOLEAN
  /\ MaxCrash \in Nat /\ MaxFault \in Nat

Terminal == {"done", "refused", "failed"}

VARIABLES
  body,      \* what each request asks for
  pc,        \* where its handler stands
  job,       \* status of the Job row it created
  release,   \* status of the Release row around that Job
  use,       \* AttestationUse: the request whose Job a token authorized
  events,    \* the events of each request, in the order of the chain
  consumed,  \* _consumed_jtis, in memory
  expired,   \* tokens older than ATTEST_TTL_S
  tx,        \* the request that holds SQLite's write lock
  boot,      \* where the process stands
  todo,      \* the Jobs whose Release the boot still has to sync
  crashes, faults

rows == <<job, release, use, events>>
bounds == <<crashes, faults>>
vars == <<body, pc, rows, consumed, expired, tx, boot, todo, bounds>>

Init ==
  /\ body \in [Request -> Asked]
  /\ pc = [r \in Request |-> "new"]
  /\ job = [r \in Request |-> "absent"]
  /\ release = [r \in Request |-> "none"]
  /\ use = [t \in Token |-> NoRequest]
  /\ events = [r \in Request |-> <<>>]
  /\ consumed = {} /\ expired = {}
  /\ tx = NoRequest
  /\ boot = "up" /\ todo = {}
  /\ crashes = 0 /\ faults = 0

HasToken(r) == body[r].token # NoToken
Go(r, label) == pc' = [pc EXCEPT ![r] = label]
Free(r) == Serializable => tx \in {NoRequest, r}
Hold(r) == tx' = IF Serializable THEN r ELSE NoRequest
Leave(r) == tx' = IF tx = r THEN NoRequest ELSE tx

Append1(r, action, status) ==
  events' = [events EXCEPT ![r] = Append(@, [action |-> action, status |-> status])]

----------------------------------------------------------------------------
(***************************************************************************)
(* The request up to its Job.                                              *)
(***************************************************************************)
\* verify_attestation: signature, matter, document, age and single use.
Valid(r) == HasToken(r) => body[r].token \notin consumed \cup expired

\* The permission check opens the transaction; the Job is added to the session.
Authorize(r) ==
  /\ boot = "up" /\ pc[r] = "new" /\ Free(r)
  /\ IF Valid(r) THEN Go(r, IF HasToken(r) THEN "verified" ELSE "staged") /\ Hold(r)
                 ELSE Go(r, "refused") /\ UNCHANGED tx
  /\ UNCHANGED <<body, rows, consumed, expired, boot, todo, bounds>>

\* Mutant: no primary key, only what verify_attestation saw.
SpentNever(r) == FALSE

Spent(r) == use[body[r].token] # NoRequest

Inserting(r) ==
  \E q \in Request \ {r} : pc[q] = "using" /\ body[q].token = body[r].token

\* The AttestationUse row is flushed: a second one for the same token waits
\* for the first one's transaction, then fails on the primary key.  Only a
\* flushed row burns the token in memory.
InsertUse(r) ==
  /\ pc[r] = "verified" /\ ~Inserting(r)
  /\ IF Spent(r)
       THEN Go(r, "refused") /\ Leave(r) /\ UNCHANGED consumed
       ELSE /\ consumed' = consumed \cup {body[r].token}
            /\ Go(r, "using") /\ UNCHANGED tx
  /\ UNCHANGED <<body, rows, expired, boot, todo, bounds>>

\* Mutant: attest.used without the AttestationUse row.
AppendUsedNoRow(r) ==
  /\ pc[r] = "using" /\ Free(r)
  /\ job' = [job EXCEPT ![r] = "queued"]
  /\ Append1(r, "attest.used", "queued")
  /\ Go(r, IF body[r].kind = "release" THEN "used" ELSE "queued") /\ Leave(r)
  /\ UNCHANGED <<body, release, use, consumed, expired, boot, todo, bounds>>

\* attest.used commits the Job and the AttestationUse row, and for
\* create_release not yet the Release.
AppendUsed(r) ==
  /\ pc[r] = "using" /\ Free(r)
  /\ job' = [job EXCEPT ![r] = "queued"]
  /\ use' = [use EXCEPT ![body[r].token] = r]
  /\ Append1(r, "attest.used", "queued")
  /\ Go(r, IF body[r].kind = "release" THEN "used" ELSE "queued") /\ Leave(r)
  /\ UNCHANGED <<body, release, consumed, expired, boot, todo, bounds>>

\* _create_job, or sanitize_job's commit: a Job without an event.
CommitJob(r) ==
  /\ pc[r] = "staged" /\ body[r].kind # "release" /\ Free(r)
  /\ job' = [job EXCEPT ![r] = "queued"]
  /\ Go(r, "queued") /\ Leave(r)
  /\ UNCHANGED <<body, release, use, events, consumed, expired, boot, todo, bounds>>

\* release.created commits the Release, and the Job unless attest.used did.
AppendCreated(r) ==
  /\ \/ pc[r] = "staged" /\ body[r].kind = "release"
     \/ pc[r] = "used"
  /\ Free(r)
  /\ job' = [job EXCEPT ![r] = "queued"]
  /\ release' = [release EXCEPT ![r] = "queued"]
  /\ Append1(r, "release.created", "queued")
  /\ Go(r, "queued") /\ Leave(r)
  /\ UNCHANGED <<body, use, consumed, expired, boot, todo, bounds>>

----------------------------------------------------------------------------
(***************************************************************************)
(* _execute_job on a session of its own, and the request's last appends.   *)
(***************************************************************************)
\* run_job stages the input, commits "running" and launches the worker.
Launch(r) ==
  /\ pc[r] = "queued" /\ Free(r)
  /\ job' = [job EXCEPT ![r] = "running"]
  /\ Go(r, "running")
  /\ UNCHANGED <<body, release, use, events, consumed, expired, tx, boot, todo, bounds>>

\* The statuses the worker reports, "failed" standing for no report at all.
Outcomes == Terminal

\* sync_job: the worker's result, or "failed" when it left none.
SyncJob(r) ==
  /\ pc[r] = "running" /\ Free(r)
  /\ \E outcome \in Outcomes : job' = [job EXCEPT ![r] = outcome]
  /\ Go(r, "synced")
  /\ UNCHANGED <<body, release, use, events, consumed, expired, tx, boot, todo, bounds>>

\* Mutant: create_release answers after job.sanitize.
AfterEndEarly(r) == "over"

AfterEnd(r) == IF body[r].kind = "release" THEN "ended" ELSE "over"

\* job.inspect or job.sanitize.
AppendEnd(r) ==
  /\ pc[r] = "synced" /\ Free(r)
  /\ Append1(r, "job", job[r])
  /\ Go(r, AfterEnd(r))
  /\ UNCHANGED <<body, job, release, use, consumed, expired, tx, boot, todo, bounds>>

AppendTerminal(r) ==
  /\ pc[r] = "ended" /\ Free(r)
  /\ release' = [release EXCEPT ![r] = job[r]]
  /\ Append1(r, "release.terminal", job[r])
  /\ Go(r, "over")
  /\ UNCHANGED <<body, job, use, consumed, expired, tx, boot, todo, bounds>>

\* storage.read or append_event raises: the request ends with what it has
\* committed, its open transaction is rolled back.
Raises(r) ==
  /\ pc[r] \in {"using", "staged", "used", "queued", "synced", "ended"}
  /\ (pc[r] = "staged" => body[r].kind = "release")
  /\ faults < MaxFault
  /\ faults' = faults + 1
  /\ Go(r, "over") /\ Leave(r)
  /\ UNCHANGED <<body, rows, consumed, expired, boot, todo, crashes>>

Expire(t) ==
  /\ t \notin expired
  /\ expired' = expired \cup {t}
  /\ UNCHANGED <<body, pc, rows, consumed, tx, boot, todo, bounds>>

----------------------------------------------------------------------------
(***************************************************************************)
(* The process dies with its threads and its memory; a boot fails what it  *)
(* finds unfinished, syncs those Releases, then the ones a terminal Job    *)
(* left behind, and serves.                                                *)
(***************************************************************************)
Crash ==
  /\ crashes < MaxCrash
  /\ crashes' = crashes + 1
  /\ boot' = "down" /\ todo' = {} /\ consumed' = {} /\ tx' = NoRequest
  /\ pc' = [r \in Request |->
       IF pc[r] \in {"new", "refused"} THEN pc[r] ELSE "over"]
  /\ UNCHANGED <<body, rows, expired, faults>>

\* Mutant: queued jobs are taken for restart-safe.
OrphansRunning == {r \in Request : job[r] = "running"}

Orphans == {r \in Request : job[r] \in {"queued", "running"}}

Sweep ==
  /\ boot = "down"
  /\ job' = [r \in Request |-> IF r \in Orphans THEN "failed" ELSE job[r]]
  /\ todo' = Orphans /\ boot' = "sync"
  /\ UNCHANGED <<body, pc, release, use, events, consumed, expired, tx, bounds>>

\* sync_release: status and release.terminal in one commit.
SyncRelease ==
  /\ boot \in {"sync", "heal"}
  /\ \E r \in todo :
       /\ todo' = todo \ {r}
       /\ IF release[r] = "none" THEN UNCHANGED <<release, events>>
          ELSE /\ release' = [release EXCEPT ![r] = job[r]]
               /\ Append1(r, "release.terminal", job[r])
  /\ UNCHANGED <<body, pc, job, use, consumed, expired, tx, boot, bounds>>

Stale == {r \in Request : release[r] \in {"queued", "running"} /\ job[r] \in Terminal}

Reconcile ==
  /\ boot = "sync" /\ todo = {}
  /\ todo' = Stale /\ boot' = "heal"
  /\ UNCHANGED <<body, pc, rows, consumed, expired, tx, bounds>>

Serve ==
  /\ boot = "heal" /\ todo = {}
  /\ boot' = "up"
  /\ UNCHANGED <<body, pc, rows, consumed, expired, tx, todo, bounds>>

----------------------------------------------------------------------------
Handle(r) ==
  \/ InsertUse(r) \/ AppendUsed(r) \/ CommitJob(r) \/ AppendCreated(r)
  \/ Launch(r) \/ SyncJob(r) \/ AppendEnd(r) \/ AppendTerminal(r)

Boot == Sweep \/ SyncRelease \/ Reconcile \/ Serve

Next ==
  \/ \E r \in Request : Authorize(r) \/ Handle(r) \/ Raises(r)
  \/ \E t \in Token : Expire(t)
  \/ Crash \/ Boot

Spec == Init /\ [][Next]_vars

\* A handler that started goes on, the worker ends (run_job gives it a
\* timeout), a dead process is restarted.  Nobody has to send a request.
Fairness == (\A r \in Request : WF_vars(Handle(r))) /\ WF_vars(Boot)

FairSpec == Spec /\ Fairness

----------------------------------------------------------------------------
Label ==
  {"new", "refused", "staged", "verified", "using", "used", "queued", "running",
   "synced", "ended", "over"}

Action == {"attest.used", "release.created", "job", "release.terminal"}

JobStatus == {"absent", "queued", "running"} \cup Terminal

TypeOK ==
  /\ body \in [Request -> Body]
  /\ pc \in [Request -> Label]
  /\ job \in [Request -> JobStatus]
  /\ release \in [Request -> {"none", "queued"} \cup Terminal]
  /\ use \in [Token -> Request \cup {NoRequest}]
  /\ events \in [Request -> Seq([action : Action, status : JobStatus])]
  /\ consumed \subseteq Token /\ expired \subseteq Token
  /\ tx \in Request \cup {NoRequest}
  /\ boot \in {"down", "sync", "heal", "up"} /\ todo \subseteq Request
  /\ crashes \in 0 .. MaxCrash /\ faults \in 0 .. MaxFault

InFlight(r) == pc[r] \notin {"new", "refused", "over"}
Recorded(r, action) == {i \in DOMAIN events[r] : events[r][i].action = action}

(***************************************************************************)
(* Properties.                                                             *)
(***************************************************************************)
\* An attestation token authorizes one Job, whatever requests race with it and
\* whatever restart empties the process's memory of spent tokens.
TokenSpentOnce ==
  \A q, r \in Request :
    /\ HasToken(q) /\ body[q].token = body[r].token
    /\ job[q] # "absent" /\ job[r] # "absent"
    => q = r

\* A content-altering worker is launched only when the chain already names the
\* authorization it spends, and the token is durably spent on this very Job.
AlteringRunIsAuthorized ==
  [][\A r \in Request :
       HasToken(r) /\ job[r] # "running" /\ job'[r] = "running"
         => use[body[r].token] = r /\ Recorded(r, "attest.used") # {}]_vars

\* While the process serves and no call raised, an unfinished Job or Release
\* has a request that is going to finish it: the boot left none behind.
NoneStranded ==
  boot = "up" /\ faults = 0 =>
    \A r \in Request :
      job[r] \in {"queued", "running"} \/ release[r] = "queued" => InFlight(r)

\* A Release is settled once, with the outcome of its Job, by the handler or by
\* a boot: never by both.
SettledOnce ==
  \A r \in Request :
    /\ Cardinality(Recorded(r, "release.terminal")) <= 1
    /\ release[r] \in Terminal =>
         /\ release[r] = job[r]
         /\ \E i \in Recorded(r, "release.terminal") : events[r][i].status = job[r]

\* Whoever settles a Release settles it once, and somebody is going to.
ReleasesAreSettled == NoneStranded /\ SettledOnce

\* A Job that was queued ends, and its Release with it, after a process death
\* too, unless a call raised.
ReleaseSettles ==
  \A r \in Request :
    job[r] = "queued" ~>
      (job[r] \in Terminal /\ release[r] # "queued") \/ faults > 0
=============================================================================
