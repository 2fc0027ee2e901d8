# CounselClear: a TLA+ verification project

CounselClear is a FastAPI service (`service/app/`) around a document-cleaning
engine (`service/scripts/`): a user uploads documents to a *matter*, asks for
an inspection or a sanitized derivative, and releases the derivative with a
verifiable packet. Every act leaves an event in a per-matter hash chain. The
project models the control of that system - who writes which row, file and
event, in which order, what an engine run may publish, what an offline
verifier accepts, and what is left when two actors interleave, a call raises or
the process dies - and checks it with TLC and TLAPS.

## 1. Inventory

| Part | State it keeps | Operations | Talks to | Correct when |
|---|---|---|---|---|
| Batch dispatcher (`app/dispatcher.py`, batch routes and boot recovery of `app/main.py`, `app/runner.py`) | rows `Batch`, `Job`, `Release`; per process: `_in_flight`, the pool, the poll thread, a SQLAlchemy session per task | create a (release) batch, poll, claim, run, finalize, cancel, sweep, reconcile | audit chain, worker, store | a child runs once, ends once with its event, and the batch finishes with true counts |
| Audit chain (`app/audit.py`) | `AuditEvent` rows `(matter_id, seq)` with `prev_hash`, `event_hash`; per process one lock per matter | `append_event`, `verify_chain`, `_terminal_hash_facts` | every component that records an act | it verifies at every moment, loses and doubles nothing, and takes its caller's rows along |
| Matter access (`app/acl.py`, `put_acl`, `delete_acl`) | `MatterACL` rows | bootstrap, `has_perm`, grant, revoke | audit chain | a matter keeps an admin, and no grant changes and no download is recorded on a permission lost meanwhile |
| Job and release routes (`app/main.py`) | `Job`, `Release`, `AttestationUse` rows | inspect, sanitize, release, attest | runner, audit chain | a token authorizes one alteration, and every Release settles once |
| Document upload (`upload_document`, `app/malware.py`) | `Document` rows; the event loop | permission check, capped read, scan, store, record | custody store, audit chain, `clamscan` | row and original name each other, and the loop never waits for ever |
| Custody store (`app/storage.py`, `scripts/custody.py`) | write-once objects, the volume's envelope key | `write_once`, `read`, `exists`, `ref_for`, `key_from_ref`, `describe`; the keyrings' `new_data_key` and `unwrap`, key creation | routes, runner, engine | what is stored stays, and "stored" is said only of one's own content |
| Worker and bundle (`app/runner.py`, `app/worker.py`, `scripts/engine_api.py`) | one job directory: `input/`, `output/`, `result.json`, `bundle/` | stage, launch, inspect, plan, apply, rewrite, verify, publish, sync | engine, runner (files only) | nothing is published that did not pass the gate, and nothing half written |
| Engine: findings, policies, verification (`scripts/findings.py`, `policies.py`, `verify.py`, `verify_render.py`) | none (pure) | plan what to do with each finding, refuse, apply, verify the derivative | worker, formats | what is targeted goes, what is kept stays, what survives is disclosed |
| Engine: formats (`container_meta.py`, `image_meta.py`, `av_meta.py`, `pdf_legal.py`, `xlsx_legal.py`) | none (pure over files) | inspect and strip one format | `exiftool`, `qpdf` | reader and cleaner of a format agree |
| Engine: text (`text_unicode.py`, `text_detectors.py`, `rewrite_text.py`, detectors) | none; a scoring server | find and clean marks, rewrite until a detector passes | engine, `server.py` | - |
| Login and sessions (`app/security.py`, `app/oidc.py`, `app/config.py`) | throttle table, cookie secret and signing key files, signed cookies | login, throttle, session check, OIDC redirect and callback, revocation | routes | guessing is capped, sessions last until revoked and, but for the empty secret, no longer, one signing key |
| Timestamp anchor (`app/tsa.py`) | none | ask an authority for a token over a digest, once more on failure | release packet | an outage leaves an honest packet without a date |
| Release packet (`app/main.py`) and its offline verifier (`tools/counselclear_verify_release_packet.py`) | a packet (files), release results, certificates | build, sign, anchor, verify | audit chain, store | what is issued verifies; what verifies was issued |
| Airlock (`tools/counselclear_airlock.py`) | an output directory, a manifest of results | release a document, keep the packet and its result | HTTP API | its directory verifies on its own |
| Web client (`web/`) | React state | paginate, poll, cancel, re-run | HTTP API | - |
| Migrations, deployment, skills, benchmarks | the schema | run once, or outside the service | database | - |

How they interact: a route or the dispatcher writes rows and calls
`append_event` on its own SQLAlchemy session; `append_event` *commits* that
session, so every append also publishes whatever its caller staged. The worker
is a subprocess that sees only a job directory. Threads of one process share
the chain's lock per matter, the throttle, the dispatcher's `_in_flight` set
and one event loop; processes share only the database, the store and the two
files of the data volume. A packet is built from all of them, read one after
the other.

Hard behaviours: transactions that read in one statement and write in a later
one (on SQLite `BEGIN IMMEDIATE` serialises them, on Postgres nothing does);
the commit hidden in `append_event`; the process dying between two commits;
identity maps that keep a stale row; retries, above all of calls whose reply was
lost; files created empty and filled later; a second replica; an async handler
that waits on a database lock; tools that are absent or fail half-way; clocks,
keys and files that change while a packet is put together.

The hazards of each part, at the line where they bite, are under `hazards` in
`PROJECT.json`, with the properties that watch them.

## 2. Plan

Written, in the order of importance: `BatchDispatch`; `AuditChain` over
`AuditLog`; `MatterAccess`; `ReleaseRequest`; `EngineJob` over `JobOutcome`,
with `Verify`, `Policies`, `Formats` and `Media` under it; `Intake` with
`CustodyStore` over `WriteOnce`; `LoginGuard` with `LoginThrottle` and
`AuthFiles`; `ReleasePacket` with `PacketVerifier` and `Timestamp`.

Left, most important first:

1. The envelope's reads in `CustodyStore`: `unwrap` of a damaged envelope, and
   `exists` asked before a `read` that fails.
2. The airlock's client calls against the routes of `ReleaseRequest`.
3. The web client's paging and re-runs, a module of its own.
4. The loop of `rewrite_text` with its detectors as an oracle.

## 3. Modules

One step of a module is one database statement, or one transaction when
nothing can come between its statements. A transaction that reads in one
statement and writes in a later one is split in two steps; under
`Serializable = TRUE` (SQLite, whose engine opens every transaction with
`BEGIN IMMEDIATE`, `db.py:63-71`) the thread keeps the variable `tx`, the write
lock, from one to the other, under `FALSE` (Postgres) it keeps nothing. A file
is created in one step and filled in another. Ids, timestamps, payloads and
messages are abstracted to model values. Raised calls and process deaths are
actions with a bound (`MaxFault`, `MaxCrash`, or a field of the deployment a
run looks at). The definitions whose comment begins with "Mutant" are not part
of a model: each states a plausible bug of the definition it stands beside, and
a property has to fail under it.

### BatchDispatch

One batch, its children `Job`, the processes `Proc` that share the database.

| State | In the code |
|---|---|
| `batch`, `status`, `cancelled`, `release` | the rows `Batch.finished_utc`, `Job.status`, `Job.error`, `Release.status` |
| `evJob`, `evRelease`, `evCancelled`, `evCompleted` | the `job.*`, `release.terminal`, `batch.cancelled` and `batch.completed` events, as the statuses or counts they carry |
| `pc`, `ids` | the position of each thread - a pool task per in-flight child, the poll loop, a cancel request, the boot - and the row ids it selected |
| `session` | the identity map of the thread's SQLAlchemy session, which `expire_on_commit=False` keeps alive over commits |
| `tx` | SQLite's write lock |
| `runs` | how often `run_job` launched the worker of a child |

Actions: `CreateBatch`, `CreateReleaseBatch` with `CreateChild` (the batch
routes); `Poll` (`_poll_once`, with `_complete_ready_batches`); `ClaimJob`,
`LoadJob`, `Execute`, `SyncJob`, `Backstop`, `AppendChildAudit`,
`FinalizeRelease` (`_run_one_inner` and its finalizer); `Count`, `ClaimBatch`,
`Announce` (`check_batch_completion`); `CancelSelect`, `CancelUpdate`,
`CancelRequery` (`cancel_batch`); `SweepSelect`, `SweepMark`, `Reconcile` (the
boot); `SyncEach` (`sync_release`, wherever it is called); `Crash`; and one
`...Raises` action per call that may raise.

### AuditChain and AuditLog

`AuditChain` is the inside of `append_event`. A thread's request opens a
transaction (`BeginRequest`), stages rows or commits them first (`StageRows`,
`CommitRows`), takes its process's lock of the matter (`TakeLock`), reads the
tip (`ReadTip`), and inserts, collides on the unique `(matter_id, seq)`
constraint and reads again, or gives up (`Insert`, `Collide`, `Exhaust`,
`BusyTimeout`). `rows` are the committed events, `records` the calls whose own
rows are committed, `early` those that committed them before the append. A
digest is the tuple it commits to, so it is injective by construction: that
SHA-256 has no collision is assumed, not shown. `VerifyChain` is
`verify_chain`.

`AuditLog` is what callers rely on: per matter an append-only sequence that
records no event twice. `IsLog` maps a matter's rows, ordered by `seq`, to it.

### MatterAccess

`acl` are the committed grants, `log` the matter's events, `pc` and `body` each
request's handler and what it asks for. `Authorize` is `_require` with the
self-lockout guard; `CheckGrant` and `InsertGrant` are `grant`; `CheckRevoke`,
`CountAdmins` and `DeleteGrant` are `revoke`; `AppendEvent` is the handler's
append, a step of its own because `grant` and `revoke` commit before it. A
download of an original (`job_bundle`) requires two permissions, appends its
event (`AppendEvent`) and that of its certificate (`AppendCertificate`), each
with a commit that gives SQLite's lock up; then it queries its Release, signs
and asks the timestamp authority (`Assemble`), and only then reads the original
into its answer (`SendOriginal`), without another look at the permission. `left`
are the downloads whose original has left. An answer that comes without one (a
409 of the job's state, no original in the store) is `SendOriginal`'s other
outcome, or the request `Raises`.

### ReleaseRequest

`Authorize` (permission check and `verify_attestation`), `InsertUse` (the flush
of the `AttestationUse` row, then the in-memory burn), `AppendUsed`
(`attest.used`, which commits the Job), `CommitJob`, `AppendCreated`
(`release.created`), `Launch`, `SyncJob` (`_execute_job` on its own session),
`AppendEnd`, `AppendTerminal`, `Raises`, `Expire`, `Crash`; and the boot:
`Sweep`, `SyncRelease`, `Reconcile`, `Serve`. `consumed` is the process's set
`_consumed_jtis`, which `Crash` empties; `use` is the table that survives it.
The worker's outcome is any of done, refused and failed (`Outcomes`).

### Media, Formats, Policies and Verify

Pure modules: the engine as operators. A document is its name, the format its
bytes have, and its set of *marks*; a mark names a thing (an author, a
comment, a provenance marker, a location) and the place where this format keeps
it, and two places that some reader or cleaner treats differently are two
marks. A reader (`InspectDocx`, `InspectPdf`, `InspectPng`, ...) is a table
from the marks it notices to the finding it prints; a cleaner (`DocxLegalClean`,
`CleanPdf`, `StripPng`, ...) is the set of marks gone afterwards, given its
flags and what `exiftool` and `qpdf` answer. `SubtypeOf` is `findings.py`'s
mapping of findings to the rows of a plan. A document may have another format's
name: containers and texts are read by their name and what their first bytes
say, pictures and sound by their bytes alone, and under a text's name the bytes
of anything else are refused when they are inspected (`LooksBinary`).

`Policies` has the four policies' tables, `PlanActions` and `PlanRefused`
(`plan_actions`), `ApplyActions` with one operator per kind of document, the
keyword arguments that steer the OOXML cleaner, the refusals under strict
tooling, and the records of what survived. `Verify` is `verify_derivative`: the
derivative is read again, under the name of the original.

### EngineJob and JobOutcome

One run of one Job: the runner's thread, the worker, and the faults between
them.

| State | In the code |
|---|---|
| `in` | the document, the request, the tools' answers and the deployment: fixed inputs |
| `runner`, `row`, `staged` | the position in `run_job`/`sync_job`, the `Job` row, the job directory |
| `worker`, `verdict` | the position in `clean_to_bundle`, and what it ended with |
| `marks`, `records`, `rewritten` | the derivative in memory, the surviving-finding records, the Layer B rewrite |
| `bundle`, `result` | the bundle's files as absent, partial or complete; `result.json` |

Runner: `Start`, `Launch`, `LaunchFails`, `WorkerExits`, `TimesOut`, `Cleanup`,
`SyncJob`. Worker: `ReadInput`, `Scan`, `Inspect`, `PlanAndApply`, `LayerB`,
`Gate`, `Create` and `Fill` for each file of the bundle, `WriteResult`. Faults:
a timeout inside a tool, a failed write, a death. A docker timeout kills the
client only, so its container goes on and may still write a result.

`JobOutcome` is what a caller relies on: pending, then published with bytes the
gate accepted, or withheld, once. `JobIsSettled` is the refinement, and says
that one of the two happens.

### Intake, CustodyStore and WriteOnce

`CustodyStore` is `write_once` on files (`Look`, `Create`, `Compare`, `Fill`,
`FillFails`) and on an object store (`Head`, `PutObject`, `PutReplyLost`,
`StoreRaises`), `EncryptedStorage` around both (`Reread`, `Opens`), and the boot
of a process that loads or creates the volume's key (`LoadKey`, `CreateKey`,
`FillKey`, `FillKeyFails`). `objects` and `keyfile` are the bytes at rest,
`boot` and `kek` a process and the key it has in memory, `step` each call. Two
envelopes of one content differ, a nonce being random, so a lost reply under an
envelope is recognised only by reading the plaintext back.

`Intake` puts `upload_document` on top of it: `Require` (the permission check,
which opens SQLite's write transaction), `GetLock` and `BusyTimeout` for a
handler that blocks its event loop (`loop`) on that lock (`tx`), `Read`, `Scan`,
`Stored`, `Record`, `RecordFails`, `Close`; and a synchronous handler `ReadRows`
whose session the loop closes. `docs` are the rows.

`WriteOnce` is the abstract register: a key holds nothing until one writer's
content is stored, and that content from then on; a writer is told "stored"
only when its own content is what the key holds. `IsWriteOnce` maps the whole
files and objects to it.

### LoginGuard, LoginThrottle and AuthFiles

`LoginThrottle` has the class of that name as operators on a record of
`failures`, `locked` and `swept`, one per method: `AfterAllow`, `Allows`,
`AfterFailure`, `Forgiven` (a success) and `Sweep`; `Pruned` drops the failures
before the first that is still in the window, which is what the `popleft` loop
does. `AuthFiles` has the cookie secret, written
plainly by whoever finds it missing (`Look`, `Generate`, `Open`, `Fill`), read,
replaced by a revocation (`Rotate`) and deleted by hand (`HostDeletes`); and
the packet signing key, created under `O_EXCL` (`FindKey`, `MakeKey`, `FillKey`,
`LoadKey`). `at`, `mine` and `tries` say where each thread is in them.

`LoginGuard` composes both with the routes: `Ask`, `Allow`, `Verify`, `Failed`,
`Succeeded` (password), `Mint`, `Parse`, `Exchange` (OIDC), `Session`, `Issue`,
`Restart` of a process, possibly into single sign-on, and the clock `Tick`.
`tokens` are the cookies out there with the secret that signed them. Two
histories say what a property needs to know: `passed`, when the throttle let a
thread's request through, and `guesses`, those times of the requests that
presented a wrong credential since the last right one. Two more follow
revocations: `revoked`, the sessions handed out before the last one, and
`final`, whether nobody was about to write a first secret at that moment.
`Revoke` is `Rotate` with these histories, and a deletion by the host's owner
counts as a revocation that is not final.

`GuessesAreCapped` counts by the time of the throttle's answer and in stretches
shorter than the lockout, because the answer and the recorded failure are two
critical sections. A failure that was on its way when the lockout began is
recorded during it: it prolongs the lockout only if the failures still in the
window are a full set, and it does not survive the lockout's end, where `allow`
clears them all - so that a limit's worth of new requests is let through then.
For the same reason `LockoutsEnd` says "no later than" of a lockout, and
"exactly" where the failures still in the window are a full set.

### ReleasePacket, PacketVerifier and Timestamp

`PacketVerifier` is the offline verifier's three modes as operators over a set
of files: `PacketValid` (signature, anchor, hashes, certificate cross-checks,
pins, audit export), `ResultValid`, `CombinedValid`, and `ExitCode` with
`--strict`. `Timestamp` is `request_anchor` with each outcome, and the check of
a token. `ReleasePacket` is the builder as steps - `Begin` (permission and
certificate), `ReadFiles`, `Announce` (the `bundle.download` event), `Assemble`
(`certificate.issued`), `Sign`, `Label` (the key identifier, read again),
`Stamp`, `FallBack`, `Deliver` - next to jobs that `Finish` and are recorded by
`Record`, results and certificates pulled on their own, `Rotate`d keys, `Damage`
on disk, the clock and deaths. `EveryCopy` ranges over the copies of delivered
packets a recipient may be shown: a file replaced, with or without its hash put
right, a second derivative, another packet's facts or references, and with each
of these a signature dropped, borrowed, moved or a stranger's, and an anchor
dropped, borrowed, replaced or asked for anew.

Abstractions: a hash is the value hashed, so that SHA-256 has no collision is
assumed; a signature can be made only by the holder of its key; the bytes of a
token are reduced to the one part, if any, that is not as the strict parser
reads it; a result reads the clock and the key in one step, and so does a
certificate; `Record` appends `job.sanitize` and `release.terminal` in one step
and `Finish` includes `release.created`; copies are examined when every
download is at rest.

### How the modules fit together

`BatchDispatch`, `MatterAccess`, `ReleaseRequest`, `Intake` and `ReleasePacket`
take `append_event` as one atomic step that may raise. `AuditChain` is what
entitles them to: `IsLog` says a call that commits adds its event once, at the
end, and `RowsWithEvent` that the rows its caller staged are committed with it
or not at all. `BatchDispatch` and `ReleaseRequest` take one run of a worker as
a step with any of the outcomes done, refused and failed: `JobIsSettled` of
`EngineJob` says these are all there are and that one comes. `Intake` extends
the store rather than assume it.

## 4. Runs

| Run | Instance | What it shows |
|---|---|---|
| `release_sqlite` | release batch of 2, 1 process, 2 pool threads, 2 cancel requests, SQLite, 1 death, 1 raised call | Job row, Release row and chain agree, every child gets one outcome and at most one `release.terminal`, a running child is always owned, the boot heals before it serves |
| `batch_replicas` | batch of 2, 2 processes, 2 pool threads each, Postgres, 1 death, 1 lost claim or announcement | a child runs once and a batch is announced once although the second process's boot takes the first one's running children for orphans |
| `batch_live` | batch of 2, 1 process, 1 pool thread, 1 cancel, Postgres, 1 death, 1 raised call, fair | every child ends and the batch finishes with counts that are true, whatever fails first; a cancel leaves alone what was claimed |
| `audit_postgres` | 2 processes, 1 thread each, 3 appends each, 3 attempts, 1 death | the chain verifies, rows and event commit together, and the chain implements the log |
| `audit_sqlite` | 2 processes, 2 threads each, 1 append each, fair | each append returns or raises: the wait on the write lock is broken and the matter lock left |
| `access_sqlite` | 2 users, 4 requests of any kind, SQLite, 1 death, 1 raised append | a matter keeps an admin, no grant changes and no download is recorded on a permission lost meanwhile, each change and each original that leaves is in the chain |
| `release_request` | 2 requests, 1 token, Postgres, 2 deaths, 1 raised call, fair | a token authorizes one Job, its use is in the chain before the worker starts, every Release is settled once, by its handler or a boot |
| `engine_job` | every format with no mark, each one, each two; misnamed files; 4 policies, each decision and tool answer that matters; up to 2 faults; fair | what is published is complete, was accepted first, lost what was targeted, kept what was kept, says what survived, does not change when cleaned again; a Job has one outcome |
| `custody_intake` | two processes with uploads and a reader, one process with two uploads, or three command lines writing one file; files and object store; plain, under a volume key or KMS; both databases; 1 death, 1 fault; fair | rows and originals name each other, refusals under an envelope are true, the store is a write-once register, requests end and the service serves again |
| `login` | six sites: guessing (3 threads, two at one address and one at another, and for a second longer 2 threads at two addresses); first boot of two processes; secret deleted under single sign-on; restarts into it with failed writes; signing key | guessing is capped, lockouts are exact, sessions last until revoked and, but for the empty secret, no longer, one signing key |
| `release_packet` | up to 2 jobs and 2 downloads, 2 keys, 2 authorities of which 1 is pinned, each reply; key replacements, damage, results, certificates pulled on their own, deaths, altered copies | what is issued verifies, what verifies strictly is one issue, whole, and cites its own events; packet and result verify together only if of one moment |
| `airlock_directory` | the same | **violation**: see section 6 |

### Bounds, and why they are enough

- *BatchDispatch.* Every race of the dispatcher is between two threads over one
  row, or between the last two children over the batch. Two children give both;
  two cancels or two processes give each pair of a cancel, a task, a poll and a
  boot. One death at every point of a history reaches each pair of commits it
  can separate; one raised call reaches each retry. The finalizer's attempts
  and its degraded last append are the code's.
- *AuditChain.* `Attempts` is the code's 3 (`_APPEND_ATTEMPTS`). Exhausting
  them takes as many foreign inserts, so the other process needs three appends.
  `MaxCall` bounds the length of a history, not the code.
- *MatterAccess.* A matter loses its admins through two revokes; two grants
  before them make the second admin and the right to the original. Hence four
  requests and two users, one of whom creates the matter.
- *ReleaseRequest.* A token is fought over by two requests. The second death is
  what a boot interrupted half-way needs.
- *EngineJob.* A cleaner's effect on a mark depends on that mark, the plan, and
  for some on one other mark (a rebuild for a picture's location takes old
  revisions along; a malformed box makes the stripper raise), so pairs reach
  every such dependence. Faults do not look at the document: two of them on three
  documents are enough, so that a second one falls on the cleanup after the first.
- *Intake.* A writer races one other on a key; a third with other content makes
  a wrong comparison visible. The loop needs one upload that waits and one
  handler to close, the lock a second process. One death and one failed call at
  every point separate each pair of steps.
- *LoginGuard.* `MaxFailures` 2, `Window` 3, `Lockout` 2, and a clock of three
  seconds for three threads and of four for two, so that windows slide, lockouts
  end and sweeps fall between.
  `MaxSecrets` 4 and `MaxRestarts` 2 let each thread of a race write a secret
  of its own, and a revocation follow.
- *ReleasePacket.* Mixing takes two packets, of two jobs or of one; `seconds`,
  `rotations`, `damage`, `results` and `pulls` 1 each put one change at every
  point of a download.

### Properties restricted on purpose

- The parts of `ChildrenAccountedFor` that speak of events are about histories
  without a death, the part of `ActsAreLogged` about changes also without a
  raised append (the part about originals allows both); the part of
  `ReleasesAreSettled` about the handler's end, and `ReleaseSettles`, without a
  raised call. Outside those restrictions the code does lose what they promise:
  a death between the commit of a row and the append of its event leaves the
  row without the event, and nothing at boot looks for it.
- `TerminalIsFinal`, `HealedBeforeServing` and `ChildrenAccountedFor` are
  checked and proved for one process, which is what `dispatcher.py:18` asks of a deployment; `CountsAreTrue` on a
  plain batch, which is created in one transaction.
- `RowsNameOriginals` lets a death or a failed call leave an original without a
  row; `RefusalsAreTrue` is about the object store under an envelope.
- `NothingTargetedIsLeft` speaks of files that are what their name says, and
  not of `UngatedMarks`; `KeptStays` not of the losses named in `LostAnyway`
  and `LostInRebuild`; `SurvivorsDisclosed` not of `SilentActions`. Each of
  these sets is a list of what the code does, with the reason beside it.
- `ActsWithPermission` is about the moments a grant changes and a download is
  recorded. It says nothing of the moment the original is read: the code does
  not ask again, on either database (section 6).
- `SessionsLastAsPromised` exempts two kinds of session. One signed while some
  thread was still writing a first secret may be refused before it is revoked.
  One signed with the empty secret of a file not yet written may be honoured
  after it was revoked, if somebody was about to write a first secret at the
  revocation, or the host's owner deleted the file. Every other revoked session
  stays revoked, and after a revocation with no writer under way these do too.
- `FailuresAreLocked` and its companions hold per process, where the throttle
  lives.
- `IssuesVerify` exempts a packet caught between a signature and a key
  replacement, and one whose granted token was not as asked for (`WellMade`);
  `StrictMeansIssuedWhole` and `IssuesVerify` assume a recipient with the
  deployment's keys, the authority's certificate and the current schemas.

### Fairness

Only steps a thread takes by itself are fair, each weakly: a handler, a pool
task and the boot keep running once started; the worker ends because `run_job`
gives it a timeout; the poll loop polls; a dead process is restarted
(`compose.yaml`, `restart: unless-stopped`). No fairness makes a user send a
request, cancel a batch or grant anything, and none makes a call raise.
`AppendEnds` holds because each thread makes a bounded number of calls: Python's
`threading.Lock` is not fair, and with an endless stream of appends a thread
could wait for ever. `BusyTimeout` is a step of the waiting thread in
`AuditChain` and in `Intake`: SQLite's `busy_timeout` does fire, and it is what
ends the wait of a handler for one that waits for it. `EngineJob` asks for one
weak fairness over runner and worker together, `Intake` for one over all steps
that requests and boots take by themselves: as every such step brings its
request nearer its end, that is no more than "the machine does not stop".
`LoginGuard` and `ReleasePacket` have safety properties only and state none.

Deadlock is checked on `BatchDispatch`, whose poll loop never stops. The other
runs switch it off because their systems come to rest once every request is
answered; that none rests too early is what `AppendEnds`, `ReleaseSettles`,
`ReleasesAreSettled`, `IntakeGoesOn` and `JobIsSettled` say.

## 5. Proofs

All are about the specifications without fairness and hold for every value of
the constants that meets the named `ASSUME`s of the module: finite sets of
jobs, processes, users, requests or threads where something is counted, Boolean flags,
natural bounds, the documents, policies and tool answers of the engine, a
signing key where packets are signed, and where a person
signs in, that no identity provider's subject is the operator's name
(`principal_for` prefixes it). TLC evaluates those assumptions in every passing
run.

- `BatchDispatch_proofs`: `TypeCorrect`; `RunsAtMostOnce`, for any number of
  processes, deaths and raised calls, by `RunInv`: rows that do not exist are
  not touched (`RowsExist` - otherwise a second creation could reset a child to
  queued), and a thread between the claim and the launch is alone and nothing
  has been launched before it (`LaunchInv`); `AnnouncesAtMostOnce`, by
  `AnnounceInv`: at most one thread stands between the claim of `finished_utc`
  and the append, and while one does there is no event yet; `CancelsSpareClaimed`,
  by `StartedInv`: the guarded UPDATE of a cancel only finds rows that no task
  has left its queue for.

  The others have the hypothesis `Alone`, one process, which `dispatcher.py:18`
  asks of a deployment; with a second one whose boot takes running children for
  orphans each is false. `TerminalStaysFinal` rests on `AsleepInv` (until the
  boot is over the other threads rest, so it is alone with the rows) and
  `OwnInv` (once it serves, a running row belongs to the task that holds it, and
  what a task has in its session is no other outcome than the row's).
  `HealsBeforeServing` rests on `HealInv`: the reconciliation selected exactly
  the Releases that are behind their child and has their outcome in its session.
  `NoChildIsLost` is `ChildrenAccountedFor` by five invariants: `SettleInv` (a
  Release and its event are both untouched, or both settled with the child's
  outcome, and whoever is about to settle one is the only one), `OwnedInv` (a
  running child has a task), `RecordedInv` (an ended one has its event, or a
  task that still tries to append it), `AnnouncedInv`, `TriesInv`. Each of its
  hypotheses is one of the ways the code does lose something: `OneCancel` (on
  Postgres two overlapping cancels settle a child twice), a claim that does not
  raise (`dispatcher.py:205`), an announcement that does not raise, and
  `EnoughAttempts`, fewer raised appends than the finalizer has attempts.
  `CountsStayTrue` is about the batches that `create_batch` submits: with all
  children there from the start, `PlainInv` and `CancelledInv` say that a claim
  of `finished_utc` means that all have ended, and that the count of a cancel is
  that of its children. A release batch is created child by child, and there the
  property fails (section 6).
- `AuditChain_proofs`: `TypeCorrect`; `ChainAlwaysVerifies`, by `ChainInv`: the
  rows are numbered 0 to n-1, each links to the one before, and whatever tip a
  thread goes by, stale or not, links to a row that is there - a stale tip's
  number is taken, so nothing can be inserted from it;
  `NoCollisionWhenSerialized`, by `HoldInv` (who holds which lock where) and
  `TipInv`; `RowsCommitWithEvent`, by `CallInv`, which follows a call's rows
  from the session to the commit; `ChainImplementsLog`, by the above and by what
  `Entries` makes of one more row at the end.
- `MatterAccess_proofs`: `TypeCorrect`; `LastAdminStaysOnSqlite` and
  `ActsWithPermissionOnSqlite`, by `AccessInv`: between its check and its commit
  a handler owns the database, so what it checked still holds, and a delete
  about to happen leaves another admin. Both have `Serializable` as a
  hypothesis; section 6 says what happens without it, and what the second does
  not say. `ActsAreInTheChain` has none and holds on either database: by
  `TrailInv` a change that no event accounts for yet is one whose handler is
  about to append, and by `ServedInv` the downloads that are past their append,
  their originals gone or still to go, are no more than the chain has on record,
  user by user - each append adds one to both sides, and no step takes one from
  the chain.
- `ReleaseRequest_proofs`: `TypeCorrect`; `TokensAreOneShot` and
  `AlteringRunsAreAuthorized`, by `AuthInv`: while a handler has flushed its
  use row no other has, and once it moves on the row names its Job and the chain
  has `attest.used`. `consumed` does not occur in `AuthInv`: the guarantee rests
  on the table alone. `ReleasesSettleOnce`, by `ReleaseInv`, which follows a
  Release beside its Job and its handler, and `LeftInv`, which says what the
  boot has done at each of its stages and what it still has before it: a boot
  that dies half-way leaves a state from which the next one settles the rest.
- `EngineJob_proofs`: `TypeCorrect`; `BundlesAreComplete`, by an invariant that
  follows the worker's files: they are written in one order, and `result.json`
  after the last; `GateComesFirst` and, from the gate's definition,
  `NothingTargetedIsPublished` - for any cleaner whatever, because the gate
  reads the derivative again; `OneOutcome`, the safety half of the refinement.
  Of the pure modules these use the gate's verdict only, so they do not depend
  on the tables.

  Four more are about the tables, for every set of marks, combination of
  decisions and flags, and answer of `exiftool` and `qpdf`, where the run takes
  marks alone and in pairs. They rest on `AppliedInv`: behind the plan the bytes
  and the records are those `apply_actions` returned, for a Layer B rewrite
  finds nothing left of a mark the cleaner took. What is published is then one
  expression of the inputs (`PublishedOutcome`), and the rest are lemmas without
  steps of the system. `ByKind` and `ImplOf` say which cleaner ran, for every
  pair of a name and a format. `NothingTargetedRemains` adds to
  `NothingTargetedIsPublished` the values `exiftool` leaves behind in a PDF:
  under a bar on tooling what is published was rebuilt (`StrictPdf`,
  `RebuiltPdf`). `SurvivorsAreRecorded`: the second inspection finds no row the
  first did not, but for `pdf_incremental` (`CleanShrinks`, `NoNewRows`), each
  row that it finds has an action that is recorded, silent, or the policy's own
  `keep` (`RowCases`), and those that are refused are not there
  (`RefusedIsAbsent`). `ASecondCleanChangesNothing` is one lemma per cleaner
  (the `...Twice` lemmas), and `CleanersTakeNoMore` one per cleaner and flag of
  what it may take (the `...Keeps` lemmas), joined to the rows by `KeptRows`.
  Their assumptions are that a document has a name, a format and a set of marks,
  that the policy is one `plan_actions` knows (it raises for any other,
  `policies.py:415`), and which answers a tool can give: absent, failing, `ok`,
  and for `qpdf` a run that works once and fails once.
- `Intake_proofs`: `StoreIsWriteOnce`, the refinement of the register, by
  `StoreInv`: a file that is there and not whole has the one writer that created
  it (`OneFiller`), what a writer was told is what its key holds
  (`StoredIsHeld`), and the same for the key file (`OneKeyFiller`), so that
  every serving process has loaded the one key every envelope is sealed under
  (`Loaded`, `SealedUnder`); `TypeCorrect`, `RowsAndOriginals` and
  `NoFalseRefusals`, by `UploadInv`: on SQLite an upload between its check and
  its record holds the write lock (`LockHeld`), so that recording cannot time
  out, and its key is its own (`OwnKey`).
- `LoginGuard_proofs`: `TypesAreRight`; `OneKeyForAll`, by `KeyInv` (a torn key file has one
  thread that fills it; a whole one never changes), and `SessionsLast`, by
  `SecretInv` (what a thread is about to write was never in the file), `Lasting`
  (no thread is about to write the secret of a session that is out, so that a
  revoked one's does not come back unless it is the empty one), `FinalInv` (after
  a final revocation nobody writes a first secret, so that the empty one does
  not either), `RequestsInv` and `PastInv`.
  `LockoutsStayExact`, by `ThrottleInv`: what each method makes of a peer's
  failures and lockout is either older than before or one failure more, and a
  full set of failures is never without its lockout. `GuessesStayCapped`, by
  `CapsInv`, per process and peer: a lockout that is set outlasts by its length
  every request that had been let through before it (`Spaced`); the guesses of a
  stretch that is still running are no more than the failures recorded since it
  began and the threads about to record one (`Backed`); and so they and the
  threads still trying stay below the limit plus the crew.
- `ReleasePacket_proofs`: `PacketsIssuedVerify`, `StrictCopiesAreIssued`,
  `PacketCitesTheRecord`, `TogetherFromOneMoment` and `TypeCorrect`. The chain only grows and has one
  `job.sanitize` per job, with the derivative the job produced (`ChainInv`);
  each draft has in hand what its place implies, however the chain, the key and
  the disk have moved since (`Fits`), the packets delivered are such drafts at
  their end (`DeliveredInv`), and no two of them cite one event (`CitesInv`).
  What the verifier says of a delivered packet then follows from its
  definition: for `CitesTheRecord` from what an export that does not object
  implies, for `IssuesVerify` check by check. `StrictCopiesAreIssued` takes the
  altered copies together: none of the alterations changes which download a
  packet was made for, and a signature that verifies is one the deployment made
  (`ValueIsIssued`), so it covers the words of some issued packet
  (`SameWords`), and by `IssuerInv` - a packet names its download, and each
  download delivers once - of the very packet the copy was taken from
  (`SaysTheSame`); what it holds follows from the hashes (`HoldsTheSame`), and
  its date from the token's imprint (`DatedFacts`). The assumptions used besides
  the types of a site are that there is a signing key, and that the stranger's
  key is none of the deployment's.

Only model-checked: the liveness properties (`BatchEnds`, `AppendEnds`,
`ReleaseSettles`, `IntakeGoesOn`, the second half of `JobIsSettled`), which
need fairness and `ENABLED`, both out of the prover's reach. Every other property
of a passing run is a theorem, some under a hypothesis named above.

## 6. What the code does against its own words

`airlock_directory` exhibits one, entered under `findings`: the directory the
airlock writes is called "a complete, self-verifying packet on its own"
(`counselclear_airlock.py:509`), but its `release_result.json` comes from the
POST and carries the hash of a certificate stamped with that second, while the
packet ships a certificate of its own: unless both fall into one second the
verifier fails the directory. `get_release_result` calls itself a deterministic
projection (`main.py:2399`) for the same artifact, and the certificate of a
refused release is in the same position.

The others were met while modelling. They are reasons for the restrictions of
section 4, and no run is spent on them.

*Jobs and the chain.*

- A release batch is created one child per commit, after its own row
  (`main.py:2612`), so a poll in between finishes and announces it early
  (`dispatcher.py:457`: "the moment every child of this batch has left
  queued/running").
- Two overlapping cancels of a release batch append `release.terminal` twice
  for the same child on Postgres, as the second recognises "its" children by an
  error text (`main.py:2730`, `2736`).
- `put_acl`, `delete_acl` and the handlers that append twice take the matter
  lock without the write lock (`audit.py:79`), and can wait for a thread that
  has the two the other way round, until `busy_timeout`.
- On Postgres two admins can revoke each other (`acl.py:50`).
- A download asks for its permissions once, at its start. The original is read
  at `main.py:3385`, after the commits of two events (`3223`, `3230`), the
  signatures and up to two requests to the timestamp authority. A revoke
  committed in between does not stop it, on SQLite as on Postgres; that the
  download is in the chain by then is what `ActsAreLogged` shows.
- A call that raises between the Job's commit and `running` leaves the Job
  queued while the process serves (`main.py:1850`).
- An exception between the committed claim and the `try` leaves a child running
  (`dispatcher.py:205`).

*Engine.*

- Rows the plan keeps are lost nevertheless: comment anchors when changes are
  accepted, the list of external references, marked pictures inside OOXML, AI
  metadata of OpenDocument and EPUB, revisions of a PDF when a picture's
  location had to go; sound and film are always stripped of everything.
- The product path never asks `container_clean_refusal`, whose comment
  (`container_meta.py:124`) says such files "must never produce a 'clean'
  derivative": an encrypted PDF is published.
- A failed `exiftool` counts as a run of `exiftool`; `docx-cell-revisions` has
  no row in `findings.py`; `strip_pdf_image_gps` promises a table of offsets
  that only `qpdf` repairs; `_strip_moov_udta` loses a truncated tail.
- A misnamed container is inspected by its name and cleaned by its bytes. On sound
  and film the gate is blind. A title naming an AI vendor is never emptied.
- Production's `strip_if_authorized` on a provenance marker is neither gated
  nor recorded; keywords outside `privacy_only`'s short list survive without a
  record.
- A docker timeout kills the client and not the container.

*Store and upload.*

- A plain put whose reply is lost is sent again by the client and gets a
  conflict for its own content, where `storage.py:229` answers the same
  content with its reference; on files the loser of a race, or whoever comes after a death in the write,
  gets one for content that is identical, which
  `custody.py:62` calls idempotent.
- A death during the write of the volume key leaves a torn file that every
  later boot refuses.
- The upload's permission check blocks the event loop for as long as
  `busy_timeout`.

*Login.*

- A first boot of two processes, or a secret deleted under single sign-on, can
  sign sessions with a secret that is overwritten a moment later, or with the
  empty file in between (`config.py:156`).
- A revocation is not always final. Two first requests find no secret; one
  creates the file, a session is signed with the empty secret, the file is
  filled, and the operator revokes: if the second request only now opens the
  file, it truncates the rotated secret, and until its write the session signed
  with the empty one is honoured again. The route says that "every issued
  session token fails signature verification from now on" (`main.py:1611`).
- Deleting the file is called "the equivalent action" (`main.py:1617`) but
  reopens the window `rotate_cookie_secret` was written to close.
- Operator sessions outlive the switch to single sign-on by their lifetime.
- Identity-provider keys that cannot be fetched raise outside the handler's
  `except`: an error 500 that no throttle counts (`oidc.py:187`).
- `oidc.py:10` says the allowlist is case-insensitive; subjects are compared as
  they are.
- The throttle is per process and forgotten by a restart.

*Packet.*

- The key identifier is read after the signature: a key replaced in between
  mislabels it (`security.py:213`).
- `request_anchor` catches a list of exceptions that lacks those of
  `http.client` (`tsa.py:205`): a reply that breaks off in the middle fails the
  download, where the comment at `main.py:3348` has an outage never do so. The
  model has no such reply; a download that ends there is its `Die`.
- A granted token over another digest, or one the strict parser does not read,
  is not looked at by the client: the packet goes out and does not verify.
- Pins are of the current schema: a packet made under an older one does not
  hold them. Only the first derivative is hashed, and extra files are not
  refused. The anchor of a timestamped packet is outside the signed bytes.
- A packet can be pulled before `job.sanitize` is in the chain, and files that
  are damaged between a job's end and that event are recorded as they are.

## 7. Not modelled

Everything under "not_modelled" in `PROJECT.json` `components`, with its reason
there: the text detectors and the rewrite loop (data and statistics), servers
and command lines around the engine (stateless), the web client (React state
that nothing here depends on), migrations (run before the process serves),
skills and benchmarks (outside the service). In the written modules: `demo`
seeding, the retention purge, listing, envelope key rotation, JWKS caching, the
rendering comparison of `verify_render`, bounds of parsers on hostile input, the
airlock's calls one by one; the time a lock is held; and the isolation
anomalies of Postgres beyond READ COMMITTED's interleaving of statements.
