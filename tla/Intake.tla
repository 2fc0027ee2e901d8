------------------------------- MODULE Intake -------------------------------
(***************************************************************************)
(* How a document gets in: upload_document with its event loop, its        *)
(* permission check, the capped read, the scan, the store, the row and the *)
(* document.upload event (service/app/main.py), next to a synchronous      *)
(* handler that reads the database, and to the command lines that write    *)
(* bundles through the same write_once.                                    *)
(*                                                                         *)
(* upload_document is a coroutine: between two awaits it has its process's *)
(* event loop to itself, and a statement that waits for SQLite's write     *)
(* lock makes the whole loop wait.  A synchronous handler runs on a pool   *)
(* thread, but its session is closed by a task of the loop.                *)
(***************************************************************************)
EXTENDS CustodyStore

CONSTANTS
  Reader,        \* synchronous handlers that read: one request each
  ReaderProc,    \* the process of each
  Databases,     \* subset of {"sqlite", "postgres"}
  Bodies         \* what may be uploaded: [size, depth, clam]

Upload == {w \in Writer : ProcOf[w] \notin CommandLine}
Request == Upload \cup Reader
NoRequest == "no request"

MaxArchiveDepth == 2
ClamAnswers == {"not installed", "clean", "found", "error", "timeout"}

ASSUME IntakeAssumption ==
  /\ ReaderProc \in [Reader -> Proc]
  /\ Databases \subseteq {"sqlite", "postgres"}
  /\ Bodies \subseteq [size : {"under", "over"}, depth : 0..MaxArchiveDepth + 1, clam : ClamAnswers]
  /\ NoRequest \notin Request /\ Upload \cap Reader = {}
  \* _uuid: every upload has a key of its own.
  /\ \A u \in Upload, w \in Writer : KeyOf[u] = KeyOf[w] => u = w

VARIABLES
  database,
  body,      \* what each upload brings
  loop,      \* the request that occupies each process's event loop
  tx,        \* the request that owns SQLite's write lock
  pc,        \* where each request stands
  docs       \* the committed Document rows, with their document.upload events

intakeVars == <<database, body, loop, tx, pc, docs>>
vars == <<storeVars, intakeVars>>

Ended == {"done", "closed", "dead"}
Places == {"new", "blocked", "reading", "scanning", "storing", "recording", "closing"} \cup Ended

ProcessOf(r) == IF r \in Reader THEN ReaderProc[r] ELSE ProcOf[r]

Init ==
  /\ StoreInit
  /\ database \in Databases
  /\ body \in [Upload -> Bodies]
  /\ \A u \in Upload : ProcOf[u] \notin deployment.procs => body[u] = CHOOSE b \in Bodies : TRUE
  /\ loop = [p \in Proc |-> NoRequest]
  /\ tx = NoRequest
  /\ pc = [r \in Request |-> "new"]
  /\ docs = {}

frame == <<storeVars, database, body>>

Move(r, label) == pc' = [pc EXCEPT ![r] = label]
LoopFree(r) == loop[ProcessOf(r)] = NoRequest
OnLoop(r) == loop[ProcessOf(r)] = r
Occupy(r) == loop' = [loop EXCEPT ![ProcessOf(r)] = r]
Yield(r) == loop' = [loop EXCEPT ![ProcessOf(r)] = NoRequest]
Serves(r) == boot[ProcessOf(r)] = "up"

Lockable == database = "postgres" \/ tx = NoRequest

Lock(r) == tx' = IF database = "sqlite" THEN r ELSE tx
Unlock(r) == tx' = IF tx = r THEN NoRequest ELSE tx

----------------------------------------------------------------------------
(* upload_document.                                                        *)

\* Mutant: the permission check is committed, so that nobody waits for an upload.
RequireCommits(u) ==
  /\ pc[u] = "new" /\ Serves(u) /\ LoopFree(u)
  /\ IF Lockable THEN Move(u, "reading") /\ UNCHANGED loop
     ELSE Occupy(u) /\ Move(u, "blocked")
  /\ UNCHANGED <<frame, tx, docs>>

\* _require: its SELECT opens the transaction.  While another session owns
\* the write lock the statement waits, and the event loop with it.
Require(u) ==
  /\ pc[u] = "new" /\ Serves(u) /\ LoopFree(u)
  /\ IF Lockable THEN Lock(u) /\ Move(u, "reading") /\ UNCHANGED loop
     ELSE Occupy(u) /\ Move(u, "blocked") /\ UNCHANGED tx
  /\ UNCHANGED <<frame, docs>>

\* The lock comes free before busy_timeout.
GetLock(u) ==
  /\ pc[u] = "blocked" /\ Lockable
  /\ Lock(u) /\ Yield(u) /\ Move(u, "reading")
  /\ UNCHANGED <<frame, docs>>

\* Mutant: no busy_timeout, the statement waits as long as it takes.
BusyTimeoutNever(u) == FALSE /\ UNCHANGED vars

\* busy_timeout: the statement raises and the request ends.
BusyTimeout(u) ==
  /\ pc[u] = "blocked" /\ ~Lockable
  /\ Yield(u) /\ Move(u, "closed")
  /\ UNCHANGED <<frame, tx, docs>>

\* _read_capped: the awaits are over, or the cap is passed (413).
Read(u) ==
  /\ pc[u] = "reading" /\ LoopFree(u)
  /\ Move(u, IF body[u].size = "over" THEN "closing" ELSE "scanning")
  /\ UNCHANGED <<frame, loop, tx, docs>>

\* DepthAndClamScanner.scan: the depth of nested archives, then clamscan when
\* it is installed.
Clean(b) == b.depth <= MaxArchiveDepth /\ b.clam \in {"not installed", "clean"}

\* The scan, and from here no await: the loop is this upload's to the end.
Scan(u) ==
  /\ pc[u] = "scanning" /\ LoopFree(u)
  /\ IF Clean(body[u])
     THEN Occupy(u) /\ Move(u, "storing") /\ BeginWrite(u)
     ELSE Move(u, "closing") /\ UNCHANGED <<loop, storeVars>>
  /\ UNCHANGED <<database, body, tx, docs>>

\* storage.write_once returns, or raises: 409.
Stored(u) ==
  /\ pc[u] = "storing" /\ step[u] \in {"stored", "refused", "raised"}
  /\ IF step[u] = "stored" THEN Move(u, "recording") /\ UNCHANGED loop
     ELSE Move(u, "closing") /\ Yield(u)
  /\ UNCHANGED <<frame, tx, docs>>

\* append_event commits the row and its event.
Record(u) ==
  /\ pc[u] = "recording" /\ (tx = u \/ Lockable)
  /\ docs' = docs \cup {u}
  /\ Unlock(u) /\ Yield(u) /\ Move(u, "done")
  /\ UNCHANGED frame

\* append_event raises, or waits for a lock it does not own until the timeout.
RecordFails(u) ==
  /\ pc[u] = "recording"
  /\ \/ Fault
     \/ tx # u /\ ~Lockable /\ UNCHANGED faults
  /\ Yield(u) /\ Move(u, "closing")
  /\ UNCHANGED <<deployment, objects, keyfile, boot, kek, step, crashes>>
  /\ UNCHANGED <<database, body, tx, docs>>

\* The session of a request that was refused is closed by a task of the loop.
Close(r) ==
  /\ pc[r] = "closing" /\ LoopFree(r)
  /\ Unlock(r) /\ Move(r, "closed")
  /\ UNCHANGED <<frame, loop, docs>>

----------------------------------------------------------------------------
(* A synchronous handler that reads.                                       *)

\* Its thread may wait for the lock; the loop goes on meanwhile.
ReadRows(r) ==
  /\ r \in Reader /\ pc[r] = "new" /\ Serves(r) /\ Lockable
  /\ Lock(r) /\ Move(r, "closing")
  /\ UNCHANGED <<frame, loop, docs>>

----------------------------------------------------------------------------
UploadStep(u) ==
  Require(u) \/ GetLock(u) \/ BusyTimeout(u) \/ Read(u) \/ Scan(u) \/ Stored(u) \/ Record(u)

StoreStep ==
  /\ \/ \E w \in Writer : WriteStep(w)
     \/ \E p \in Proc : BootStep(p)
  /\ UNCHANGED intakeVars

StoreFault ==
  /\ \/ \E w \in Writer : WriteFault(w)
     \/ \E p \in Proc : FillKeyFails(p)
  /\ UNCHANGED intakeVars

\* A command line starts to write its bundle.
StartBundle ==
  /\ \E w \in Writer \ Upload : BeginWrite(w)
  /\ UNCHANGED intakeVars

\* The requests of a process die with it, and the database rolls them back.
Crash(p) ==
  /\ Dies(p)
  /\ loop' = [loop EXCEPT ![p] = NoRequest]
  /\ tx' = IF tx \in Request /\ ProcessOf(tx) = p THEN NoRequest ELSE tx
  /\ pc' = [r \in Request |->
              IF ProcessOf(r) = p /\ pc[r] \notin Ended \cup {"new"} THEN "dead" ELSE pc[r]]
  /\ UNCHANGED <<database, body, docs>>

\* What goes on by itself: tasks of a loop, statements and their timeouts,
\* file and network calls, and processes that are started again.
Progress ==
  \/ \E u \in Upload : UploadStep(u)
  \/ \E r \in Reader : ReadRows(r)
  \/ \E r \in Request : Close(r)
  \/ StoreStep

Next ==
  \/ Progress \/ StartBundle
  \/ StoreFault \/ \E u \in Upload : RecordFails(u)
  \/ \E p \in Proc : Crash(p)

Spec == Init /\ [][Next]_vars

FairSpec == Spec /\ WF_vars(Progress)

----------------------------------------------------------------------------
TypeOK ==
  /\ StoreTypeOK
  /\ database \in Databases /\ body \in [Upload -> Bodies]
  /\ loop \in [Proc -> Request \cup {NoRequest}]
  /\ tx \in Request \cup {NoRequest}
  /\ pc \in [Request -> Places]
  /\ docs \subseteq Upload

\* A committed row names an original that is there, whole, with the content
\* that was uploaded, and that every process which serves can open: whatever
\* dies or fails, and whichever replica drew the volume key.
RowHasOriginal ==
  \A u \in docs :
    /\ At(u) # NoFile /\ At(u).whole /\ At(u).data = DataOf[u]
    /\ \A p \in Servers : boot[p] = "up" => Opens(p, At(u))

\* An object no row names is left by a death or a failed call alone: never by
\* a lock timeout, a refused body or a scan, since the permission check takes
\* the lock the row will need before anything is stored.
StoredIsNamed ==
  (crashes = 0 /\ faults = 0) =>
    \A u \in Upload : pc[u] \in Ended /\ At(u) # NoFile => u \in docs

\* Rows and originals name each other: no row without an original that can be
\* served, and no original without its row but by a death or a failed call.
RowsNameOriginals == RowHasOriginal /\ StoredIsNamed

\* Under an envelope the object store refuses an upload only when the key
\* holds other content: a put whose reply was lost and that is sent again is
\* recognised by its plaintext.
RefusalsAreTrue ==
  deployment.mode = "s3" /\ deployment.sealed # "no" =>
    \A u \in Upload : step[u] = "refused" => At(u).data # DataOf[u]

\* Every request ends, although an upload that waits for the write lock keeps
\* the event loop its owner needs to give it back.
RequestsEnd == \A r \in Request : (pc[r] \notin Ended \cup {"new"}) ~> (pc[r] \in Ended)

\* A process comes up, next to others that boot on the same empty volume,
\* unless one died while it wrote the key file.
ServesAgain ==
  \A p \in Proc \ CommandLine :
    (p \in Servers /\ boot[p] # "up") ~> (boot[p] = "up" \/ (KeyTorn /\ crashes > 0))

\* Nobody waits for ever, neither for the lock nor for the key file.
IntakeGoesOn == RequestsEnd /\ ServesAgain

\* The store implements the register: what a key holds is whole and never
\* changes again, and "stored" is said of one's own content only.
Register == INSTANCE WriteOnce WITH
  Empty <- NoFile,
  held <- [k \in Key |-> IF objects[k] # NoFile /\ objects[k].whole THEN objects[k].data ELSE NoFile],
  answer <- [w \in Writer |-> IF step[w] = "stored" THEN "stored"
                              ELSE IF step[w] \in {"refused", "raised"} THEN "raised" ELSE "none"]
IsWriteOnce == Register!Spec
=============================================================================
