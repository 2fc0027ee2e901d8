------------------------ MODULE BatchDispatch_proofs ------------------------
(***************************************************************************)
(* What BatchDispatch guarantees for every set of children, processes and  *)
(* requests, on either database and with any crashes and raised calls.     *)
(***************************************************************************)
EXTENDS BatchDispatch, FiniteSetTheorems, TLAPS

\* A count of children is a natural number.
LEMMA TallyIsNat == ASSUME NEW S \in SUBSET Job PROVE Cardinality(S) \in Nat
BY JobAssumption, FS_Subset, FS_CardinalityType

\* Each kind of thread is an actor.
LEMMA ActorKinds ==
  /\ Tasks \subseteq Actor /\ Pollers \subseteq Actor
  /\ Boots \subseteq Actor /\ Cancels \subseteq Actor
  /\ \A a \in Tasks : a.id \in Job
  /\ \A a \in Actor : a.proc \in Proc
BY DEF Actor, Tasks, Pollers, Boots, Cancels

LEMMA TypeInit == Init => TypeOK
BY FlagAssumption DEF Init, TypeOK, PC, Status, Terminal

LEMMA TypeCreate ==
  ASSUME TypeOK, NEW p \in Proc, Create(p)
  PROVE  TypeOK'
BY DEF TypeOK, Create, CreateBatch, CreateReleaseBatch, Status, chain, local,
       tally, rows

LEMMA TypeCheck ==
  ASSUME TypeOK, NEW a \in Actor, Check(a)
  PROVE  TypeOK'
<1>1. AfterCheck(a) \in PC
  BY DEF AfterCheck, PC
<1>2. CASE Count(a)
  BY <1>1, <1>2 DEF TypeOK, Count, Go, Hold, Commit, rows, chain, local, tally, PC
<1>3. CASE ClaimBatch(a)
  BY <1>1, <1>3 DEF TypeOK, ClaimBatch, Go, Commit, chain, local, tally, PC
<1>4. CASE Announce(a)
  <2>1. \A s \in Status : Tally(s) \in Nat
    BY TallyIsNat DEF Tally
  <2>. QED
    BY <1>1, <1>4, <2>1 DEF TypeOK, Announce, Go, rows, local, tally, PC, Status, Terminal
<1>. QED  BY <1>2, <1>3, <1>4 DEF Check

\* What sync_release writes is a status.
LEMMA SyncReleaseType ==
  ASSUME TypeOK, NEW a \in Actor, NEW j \in Job, SyncRelease(a, j)
  PROVE  /\ release' \in [Job -> Status \cup {"none"}]
         /\ evRelease' \in [Job -> Seq(Status)]
<1>1. Seen(a, j) \in Status
  BY DEF TypeOK, Seen
<1>2. CASE release[j] = "none"
  BY <1>2 DEF TypeOK, SyncRelease
<1>3. CASE release[j] # "none"
  <2>1. /\ release' = [release EXCEPT ![j] = Seen(a, j)]
        /\ evRelease' = [evRelease EXCEPT ![j] = Append(evRelease[j], Seen(a, j))]
    BY <1>3 DEF SyncRelease
  <2>. QED
    BY <1>1, <2>1 DEF TypeOK
<1>. QED  BY <1>2, <1>3

LEMMA TypeSync ==
  ASSUME TypeOK, NEW a \in Actor, SyncEach(a)
  PROVE  TypeOK'
<1>1. PICK j \in ids[a] :
        /\ SyncRelease(a, j)
        /\ ids' = [ids EXCEPT ![a] = @ \ {j}]
        /\ pc' = pc \/ Go(a, "count") \/ Go(a, "up")
  BY DEF SyncEach
<1>2. j \in Job
  BY DEF TypeOK
<1>3. /\ release' \in [Job -> Status \cup {"none"}]
      /\ evRelease' \in [Job -> Seq(Status)]
  BY <1>1, <1>2, SyncReleaseType
<1>4. pc' \in [Actor -> PC] /\ ids' \in [Actor -> SUBSET Job]
  BY <1>1 DEF TypeOK, Go, PC
<1>. QED
  BY <1>3, <1>4 DEF TypeOK, SyncEach, Commit, tally

LEMMA TypeRaise ==
  ASSUME TypeOK, NEW a \in Actor, Raise(a)
  PROVE  TypeOK'
<1>1. AfterCheck(a) \in PC
  BY DEF AfterCheck, PC
<1>2. CASE AnnounceRaises(a)
  BY <1>1, <1>2 DEF TypeOK, AnnounceRaises, Fault, Go, rows, chain, local
<1>3. CASE CountRaises(a)
  BY <1>1, <1>3 DEF TypeOK, CountRaises, Fault, Go, Rollback, rows, chain, local
<1>4. CASE StageRaises(a)
  <2>1. session' \in [Actor -> [Job -> Status \cup {"expired"}]]
    BY <1>4 DEF TypeOK, StageRaises, Remember
  <2>2. pc' \in [Actor -> PC]
    BY <1>4 DEF TypeOK, StageRaises, Go, PC
  <2>3. faults' \in Nat /\ tx' \in Actor \cup {NoActor}
    BY <1>4 DEF TypeOK, StageRaises, Fault, Commit
  <2>. QED
    BY <1>4, <2>1, <2>2, <2>3 DEF TypeOK, StageRaises, rows, chain
<1>6. CASE ClaimRaises(a)
  BY <1>6 DEF TypeOK, ClaimRaises, Fault, Go, rows, chain, local, PC
<1>7. CASE FinalizeRaises(a)
  <2>1. session' \in [Actor -> [Job -> Status \cup {"expired"}]]
    BY <1>7 DEF TypeOK, FinalizeRaises, Remember
  <2>2. tries' \in [Actor -> Nat]
    <3>1. \/ tries' = [tries EXCEPT ![a] = tries[a] + 1]
          \/ tries' = [tries EXCEPT ![a] = 0]
      BY <1>7, Zenon DEF FinalizeRaises
    <3>2. tries \in [Actor -> Nat]
      BY DEF TypeOK
    <3>. QED  BY <3>1, <3>2
  <2>3. pc' \in [Actor -> PC]
    BY <1>7 DEF TypeOK, FinalizeRaises, Go, PC
  <2>. QED
    BY <1>7, <2>1, <2>2, <2>3 DEF TypeOK, FinalizeRaises, Fault, rows, chain
<1>5. CASE CancelRaises(a)
  BY <1>5 DEF TypeOK, CancelRaises, Fault, Go, Rollback, rows, chain, PC
<1>. QED  BY <1>2, <1>3, <1>4, <1>5, <1>6, <1>7 DEF Raise

LEMMA TypeTask ==
  ASSUME TypeOK, NEW a \in Tasks, TaskStep(a)
  PROVE  TypeOK'
<1>. a \in Actor /\ a.id \in Job
  BY ActorKinds
<1>1. CASE ClaimJob(a)
  BY <1>1 DEF TypeOK, ClaimJob, Go, chain, local, tally, PC, Status
<1>2. CASE LoadJob(a)
  BY <1>2 DEF TypeOK, LoadJob, Go, Hold, Remember, rows, chain, tally, PC
<1>3. CASE Execute(a)
  <2>1. status' \in [Job -> Status] /\ runs' \in [Job -> Nat]
    BY <1>3 DEF TypeOK, Execute, Status
  <2>2. session' \in [Actor -> [Job -> Status \cup {"expired"}]]
    BY <1>3 DEF TypeOK, Execute, Remember, Status
  <2>. QED
    BY <1>3, <2>1, <2>2 DEF TypeOK, Execute, Go, Commit, chain, PC
<1>4. CASE SyncJob(a)
  BY <1>4 DEF TypeOK, SyncJob, Go, Remember, chain, tally, PC, Status
<1>5. CASE Backstop(a)
  BY <1>5 DEF TypeOK, Backstop, Go, Remember, chain, tally, PC, Status, Terminal
<1>6. CASE AppendChildAudit(a)
  BY <1>6 DEF TypeOK, AppendChildAudit, Seen, Go, rows, tally, PC
<1>7. CASE FinalizeRelease(a)
  <2>1. /\ release' \in [Job -> Status \cup {"none"}]
        /\ evRelease' \in [Job -> Seq(Status)]
    BY <1>7, SyncReleaseType DEF FinalizeRelease
  <2>. QED
    BY <1>7, <2>1 DEF TypeOK, FinalizeRelease, Go, Hold, Commit, tally, PC
<1>. QED
  BY <1>1, <1>2, <1>3, <1>4, <1>5, <1>6, <1>7 DEF TaskStep

LEMMA TypeCancel ==
  ASSUME TypeOK, NEW a \in Cancels, CancelSelect(a) \/ CancelStep(a)
  PROVE  TypeOK'
<1>. a \in Actor
  BY ActorKinds
<1>1. CASE CancelSelect(a)
  BY <1>1 DEF TypeOK, CancelSelect, Go, Hold, rows, chain, tally, PC
<1>2. CASE CancelUpdate(a)
  <2>1. Cardinality(Flipped(a)) \in Nat
    BY TallyIsNat DEF Flipped, TypeOK
  <2>. QED
    BY <1>2, <2>1 DEF TypeOK, CancelUpdate, Flipped, Go, Commit, local, tally,
       PC, Status, Terminal
<1>3. CASE CancelRequery(a)
  BY <1>3 DEF TypeOK, CancelRequery, Go, Hold, rows, chain, tally, PC
<1>. QED  BY <1>1, <1>2, <1>3 DEF CancelStep

LEMMA TypeBoot ==
  ASSUME TypeOK, NEW a \in Boots, BootStep(a)
  PROVE  TypeOK'
<1>. a \in Actor
  BY ActorKinds
<1>1. CASE SweepSelect(a)
  BY <1>1 DEF TypeOK, SweepSelect, Orphans, Go, Hold, rows, chain, tally, PC
<1>2. CASE SweepMark(a)
  BY <1>2 DEF TypeOK, SweepMark, Go, Commit, chain, local, tally, PC, Status,
     Terminal
<1>3. CASE Reconcile(a)
  <2>1. tx' \in Actor \cup {NoActor} /\ pc' \in [Actor -> PC]
    BY <1>3 DEF TypeOK, Reconcile, Go, Hold, Commit, PC
  <2>2. /\ ids' \in [Actor -> SUBSET Job]
        /\ session' \in [Actor -> [Job -> Status \cup {"expired"}]]
    BY <1>3 DEF TypeOK, Reconcile
  <2>. QED
    BY <1>3, <2>1, <2>2 DEF TypeOK, Reconcile, rows, chain, tally
<1>. QED  BY <1>1, <1>2, <1>3 DEF BootStep

LEMMA TypeStep == TypeOK /\ [Next]_vars => TypeOK'
<1>. SUFFICES ASSUME TypeOK, [Next]_vars PROVE TypeOK'
  OBVIOUS
<1>1. ASSUME NEW p \in Proc, Crash(p) PROVE TypeOK'
  BY <1>1 DEF TypeOK, Crash, rows, chain, PC
<1>2. ASSUME NEW j \in Job, CreateChild(j) PROVE TypeOK'
  BY <1>2 DEF TypeOK, CreateChild, chain, tally, Status
<1>3. CASE CreateRaises
  BY <1>3 DEF TypeOK, CreateRaises, Fault, rows, chain
<1>4. ASSUME NEW a \in Pollers, Poll(a) PROVE TypeOK'
  BY <1>4 DEF TypeOK, Poll, rows, chain, local, tally, PC
<1>5. CASE UNCHANGED vars
  BY <1>5 DEF TypeOK, vars, rows, chain, local, tally
<1>. QED
  BY <1>1, <1>2, <1>3, <1>4, <1>5, TypeCreate, TypeCheck, TypeSync,
     TypeRaise, TypeTask, TypeCancel, TypeBoot DEF Next

\* Type correctness of the dispatcher (BatchDispatch!TypeOK), for every
\* instance.
THEOREM TypeCorrect == Spec => []TypeOK
BY TypeInit, TypeStep, PTL DEF Spec

----------------------------------------------------------------------------
(***************************************************************************)
(* Single execution.  That a child runs at most once is not inductive: it  *)
(* needs that a task between the claim and the launch is the only one for  *)
(* its child, that nothing was launched for a child still to be claimed,   *)
(* and that a thread only ever writes rows that exist, so that creating    *)
(* the batch cannot put a finished child back to "queued".                 *)
(***************************************************************************)
Owning(a, j) == a.id = j /\ pc[a] \in {"claimed", "loaded"}

Working == {"pending", "claimed", "loaded", "executing", "broken"}

RowsExist ==
  /\ batch = "absent" => creator = NoProc /\ \A j \in Job : status[j] = "absent"
  /\ \A a \in Actor : \A j \in ids[a] : status[j] # "absent"
  /\ \A a \in Tasks : pc[a] \in Working => status[a.id] # "absent"

LaunchInv ==
  \A j \in Job :
    /\ runs[j] <= 1
    /\ status[j] \in {"absent", "queued"} =>
         runs[j] = 0 /\ \A a \in Tasks : ~Owning(a, j)
    /\ \A a \in Tasks : Owning(a, j) => runs[j] = 0
    /\ \A a, b \in Tasks : Owning(a, j) /\ Owning(b, j) => a = b

RunInv == TypeOK /\ RowsExist /\ LaunchInv

\* A step that leaves statuses and launches alone, selects only rows that
\* exist, and moves no task closer to a launch.
LEMMA RunFrame ==
  ASSUME RunInv, status' = status, runs' = runs,
         batch' = batch \/ batch' # "absent",
         creator' \in {creator, NoProc} \/ batch' # "absent",
         \A a \in Actor : \A j \in ids'[a] : j \in ids[a] \/ status[j] # "absent",
         \A a \in Tasks : pc'[a] \in Working =>
            pc[a] \in Working \/ status[a.id] # "absent",
         \A a \in Tasks : pc'[a] \in {"claimed", "loaded"} =>
            pc[a] \in {"claimed", "loaded"}
  PROVE  RowsExist' /\ LaunchInv'
<1>1. RowsExist'
  BY DEF RunInv, RowsExist
<1>2. LaunchInv'
  BY DEF RunInv, LaunchInv, Owning
<1>. QED  BY <1>1, <1>2

\* A step that writes statuses of rows that exist.
LEMMA RowsWrite ==
  ASSUME RunInv, batch' = batch, creator' = creator, ids' = ids,
         \A j \in Job : status[j] # "absent" => status'[j] # "absent",
         status' = status \/ batch # "absent",
         \A a \in Tasks : pc'[a] \in Working => pc[a] \in Working
  PROVE  RowsExist'
<1>1. \A a \in Actor : \A j \in ids[a] : j \in Job
  BY DEF RunInv, TypeOK
<1>. QED  BY <1>1, ActorKinds DEF RunInv, RowsExist

LEMMA RunCreate ==
  ASSUME RunInv, NEW p \in Proc, Create(p)
  PROVE  RowsExist' /\ LaunchInv'
<1>1. CASE CreateBatch(p)
  <2>1. \A j \in Job : status'[j] = "queued"
    BY <1>1 DEF CreateBatch
  <2>2. \A j \in Job : status[j] = "absent"
    BY <1>1 DEF RunInv, RowsExist, CreateBatch
  <2>3. RowsExist'
    BY <1>1, <2>1, ActorKinds DEF RunInv, TypeOK, RowsExist, CreateBatch, local
  <2>4. LaunchInv'
    BY <1>1, <2>1, <2>2 DEF RunInv, LaunchInv, Owning, CreateBatch, tally
  <2>. QED  BY <2>3, <2>4
<1>2. CASE CreateReleaseBatch(p)
  BY <1>2, RunFrame DEF CreateReleaseBatch, tally
<1>. QED  BY <1>1, <1>2 DEF Create

LEMMA RunCheck ==
  ASSUME RunInv, NEW a \in Actor, Check(a)
  PROVE  RowsExist' /\ LaunchInv'
<1>1. /\ status' = status /\ runs' = runs /\ ids' = ids /\ creator' = creator
      /\ batch' = batch \/ batch' = "finished"
  BY DEF Check, Count, ClaimBatch, Announce, rows, local, tally
<1>2. AfterCheck(a) \notin Working
  BY DEF AfterCheck, Working
<1>3. \A b \in Actor : pc'[b] = pc[b] \/ pc'[b] \notin Working
  BY <1>2 DEF RunInv, TypeOK, Check, Count, ClaimBatch, Announce, Go, Working
<1>. QED  BY <1>1, <1>3, ActorKinds, RunFrame DEF Working

LEMMA RunSync ==
  ASSUME RunInv, NEW a \in Actor, SyncEach(a)
  PROVE  RowsExist' /\ LaunchInv'
<1>1. status' = status /\ runs' = runs /\ batch' = batch /\ creator' = creator
  BY DEF SyncEach, tally
<1>2. \A b \in Actor : ids'[b] \subseteq ids[b]
  BY DEF RunInv, TypeOK, SyncEach
<1>3. \A b \in Actor : pc'[b] = pc[b] \/ pc'[b] \notin Working
  BY DEF RunInv, TypeOK, SyncEach, Go, Working
<1>. QED  BY <1>1, <1>2, <1>3, ActorKinds, RunFrame DEF Working

LEMMA RunRaise ==
  ASSUME RunInv, NEW a \in Actor, Raise(a)
  PROVE  RowsExist' /\ LaunchInv'
<1>1. status' = status /\ runs' = runs /\ batch' = batch /\ creator' = creator
  BY DEF Raise, AnnounceRaises, CountRaises, StageRaises, ClaimRaises,
     FinalizeRaises, CancelRaises, rows, local
<1>2. \A b \in Actor : ids'[b] \subseteq ids[b]
  BY DEF RunInv, TypeOK, Raise, AnnounceRaises, CountRaises, StageRaises,
     ClaimRaises, FinalizeRaises, CancelRaises, local
<1>3. AfterCheck(a) \notin Working
  BY DEF AfterCheck, Working
<1>4. \/ pc' = pc
      \/ Go(a, AfterCheck(a)) \/ Go(a, "idle") \/ Go(a, "over")
      \/ Go(a, "release") \/ Go(a, "count")
      \/ pc[a] \in Working /\ Go(a, "broken")
  <2>1. CASE AnnounceRaises(a) \/ CountRaises(a)
    BY <2>1 DEF AnnounceRaises, CountRaises
  <2>2. CASE StageRaises(a) \/ ClaimRaises(a)
    BY <2>2 DEF StageRaises, ClaimRaises, Working
  <2>3. CASE FinalizeRaises(a)
    <3>1. CASE pc[a] = "audit"
      BY <2>3, <3>1, Zenon DEF FinalizeRaises
    <3>2. CASE pc[a] # "audit"
      BY <2>3, <3>2, Zenon DEF FinalizeRaises
    <3>. QED  BY <3>1, <3>2
  <2>4. CASE CancelRaises(a)
    BY <2>4 DEF CancelRaises
  <2>. QED  BY <2>1, <2>2, <2>3, <2>4 DEF Raise
<1>5. \A b \in Actor :
        \/ pc'[b] = pc[b]
        \/ pc'[b] \notin Working
        \/ pc[b] \in Working /\ pc'[b] = "broken"
  <2>1. pc \in [Actor -> PC]
    BY DEF RunInv, TypeOK
  <2>2. CASE pc' = pc
    BY <2>2
  <2>3. CASE Go(a, AfterCheck(a))
    BY <1>3, <2>1, <2>3 DEF Go
  <2>4. CASE Go(a, "idle") \/ Go(a, "over") \/ Go(a, "release") \/ Go(a, "count")
    BY <2>1, <2>4 DEF Go, Working
  <2>5. CASE pc[a] \in Working /\ Go(a, "broken")
    BY <2>1, <2>5 DEF Go
  <2>. QED  BY <1>4, <2>2, <2>3, <2>4, <2>5
<1>. QED  BY <1>1, <1>2, <1>5, ActorKinds, RunFrame DEF Working

LEMMA RunTask ==
  ASSUME RunInv, NEW a \in Tasks, TaskStep(a)
  PROVE  RowsExist' /\ LaunchInv'
<1>. a \in Actor /\ a.id \in Job /\ Tasks \subseteq Actor
  BY ActorKinds
<1>. pc \in [Actor -> PC] /\ status \in [Job -> Status] /\ runs \in [Job -> Nat]
  BY DEF RunInv, TypeOK
<1>1. CASE ClaimJob(a)
  <2>1. RowsExist'
    <3>1. \A j \in Job : status[j] # "absent" => status'[j] # "absent"
      BY <1>1 DEF ClaimJob
    <3>2. status' = status \/ batch # "absent"
      BY <1>1 DEF RunInv, RowsExist, ClaimJob, Claimable
    <3>3. \A b \in Tasks : pc'[b] \in Working => pc[b] \in Working
      BY <1>1 DEF ClaimJob, Go, Working
    <3>. QED
      BY <1>1, <3>1, <3>2, <3>3, RowsWrite DEF ClaimJob, local
  <2>2. LaunchInv'
    BY <1>1 DEF RunInv, LaunchInv, Owning, ClaimJob, Go, Claimable, tally
  <2>. QED  BY <2>1, <2>2
<1>2. CASE LoadJob(a)
  BY <1>2, RunFrame DEF LoadJob, Go, Working, rows, tally
<1>3. CASE Execute(a)
  <2>1. RowsExist'
    BY <1>3 DEF RunInv, RowsExist, Execute, Go, Working
  <2>2. LaunchInv'
    BY <1>3 DEF RunInv, LaunchInv, Owning, Execute, Go
  <2>. QED  BY <2>1, <2>2
<1>4. CASE SyncJob(a)
  <2>1. RowsExist'
    BY <1>4 DEF RunInv, RowsExist, SyncJob, Go, Working, Terminal
  <2>2. LaunchInv'
    BY <1>4 DEF RunInv, LaunchInv, Owning, SyncJob, Go, Terminal, tally
  <2>. QED  BY <2>1, <2>2
<1>5. CASE Backstop(a)
  <2>1. RowsExist'
    BY <1>5 DEF RunInv, RowsExist, Backstop, Go, Working, Terminal
  <2>2. LaunchInv'
    BY <1>5 DEF RunInv, LaunchInv, Owning, Backstop, Go, Terminal, tally
  <2>. QED  BY <2>1, <2>2
<1>6. CASE AppendChildAudit(a)
  BY <1>6, RunFrame DEF AppendChildAudit, Go, Working, rows, tally
<1>7. CASE FinalizeRelease(a)
  BY <1>7, RunFrame DEF FinalizeRelease, Go, Working, tally
<1>. QED
  BY <1>1, <1>2, <1>3, <1>4, <1>5, <1>6, <1>7 DEF TaskStep

LEMMA RunCancel ==
  ASSUME RunInv, NEW a \in Cancels, CancelSelect(a) \/ CancelStep(a)
  PROVE  RowsExist' /\ LaunchInv'
<1>. a \in Actor /\ Tasks \subseteq Actor
  BY ActorKinds
<1>. /\ pc \in [Actor -> PC] /\ status \in [Job -> Status]
     /\ ids \in [Actor -> SUBSET Job]
  BY DEF RunInv, TypeOK
<1>1. CASE CancelSelect(a)
  BY <1>1, RunFrame DEF CancelSelect, Go, Working, rows, tally
<1>2. CASE CancelUpdate(a)
  <2>1. RowsExist'
    <3>1. \A j \in Job : status[j] # "absent" => status'[j] # "absent"
      BY <1>2 DEF CancelUpdate
    <3>2. status' = status \/ batch # "absent"
      BY <1>2 DEF RunInv, RowsExist, CancelUpdate, Flipped
    <3>3. \A b \in Tasks : pc'[b] \in Working => pc[b] \in Working
      BY <1>2 DEF CancelUpdate, Go, Working
    <3>. QED
      BY <1>2, <3>1, <3>2, <3>3, RowsWrite DEF CancelUpdate, local
  <2>2. LaunchInv'
    BY <1>2 DEF RunInv, LaunchInv, Owning, CancelUpdate, Flipped, Go, tally
  <2>. QED  BY <2>1, <2>2
<1>3. CASE CancelRequery(a)
  BY <1>3, RunFrame DEF CancelRequery, Go, Working, rows, tally
<1>. QED  BY <1>1, <1>2, <1>3 DEF CancelStep

LEMMA RunBoot ==
  ASSUME RunInv, NEW a \in Boots, BootStep(a)
  PROVE  RowsExist' /\ LaunchInv'
<1>. a \in Actor /\ Tasks \subseteq Actor
  BY ActorKinds
<1>. /\ pc \in [Actor -> PC] /\ status \in [Job -> Status]
     /\ ids \in [Actor -> SUBSET Job]
  BY DEF RunInv, TypeOK
<1>1. CASE SweepSelect(a)
  BY <1>1, RunFrame DEF SweepSelect, Orphans, Go, Working, rows, tally
<1>2. CASE SweepMark(a)
  <2>1. RowsExist'
    <3>1. \A j \in Job : status[j] # "absent" => status'[j] # "absent"
      BY <1>2 DEF SweepMark
    <3>2. status' = status \/ batch # "absent"
      BY <1>2 DEF RunInv, RowsExist, SweepMark
    <3>3. \A b \in Tasks : pc'[b] \in Working => pc[b] \in Working
      BY <1>2 DEF SweepMark, Go, Working
    <3>. QED
      BY <1>2, <3>1, <3>2, <3>3, RowsWrite DEF SweepMark, local
  <2>2. LaunchInv'
    BY <1>2 DEF RunInv, LaunchInv, Owning, SweepMark, Go, tally
  <2>. QED  BY <2>1, <2>2
<1>3. CASE Reconcile(a)
  BY <1>3, RunFrame DEF Reconcile, Stale, Terminal, Go, Working, rows, tally
<1>. QED  BY <1>1, <1>2, <1>3 DEF BootStep

\* RunInv is inductive.
LEMMA RunAlways == Spec => []RunInv
<1>1. Init => RowsExist /\ LaunchInv
  BY DEF Init, RowsExist, LaunchInv, Owning, Working, Actor
<1>2. TypeOK /\ RowsExist /\ LaunchInv /\ [Next]_vars => (RowsExist /\ LaunchInv)'
  <2>. SUFFICES ASSUME RunInv, [Next]_vars PROVE RowsExist' /\ LaunchInv'
    BY DEF RunInv
  <2>. /\ Tasks \subseteq Actor
       /\ pc \in [Actor -> PC] /\ status \in [Job -> Status]
       /\ ids \in [Actor -> SUBSET Job]
    BY ActorKinds DEF RunInv, TypeOK
  <2>1. ASSUME NEW p \in Proc, Crash(p) PROVE RowsExist' /\ LaunchInv'
    BY <2>1, RunFrame DEF Crash, Working, rows
  <2>2. ASSUME NEW j \in Job, CreateChild(j) PROVE RowsExist' /\ LaunchInv'
    <3>1. batch # "absent"
      BY <2>2 DEF RunInv, RowsExist, CreateChild
    <3>2. RowsExist'
      BY <2>2, <3>1 DEF RunInv, RowsExist, CreateChild
    <3>3. LaunchInv'
      BY <2>2 DEF RunInv, LaunchInv, Owning, CreateChild, tally
    <3>. QED  BY <3>2, <3>3
  <2>3. CASE CreateRaises
    BY <2>3, RunFrame DEF CreateRaises, rows
  <2>4. ASSUME NEW a \in Pollers, Poll(a) PROVE RowsExist' /\ LaunchInv'
    BY <2>4, RunFrame DEF Poll, Submittable, Working, rows, local, tally
  <2>5. CASE UNCHANGED vars
    BY <2>5, RunFrame DEF vars, rows, local, tally
  <2>. QED
    BY <2>1, <2>2, <2>3, <2>4, <2>5, RunCreate, RunCheck, RunSync, RunRaise,
       RunTask, RunCancel, RunBoot DEF Next
<1>. QED  BY <1>1, <1>2, TypeCorrect, PTL DEF Spec, RunInv

\* The worker of a child is launched at most once
\* (BatchDispatch!JobRunsAtMostOnce), whatever processes, pollers, sweeps,
\* cancels and crashes there are: dispatcher.py's claim is safe under
\* concurrent processes.
THEOREM RunsAtMostOnce == Spec => []JobRunsAtMostOnce
<1>1. RunInv => JobRunsAtMostOnce
  BY DEF RunInv, LaunchInv, JobRunsAtMostOnce
<1>. QED  BY <1>1, RunAlways, PTL

(***************************************************************************)
(* Single announcement.  The claim on finished_utc is won once, so at most *)
(* one thread is between the claim and its append, and while one is there  *)
(* no batch.completed exists yet.                                          *)
(***************************************************************************)
AnnounceInv ==
  /\ batch # "finished" => evCompleted = <<>>
  /\ \A a \in Actor : pc[a] = "announce" => batch = "finished" /\ evCompleted = <<>>
  /\ \A a, b \in Actor : pc[a] = "announce" /\ pc[b] = "announce" => a = b
  /\ Len(evCompleted) <= 1

\* A step that neither finishes the batch nor moves a thread to the append.
LEMMA AnnounceFrame ==
  ASSUME AnnounceInv, evCompleted' = evCompleted,
         \/ batch' = batch
         \/ batch # "finished" /\ batch' # "finished",
         \A a \in Actor : pc'[a] = "announce" => pc[a] = "announce"
  PROVE  AnnounceInv'
BY DEF AnnounceInv

LEMMA AnnounceCheck ==
  ASSUME TypeOK, AnnounceInv, NEW a \in Actor, Check(a)
  PROVE  AnnounceInv'
<1>. pc \in [Actor -> PC]
  BY DEF TypeOK
<1>1. AfterCheck(a) # "announce"
  BY DEF AfterCheck
<1>2. CASE Count(a)
  BY <1>1, <1>2, AnnounceFrame DEF Count, Go, rows, chain
<1>3. CASE ClaimBatch(a)
  <2>1. CASE Unclaimed
    <3>1. batch # "finished" /\ batch' = "finished" /\ evCompleted' = evCompleted
      BY <1>3, <2>1 DEF ClaimBatch, Unclaimed, chain
    <3>2. pc' = [pc EXCEPT ![a] = "announce"]
      BY <1>3, <2>1 DEF ClaimBatch, Go
    <3>. QED  BY <3>1, <3>2 DEF AnnounceInv
  <2>2. CASE ~Unclaimed
    BY <1>1, <1>3, <2>2, AnnounceFrame DEF ClaimBatch, Go, chain
  <2>. QED  BY <2>1, <2>2
<1>4. CASE Announce(a)
  <2>1. pc[a] = "announce" /\ batch' = batch
    BY <1>4 DEF Announce, rows
  <2>2. evCompleted = <<>> /\ batch = "finished"
    BY <2>1 DEF AnnounceInv
  <2>3. Len(evCompleted') = 1
    BY <1>4, <2>2 DEF Announce
  <2>4. \A b \in Actor : pc'[b] # "announce"
    BY <1>1, <1>4, <2>1 DEF Announce, Go, AnnounceInv
  <2>. QED  BY <2>1, <2>2, <2>3, <2>4 DEF AnnounceInv
<1>. QED  BY <1>2, <1>3, <1>4 DEF Check

LEMMA AnnounceRaise ==
  ASSUME TypeOK, AnnounceInv, NEW a \in Actor, Raise(a)
  PROVE  AnnounceInv'
<1>1. AfterCheck(a) # "announce" /\ pc \in [Actor -> PC]
  BY DEF AfterCheck, TypeOK
<1>2. evCompleted' = evCompleted /\ batch' = batch
  BY DEF Raise, AnnounceRaises, CountRaises, StageRaises, ClaimRaises,
     FinalizeRaises, CancelRaises, rows, chain
<1>3. \A b \in Actor : pc'[b] = "announce" => pc[b] = "announce"
  BY <1>1 DEF Raise, AnnounceRaises, CountRaises, StageRaises, ClaimRaises,
     FinalizeRaises, CancelRaises, Go
<1>. QED  BY <1>2, <1>3, AnnounceFrame

\* batch.completed is appended at most once (BatchDispatch!AnnouncedAtMostOnce)
\* although every finishing task, every poll, every cancel and every boot may
\* observe that the last child is terminal: the claim on finished_utc in
\* check_batch_completion.
THEOREM AnnouncesAtMostOnce == Spec => []AnnouncedAtMostOnce
<1>1. Init => AnnounceInv
  BY DEF Init, AnnounceInv
<1>2. TypeOK /\ AnnounceInv /\ [Next]_vars => AnnounceInv'
  <2>. SUFFICES ASSUME TypeOK, AnnounceInv, [Next]_vars PROVE AnnounceInv'
    OBVIOUS
  <2>. pc \in [Actor -> PC]
    BY DEF TypeOK
  <2>1. ASSUME NEW p \in Proc, Create(p) \/ Crash(p) PROVE AnnounceInv'
    BY <2>1, AnnounceFrame DEF Create, CreateBatch, CreateReleaseBatch, Crash,
       rows, chain
  <2>2. ASSUME NEW j \in Job, CreateChild(j) PROVE AnnounceInv'
    BY <2>2, AnnounceFrame DEF CreateChild, chain
  <2>3. CASE CreateRaises
    BY <2>3, AnnounceFrame DEF CreateRaises, rows, chain
  <2>4. ASSUME NEW a \in Actor, SyncEach(a) PROVE AnnounceInv'
    BY <2>4, AnnounceFrame DEF SyncEach, Go
  <2>5. ASSUME NEW a \in Tasks, TaskStep(a) PROVE AnnounceInv'
    BY <2>5, AnnounceFrame DEF TaskStep, ClaimJob, LoadJob, Execute, SyncJob,
       Backstop, AppendChildAudit, FinalizeRelease, Go, rows, chain
  <2>6. ASSUME NEW a \in Pollers, Poll(a) PROVE AnnounceInv'
    BY <2>6, AnnounceFrame DEF Poll, rows, chain
  <2>7. ASSUME NEW a \in Cancels, CancelSelect(a) \/ CancelStep(a)
        PROVE  AnnounceInv'
    BY <2>7, AnnounceFrame DEF CancelSelect, CancelStep, CancelUpdate,
       CancelRequery, Go, rows, chain
  <2>8. ASSUME NEW a \in Boots, BootStep(a) PROVE AnnounceInv'
    BY <2>8, AnnounceFrame DEF BootStep, SweepSelect, SweepMark, Reconcile, Go,
       rows, chain
  <2>9. CASE UNCHANGED vars
    BY <2>9, AnnounceFrame DEF vars, rows, chain
  <2>. QED
    BY <2>1, <2>2, <2>3, <2>4, <2>5, <2>6, <2>7, <2>8, <2>9, AnnounceCheck,
       AnnounceRaise DEF Next
<1>3. AnnounceInv => AnnouncedAtMostOnce
  BY DEF AnnounceInv, AnnouncedAtMostOnce
<1>. QED  BY <1>1, <1>2, <1>3, TypeCorrect, PTL DEF Spec
-----------------------------------------------------------------------------
(***************************************************************************)
(* Who is where.  A thread only ever stands at the places of its kind, a   *)
(* step moves no thread but its own (the poll loop's submissions and a     *)
(* death aside), and a task past its claim works on a row that has left    *)
(* "queued" for good.                                                      *)
(***************************************************************************)
Held   == {"claimed", "loaded", "executing", "broken"}
Ending == {"audit", "release"}
Closing == {"count", "claim", "announce"}

KindInv ==
  /\ \A a \in Tasks : pc[a] \in {"idle", "pending"} \cup Held \cup Ending \cup Closing
  /\ \A a \in Pollers : pc[a] \in {"idle"} \cup Closing
  /\ \A a \in Cancels : pc[a] \in {"idle", "update", "requery", "sync", "over"} \cup Closing
  /\ \A a \in Boots : pc[a] \in {"down", "mark", "sync", "reconcile", "heal", "up"} \cup Closing

\* The step of one thread, polls and deaths aside.
StepOf(a) ==
  \/ Check(a) \/ SyncEach(a) \/ Raise(a)
  \/ a \in Tasks /\ TaskStep(a)
  \/ a \in Cancels /\ (CancelSelect(a) \/ CancelStep(a))
  \/ a \in Boots /\ BootStep(a)

LEMMA Kinds ==
  /\ \A a \in Tasks : a.kind = "task" /\ a \in Actor
  /\ \A a \in Pollers : a.kind = "poll" /\ a \in Actor
  /\ \A a \in Cancels : a.kind = "cancel" /\ a \in Actor
  /\ \A a \in Boots : a.kind = "boot" /\ a \in Actor
  /\ \A a \in Actor : a \in Tasks \/ a \in Pollers \/ a \in Cancels \/ a \in Boots
BY DEF Actor, Tasks, Pollers, Boots, Cancels

\* A step of a thread leaves the others where they are.
LEMMA OthersStay ==
  ASSUME TypeOK, NEW a \in Actor, StepOf(a), NEW b \in Actor, b # a
  PROVE  /\ pc'[b] = pc[b] /\ ids'[b] = ids[b] /\ session'[b] = session[b]
         /\ tries'[b] = tries[b]
<1>. /\ pc \in [Actor -> PC] /\ ids \in [Actor -> SUBSET Job]
     /\ session \in [Actor -> [Job -> Status \cup {"expired"}]]
     /\ tries \in [Actor -> Nat]
  BY DEF TypeOK
<1>1. CASE Check(a)
  BY <1>1 DEF Check, Count, ClaimBatch, Announce, Go, local
<1>2. CASE SyncEach(a)
  BY <1>2 DEF SyncEach, Go
<1>3. CASE Raise(a)
  BY <1>3 DEF Raise, AnnounceRaises, CountRaises, StageRaises, ClaimRaises,
     FinalizeRaises, CancelRaises, Go, Remember, local
<1>4. CASE TaskStep(a)
  BY <1>4 DEF TaskStep, ClaimJob, LoadJob, Execute, SyncJob, Backstop,
     AppendChildAudit, FinalizeRelease, Go, Remember, local
<1>5. CASE CancelSelect(a) \/ CancelStep(a)
  BY <1>5 DEF CancelSelect, CancelStep, CancelUpdate, CancelRequery, Go, local
<1>6. CASE BootStep(a)
  BY <1>6 DEF BootStep, SweepSelect, SweepMark, Reconcile, Go, local
<1>. QED  BY <1>1, <1>2, <1>3, <1>4, <1>5, <1>6 DEF StepOf

\* Where a step puts its own thread.
LEMMA KindCheck ==
  ASSUME TypeOK, NEW a \in Actor, Check(a) \/ AnnounceRaises(a) \/ CountRaises(a)
  PROVE  /\ pc[a] \in Closing
         /\ \/ pc'[a] \in {"claim", "announce"}
            \/ pc'[a] = "reconcile" /\ a \in Boots
            \/ pc'[a] = "over" /\ a \in Cancels
            \/ pc'[a] = "idle" /\ (a \in Tasks \/ a \in Pollers)
<1>1. \/ AfterCheck(a) = "reconcile" /\ a \in Boots
      \/ AfterCheck(a) = "over" /\ a \in Cancels
      \/ AfterCheck(a) = "idle" /\ (a \in Tasks \/ a \in Pollers)
  BY Kinds, Zenon DEF AfterCheck
<1>2. pc \in [Actor -> PC]
  BY DEF TypeOK
<1>. QED
  BY <1>1, <1>2 DEF Check, Count, ClaimBatch, Announce, AnnounceRaises,
     CountRaises, Go, Closing

LEMMA KindStep == TypeOK /\ KindInv /\ [Next]_vars => KindInv'
<1>. SUFFICES ASSUME TypeOK, KindInv, [Next]_vars PROVE KindInv'
  OBVIOUS
<1>. pc \in [Actor -> PC]
  BY DEF TypeOK
<1>1. ASSUME NEW a \in Actor, StepOf(a) PROVE KindInv'
  <2>. SUFFICES /\ a \in Tasks => pc'[a] \in {"idle", "pending"} \cup Held \cup Ending \cup Closing
                /\ a \in Pollers => pc'[a] \in {"idle"} \cup Closing
                /\ a \in Cancels => pc'[a] \in {"idle", "update", "requery", "sync", "over"} \cup Closing
                /\ a \in Boots => pc'[a] \in {"down", "mark", "sync", "reconcile", "heal", "up"} \cup Closing
    BY <1>1, OthersStay, Kinds DEF KindInv
  <2>1. CASE Check(a) \/ AnnounceRaises(a) \/ CountRaises(a)
    BY <2>1, KindCheck, Kinds DEF Closing
  <2>2. CASE SyncEach(a)
    BY <2>2, Kinds DEF SyncEach, Go, KindInv, Closing, Held, Ending
  <2>3. CASE StageRaises(a) \/ ClaimRaises(a) \/ FinalizeRaises(a) \/ CancelRaises(a)
    BY <2>3, Kinds DEF StageRaises, ClaimRaises, FinalizeRaises, CancelRaises, Go,
       KindInv, Held, Ending, Closing
  <2>4. CASE a \in Tasks /\ TaskStep(a)
    BY <2>4, Kinds DEF TaskStep, ClaimJob, LoadJob, Execute, SyncJob, Backstop,
       AppendChildAudit, FinalizeRelease, Go, Held, Ending, Closing
  <2>5. CASE a \in Cancels /\ (CancelSelect(a) \/ CancelStep(a))
    BY <2>5, Kinds DEF CancelSelect, CancelStep, CancelUpdate, CancelRequery, Go,
       Closing
  <2>6. CASE a \in Boots /\ BootStep(a)
    BY <2>6, Kinds DEF BootStep, SweepSelect, SweepMark, Reconcile, Go
  <2>. QED  BY <1>1, <2>1, <2>2, <2>3, <2>4, <2>5, <2>6 DEF StepOf, Raise
<1>2. ASSUME NEW a \in Pollers, Poll(a) PROVE KindInv'
  BY <1>2, Kinds DEF Poll, KindInv, Closing
<1>3. ASSUME NEW p \in Proc, Crash(p) PROVE KindInv'
  BY <1>3, Kinds DEF Crash, KindInv
<1>4. CASE \/ \E p \in Proc : Create(p)
           \/ \E j \in Job : CreateChild(j)
           \/ CreateRaises \/ UNCHANGED vars
  BY <1>4 DEF Create, CreateBatch, CreateReleaseBatch, CreateChild, CreateRaises,
     vars, KindInv
<1>. QED  BY <1>1, <1>2, <1>3, <1>4, Kinds DEF Next, StepOf

LEMMA KindAlways == Spec => []KindInv
<1>1. Init => KindInv
  BY Kinds DEF Init, KindInv
<1>. QED  BY <1>1, KindStep, TypeCorrect, PTL DEF Spec
\* No step puts a child back in the queue.
LEMMA NeverRequeued ==
  ASSUME RunInv, [Next]_vars, NEW j \in Job, status[j] \notin {"absent", "queued"}
  PROVE  status'[j] \notin {"absent", "queued"}
<1>. status \in [Job -> Status]
  BY DEF RunInv, TypeOK
<1>1. ASSUME NEW p \in Proc, Create(p) \/ Crash(p) PROVE status'[j] = status[j]
  BY <1>1 DEF RunInv, RowsExist, Create, CreateBatch, CreateReleaseBatch, Crash, rows
<1>2. ASSUME NEW k \in Job, CreateChild(k) PROVE status'[j] = status[j]
  BY <1>2 DEF CreateChild
<1>3. CASE CreateRaises \/ UNCHANGED vars
  BY <1>3 DEF CreateRaises, vars, rows
<1>4. ASSUME NEW a \in Actor, Check(a) \/ SyncEach(a) \/ Raise(a)
      PROVE  status'[j] = status[j]
  BY <1>4 DEF Check, Count, ClaimBatch, Announce, SyncEach, Raise, AnnounceRaises,
     CountRaises, StageRaises, ClaimRaises, FinalizeRaises, CancelRaises, rows
<1>5. ASSUME NEW a \in Tasks, TaskStep(a) PROVE status'[j] \notin {"absent", "queued"}
  <2>. a.id \in Job
    BY ActorKinds
  <2>1. CASE SyncJob(a) \/ Backstop(a)
    BY <2>1 DEF SyncJob, Backstop, Terminal
  <2>2. CASE ~(SyncJob(a) \/ Backstop(a))
    BY <1>5, <2>2 DEF TaskStep, ClaimJob, LoadJob, Execute, AppendChildAudit,
       FinalizeRelease, rows
  <2>. QED  BY <2>1, <2>2
<1>6. ASSUME NEW a \in Pollers, Poll(a) PROVE status'[j] = status[j]
  BY <1>6 DEF Poll, rows
<1>7. ASSUME NEW a \in Cancels, CancelSelect(a) \/ CancelStep(a)
      PROVE  status'[j] \notin {"absent", "queued"}
  BY <1>7 DEF CancelSelect, CancelStep, CancelUpdate, CancelRequery, rows
<1>8. ASSUME NEW a \in Boots, BootStep(a) PROVE status'[j] \notin {"absent", "queued"}
  BY <1>8 DEF BootStep, SweepSelect, SweepMark, Reconcile, rows
<1>. QED  BY <1>1, <1>2, <1>3, <1>4, <1>5, <1>6, <1>7, <1>8 DEF Next

StartedInv ==
  \A a \in Tasks : pc[a] \notin {"idle", "pending"} => status[a.id] \notin {"absent", "queued"}

\* A task leaves its queue by a claim.
LEMMA TaskStarts ==
  ASSUME TypeOK, KindInv, [Next]_vars, NEW a \in Tasks, pc[a] \in {"idle", "pending"}
  PROVE  \/ pc'[a] \in {"idle", "pending"}
         \/ pc'[a] = "claimed" /\ ClaimJob(a) /\ status[a.id] = "queued" /\ status'[a.id] = "running"
<1>. /\ pc \in [Actor -> PC] /\ status \in [Job -> Status]
     /\ a \in Actor /\ a.id \in Job
  BY Kinds, ActorKinds DEF TypeOK
<1>1. ASSUME NEW b \in Actor, StepOf(b), b # a PROVE pc'[a] = pc[a]
  BY <1>1, OthersStay
<1>2. CASE StepOf(a)
  <2>1. TaskStep(a)
    BY <1>2, Kinds DEF StepOf, Check, Count, ClaimBatch, Announce, SyncEach, Raise,
       AnnounceRaises, CountRaises, StageRaises, ClaimRaises, FinalizeRaises,
       CancelRaises
  <2>2. ClaimJob(a)
    BY <2>1 DEF TaskStep, ClaimJob, LoadJob, Execute, SyncJob, Backstop,
       AppendChildAudit, FinalizeRelease
  <2>. QED  BY <2>2 DEF ClaimJob, Claimable, Go
<1>3. ASSUME NEW b \in Pollers, Poll(b) PROVE pc'[a] \in {"idle", "pending"}
  BY <1>3, Kinds DEF Poll
<1>4. ASSUME NEW p \in Proc, Crash(p) PROVE pc'[a] \in {"idle", "pending"}
  BY <1>4, Kinds DEF Crash
<1>5. CASE \/ \E p \in Proc : Create(p)
           \/ \E j \in Job : CreateChild(j)
           \/ CreateRaises \/ UNCHANGED vars
  BY <1>5 DEF Create, CreateBatch, CreateReleaseBatch, CreateChild, CreateRaises,
     vars
<1>. QED  BY <1>1, <1>2, <1>3, <1>4, <1>5, Kinds DEF Next, StepOf

LEMMA StartedAlways == Spec => [](RunInv /\ KindInv /\ StartedInv)
<1>1. Init => StartedInv
  BY Kinds DEF Init, StartedInv
<1>2. RunInv /\ KindInv /\ StartedInv /\ [Next]_vars => StartedInv'
  <2>. SUFFICES ASSUME RunInv, KindInv, StartedInv, [Next]_vars,
                       NEW a \in Tasks, pc'[a] \notin {"idle", "pending"}
                PROVE  status'[a.id] \notin {"absent", "queued"}
    BY DEF StartedInv
  <2>. a.id \in Job /\ TypeOK
    BY ActorKinds DEF RunInv
  <2>1. CASE pc[a] \in {"idle", "pending"}
    BY <2>1, TaskStarts
  <2>2. CASE pc[a] \notin {"idle", "pending"}
    BY <2>2, NeverRequeued DEF StartedInv
  <2>. QED  BY <2>1, <2>2
<1>. QED  BY <1>1, <1>2, RunAlways, KindAlways, PTL DEF Spec

\* A cancellation only takes children that are still queued, and none that a
\* task has claimed (BatchDispatch!CancelSparesClaimed), whatever it selected
\* before: the guarded UPDATE of cancel_batch.
THEOREM CancelsSpareClaimed == Spec => CancelSparesClaimed
<1>. DEFINE Spares == \A j \in cancelled' \ cancelled :
                        status[j] = "queued" /\ InFlight(j) = {}
<1>1. RunInv /\ StartedInv /\ [Next]_vars => Spares
  <2>. SUFFICES ASSUME RunInv, StartedInv, [Next]_vars, NEW j \in cancelled', j \notin cancelled
                PROVE  status[j] = "queued" /\ InFlight(j) = {}
    OBVIOUS
  <2>1. PICK a \in Cancels : CancelUpdate(a)
    BY DEF Next, Create, CreateBatch, CreateReleaseBatch, CreateChild, CreateRaises,
       Crash, Check, Count, ClaimBatch, Announce, SyncEach, Raise, AnnounceRaises,
       CountRaises, StageRaises, ClaimRaises, FinalizeRaises, CancelRaises,
       TaskStep, ClaimJob, LoadJob, Execute, SyncJob, Backstop, AppendChildAudit,
       FinalizeRelease, Poll, CancelSelect, CancelStep, CancelRequery, BootStep,
       SweepSelect, SweepMark, Reconcile, vars, rows
  <2>2. status[j] = "queued"
    BY <2>1 DEF CancelUpdate, Flipped
  <2>. QED  BY <2>2 DEF StartedInv, InFlight
<1>2. Spares => [Spares]_vars
  OBVIOUS
<1>. QED  BY <1>1, <1>2, StartedAlways, PTL DEF Spec, CancelSparesClaimed

----------------------------------------------------------------------------
(***************************************************************************)
(* One process, which dispatcher.py:18 asks for until a lease is added.    *)
(* Until it serves its other threads rest, so its boot is alone with the   *)
(* rows; once it serves, a running row belongs to the one task for it.     *)
(***************************************************************************)
Alone == \A p, q \in Proc : p = q

AsleepInv ==
  \A b \in Boots : pc[b] # "up" =>
    /\ creator = NoProc
    /\ \A a \in Actor : a \notin Boots => pc[a] \in {"idle", "over"}

OwnInv ==
  /\ \A a \in Tasks : pc[a] \in Held => status[a.id] = "running"
  /\ \A a \in Tasks : pc[a] \in Ending =>
       /\ status[a.id] \in Terminal
       /\ session[a][a.id] \in {"expired", status[a.id]}
  /\ \A j \in cancelled : status[j] = "failed"
  /\ \A b \in Boots : pc[b] = "mark" => ids[b] = Orphans
  /\ \A b \in Boots : pc[b] \notin {"down", "mark", "up"} => Orphans = {}

LEMMA OneBoot ==
  ASSUME Alone
  PROVE  /\ \A a \in Actor, b \in Boots : BootOf(a.proc) = b
         /\ \A p \in Proc, b \in Boots : BootOf(p) = b
         /\ \A p \in Proc, a \in Actor : a.proc = p
         /\ \A p \in Proc : BootOf(p) \in Boots
         /\ \A a \in Boots, b \in Boots : a = b
         /\ \A a \in Tasks, b \in Tasks : a.id = b.id => a = b
         /\ \A a \in Actor : BootOf(a.proc) \in Boots
<1>1. \A p \in Proc : BootOf(p) \in Boots
  BY DEF BootOf, Boots
<1>2. \A p \in Proc, b \in Boots : BootOf(p) = b
  BY DEF Alone, BootOf, Boots
<1>3. \A a \in Tasks, b \in Tasks : a.id = b.id => a = b
  BY DEF Alone, Tasks
<1>4. \A a \in Boots, b \in Boots : a = b
  BY DEF Alone, Boots
<1>5. \A p \in Proc, a \in Actor : a.proc = p
  BY ActorKinds DEF Alone
<1>. QED  BY <1>1, <1>2, <1>3, <1>4, <1>5, ActorKinds

\* While the process does not serve, only its boot steps.
LEMMA OnlyBoot ==
  ASSUME Alone, TypeOK, KindInv, AsleepInv, NEW b \in Boots, pc[b] # "up",
         NEW a \in Actor, StepOf(a)
  PROVE  a = b
<1>1. CASE a \in Boots
  BY <1>1, OneBoot
<1>2. CASE a \notin Boots
  <2>1. pc[a] \in {"idle", "over"}
    BY <1>2 DEF AsleepInv
  <2>2. ~Up(a.proc)
    BY OneBoot DEF Up
  <2>. QED
    BY <1>2, <2>1, <2>2 DEF StepOf, Check, Count, ClaimBatch, Announce, SyncEach,
       Raise, AnnounceRaises, CountRaises, StageRaises, ClaimRaises,
       FinalizeRaises, CancelRaises, TaskStep, ClaimJob, LoadJob, Execute, SyncJob,
       Backstop, AppendChildAudit, FinalizeRelease, CancelSelect, CancelStep,
       CancelUpdate, CancelRequery
<1>. QED  BY <1>1, <1>2

LEMMA AsleepStep ==
  ASSUME Alone, TypeOK, KindInv, AsleepInv, [Next]_vars
  PROVE  AsleepInv'
<1>. pc \in [Actor -> PC]
  BY DEF TypeOK
<1>. SUFFICES ASSUME NEW b \in Boots, pc'[b] # "up"
              PROVE  /\ creator' = NoProc
                     /\ \A a \in Actor : a \notin Boots => pc'[a] \in {"idle", "over"}
  BY DEF AsleepInv
<1>1. ASSUME NEW a \in Actor, StepOf(a)
      PROVE  /\ creator' = NoProc
             /\ \A c \in Actor : c \notin Boots => pc'[c] \in {"idle", "over"}
  <2>1. pc[b] # "up"
    <3>1. CASE a = b
      BY <1>1, <3>1, Kinds DEF StepOf, Check, Count, ClaimBatch, Announce, SyncEach,
         Raise, AnnounceRaises, CountRaises, StageRaises, ClaimRaises,
         FinalizeRaises, CancelRaises, BootStep, SweepSelect, SweepMark, Reconcile
    <3>2. CASE a # b
      BY <1>1, <3>2, OthersStay, Kinds
    <3>. QED  BY <3>1, <3>2
  <2>2. a = b
    BY <1>1, <2>1, OnlyBoot
  <2>3. creator' = creator
    BY <1>1, <2>2, Kinds DEF StepOf, Check, Count, ClaimBatch, Announce, SyncEach,
       Raise, AnnounceRaises, CountRaises, StageRaises, ClaimRaises,
       FinalizeRaises, CancelRaises, BootStep, SweepSelect, SweepMark, Reconcile,
       local
  <2>. QED
    BY <1>1, <2>1, <2>2, <2>3, OthersStay DEF AsleepInv
<1>2. ASSUME NEW a \in Pollers, Poll(a) PROVE FALSE
  <2>1. pc[b] = "up" /\ b # a /\ b \notin Tasks
    BY <1>2, OneBoot, Kinds DEF Poll, Up
  <2>. QED  BY <1>2, <2>1, Kinds DEF Poll
<1>3. ASSUME NEW p \in Proc, Crash(p)
      PROVE  /\ creator' = NoProc
             /\ \A c \in Actor : c \notin Boots => pc'[c] \in {"idle", "over"}
  <2>1. creator \in {p, NoProc}
    BY DEF TypeOK, Alone
  <2>2. creator' = NoProc
    BY <1>3, <2>1 DEF Crash
  <2>3. \A c \in Actor : c.proc = p
    BY OneBoot
  <2>. QED  BY <1>3, <2>2, <2>3 DEF Crash
<1>4. ASSUME NEW p \in Proc, Create(p) PROVE FALSE
  <2>1. pc[b] = "up"
    BY <1>4, OneBoot DEF Create, CreateBatch, CreateReleaseBatch, Up
  <2>. QED  BY <1>4, <2>1 DEF Create, CreateBatch, CreateReleaseBatch, local
<1>5. CASE (\E j \in Job : CreateChild(j)) \/ CreateRaises \/ UNCHANGED vars
  BY <1>5 DEF CreateChild, CreateRaises, vars, local, AsleepInv
<1>. QED  BY <1>1, <1>2, <1>3, <1>4, <1>5, Kinds DEF Next, StepOf
\* A step that leaves the rows alone and moves no thread to a new claim on them.
LEMMA OwnFrame ==
  ASSUME OwnInv, status' = status, cancelled' = cancelled,
         \A a \in Tasks : pc'[a] \in Held => pc[a] \in Held,
         \A a \in Tasks : pc'[a] \in Ending =>
           /\ pc[a] \in Ending
           /\ session'[a][a.id] \in {"expired", session[a][a.id]},
         \A b \in Boots : pc'[b] = "mark" => pc[b] = "mark" /\ ids'[b] = ids[b],
         \A b \in Boots : pc'[b] \notin {"down", "mark", "up"}
                            => pc[b] \notin {"down", "mark", "up"}
  PROVE  OwnInv'
BY DEF OwnInv, Orphans

\* A step of a thread other than a boot, by what it does to its own row.
LEMMA OwnTask ==
  ASSUME Alone, TypeOK, KindInv, AsleepInv, OwnInv, NEW a \in Tasks, TaskStep(a)
  PROVE  OwnInv'
<1>. /\ pc \in [Actor -> PC] /\ status \in [Job -> Status]
     /\ session \in [Actor -> [Job -> Status \cup {"expired"}]]
     /\ a \in Actor /\ a.id \in Job
  BY Kinds, ActorKinds DEF TypeOK
<1>1. \A b \in Actor : b # a =>
        pc'[b] = pc[b] /\ ids'[b] = ids[b] /\ session'[b] = session[b]
  BY OthersStay DEF StepOf
<1>2. \A b \in Boots : pc[b] = "up" /\ pc'[b] = "up"
  <2>1. pc[a] \notin {"idle", "over"}
    BY DEF TaskStep, ClaimJob, LoadJob, Execute, SyncJob, Backstop,
       AppendChildAudit, FinalizeRelease
  <2>. QED  BY <1>1, <2>1, Kinds DEF AsleepInv
<1>3. CASE LoadJob(a) \/ AppendChildAudit(a) \/ FinalizeRelease(a)
  <2>1. status' = status /\ cancelled' = cancelled
    BY <1>3 DEF LoadJob, AppendChildAudit, FinalizeRelease, rows
  <2>2. /\ pc'[a] \in Held => pc[a] \in Held
        /\ pc'[a] \in Ending => pc[a] \in Ending /\ session' = session
    BY <1>3 DEF LoadJob, AppendChildAudit, FinalizeRelease, Go, Held, Ending
  <2>. QED  BY <1>1, <1>2, <2>1, <2>2, Kinds, OwnFrame
<1>4. CASE ClaimJob(a) \/ Execute(a)
  <2>1. /\ cancelled' = cancelled
        /\ \A j \in Job : j # a.id => status'[j] = status[j]
        /\ pc'[a] \notin Ending
        /\ pc'[a] \in Held => status'[a.id] = "running"
        /\ \/ status[a.id] \in {"queued", "running"}
           \/ status'[a.id] = status[a.id]
    BY <1>4 DEF ClaimJob, Claimable, Execute, Go, OwnInv, Held, Ending
  <2>2. \A b \in Tasks : b # a => b.id # a.id
    BY OneBoot
  <2>3. \A b \in Tasks : pc'[b] \in Held => status'[b.id] = "running"
    BY <1>1, <2>1, <2>2, Kinds, ActorKinds DEF OwnInv
  <2>4. \A b \in Tasks : pc'[b] \in Ending =>
          status'[b.id] \in Terminal /\ session'[b][b.id] \in {"expired", status'[b.id]}
    BY <1>1, <2>1, <2>2, Kinds, ActorKinds DEF OwnInv
  <2>5. \A j \in cancelled' : status'[j] = "failed"
    BY <2>1 DEF OwnInv, TypeOK
  <2>. QED  BY <1>2, <2>3, <2>4, <2>5 DEF OwnInv
<1>5. CASE SyncJob(a) \/ Backstop(a)
  <2>1. /\ cancelled' \subseteq cancelled
        /\ \A j \in Job : j # a.id => status'[j] = status[j]
        /\ pc'[a] = "audit"
        /\ status[a.id] = "running"
        /\ status'[a.id] \in Terminal /\ session'[a][a.id] = status'[a.id]
    BY <1>5 DEF SyncJob, Backstop, Go, Remember, OwnInv, Held, Terminal
  <2>2. \A b \in Tasks : b # a => b.id # a.id
    BY OneBoot
  <2>3. \A b \in Tasks : pc'[b] \in Held => status'[b.id] = "running"
    BY <1>1, <2>1, <2>2, Kinds, ActorKinds DEF OwnInv, Held
  <2>4. \A b \in Tasks : pc'[b] \in Ending =>
          status'[b.id] \in Terminal /\ session'[b][b.id] \in {"expired", status'[b.id]}
    BY <1>1, <2>1, <2>2, Kinds, ActorKinds DEF OwnInv
  <2>5. \A j \in cancelled' : status'[j] = "failed"
    BY <2>1 DEF OwnInv, TypeOK
  <2>. QED  BY <1>2, <2>3, <2>4, <2>5 DEF OwnInv
<1>. QED  BY <1>3, <1>4, <1>5 DEF TaskStep

LEMMA OwnBoot ==
  ASSUME Alone, TypeOK, KindInv, AsleepInv, OwnInv, NEW a \in Boots, BootStep(a)
  PROVE  OwnInv'
<1>. /\ pc \in [Actor -> PC] /\ status \in [Job -> Status]
     /\ ids \in [Actor -> SUBSET Job]
     /\ a \in Actor /\ \A b \in Boots : b = a
  BY Kinds, OneBoot DEF TypeOK
<1>1. pc[a] # "up"
  BY DEF BootStep, SweepSelect, SweepMark, Reconcile
<1>2. \A b \in Tasks : pc'[b] = pc[b] /\ pc[b] \notin Held \cup Ending
  <2>1. \A b \in Tasks : b # a /\ pc[b] \in {"idle", "over"}
    BY <1>1, Kinds DEF AsleepInv
  <2>. QED  BY <2>1, OthersStay, Kinds DEF StepOf, Held, Ending
<1>3. CASE SweepSelect(a)
  BY <1>2, <1>3 DEF SweepSelect, Go, rows, OwnInv, Orphans
<1>4. CASE SweepMark(a)
  <2>1. ids[a] = Orphans
    BY <1>4 DEF SweepMark, OwnInv
  <2>2. Orphans' = {}
    BY <1>4, <2>1 DEF SweepMark, Orphans
  <2>3. \A j \in cancelled' : status'[j] = "failed"
    BY <1>4 DEF SweepMark, OwnInv, TypeOK
  <2>4. pc'[a] # "mark"
    BY <1>4 DEF SweepMark, Go
  <2>. QED  BY <1>2, <2>2, <2>3, <2>4 DEF OwnInv
<1>5. CASE Reconcile(a)
  <2>1. /\ status' = status /\ cancelled' = cancelled
        /\ pc[a] = "reconcile" /\ pc'[a] # "mark"
    BY <1>5 DEF Reconcile, Go, rows
  <2>. QED  BY <1>2, <2>1, OwnFrame
<1>. QED  BY <1>3, <1>4, <1>5 DEF BootStep

LEMMA OwnOther ==
  ASSUME Alone, TypeOK, KindInv, AsleepInv, OwnInv, NEW a \in Actor,
         \/ Check(a) \/ SyncEach(a) \/ Raise(a)
         \/ a \in Cancels /\ (CancelSelect(a) \/ CancelStep(a))
  PROVE  OwnInv'
<1>. /\ pc \in [Actor -> PC] /\ status \in [Job -> Status]
     /\ ids \in [Actor -> SUBSET Job]
     /\ session \in [Actor -> [Job -> Status \cup {"expired"}]]
  BY DEF TypeOK
<1>1. \A b \in Actor : b # a =>
        pc'[b] = pc[b] /\ ids'[b] = ids[b] /\ session'[b] = session[b]
  BY OthersStay DEF StepOf
<1>2. CASE a \in Cancels /\ CancelUpdate(a)
  <2>1. /\ \A j \in Job : status[j] # "queued" => status'[j] = status[j]
        /\ \A j \in cancelled' : j \in cancelled \/ (j \in Job /\ status'[j] = "failed")
    BY <1>2 DEF CancelUpdate, Flipped, TypeOK
  <2>2. \A b \in Actor : session'[b] = session[b] /\ ids'[b] = ids[b]
    BY <1>2 DEF CancelUpdate, local
  <2>3. \A b \in Tasks : pc'[b] = pc[b]
    BY <1>1, <1>2, Kinds
  <2>4. \A b \in Boots : pc[b] = "up" /\ pc'[b] = "up"
    BY <1>1, <1>2, Kinds DEF AsleepInv, CancelUpdate
  <2>5. \A b \in Tasks : pc'[b] \in Held => status'[b.id] = "running"
    BY <2>1, <2>3, ActorKinds DEF OwnInv
  <2>6. \A b \in Tasks : pc'[b] \in Ending =>
          status'[b.id] \in Terminal /\ session'[b][b.id] \in {"expired", status'[b.id]}
    BY <2>1, <2>2, <2>3, ActorKinds, Kinds DEF OwnInv, Terminal
  <2>7. \A j \in cancelled' : status'[j] = "failed"
    BY <2>1 DEF OwnInv, TypeOK
  <2>. QED  BY <2>4, <2>5, <2>6, <2>7 DEF OwnInv
<1>3. CASE ~(a \in Cancels /\ CancelUpdate(a))
  <2>1. status' = status /\ cancelled' = cancelled
    BY <1>3 DEF Check, Count, ClaimBatch, Announce, SyncEach, Raise, AnnounceRaises,
       CountRaises, StageRaises, ClaimRaises, FinalizeRaises, CancelRaises,
       CancelSelect, CancelStep, CancelRequery, rows
  <2>2. a \in Boots => /\ pc'[a] # "mark"
                       /\ pc[a] \notin {"down", "mark", "up"}
    BY <1>3, Kinds DEF Check, Count, ClaimBatch, Announce, SyncEach, Raise,
       AnnounceRaises, CountRaises, StageRaises, ClaimRaises, FinalizeRaises,
       CancelRaises, Go, AfterCheck
  <2>3. a \in Tasks => /\ pc'[a] \in Held => pc[a] \in Held
                       /\ pc'[a] \in Ending =>
                            /\ pc[a] \in Ending
                            /\ session'[a][a.id] \in {"expired", session[a][a.id]}
    <3>. SUFFICES ASSUME a \in Tasks
                  PROVE  /\ pc'[a] \in Held => pc[a] \in Held
                         /\ pc'[a] \in Ending =>
                              /\ pc[a] \in Ending
                              /\ session'[a][a.id] \in {"expired", session[a][a.id]}
      OBVIOUS
    <3>. a.id \in Job
      BY ActorKinds
    <3>1. CASE Check(a) \/ AnnounceRaises(a) \/ CountRaises(a)
      BY <3>1, KindCheck, Kinds DEF Held, Ending, Closing
    <3>2. CASE SyncEach(a)
      BY <3>2 DEF SyncEach, KindInv, Held, Ending, Closing
    <3>3. CASE StageRaises(a)
      BY <3>3 DEF StageRaises, Go, Held, Ending
    <3>4. CASE ClaimRaises(a) \/ CancelRaises(a)
      BY <3>4, Kinds DEF ClaimRaises, CancelRaises, Go, Held, Ending
    <3>5. CASE FinalizeRaises(a)
      BY <3>5 DEF FinalizeRaises, Go, Remember, Held, Ending
    <3>. QED  BY <1>3, <3>1, <3>2, <3>3, <3>4, <3>5, Kinds DEF Raise
  <2>. QED  BY <1>1, <2>1, <2>2, <2>3, Kinds, OwnFrame
<1>. QED  BY <1>2, <1>3

AloneInv == RunInv /\ KindInv /\ StartedInv /\ AsleepInv /\ OwnInv

LEMMA OwnStep ==
  ASSUME Alone, AloneInv, [Next]_vars
  PROVE  OwnInv'
<1>. TypeOK /\ KindInv /\ AsleepInv /\ OwnInv /\ RunInv
  BY DEF AloneInv, RunInv
<1>. /\ pc \in [Actor -> PC] /\ status \in [Job -> Status]
  BY DEF TypeOK
<1>1. ASSUME NEW a \in Actor, StepOf(a) PROVE OwnInv'
  BY <1>1, OwnTask, OwnBoot, OwnOther DEF StepOf
<1>2. ASSUME NEW a \in Pollers, Poll(a) PROVE OwnInv'
  <2>1. \A b \in Actor : b \in Tasks => pc'[b] = pc[b] \/ pc'[b] = "pending"
    BY <1>2, Kinds DEF Poll
  <2>2. \A b \in Boots : pc'[b] = pc[b]
    BY <1>2, Kinds DEF Poll
  <2>. QED  BY <1>2, <2>1, <2>2, Kinds, OwnFrame DEF Poll, rows, local, Held, Ending
<1>3. ASSUME NEW p \in Proc, Crash(p) PROVE OwnInv'
  <2>1. \A a \in Actor : a.proc = p
    BY OneBoot
  <2>2. \A a \in Tasks : pc'[a] = "idle"
    BY <1>3, <2>1, Kinds DEF Crash
  <2>3. \A b \in Boots : pc'[b] = "down"
    BY <1>3, <2>1, Kinds DEF Crash
  <2>. QED  BY <1>3, <2>2, <2>3, OwnFrame DEF Crash, rows, Held, Ending
<1>4. ASSUME NEW p \in Proc, CreateBatch(p) PROVE OwnInv'
  <2>1. \A j \in Job : status[j] = "absent"
    BY <1>4 DEF RunInv, RowsExist, CreateBatch
  <2>2. \A b \in Boots : pc[b] = "up"
    BY <1>4, OneBoot DEF CreateBatch, Up
  <2>. QED
    BY <1>4, <2>1, <2>2, ActorKinds DEF CreateBatch, OwnInv, TypeOK, Terminal
<1>5. ASSUME NEW j \in Job, CreateChild(j) PROVE OwnInv'
  <2>1. \A k \in Job : status[k] # "absent" => status'[k] = status[k]
    BY <1>5 DEF CreateChild
  <2>2. \A b \in Boots : pc[b] = "up"
    BY <1>5 DEF CreateChild, AsleepInv
  <2>. QED
    BY <1>5, <2>1, <2>2, ActorKinds DEF CreateChild, OwnInv, TypeOK, Terminal
<1>6. CASE (\E p \in Proc : CreateReleaseBatch(p)) \/ CreateRaises \/ UNCHANGED vars
  BY <1>6, OwnFrame DEF CreateReleaseBatch, CreateRaises, vars, rows, local
<1>. QED  BY <1>1, <1>2, <1>3, <1>4, <1>5, <1>6, Kinds DEF Next, StepOf, Create

LEMMA AloneAlways == ASSUME Alone PROVE Spec => []AloneInv
<1>1. Init => AsleepInv /\ OwnInv
  BY Kinds DEF Init, AsleepInv, OwnInv, Held, Ending
<1>2. /\ RunInv /\ KindInv /\ StartedInv /\ AsleepInv /\ OwnInv /\ [Next]_vars
      => AsleepInv' /\ OwnInv'
  BY AsleepStep, OwnStep DEF AloneInv, RunInv
<1>. QED  BY <1>1, <1>2, StartedAlways, PTL DEF Spec, AloneInv

\* A row that ended is left as it is.
LEMMA TerminalKept ==
  ASSUME Alone, AloneInv, [Next]_vars, NEW j \in Job, status[j] \in Terminal
  PROVE  status'[j] = status[j]
<1>. TypeOK /\ KindInv /\ AsleepInv /\ OwnInv /\ RunInv
  BY DEF AloneInv, RunInv
<1>. status \in [Job -> Status] /\ status[j] \notin {"absent", "queued", "running"}
  BY DEF TypeOK, Terminal
<1>1. ASSUME NEW p \in Proc, Create(p) \/ Crash(p) PROVE status'[j] = status[j]
  BY <1>1 DEF RunInv, RowsExist, Create, CreateBatch, CreateReleaseBatch, Crash, rows
<1>2. ASSUME NEW k \in Job, CreateChild(k) PROVE status'[j] = status[j]
  BY <1>2 DEF CreateChild
<1>3. CASE CreateRaises \/ UNCHANGED vars
  BY <1>3 DEF CreateRaises, vars, rows
<1>4. ASSUME NEW a \in Actor, Check(a) \/ SyncEach(a) \/ Raise(a)
      PROVE  status'[j] = status[j]
  BY <1>4 DEF Check, Count, ClaimBatch, Announce, SyncEach, Raise, AnnounceRaises,
     CountRaises, StageRaises, ClaimRaises, FinalizeRaises, CancelRaises, rows
<1>5. ASSUME NEW a \in Tasks, TaskStep(a) PROVE status'[j] = status[j]
  <2>1. pc[a] \in Held => a.id # j
    BY DEF OwnInv
  <2>2. CASE Execute(a) \/ SyncJob(a) \/ Backstop(a)
    BY <2>1, <2>2, ActorKinds DEF Execute, SyncJob, Backstop, Held
  <2>3. CASE ClaimJob(a) \/ LoadJob(a) \/ AppendChildAudit(a) \/ FinalizeRelease(a)
    BY <2>3, ActorKinds DEF ClaimJob, Claimable, LoadJob, AppendChildAudit,
       FinalizeRelease, rows
  <2>. QED  BY <1>5, <2>2, <2>3 DEF TaskStep
<1>6. ASSUME NEW a \in Pollers, Poll(a) PROVE status'[j] = status[j]
  BY <1>6 DEF Poll, rows
<1>7. ASSUME NEW a \in Cancels, CancelSelect(a) \/ CancelStep(a)
      PROVE  status'[j] = status[j]
  BY <1>7 DEF CancelSelect, CancelStep, CancelUpdate, Flipped, CancelRequery, rows
<1>8. ASSUME NEW a \in Boots, BootStep(a) PROVE status'[j] = status[j]
  BY <1>8 DEF BootStep, SweepSelect, SweepMark, Reconcile, rows, OwnInv, Orphans
<1>. QED  BY <1>1, <1>2, <1>3, <1>4, <1>5, <1>6, <1>7, <1>8 DEF Next

\* A cancellation is not taken back.
LEMMA CancelledKept ==
  ASSUME Alone, AloneInv, [Next]_vars, NEW j \in cancelled
  PROVE  j \in cancelled'
<1>. TypeOK /\ OwnInv
  BY DEF AloneInv, RunInv
<1>. SUFFICES ASSUME j \notin cancelled' PROVE FALSE
  OBVIOUS
<1>1. status[j] = "failed" /\ j \in Job
  BY DEF OwnInv, TypeOK
<1>2. \E a \in Tasks : SyncJob(a) /\ j = a.id
  <2>1. \/ \E a \in Tasks : SyncJob(a)
        \/ \E a \in Boots : SweepMark(a)
        \/ \E a \in Cancels : CancelUpdate(a)
    BY DEF Next, Create, CreateBatch, CreateReleaseBatch, CreateChild, CreateRaises,
       Crash, Check, Count, ClaimBatch, Announce, SyncEach, Raise, AnnounceRaises,
       CountRaises, StageRaises, ClaimRaises, FinalizeRaises, CancelRaises,
       TaskStep, ClaimJob, LoadJob, Execute, Backstop, AppendChildAudit,
       FinalizeRelease, Poll, CancelSelect, CancelStep, CancelRequery, BootStep,
       SweepSelect, Reconcile, vars, rows
  <2>2. ASSUME NEW a \in Boots, SweepMark(a) PROVE FALSE
    BY <1>1, <2>2 DEF SweepMark, OwnInv, Orphans
  <2>3. ASSUME NEW a \in Cancels, CancelUpdate(a) PROVE FALSE
    BY <2>3 DEF CancelUpdate
  <2>. QED  BY <2>1, <2>2, <2>3 DEF SyncJob
<1>. QED  BY <1>1, <1>2 DEF SyncJob, OwnInv, Held

\* With one process no outcome of a child is ever overwritten
\* (BatchDispatch!TerminalIsFinal), although sync_job, the backstop, the sweep
\* and a cancellation each write it from what they read earlier.
THEOREM TerminalStaysFinal ==
  ASSUME Alone
  PROVE  Spec => TerminalIsFinal
<1>. DEFINE Kept == \A j \in Job : status[j] \in Terminal => status'[j] = status[j]
<1>1. AloneInv /\ [Next]_vars => Kept
  BY TerminalKept
<1>2. Kept => [Kept]_vars
  OBVIOUS
<1>. QED  BY <1>1, <1>2, AloneAlways, PTL DEF Spec, TerminalIsFinal

----------------------------------------------------------------------------
(***************************************************************************)
(* Healing.  The boot's reconciliation has in its session the outcomes of  *)
(* exactly the Releases that are behind their child, and nobody else       *)
(* touches a row meanwhile.                                                *)
(***************************************************************************)
CopyInv ==
  /\ \A b \in Boots : pc[b] \notin {"heal", "up"} =>
       \A j \in Job : session[b][j] = "expired"
  /\ \A a \in Cancels : \A j \in Job : session[a][j] = "expired"

HealInv ==
  \A b \in Boots : pc[b] = "heal" =>
    \A j \in Job : /\ j \in ids[b] <=> Stale(j)
                   /\ j \in ids[b] => session[b][j] = status[j]

LEMMA CopyStep ==
  ASSUME Alone, AloneInv, CopyInv, [Next]_vars
  PROVE  CopyInv'
<1>. TypeOK /\ KindInv /\ AsleepInv
  BY DEF AloneInv, RunInv
<1>. /\ pc \in [Actor -> PC]
     /\ session \in [Actor -> [Job -> Status \cup {"expired"}]]
  BY DEF TypeOK
<1>1. ASSUME NEW a \in Actor, StepOf(a) PROVE CopyInv'
  <2>1. a \in Cancels => session' = session
    BY <1>1, Kinds DEF StepOf, Check, Count, ClaimBatch, Announce, SyncEach,
       Raise, AnnounceRaises, CountRaises, StageRaises, ClaimRaises,
       FinalizeRaises, CancelRaises, KindInv, Held, Closing,
       CancelSelect, CancelStep, CancelUpdate, CancelRequery, local
  <2>2. a \in Boots /\ pc'[a] \notin {"heal", "up"} =>
          /\ pc[a] \notin {"heal", "up"}
          /\ session' = session \/ \A j \in Job : session'[a][j] = "expired"
    <3>. SUFFICES ASSUME a \in Boots, pc'[a] \notin {"heal", "up"}
                  PROVE  /\ pc[a] \notin {"heal", "up"}
                         /\ session' = session \/ \A j \in Job : session'[a][j] = "expired"
      OBVIOUS
    <3>1. CASE Check(a)
      BY <3>1 DEF Check, Count, ClaimBatch, Announce, local
    <3>2. CASE SyncEach(a)
      BY <3>2 DEF SyncEach, Go
    <3>3. CASE Raise(a)
      BY <3>3, Kinds DEF Raise, AnnounceRaises, CountRaises, StageRaises, ClaimRaises,
         FinalizeRaises, CancelRaises, KindInv, Held, Closing
    <3>4. CASE SweepSelect(a) \/ SweepMark(a)
      BY <3>4 DEF SweepSelect, SweepMark, local
    <3>5. CASE Reconcile(a)
      BY <3>5 DEF Reconcile, Go
    <3>. QED  BY <1>1, <3>1, <3>2, <3>3, <3>4, <3>5, Kinds DEF StepOf, BootStep
  <2>. QED  BY <1>1, <2>1, <2>2, OthersStay, Kinds DEF CopyInv
<1>2. ASSUME NEW a \in Pollers, Poll(a) PROVE CopyInv'
  BY <1>2, Kinds DEF Poll, CopyInv, local
<1>3. ASSUME NEW p \in Proc, Crash(p) PROVE CopyInv'
  <2>1. \A a \in Actor : a.proc = p
    BY OneBoot
  <2>2. \A a \in Actor : session'[a] = [j \in Job |-> "expired"]
    BY <1>3, <2>1 DEF Crash
  <2>. QED  BY <2>2, Kinds DEF CopyInv
<1>4. CASE \/ \E p \in Proc : Create(p)
           \/ \E j \in Job : CreateChild(j)
           \/ CreateRaises \/ UNCHANGED vars
  BY <1>4 DEF Create, CreateBatch, CreateReleaseBatch, CreateChild, CreateRaises,
     vars, local, CopyInv
<1>. QED  BY <1>1, <1>2, <1>3, <1>4, Kinds DEF Next, StepOf

\* What the boot leaves behind when it moves on.
LEMMA HealMoves ==
  ASSUME Alone, AloneInv, HealInv, [Next]_vars, NEW b \in Boots,
         pc'[b] = "heal" \/ (pc'[b] = "up" /\ pc[b] # "up")
  PROVE  /\ pc'[b] = "heal" => \A j \in Job :
              /\ j \in ids'[b] <=> Stale(j)'
              /\ j \in ids'[b] => session'[b][j] = status'[j]
         /\ pc'[b] = "up" => \A j \in Job : ~Stale(j)'
<1>. TypeOK /\ KindInv /\ AsleepInv /\ b \in Actor
  BY Kinds DEF AloneInv, RunInv
<1>. /\ pc \in [Actor -> PC] /\ ids \in [Actor -> SUBSET Job]
     /\ session \in [Actor -> [Job -> Status \cup {"expired"}]]
     /\ release \in [Job -> Status \cup {"none"}]
  BY DEF TypeOK
<1>1. pc[b] # "up"
  <2>1. ASSUME pc[b] = "up", pc'[b] = "heal" PROVE FALSE
    <3>1. ASSUME NEW a \in Actor, StepOf(a) PROVE FALSE
      BY <2>1, <3>1, OthersStay, Kinds DEF StepOf, Check, Count, ClaimBatch, Announce,
         SyncEach, Raise, AnnounceRaises, CountRaises, StageRaises, ClaimRaises,
         FinalizeRaises, CancelRaises, BootStep, SweepSelect, SweepMark, Reconcile
    <3>2. ASSUME NEW a \in Pollers, Poll(a) PROVE FALSE
      BY <2>1, <3>2, Kinds DEF Poll
    <3>3. ASSUME NEW p \in Proc, Crash(p) PROVE FALSE
      BY <2>1, <3>3, OneBoot, Kinds DEF Crash
    <3>. QED
      BY <2>1, <3>1, <3>2, <3>3, Kinds DEF Next, StepOf, Create, CreateBatch,
         CreateReleaseBatch, CreateChild, CreateRaises, vars
  <2>. QED  BY <2>1
<1>2. CASE StepOf(b)
  <2>1. CASE Reconcile(b)
    <3>1. status' = status /\ release' = release
      BY <2>1 DEF Reconcile, rows
    <3>2. \A j \in Job : Stale(j)' <=> Stale(j)
      BY <3>1 DEF Stale
    <3>3. CASE {j \in Job : Stale(j)} = {}
      BY <2>1, <3>2, <3>3 DEF Reconcile, Go
    <3>4. CASE {j \in Job : Stale(j)} # {}
      <4>1. pc'[b] = "heal"
        BY <2>1, <3>4 DEF Reconcile, Go
      <4>2. ids'[b] = {j \in Job : Stale(j)}
        BY <2>1 DEF Reconcile
      <4>3. \A j \in Job : Stale(j) => session'[b][j] = status[j]
        BY <2>1 DEF Reconcile
      <4>. QED  BY <3>1, <3>2, <4>1, <4>2, <4>3
    <3>. QED  BY <3>3, <3>4
  <2>2. CASE SyncEach(b) /\ pc[b] = "heal"
    <3>1. PICK j \in ids[b] :
            /\ SyncRelease(b, j)
            /\ ids' = [ids EXCEPT ![b] = ids[b] \ {j}]
            /\ \/ ids[b] # {j} /\ pc' = pc
               \/ ids[b] = {j} /\ pc' = [pc EXCEPT ![b] = "up"]
      BY <2>2, Zenon DEF SyncEach, Go
    <3>2. status' = status /\ session' = session
      BY <2>2 DEF SyncEach
    <3>3. j \in Job /\ Stale(j) /\ Seen(b, j) = status[j]
      BY <2>2, <3>1 DEF HealInv, Seen, Stale
    <3>4. release' = [release EXCEPT ![j] = status[j]]
      BY <3>1, <3>3 DEF SyncRelease, Stale
    <3>5. \A k \in Job : Stale(k)' <=> Stale(k) /\ k # j
      BY <3>2, <3>3, <3>4 DEF Stale, Terminal
    <3>6. ids'[b] = ids[b] \ {j}
      BY <3>1
    <3>. QED  BY <2>2, <3>1, <3>2, <3>5, <3>6 DEF HealInv
  <2>3. CASE ~Reconcile(b) /\ ~(SyncEach(b) /\ pc[b] = "heal")
    <3>1. CASE Check(b) \/ AnnounceRaises(b) \/ CountRaises(b)
      BY <3>1, KindCheck
    <3>. QED
      BY <1>2, <2>3, <3>1, Kinds DEF StepOf, SyncEach, Raise, StageRaises, ClaimRaises,
         FinalizeRaises, CancelRaises, BootStep, SweepSelect, SweepMark, Go
  <2>. QED  BY <2>1, <2>2, <2>3
<1>3. ASSUME NEW a \in Actor, StepOf(a) PROVE StepOf(b)
  BY <1>1, <1>3, OnlyBoot
<1>4. ASSUME NEW a \in Pollers, Poll(a) PROVE FALSE
  BY <1>1, <1>4, OneBoot, Kinds DEF Poll, Up
<1>5. ASSUME NEW p \in Proc, Crash(p) PROVE FALSE
  BY <1>5, OneBoot, Kinds DEF Crash
<1>6. ASSUME NEW p \in Proc, Create(p) PROVE FALSE
  BY <1>1, <1>6, OneBoot DEF Create, CreateBatch, CreateReleaseBatch, Up
<1>7. ASSUME NEW j \in Job, CreateChild(j) PROVE FALSE
  BY <1>1, <1>7 DEF CreateChild, AsleepInv
<1>8. CASE CreateRaises \/ UNCHANGED vars
  BY <1>1, <1>8 DEF CreateRaises, vars, rows, local, HealInv, Stale
<1>. QED  BY <1>2, <1>3, <1>4, <1>5, <1>6, <1>7, <1>8, Kinds DEF Next, StepOf

LEMMA HealAlways == ASSUME Alone PROVE Spec => [](AloneInv /\ CopyInv /\ HealInv)
<1>1. Init => CopyInv /\ HealInv
  BY Kinds DEF Init, CopyInv, HealInv
<1>2. AloneInv /\ CopyInv /\ HealInv /\ [Next]_vars => CopyInv' /\ HealInv'
  <2>1. AloneInv /\ HealInv /\ [Next]_vars => HealInv'
    BY HealMoves DEF HealInv
  <2>. QED  BY <2>1, CopyStep
<1>. QED  BY <1>1, <1>2, AloneAlways, PTL DEF Spec

\* With one process, when it begins to serve no Release is behind a child that
\* ended (BatchDispatch!HealedBeforeServing), wherever the last death fell:
\* _reconcile_stale_releases before create_app returns.
THEOREM HealsBeforeServing ==
  ASSUME Alone
  PROVE  Spec => HealedBeforeServing
<1>. DEFINE Healed == \A p \in Proc : ~Up(p) /\ Up(p)'
                        => \A j \in Job : release'[j] \in {"queued", "running"}
                                            => status'[j] \notin Terminal
<1>1. AloneInv /\ HealInv /\ [Next]_vars => Healed
  <2>. SUFFICES ASSUME AloneInv, HealInv, [Next]_vars, NEW p \in Proc, ~Up(p), Up(p)',
                       NEW j \in Job
                PROVE  ~Stale(j)'
    BY DEF Stale
  <2>1. BootOf(p) \in Boots /\ pc[BootOf(p)] # "up" /\ pc'[BootOf(p)] = "up"
    BY OneBoot DEF Up, BootOf
  <2>. QED  BY <2>1, HealMoves
<1>2. Healed => [Healed]_vars
  OBVIOUS
<1>. QED  BY <1>1, <1>2, HealAlways, PTL DEF Spec, HealedBeforeServing

----------------------------------------------------------------------------
(***************************************************************************)
(* One settlement.  A Release is untouched, or it and its event carry the  *)
(* outcome of its child.  Whoever is about to settle one finds it          *)
(* untouched and is the only one: the task, or the cancel that flipped     *)
(* the child, or the boot.  Two cancels could take the same child for      *)
(* theirs; SQLite's write lock, or there being one request, excludes it.   *)
(***************************************************************************)
OneCancel == Serializable \/ \A r, s \in Request : r = s

Unsettled(j) == release[j] \in {"none", "queued"} /\ evRelease[j] = <<>>
Settled(j) ==
  release[j] \in Terminal /\ release[j] = status[j] /\ evRelease[j] = <<status[j]>>

Mine == {"requery", "sync"}

LockInv ==
  Serializable => \A a \in Actor : pc[a] \in {"update", "loaded"} => tx = a

CancelInv ==
  /\ \A a \in Cancels : pc[a] = "update" => \A j \in ids[a] : j \notin cancelled
  /\ \A a \in Cancels : pc[a] \in Mine => \A j \in ids[a] : status[j] # "queued"
  /\ \A a \in Cancels : pc[a] \in Mine =>
       \A j \in ids[a] : j \in cancelled => Unsettled(j)
  /\ \A a \in Cancels : pc[a] = "sync" => \A j \in ids[a] : j \in cancelled
  /\ \A a \in Cancels, b \in Cancels : a # b /\ pc[a] \in Mine /\ pc[b] \in Mine =>
       \A j \in ids[a] : j \in ids[b] => j \notin cancelled

RowInv == \A j \in Job : Unsettled(j) \/ Settled(j)

TaskInv ==
  \A a \in Tasks : pc[a] \in Ending => Unsettled(a.id) /\ a.id \notin cancelled

BootInv ==
  \A b \in Boots : pc[b] = "sync" =>
    \A j \in ids[b] : Unsettled(j) /\ status[j] \in Terminal

LEMMA LockStep == TypeOK /\ LockInv /\ [Next]_vars => LockInv'
<1>. SUFFICES ASSUME TypeOK, LockInv, [Next]_vars, Serializable
              PROVE  \A a \in Actor : pc'[a] \in {"update", "loaded"} => tx' = a
  BY DEF LockInv
<1>. pc \in [Actor -> PC] /\ \A a \in Actor : pc[a] \in {"update", "loaded"} => tx = a
  BY DEF TypeOK, LockInv
<1>. NoActor \notin Actor
  BY DEF NoActor, Actor, Tasks, Pollers, Boots, Cancels
<1>1. ASSUME NEW a \in Actor, StepOf(a), NEW b \in Actor, pc'[b] \in {"update", "loaded"}
      PROVE  tx' = b
  <2>1. CASE b = a
    <3>1. LoadJob(a) \/ CancelSelect(a)
      <4>1. CASE Check(a) \/ AnnounceRaises(a) \/ CountRaises(a)
        BY <1>1, <2>1, <4>1, KindCheck
      <4>2. CASE SyncEach(a)
        BY <1>1, <2>1, <4>2 DEF SyncEach, Go
      <4>3. CASE FinalizeRaises(a)
        BY <1>1, <2>1, <4>3 DEF FinalizeRaises, Go
      <4>. QED
        BY <1>1, <2>1, <4>1, <4>2, <4>3 DEF StepOf, Raise, StageRaises, ClaimRaises,
           CancelRaises, TaskStep, ClaimJob, Execute, SyncJob, Backstop,
           AppendChildAudit, FinalizeRelease, CancelStep, CancelUpdate,
           CancelRequery, BootStep, SweepSelect, SweepMark, Reconcile, Go
    <3>. QED  BY <2>1, <3>1 DEF LoadJob, CancelSelect, Hold
  <2>2. CASE b # a
    <3>1. tx = b
      BY <1>1, <2>2, OthersStay
    <3>2. ~Free(a) /\ pc[a] # "loaded"
      BY <2>2, <3>1 DEF Free
    <3>. QED
      BY <1>1, <2>2, <3>1, <3>2 DEF StepOf, Check, Count, ClaimBatch, Announce, SyncEach,
         Raise, AnnounceRaises, CountRaises, StageRaises, ClaimRaises, FinalizeRaises,
         CancelRaises, TaskStep, ClaimJob, LoadJob, Execute, SyncJob, Backstop,
         AppendChildAudit, FinalizeRelease, CancelSelect, CancelStep, CancelUpdate,
         CancelRequery, BootStep, SweepSelect, SweepMark, Reconcile, Rollback
  <2>. QED  BY <2>1, <2>2
<1>2. ASSUME NEW a \in Pollers, Poll(a), NEW b \in Actor, pc'[b] \in {"update", "loaded"}
      PROVE  tx' = b
  BY <1>2 DEF Poll
<1>3. ASSUME NEW p \in Proc, Crash(p), NEW b \in Actor, pc'[b] \in {"update", "loaded"}
      PROVE  tx' = b
  BY <1>3 DEF Crash
<1>4. CASE \/ \E p \in Proc : Create(p)
           \/ \E j \in Job : CreateChild(j)
           \/ CreateRaises \/ UNCHANGED vars
  BY <1>4 DEF Create, CreateBatch, CreateReleaseBatch, CreateChild, CreateRaises,
     vars
<1>. QED  BY <1>1, <1>2, <1>3, <1>4, Kinds DEF Next, StepOf

SettleInv == CancelInv /\ RowInv /\ TaskInv /\ BootInv

EachInv == AloneInv /\ LockInv /\ CopyInv /\ HealInv /\ SettleInv

\* sync_release on an untouched Release of a child that ended.
LEMMA SettleOne ==
  ASSUME TypeOK, NEW a \in Actor, NEW j \in Job, SyncRelease(a, j), status' = status,
         Unsettled(j), Seen(a, j) = status[j], status[j] \in Terminal
  PROVE  /\ (release'[j] = "none" /\ Unsettled(j)') \/ Settled(j)'
         /\ \A k \in Job : k # j => release'[k] = release[k] /\ evRelease'[k] = evRelease[k]
<1>. /\ release \in [Job -> Status \cup {"none"}]
     /\ evRelease \in [Job -> Seq(Status)]
  BY DEF TypeOK
<1>1. CASE release[j] = "none"
  BY <1>1 DEF SyncRelease, Unsettled
<1>2. CASE release[j] # "none"
  <2>1. /\ release' = [release EXCEPT ![j] = status[j]]
        /\ evRelease' = [evRelease EXCEPT ![j] = Append(evRelease[j], status[j])]
    BY <1>2 DEF SyncRelease
  <2>2. evRelease[j] = <<>>
    BY DEF Unsettled
  <2>3. Append(evRelease[j], status[j]) = <<status[j]>>
    BY <2>2
  <2>. QED  BY <2>1, <2>3 DEF Settled
<1>. QED  BY <1>1, <1>2

\* Whoever is at a Release finds it untouched and the outcome in its session.
LEMMA SettlerFinds ==
  ASSUME EachInv, NEW a \in Actor, NEW j \in Job,
         \/ pc[a] \in {"sync", "heal"} /\ j \in ids[a]
         \/ a \in Tasks /\ pc[a] = "release" /\ j = a.id
  PROVE  Unsettled(j) /\ Seen(a, j) = status[j] /\ status[j] \in Terminal
<1>. /\ KindInv /\ OwnInv /\ CopyInv /\ HealInv
     /\ CancelInv /\ RowInv /\ TaskInv /\ BootInv
  BY DEF EachInv, AloneInv, SettleInv
<1>1. CASE a \in Tasks
  <2>1. pc[a] = "release" /\ j = a.id
    BY <1>1 DEF KindInv, Held, Ending, Closing
  <2>. QED  BY <1>1, <2>1 DEF TaskInv, OwnInv, Ending, Seen
<1>2. CASE a \in Cancels
  <2>1. pc[a] = "sync" /\ j \in ids[a]
    BY <1>2, Kinds DEF KindInv, Closing
  <2>2. j \in cancelled /\ Unsettled(j)
    BY <1>2, <2>1 DEF CancelInv, Mine
  <2>. QED  BY <1>2, <2>2 DEF OwnInv, CopyInv, Seen, Terminal
<1>3. CASE a \in Boots /\ pc[a] = "sync" /\ j \in ids[a]
  BY <1>3 DEF BootInv, CopyInv, Seen
<1>4. CASE a \in Boots /\ pc[a] = "heal" /\ j \in ids[a]
  <2>1. Stale(j) /\ session[a][j] = status[j]
    BY <1>4 DEF HealInv
  <2>2. Unsettled(j)
    BY <2>1 DEF RowInv, Settled, Stale, Terminal
  <2>. QED  BY <2>1, <2>2 DEF Stale, Seen
<1>. QED  BY <1>1, <1>2, <1>3, <1>4, Kinds DEF KindInv, Closing

\* What it settles no other thread is about to settle.
LEMMA SettlerAlone ==
  ASSUME Alone, EachInv, NEW a \in Actor, NEW j \in Job,
         \/ pc[a] \in {"sync", "heal"} /\ j \in ids[a]
         \/ a \in Tasks /\ pc[a] = "release" /\ j = a.id
  PROVE  /\ \A b \in Tasks : b # a /\ pc[b] \in Ending => b.id # j
         /\ \A b \in Cancels : b # a /\ pc[b] \in Mine =>
              \A k \in ids[b] : k \in cancelled => k # j
         /\ a \notin Boots => \A b \in Boots : pc[b] = "up"
<1>. KindInv /\ AsleepInv /\ CancelInv /\ TaskInv
  BY DEF EachInv, AloneInv, SettleInv
<1>1. CASE a \in Tasks
  <2>1. pc[a] = "release" /\ j = a.id
    BY <1>1 DEF KindInv, Held, Ending, Closing
  <2>2. j \notin cancelled
    BY <1>1, <2>1 DEF TaskInv, Ending
  <2>3. \A b \in Tasks : b # a => b.id # j
    BY <1>1, <2>1, OneBoot
  <2>4. \A b \in Boots : pc[b] = "up"
    BY <1>1, <2>1, Kinds DEF AsleepInv
  <2>. QED  BY <2>2, <2>3, <2>4
<1>2. CASE a \in Cancels
  <2>1. pc[a] = "sync" /\ j \in ids[a]
    BY <1>2, Kinds DEF KindInv, Closing
  <2>2. j \in cancelled
    BY <1>2, <2>1 DEF CancelInv
  <2>3. \A b \in Tasks : pc[b] \in Ending => b.id # j
    BY <2>2 DEF TaskInv
  <2>4. \A b \in Cancels : b # a /\ pc[b] \in Mine => j \notin ids[b]
    BY <1>2, <2>1, <2>2 DEF CancelInv, Mine
  <2>5. \A b \in Boots : pc[b] = "up"
    BY <1>2, <2>1, Kinds DEF AsleepInv
  <2>. QED  BY <2>3, <2>4, <2>5
<1>3. CASE a \in Boots
  <2>1. pc[a] # "up"
    BY <1>3, Kinds
  <2>2. \A b \in Actor : b \notin Boots => pc[b] \in {"idle", "over"}
    BY <1>3, <2>1 DEF AsleepInv
  <2>. QED  BY <1>3, <2>2, Kinds DEF Ending, Mine
<1>4. CASE a \in Pollers
  BY <1>4, Kinds DEF KindInv, Closing
<1>. QED  BY <1>1, <1>2, <1>3, <1>4, Kinds

\* A settlement.
LEMMA SettleSync ==
  ASSUME Alone, EachInv, NEW a \in Actor,
         SyncEach(a) \/ (a \in Tasks /\ FinalizeRelease(a))
  PROVE  SettleInv'
<1>. /\ TypeOK /\ KindInv /\ AsleepInv /\ OwnInv
     /\ CancelInv /\ RowInv /\ TaskInv /\ BootInv
  BY DEF EachInv, AloneInv, SettleInv, RunInv
<1>. /\ pc \in [Actor -> PC] /\ status \in [Job -> Status]
     /\ ids \in [Actor -> SUBSET Job]
  BY DEF TypeOK
<1>1. PICK j \in Job :
        /\ SyncRelease(a, j)
        /\ \/ /\ pc[a] \in {"sync", "heal"} /\ j \in ids[a]
              /\ ids' = [ids EXCEPT ![a] = ids[a] \ {j}]
              /\ \/ pc' = pc
                 \/ pc' = [pc EXCEPT ![a] = "count"]
                 \/ pc' = [pc EXCEPT ![a] = "up"]
           \/ /\ a \in Tasks /\ pc[a] = "release" /\ j = a.id
              /\ ids' = ids /\ pc' = [pc EXCEPT ![a] = "count"]
  <2>1. CASE SyncEach(a)
    <3>1. PICK j \in ids[a] :
            /\ SyncRelease(a, j)
            /\ ids' = [ids EXCEPT ![a] = ids[a] \ {j}]
            /\ pc' = pc \/ Go(a, "count") \/ Go(a, "up")
      BY <2>1 DEF SyncEach
    <3>. QED  BY <2>1, <3>1 DEF SyncEach, Go
  <2>2. CASE a \in Tasks /\ FinalizeRelease(a)
    BY <2>2, ActorKinds DEF FinalizeRelease, Go, local
  <2>. QED  BY <2>1, <2>2
<1>2. Unsettled(j) /\ Seen(a, j) = status[j] /\ status[j] \in Terminal
  BY <1>1, SettlerFinds
<1>3. /\ \A b \in Tasks : b # a /\ pc[b] \in Ending => b.id # j
      /\ \A b \in Cancels : b # a /\ pc[b] \in Mine =>
           \A k \in ids[b] : k \in cancelled => k # j
      /\ a \notin Boots => \A b \in Boots : pc[b] = "up"
  BY <1>1, SettlerAlone
<1>4. status' = status /\ cancelled' = cancelled /\ session' = session
  BY DEF SyncEach, FinalizeRelease
<1>5. /\ (release'[j] = "none" /\ Unsettled(j)') \/ Settled(j)'
      /\ \A k \in Job : k # j => release'[k] = release[k] /\ evRelease'[k] = evRelease[k]
  BY <1>1, <1>2, <1>4, SettleOne
<1>6. \A k \in Job : k # j => (Unsettled(k) => Unsettled(k)') /\ (Settled(k) => Settled(k)')
  BY <1>4, <1>5 DEF Unsettled, Settled
<1>7. \A b \in Actor : b # a => pc'[b] = pc[b] /\ ids'[b] = ids[b]
  BY <1>1
<1>8. RowInv'
  BY <1>5, <1>6 DEF RowInv
<1>9. TaskInv'
  <2>. SUFFICES ASSUME NEW b \in Tasks, pc'[b] \in Ending
                PROVE  Unsettled(b.id)' /\ b.id \notin cancelled
    BY <1>4 DEF TaskInv
  <2>1. b # a
    BY <1>1, Kinds DEF Ending, KindInv, Held, Closing
  <2>2. pc[b] \in Ending
    BY <1>7, <2>1, Kinds
  <2>. QED  BY <1>3, <1>6, <2>1, <2>2, ActorKinds DEF TaskInv
<1>10. CancelInv'
  <2>1. \A b \in Cancels : /\ pc'[b] = "update" => pc[b] = "update" /\ ids'[b] = ids[b]
                           /\ pc'[b] \in Mine => pc'[b] = pc[b] /\ ids'[b] \subseteq ids[b]
    BY <1>1, Kinds DEF Mine
  <2>2. ASSUME NEW b \in Cancels, pc'[b] \in Mine, NEW k \in ids'[b], k \in cancelled
        PROVE  Unsettled(k)'
    <3>1. k # j
      BY <1>1, <1>3, <2>1, <2>2, Kinds
    <3>2. Unsettled(k)
      BY <2>1, <2>2 DEF CancelInv
    <3>. QED  BY <1>6, <2>1, <2>2, <3>1, <3>2, Kinds
  <2>3. \A b \in Cancels : pc'[b] = "sync" => \A k \in ids'[b] : k \in cancelled
    BY <2>1 DEF CancelInv, Mine
  <2>4. \A b \in Cancels : pc'[b] \in Mine => \A k \in ids'[b] : status[k] # "queued"
    BY <2>1 DEF CancelInv
  <2>5. \A b \in Cancels, c \in Cancels : b # c /\ pc'[b] \in Mine /\ pc'[c] \in Mine =>
          \A k \in ids'[b] : k \in ids'[c] => k \notin cancelled
    BY <2>1 DEF CancelInv
  <2>6. \A b \in Cancels : pc'[b] = "update" => \A k \in ids'[b] : k \notin cancelled
    BY <2>1 DEF CancelInv
  <2>. QED  BY <1>4, <2>2, <2>3, <2>4, <2>5, <2>6 DEF CancelInv
<1>11. BootInv'
  <2>1. CASE a \notin Boots
    BY <1>3, <1>7, <2>1, Kinds DEF BootInv
  <2>2. CASE a \in Boots
    <3>1. a \notin Tasks /\ ids'[a] = ids[a] \ {j} /\ pc'[a] \in {pc[a], "count", "up"}
      BY <1>1, <2>2, Kinds
    <3>. QED  BY <1>4, <1>6, <2>2, <3>1, OneBoot DEF BootInv
  <2>. QED  BY <2>1, <2>2
<1>. QED  BY <1>8, <1>9, <1>10, <1>11 DEF SettleInv

\* A step that settles nothing, withdraws no outcome and cancels nothing, and
\* brings no thread to a new place from which to settle.
LEMMA SettleFrame ==
  ASSUME Alone, EachInv, [Next]_vars,
         release' = release, evRelease' = evRelease, cancelled' \subseteq cancelled,
         \A a \in Tasks : pc'[a] \in Ending =>
           \/ pc[a] \in Ending
           \/ status[a.id] = "running",
         \A a \in Cancels : pc'[a] = "update" => pc[a] = "update" /\ ids'[a] = ids[a],
         \A a \in Cancels : pc'[a] \in Mine => pc'[a] = pc[a] /\ ids'[a] = ids[a],
         \A b \in Boots :
           \/ pc'[b] # "sync"
           \/ pc'[b] = pc[b] /\ ids'[b] = ids[b] /\ status' = status
  PROVE  SettleInv'
<1>. /\ TypeOK /\ KindInv /\ AsleepInv /\ OwnInv /\ AloneInv /\ RunInv
     /\ CancelInv /\ RowInv /\ TaskInv /\ BootInv
  BY DEF EachInv, AloneInv, SettleInv, RunInv
<1>1. \A k \in Job : (Unsettled(k) => Unsettled(k)') /\ (Settled(k) => Settled(k)')
  <2>1. \A k \in Job : status[k] \in Terminal => status'[k] = status[k]
    BY TerminalKept
  <2>. QED  BY <2>1 DEF Unsettled, Settled
<1>2. RowInv'
  BY <1>1 DEF RowInv
<1>3. TaskInv'
  <2>1. \A j \in Job : status[j] = "running" => Unsettled(j) /\ j \notin cancelled
    BY DEF RowInv, Settled, Terminal, OwnInv
  <2>. QED  BY <1>1, <2>1, ActorKinds DEF TaskInv
<1>4. BootInv'
  <2>. SUFFICES ASSUME NEW b \in Boots, pc'[b] = "sync"
                PROVE  \A j \in ids'[b] : Unsettled(j)' /\ status'[j] \in Terminal
    BY DEF BootInv
  <2>1. /\ pc'[b] = pc[b] /\ ids'[b] = ids[b] /\ status' = status
        /\ \A j \in ids[b] : j \in Job
    BY Kinds DEF TypeOK
  <2>. QED  BY <1>1, <2>1 DEF BootInv
<1>5. CancelInv'
  <2>1. \A a \in Cancels : pc'[a] \in Mine =>
          pc[a] \in Mine /\ ids'[a] = ids[a] /\ \A j \in ids[a] : j \in Job
    BY Kinds DEF TypeOK
  <2>2. \A a \in Cancels : pc'[a] \in Mine => \A j \in ids'[a] : status'[j] # "queued"
    <3>. SUFFICES ASSUME NEW a \in Cancels, pc'[a] \in Mine, NEW j \in ids[a]
                  PROVE  status'[j] # "queued"
      BY <2>1
    <3>1. status[j] \notin {"absent", "queued"}
      BY <2>1, Kinds DEF CancelInv, RunInv, RowsExist
    <3>. QED  BY <2>1, <3>1, NeverRequeued
  <2>3. \A a \in Cancels : pc'[a] \in Mine =>
          \A j \in ids'[a] : j \in cancelled' => Unsettled(j)'
    BY <1>1, <2>1 DEF CancelInv
  <2>4. \A a \in Cancels : pc'[a] = "sync" => \A j \in ids'[a] : j \in cancelled'
    <3>1. \A j \in cancelled : j \in cancelled'
      BY CancelledKept
    <3>. QED  BY <2>1, <3>1 DEF CancelInv, Mine
  <2>5. \A a \in Cancels, b \in Cancels : a # b /\ pc'[a] \in Mine /\ pc'[b] \in Mine =>
          \A j \in ids'[a] : j \in ids'[b] => j \notin cancelled'
    BY <2>1 DEF CancelInv
  <2>6. \A a \in Cancels : pc'[a] = "update" => \A j \in ids'[a] : j \notin cancelled'
    BY DEF CancelInv
  <2>. QED  BY <2>2, <2>3, <2>4, <2>5, <2>6 DEF CancelInv
<1>. QED  BY <1>2, <1>3, <1>4, <1>5 DEF SettleInv

\* The three steps of a cancel.
LEMMA SettleCancel ==
  ASSUME Alone, OneCancel, EachInv, [Next]_vars, NEW a \in Cancels,
         CancelSelect(a) \/ CancelStep(a)
  PROVE  SettleInv'
<1>. /\ TypeOK /\ KindInv /\ AsleepInv /\ OwnInv /\ AloneInv /\ RunInv /\ LockInv
     /\ CancelInv /\ RowInv /\ TaskInv /\ BootInv
  BY DEF EachInv, AloneInv, SettleInv, RunInv
<1>. /\ pc \in [Actor -> PC] /\ status \in [Job -> Status]
     /\ ids \in [Actor -> SUBSET Job] /\ a \in Actor
  BY Kinds DEF TypeOK
<1>1. \A b \in Actor : b # a => pc'[b] = pc[b] /\ ids'[b] = ids[b]
  BY OthersStay DEF StepOf
<1>2. \A k \in Job : (Unsettled(k) => Unsettled(k)') /\ (Settled(k) => Settled(k)')
  <2>1. \A k \in Job : status[k] \in Terminal => status'[k] = status[k]
    BY TerminalKept
  <2>2. release' = release /\ evRelease' = evRelease
    BY DEF CancelSelect, CancelStep, CancelUpdate, CancelRequery, rows, chain
  <2>. QED  BY <2>1, <2>2 DEF Unsettled, Settled
<1>3. RowInv'
  BY <1>2 DEF RowInv
<1>4. \A b \in Boots : pc[b] = "up" /\ pc'[b] = "up"
  <2>1. \A b \in Boots : pc[b] = "up"
    <3>1. CASE CancelSelect(a)
      BY <3>1, OneBoot DEF CancelSelect, Up
    <3>2. CASE CancelStep(a)
      BY <3>2, Kinds DEF CancelStep, CancelUpdate, CancelRequery, AsleepInv
    <3>. QED  BY <3>1, <3>2
  <2>. QED  BY <1>1, <2>1, Kinds
<1>5. BootInv'
  BY <1>4 DEF BootInv
<1>6. CASE CancelUpdate(a)
  <2>1. /\ pc[a] = "update" /\ pc'[a] = "requery" /\ ids' = ids
        /\ cancelled' = cancelled \cup Flipped(a)
        /\ \A j \in Job : status'[j] = IF j \in Flipped(a) THEN "failed" ELSE status[j]
    BY <1>6 DEF CancelUpdate, Go, local
  <2>2. \A j \in Flipped(a) : j \in ids[a] /\ j \in Job /\ status[j] = "queued" /\ Unsettled(j)
    BY DEF Flipped, RowInv, Settled, Terminal
  <2>3. TaskInv'
    <3>1. \A b \in Tasks : pc'[b] \in Ending => pc[b] \in Ending /\ b.id \notin Flipped(a)
      BY <1>1, <2>2, Kinds DEF OwnInv, Terminal
    <3>. QED  BY <1>2, <2>1, <3>1, ActorKinds DEF TaskInv
  <2>4. CancelInv'
    <3>1. \A b \in Cancels : b # a => pc[b] # "update"
      <4>. SUFFICES ASSUME NEW b \in Cancels, b # a, pc[b] = "update" PROVE FALSE
        OBVIOUS
      <4>1. CASE Serializable
        <5>1. tx = b /\ tx = a
          BY <2>1, <4>1, Kinds DEF LockInv
        <5>. QED  BY <5>1
      <4>2. CASE \A r, s \in Request : r = s
        BY <4>2 DEF Alone, Cancels
      <4>. QED  BY <4>1, <4>2 DEF OneCancel
    <3>2. \A b \in Cancels : pc'[b] # "update"
      BY <1>1, <2>1, <3>1, Kinds
    <3>3. \A b \in Cancels : pc'[b] \in Mine /\ b # a =>
            pc[b] \in Mine /\ ids[b] \cap Flipped(a) = {}
      BY <1>1, <2>2, Kinds DEF CancelInv
    <3>4. \A b \in Cancels : pc'[b] \in Mine => \A j \in ids'[b] : status'[j] # "queued"
      <4>1. \A j \in ids[a] : status'[j] # "queued"
        BY <2>1 DEF Flipped
      <4>2. \A b \in Cancels : b # a /\ pc'[b] \in Mine => \A j \in ids'[b] : status'[j] # "queued"
        BY <2>1, <3>3, Kinds DEF CancelInv
      <4>. QED  BY <2>1, <4>1, <4>2
    <3>5. \A b \in Cancels : pc'[b] \in Mine =>
            \A j \in ids'[b] : j \in cancelled' => Unsettled(j)'
      <4>1. \A j \in ids[a] : j \in cancelled' => Unsettled(j)'
        BY <1>2, <2>1, <2>2 DEF CancelInv
      <4>2. \A b \in Cancels : b # a /\ pc'[b] \in Mine =>
              \A j \in ids'[b] : j \in cancelled' => Unsettled(j)'
        BY <1>2, <2>1, <3>3, Kinds DEF CancelInv
      <4>. QED  BY <2>1, <4>1, <4>2
    <3>6. \A b \in Cancels : pc'[b] = "sync" => \A j \in ids'[b] : j \in cancelled'
      BY <1>1, <2>1, Kinds DEF CancelInv
    <3>7. \A b \in Cancels, c \in Cancels : b # c /\ pc'[b] \in Mine /\ pc'[c] \in Mine =>
            \A j \in ids'[b] : j \in ids'[c] => j \notin cancelled'
      <4>1. \A j \in ids[a] : j \notin cancelled
        BY <2>1 DEF CancelInv
      <4>. QED  BY <2>1, <3>3, <4>1 DEF CancelInv
    <3>. QED  BY <3>2, <3>4, <3>5, <3>6, <3>7 DEF CancelInv
  <2>. QED  BY <1>3, <1>5, <2>3, <2>4 DEF SettleInv
<1>7. CASE CancelSelect(a) \/ CancelRequery(a)
  <2>1. status' = status /\ cancelled' = cancelled
    BY <1>7 DEF CancelSelect, CancelRequery, rows
  <2>2. TaskInv'
    BY <1>1, <1>2, <2>1, ActorKinds, Kinds DEF TaskInv
  <2>3. \/ pc'[a] = "update" /\ \A j \in ids'[a] : status[j] = "queued"
        \/ /\ pc[a] = "requery" /\ pc'[a] \in {"count", "sync"}
           /\ ids'[a] \subseteq ids[a] /\ \A j \in ids'[a] : j \in cancelled
    BY <1>7 DEF CancelSelect, CancelRequery, Go
  <2>4. pc'[a] = "update" => \A j \in ids'[a] : j \notin cancelled
    BY <2>3 DEF OwnInv
  <2>5. pc'[a] \in Mine => /\ pc[a] \in Mine /\ ids'[a] \subseteq ids[a]
                           /\ \A j \in ids'[a] : j \in cancelled
    BY <2>3 DEF Mine
  <2>6. \A b \in Cancels : pc'[b] \in Mine =>
          /\ pc[b] \in Mine /\ ids'[b] \subseteq ids[b] /\ \A j \in ids'[b] : j \in Job
    BY <1>1, <2>5, Kinds
  <2>7. \A b \in Cancels : pc'[b] = "update" => \A j \in ids'[b] : j \notin cancelled'
    BY <1>1, <2>1, <2>4, Kinds DEF CancelInv
  <2>8. \A b \in Cancels : pc'[b] \in Mine => \A j \in ids'[b] :
          status'[j] # "queued" /\ (j \in cancelled' => Unsettled(j)')
    BY <1>2, <2>1, <2>6 DEF CancelInv
  <2>9. \A b \in Cancels : pc'[b] = "sync" => \A j \in ids'[b] : j \in cancelled'
    BY <1>1, <2>1, <2>5, Kinds DEF CancelInv, Mine
  <2>10. \A b \in Cancels, c \in Cancels : b # c /\ pc'[b] \in Mine /\ pc'[c] \in Mine =>
            \A j \in ids'[b] : j \in ids'[c] => j \notin cancelled'
    BY <2>1, <2>6 DEF CancelInv
  <2>11. CancelInv'
    BY <2>7, <2>8, <2>9, <2>10 DEF CancelInv
  <2>. QED  BY <1>3, <1>5, <2>2, <2>11 DEF SettleInv
<1>. QED  BY <1>6, <1>7 DEF CancelStep

\* The boot's steps.
LEMMA SettleBoot ==
  ASSUME Alone, EachInv, [Next]_vars, NEW a \in Boots, BootStep(a)
  PROVE  SettleInv'
<1>. /\ TypeOK /\ KindInv /\ AsleepInv /\ OwnInv /\ AloneInv /\ RowInv
  BY DEF EachInv, AloneInv, SettleInv, RunInv
<1>. /\ pc \in [Actor -> PC] /\ status \in [Job -> Status]
     /\ ids \in [Actor -> SUBSET Job] /\ a \in Actor /\ \A b \in Boots : b = a
  BY Kinds, OneBoot DEF TypeOK
<1>1. pc[a] # "up" /\ release' = release /\ evRelease' = evRelease
  BY DEF BootStep, SweepSelect, SweepMark, Reconcile, rows, chain
<1>2. \A b \in Actor : b # a => pc'[b] = pc[b] /\ ids'[b] = ids[b] /\ pc[b] \in {"idle", "over"}
  BY <1>1, OthersStay DEF StepOf, AsleepInv
<1>3. /\ \A b \in Tasks : pc'[b] \notin Ending
      /\ \A b \in Cancels : pc'[b] \notin {"update"} \cup Mine
  BY <1>2, Kinds DEF Ending, Mine
<1>4. CASE SweepSelect(a) \/ Reconcile(a)
  <2>1. cancelled' = cancelled /\ pc'[a] # "sync"
    BY <1>4 DEF SweepSelect, Reconcile, Go, rows
  <2>. QED  BY <1>1, <1>3, <2>1, SettleFrame
<1>5. CASE SweepMark(a)
  <2>1. /\ ids' = ids /\ ids[a] = Orphans
        /\ \A j \in Job : status'[j] = IF j \in ids[a] THEN "failed" ELSE status[j]
    BY <1>5 DEF SweepMark, OwnInv, local
  <2>2. \A k \in Job : (Unsettled(k) => Unsettled(k)') /\ (Settled(k) => Settled(k)')
    BY <1>1, <2>1 DEF Unsettled, Settled, Orphans, Terminal
  <2>3. RowInv'
    BY <2>2 DEF RowInv
  <2>4. BootInv'
    <3>1. \A j \in ids[a] : j \in Job /\ Unsettled(j)' /\ status'[j] \in Terminal
      BY <2>1, <2>2 DEF Orphans, RowInv, Settled, Terminal
    <3>. QED  BY <2>1, <3>1 DEF BootInv
  <2>. QED  BY <1>3, <2>3, <2>4 DEF SettleInv, TaskInv, CancelInv, Mine
<1>. QED  BY <1>4, <1>5 DEF BootStep

\* A task's steps short of the settlement.
LEMMA SettleTask ==
  ASSUME Alone, EachInv, [Next]_vars, NEW a \in Tasks, TaskStep(a), ~FinalizeRelease(a)
  PROVE  SettleInv'
<1>. /\ TypeOK /\ KindInv /\ AsleepInv /\ OwnInv /\ AloneInv /\ RowInv
  BY DEF EachInv, AloneInv, SettleInv, RunInv
<1>. pc \in [Actor -> PC] /\ a \in Actor
  BY Kinds DEF TypeOK
<1>1. /\ release' = release /\ evRelease' = evRelease /\ cancelled' \subseteq cancelled
      /\ pc[a] \notin {"idle", "over"}
  BY DEF TaskStep, ClaimJob, LoadJob, Execute, SyncJob, Backstop, AppendChildAudit,
     rows, chain
<1>2. pc'[a] \in Ending => pc[a] \in Ending \/ status[a.id] = "running"
  BY DEF TaskStep, ClaimJob, LoadJob, Execute, SyncJob, Backstop, AppendChildAudit,
     Go, OwnInv, Held, Ending
<1>3. \A b \in Actor : b # a => pc'[b] = pc[b] /\ ids'[b] = ids[b]
  BY OthersStay DEF StepOf
<1>4. \A b \in Boots : pc'[b] = "up"
  BY <1>1, <1>3, Kinds DEF AsleepInv
<1>. QED  BY <1>1, <1>2, <1>3, <1>4, Kinds, SettleFrame

\* A completion check, or a call that raises.
LEMMA SettleRaise ==
  ASSUME Alone, EachInv, [Next]_vars, NEW a \in Actor, Check(a) \/ Raise(a)
  PROVE  SettleInv'
<1>. TypeOK /\ KindInv
  BY DEF EachInv, AloneInv, RunInv
<1>. pc \in [Actor -> PC]
  BY DEF TypeOK
<1>1. /\ release' = release /\ evRelease' = evRelease /\ cancelled' = cancelled
      /\ status' = status
  BY DEF Check, Count, ClaimBatch, Announce, Raise, AnnounceRaises, CountRaises,
     StageRaises, ClaimRaises, FinalizeRaises, CancelRaises, rows, chain
<1>2. \A b \in Actor : b # a => pc'[b] = pc[b] /\ ids'[b] = ids[b]
  BY OthersStay DEF StepOf
<1>3. /\ pc'[a] \in Ending => pc[a] \in Ending
      /\ pc'[a] \notin {"update", "sync"} \cup Mine
  <2>1. CASE Check(a) \/ AnnounceRaises(a) \/ CountRaises(a)
    BY <2>1, KindCheck DEF Ending, Mine
  <2>2. CASE FinalizeRaises(a)
    BY <2>2 DEF FinalizeRaises, Go, Ending, Mine
  <2>3. CASE StageRaises(a) \/ ClaimRaises(a) \/ CancelRaises(a)
    BY <2>3 DEF StageRaises, ClaimRaises, CancelRaises, Go, Ending, Mine
  <2>. QED  BY <2>1, <2>2, <2>3 DEF Raise
<1>. QED  BY <1>1, <1>2, <1>3, Kinds, SettleFrame

LEMMA SettleStep ==
  ASSUME Alone, OneCancel, EachInv, [Next]_vars
  PROVE  SettleInv'
<1>. /\ TypeOK /\ KindInv /\ AsleepInv /\ OwnInv /\ AloneInv /\ RunInv
     /\ CancelInv /\ RowInv /\ TaskInv /\ BootInv
  BY DEF EachInv, AloneInv, SettleInv, RunInv
<1>. /\ pc \in [Actor -> PC] /\ status \in [Job -> Status]
  BY DEF TypeOK
<1>1. ASSUME NEW a \in Actor, StepOf(a) PROVE SettleInv'
  BY <1>1, SettleSync, SettleCancel, SettleBoot, SettleTask, SettleRaise DEF StepOf
<1>2. ASSUME NEW a \in Pollers, Poll(a) PROVE SettleInv'
  <2>1. /\ \A b \in Tasks : pc'[b] = pc[b] \/ pc'[b] = "pending"
        /\ \A b \in Cancels : pc'[b] = pc[b]
        /\ \A b \in Boots : pc'[b] = pc[b]
    BY <1>2, Kinds DEF Poll
  <2>. QED
    BY <1>2, <2>1, SettleFrame DEF Poll, rows, chain, local, Ending, Mine
<1>3. ASSUME NEW p \in Proc, Crash(p) PROVE SettleInv'
  <2>1. \A b \in Actor : pc'[b] \in {"down", "over", "idle"}
    BY <1>3, OneBoot DEF Crash
  <2>. QED
    BY <1>3, <2>1, Kinds, SettleFrame DEF Crash, rows, chain, Ending, Mine
<1>4. ASSUME NEW p \in Proc, CreateBatch(p) PROVE SettleInv'
  <2>1. \A b \in Boots : pc[b] = "up" /\ pc'[b] = "up"
    BY <1>4, OneBoot DEF CreateBatch, Up
  <2>. QED
    BY <1>4, <2>1, SettleFrame DEF CreateBatch, chain, local
<1>5. ASSUME NEW j \in Job, CreateChild(j) PROVE SettleInv'
  <2>1. /\ status[j] = "absent" /\ j \notin cancelled
        /\ pc' = pc /\ ids' = ids /\ cancelled' = cancelled /\ evRelease' = evRelease
        /\ \A k \in Job : k # j => status'[k] = status[k] /\ release'[k] = release[k]
        /\ release'[j] = "queued"
    BY <1>5 DEF CreateChild, OwnInv, chain, TypeOK
  <2>2. Unsettled(j)
    BY <2>1 DEF RowInv, Settled, Terminal
  <2>3. \A k \in Job : (Unsettled(k) => Unsettled(k)') /\ (Settled(k) => Settled(k)')
    BY <2>1, <2>2 DEF Unsettled, Settled, Terminal
  <2>4. \A b \in Boots : pc'[b] = "up"
    BY <1>5, <2>1 DEF CreateChild, AsleepInv
  <2>5. RowInv'
    BY <2>3 DEF RowInv
  <2>6. TaskInv'
    BY <2>1, <2>3, ActorKinds DEF TaskInv
  <2>7. BootInv'
    BY <2>4 DEF BootInv
  <2>8. CancelInv'
    <3>1. \A a \in Cancels : \A k \in ids[a] : k \in Job /\ k # j
      BY <2>1, Kinds DEF TypeOK, RunInv, RowsExist
    <3>. QED  BY <2>1, <2>3, <3>1 DEF CancelInv
  <2>. QED  BY <2>5, <2>6, <2>7, <2>8 DEF SettleInv
<1>6. CASE (\E p \in Proc : CreateReleaseBatch(p)) \/ CreateRaises \/ UNCHANGED vars
  BY <1>6, SettleFrame DEF CreateReleaseBatch, CreateRaises, vars, rows, chain, local, Mine
<1>. QED  BY <1>1, <1>2, <1>3, <1>4, <1>5, <1>6, Kinds DEF Next, StepOf, Create

LEMMA SettleAlways == ASSUME Alone, OneCancel PROVE Spec => []EachInv
<1>1. Init => LockInv /\ SettleInv
  BY Kinds DEF Init, LockInv, SettleInv, RowInv, TaskInv, BootInv, CancelInv,
     Unsettled, Ending, Mine
<1>2. AloneInv => TypeOK
  BY DEF AloneInv, RunInv
<1>3. EachInv /\ [Next]_vars => LockInv' /\ SettleInv'
  BY <1>2, LockStep, SettleStep DEF EachInv
<1>. QED  BY <1>1, <1>3, HealAlways, PTL DEF Spec, EachInv

----------------------------------------------------------------------------
(***************************************************************************)
(* Nothing is forgotten.  A running child has its task, provided nothing   *)
(* raises between the claim and the try (dispatcher.py:205); and while no  *)
(* process dies a child that ended has its event, or a task that still     *)
(* tries to append it: the attempts are more than the calls that raise.    *)
(***************************************************************************)
OwnedInv ==
  \A b \in Boots : pc[b] = "up" =>
    \A j \in Job : status[j] = "running" =>
      \E a \in Tasks : a.id = j /\ pc[a] \in Held

LEMMA OwnedStep ==
  ASSUME Alone, "claim" \notin FaultKind, AloneInv, OwnedInv, [Next]_vars
  PROVE  OwnedInv'
<1>. TypeOK /\ KindInv /\ AsleepInv /\ OwnInv /\ RunInv
  BY DEF AloneInv, RunInv
<1>. /\ pc \in [Actor -> PC] /\ status \in [Job -> Status]
  BY DEF TypeOK
<1>. SUFFICES ASSUME NEW b \in Boots, pc'[b] = "up", NEW j \in Job, status'[j] = "running"
              PROVE  \E a \in Tasks : a.id = j /\ pc'[a] \in Held
  BY DEF OwnedInv
<1>1. CASE pc[b] = "up" /\ status[j] = "running"
  <2>1. PICK a \in Tasks : a.id = j /\ pc[a] \in Held
    BY <1>1 DEF OwnedInv
  <2>2. ASSUME NEW c \in Actor, StepOf(c), c # a PROVE pc'[a] = pc[a]
    BY <2>2, OthersStay, Kinds
  <2>3. CASE StepOf(a)
    <3>1. TaskStep(a) \/ StageRaises(a)
      BY <2>1, <2>3, Kinds DEF StepOf, Check, Count, ClaimBatch, Announce, SyncEach,
         Raise, AnnounceRaises, CountRaises, ClaimRaises, Fault, FinalizeRaises,
         CancelRaises, Held
    <3>2. ~SyncJob(a) /\ ~Backstop(a)
      BY <2>1 DEF SyncJob, Backstop, Terminal
    <3>. QED
      BY <2>1, <3>1, <3>2, Kinds DEF TaskStep, ClaimJob, LoadJob, Execute, AppendChildAudit,
         FinalizeRelease, StageRaises, Go, Held
  <2>4. ASSUME NEW c \in Pollers, Poll(c) PROVE pc'[a] = pc[a]
    BY <2>1, <2>4, Kinds DEF Poll, Submittable, Held
  <2>5. ASSUME NEW p \in Proc, Crash(p) PROVE FALSE
    BY <2>5, OneBoot, Kinds DEF Crash
  <2>6. CASE \/ \E p \in Proc : Create(p)
             \/ \E k \in Job : CreateChild(k)
             \/ CreateRaises \/ UNCHANGED vars
    BY <2>1, <2>6 DEF Create, CreateBatch, CreateReleaseBatch, CreateChild,
       CreateRaises, vars
  <2>. QED  BY <2>1, <2>2, <2>3, <2>4, <2>5, <2>6, Kinds DEF Next, StepOf
<1>2. CASE status[j] # "running"
  <2>1. PICK a \in Tasks : ClaimJob(a) /\ a.id = j /\ status[j] = "queued"
    <3>1. ASSUME NEW a \in Tasks, TaskStep(a)
          PROVE  ClaimJob(a) /\ a.id = j /\ status[j] = "queued"
      <4>1. CASE ClaimJob(a)
        BY <1>2, <4>1, ActorKinds DEF ClaimJob, Claimable
      <4>2. CASE Execute(a)
        BY <1>2, <4>2, ActorKinds DEF Execute, OwnInv, Held
      <4>3. CASE SyncJob(a) \/ Backstop(a)
        BY <1>2, <4>3, ActorKinds DEF SyncJob, Backstop, Terminal
      <4>4. CASE LoadJob(a) \/ AppendChildAudit(a) \/ FinalizeRelease(a)
        BY <1>2, <4>4 DEF LoadJob, AppendChildAudit, FinalizeRelease, rows
      <4>. QED  BY <3>1, <4>1, <4>2, <4>3, <4>4 DEF TaskStep
    <3>2. \E a \in Tasks : TaskStep(a)
      BY <1>2 DEF Next, Create, CreateBatch, CreateReleaseBatch, CreateChild,
         CreateRaises, Crash, Check, Count, ClaimBatch, Announce, SyncEach, Raise,
         AnnounceRaises, CountRaises, StageRaises, ClaimRaises, FinalizeRaises,
         CancelRaises, Poll, CancelSelect, CancelStep, CancelUpdate, CancelRequery,
         BootStep, SweepSelect, SweepMark, Reconcile, vars, rows
    <3>. QED  BY <3>1, <3>2
  <2>2. pc'[a] = "claimed"
    BY <2>1, Kinds DEF ClaimJob, Claimable, Go
  <2>. QED  BY <2>1, <2>2 DEF Held
<1>3. CASE pc[b] # "up" /\ status[j] = "running"
  <2>1. pc[b] \in {"down", "mark"}
    BY <1>3, Kinds DEF OwnInv, Orphans
  <2>2. ASSUME NEW a \in Actor, StepOf(a) PROVE FALSE
    <3>1. a = b
      BY <1>3, <2>2, OnlyBoot
    <3>. QED
      BY <2>1, <2>2, <3>1, Kinds DEF StepOf, Check, Count, ClaimBatch, Announce, SyncEach,
         Raise, AnnounceRaises, CountRaises, StageRaises, ClaimRaises, FinalizeRaises,
         CancelRaises, BootStep, SweepSelect, SweepMark, Reconcile, Go
  <2>3. ASSUME NEW a \in Pollers, Poll(a) PROVE FALSE
    BY <1>3, <2>3, OneBoot, Kinds DEF Poll, Up
  <2>4. ASSUME NEW p \in Proc, Crash(p) PROVE FALSE
    BY <2>4, OneBoot, Kinds DEF Crash
  <2>5. CASE \/ \E p \in Proc : Create(p)
             \/ \E k \in Job : CreateChild(k)
             \/ CreateRaises \/ UNCHANGED vars
    BY <1>3, <2>5 DEF Create, CreateBatch, CreateReleaseBatch, CreateChild,
       CreateRaises, vars
  <2>. QED  BY <2>2, <2>3, <2>4, <2>5, Kinds DEF Next, StepOf
<1>. QED  BY <1>1, <1>2, <1>3

JobEventInv ==
  \A j \in Job : \A i \in DOMAIN evJob[j] :
    evJob[j][i] = status[j] /\ status[j] \in Terminal

\* The job.* events of a child only grow, by the outcome in its row.
LEMMA JobEvents ==
  ASSUME Alone, AloneInv, [Next]_vars
  PROVE  \/ evJob' = evJob
         \/ \E a \in Tasks :
              /\ AppendChildAudit(a) /\ a.id \in Job /\ status[a.id] \in Terminal
              /\ evJob' = [evJob EXCEPT ![a.id] = Append(@, status[a.id])]
<1>. OwnInv
  BY DEF AloneInv
<1>1. evJob' = evJob \/ \E a \in Tasks : AppendChildAudit(a)
  BY DEF Next, Create, CreateBatch, CreateReleaseBatch, CreateChild,
     CreateRaises, Crash, Check, Count, ClaimBatch, Announce, SyncEach, Raise,
     AnnounceRaises, CountRaises, StageRaises, ClaimRaises, FinalizeRaises,
     CancelRaises, TaskStep, ClaimJob, LoadJob, Execute, SyncJob, Backstop,
     FinalizeRelease, Poll, CancelSelect, CancelStep, CancelUpdate, CancelRequery,
     BootStep, SweepSelect, SweepMark, Reconcile, vars, chain
<1>2. ASSUME NEW a \in Tasks, AppendChildAudit(a)
      PROVE  /\ AppendChildAudit(a) /\ a.id \in Job /\ status[a.id] \in Terminal
             /\ evJob' = [evJob EXCEPT ![a.id] = Append(@, status[a.id])]
  <2>1. Seen(a, a.id) = status[a.id] /\ status[a.id] \in Terminal
    BY <1>2 DEF AppendChildAudit, OwnInv, Ending, Seen
  <2>. QED  BY <1>2, <2>1, ActorKinds DEF AppendChildAudit
<1>. QED  BY <1>1, <1>2

LEMMA JobEventStep ==
  ASSUME Alone, AloneInv, JobEventInv, [Next]_vars
  PROVE  JobEventInv'
<1>. TypeOK
  BY DEF AloneInv, RunInv
<1>. evJob \in [Job -> Seq(Status)] /\ status \in [Job -> Status]
  BY DEF TypeOK
<1>1. \A j \in Job : status[j] \in Terminal => status'[j] = status[j]
  BY TerminalKept
<1>2. CASE evJob' = evJob
  BY <1>1, <1>2 DEF JobEventInv
<1>3. ASSUME NEW a \in Tasks, AppendChildAudit(a), a.id \in Job, status[a.id] \in Terminal,
             evJob' = [evJob EXCEPT ![a.id] = Append(@, status[a.id])]
      PROVE  JobEventInv'
  <2>. SUFFICES ASSUME NEW j \in Job, NEW i \in DOMAIN evJob'[j]
                PROVE  evJob'[j][i] = status'[j] /\ status'[j] \in Terminal
    BY DEF JobEventInv
  <2>1. CASE j # a.id
    <3>1. evJob'[j] = evJob[j]
      BY <1>3, <2>1
    <3>. QED  BY <1>1, <3>1 DEF JobEventInv
  <2>2. CASE j = a.id
    <3>1. evJob'[j] = Append(evJob[j], status[j]) /\ evJob[j] \in Seq(Status) /\ status[j] \in Status
      BY <1>3, <2>2
    <3>2. (i \in DOMAIN evJob[j] /\ evJob'[j][i] = evJob[j][i]) \/ evJob'[j][i] = status[j]
      BY <3>1
    <3>. QED  BY <1>1, <1>3, <2>2, <3>2 DEF JobEventInv
  <2>. QED  BY <2>1, <2>2
<1>. QED  BY <1>2, <1>3, JobEvents

\* Fewer calls raise than the finalizer has attempts at the event.
EnoughAttempts == "audit" \in FaultKind => MaxFault < Attempts("audit")

TriesInv == \A a \in Tasks : tries[a] <= faults

UncrashedInv ==
  crashes = 0 => \A b \in Boots : pc[b] # "up" => batch = "absent"

RecordedInv ==
  crashes = 0 => \A j \in Job : status[j] \in Terminal /\ j \notin cancelled =>
    evJob[j] # <<>> \/ \E a \in Tasks : a.id = j /\ pc[a] = "audit"

AnnouncedInv ==
  crashes = 0 /\ batch = "finished" =>
    evCompleted # <<>> \/ \E a \in Actor : pc[a] = "announce"

LEMMA TriesStep == TypeOK /\ TriesInv /\ [Next]_vars => TriesInv'
<1>. SUFFICES ASSUME TypeOK, TriesInv, [Next]_vars, NEW a \in Tasks
              PROVE  tries'[a] <= faults'
  BY DEF TriesInv
<1>. /\ tries \in [Actor -> Nat] /\ faults \in Nat /\ tries[a] <= faults /\ a \in Actor
  BY Kinds DEF TypeOK, TriesInv
<1>1. ASSUME NEW c \in Actor, StepOf(c) PROVE tries'[a] <= faults'
  <2>1. faults' \in Nat /\ faults' >= faults
    BY <1>1 DEF StepOf, Check, Count, ClaimBatch, Announce, SyncEach, Raise,
       AnnounceRaises, CountRaises, StageRaises, ClaimRaises, FinalizeRaises,
       CancelRaises, Fault, TaskStep, ClaimJob, LoadJob, Execute, SyncJob, Backstop,
       AppendChildAudit, FinalizeRelease, CancelSelect, CancelStep, CancelUpdate,
       CancelRequery, BootStep, SweepSelect, SweepMark, Reconcile, tally
  <2>2. CASE c # a
    BY <1>1, <2>1, <2>2, OthersStay
  <2>3. CASE c = a /\ FinalizeRaises(a)
    <3>1. tries'[a] \in {tries[a] + 1, 0} /\ faults' = faults + 1
      BY <2>3 DEF FinalizeRaises, Fault
    <3>. QED  BY <3>1
  <2>4. CASE c = a /\ ~FinalizeRaises(a)
    <3>1. tries' = tries \/ tries'[a] = 0
      BY <1>1, <2>4, Kinds DEF StepOf, Check, Count, ClaimBatch, Announce, SyncEach, Raise,
         AnnounceRaises, CountRaises, StageRaises, ClaimRaises,
         CancelRaises, TaskStep, ClaimJob, LoadJob, Execute, SyncJob, Backstop,
         AppendChildAudit, FinalizeRelease, local
    <3>. QED  BY <2>1, <3>1
  <2>. QED  BY <2>2, <2>3, <2>4
<1>2. ASSUME NEW p \in Proc, Crash(p) PROVE tries'[a] <= faults'
  BY <1>2 DEF Crash
<1>3. ASSUME NEW c \in Pollers, Poll(c) PROVE tries'[a] <= faults'
  BY <1>3 DEF Poll, local, tally
<1>4. CASE \/ \E p \in Proc : Create(p)
           \/ \E j \in Job : CreateChild(j)
           \/ CreateRaises \/ UNCHANGED vars
  BY <1>4 DEF Create, CreateBatch, CreateReleaseBatch, CreateChild, CreateRaises,
     Fault, vars, local, tally
<1>. QED  BY <1>1, <1>2, <1>3, <1>4, Kinds DEF Next, StepOf

\* Only a death raises the count of deaths.
LEMMA NoCrash ==
  ASSUME TypeOK, [Next]_vars, crashes' = 0
  PROVE  crashes = 0 /\ \A p \in Proc : ~Crash(p)
<1>1. \A p \in Proc : ~Crash(p)
  BY DEF Crash, TypeOK
<1>. QED
  BY <1>1 DEF Next, Create, CreateBatch, CreateReleaseBatch, CreateChild,
     CreateRaises, Check, Count, ClaimBatch, Announce, SyncEach, Raise,
     AnnounceRaises, CountRaises, StageRaises, ClaimRaises, FinalizeRaises,
     CancelRaises, TaskStep, ClaimJob, LoadJob, Execute, SyncJob, Backstop,
     AppendChildAudit, FinalizeRelease, Poll, CancelSelect, CancelStep, CancelUpdate,
     CancelRequery, BootStep, SweepSelect, SweepMark, Reconcile, vars, tally

LEMMA UncrashedStep ==
  ASSUME Alone, AloneInv, UncrashedInv, [Next]_vars
  PROVE  UncrashedInv'
<1>. TypeOK /\ KindInv /\ AsleepInv
  BY DEF AloneInv, RunInv
<1>. pc \in [Actor -> PC]
  BY DEF TypeOK
<1>. SUFFICES ASSUME crashes' = 0, NEW b \in Boots, pc'[b] # "up" PROVE batch' = "absent"
  BY DEF UncrashedInv
<1>0. crashes = 0 /\ \A p \in Proc : ~Crash(p)
  BY NoCrash
<1>1. ASSUME NEW a \in Actor, StepOf(a) PROVE pc[b] # "up" /\ batch' = batch
  <2>1. pc[b] # "up"
    <3>1. CASE a = b
      BY <1>1, <3>1, Kinds DEF StepOf, Check, Count, ClaimBatch, Announce, SyncEach,
         Raise, AnnounceRaises, CountRaises, StageRaises, ClaimRaises,
         FinalizeRaises, CancelRaises, BootStep, SweepSelect, SweepMark, Reconcile
    <3>2. CASE a # b
      BY <1>1, <3>2, OthersStay, Kinds
    <3>. QED  BY <3>1, <3>2
  <2>2. batch = "absent"
    BY <1>0, <2>1 DEF UncrashedInv
  <2>. QED
    BY <1>1, <2>1, <2>2 DEF StepOf, Check, Count, ClaimBatch, Unclaimed, Announce, SyncEach,
       Raise, AnnounceRaises, CountRaises, StageRaises, ClaimRaises, FinalizeRaises,
       CancelRaises, TaskStep, ClaimJob, LoadJob, Execute, SyncJob, Backstop,
       AppendChildAudit, FinalizeRelease, CancelSelect, CancelStep, CancelUpdate,
       CancelRequery, BootStep, SweepSelect, SweepMark, Reconcile, rows
<1>2. ASSUME NEW p \in Proc, Create(p) PROVE FALSE
  BY <1>2, OneBoot DEF Create, CreateBatch, CreateReleaseBatch, Up
<1>3. ASSUME NEW a \in Pollers, Poll(a) PROVE pc[b] # "up" /\ batch' = batch
  BY <1>3, Kinds DEF Poll, rows
<1>4. ASSUME (\E j \in Job : CreateChild(j)) \/ CreateRaises \/ UNCHANGED vars
      PROVE  pc[b] # "up" /\ batch' = batch
  BY <1>4 DEF CreateChild, CreateRaises, vars, rows
<1>5. pc[b] # "up" /\ batch' = batch
  BY <1>0, <1>1, <1>2, <1>3, <1>4, Kinds DEF Next, StepOf
<1>. QED  BY <1>0, <1>5 DEF UncrashedInv

\* A task at its event either appends it or has an attempt left.
LEMMA AuditStays ==
  ASSUME EnoughAttempts, TypeOK, KindInv, TriesInv, [Next]_vars, \A p \in Proc : ~Crash(p),
         NEW a \in Tasks, pc[a] = "audit"
  PROVE  pc'[a] = "audit" \/ AppendChildAudit(a)
<1>. /\ pc \in [Actor -> PC] /\ a \in Actor
  BY Kinds DEF TypeOK
<1>1. ASSUME NEW c \in Actor, StepOf(c), c # a PROVE pc'[a] = pc[a]
  BY <1>1, OthersStay
<1>2. CASE StepOf(a)
  <2>1. FinalizeRaises(a) \/ AppendChildAudit(a)
    BY <1>2, Kinds DEF StepOf, Check, Count, ClaimBatch, Announce, SyncEach, Raise,
       AnnounceRaises, CountRaises, StageRaises, ClaimRaises, CancelRaises, TaskStep,
       ClaimJob, LoadJob, Execute, SyncJob, Backstop, FinalizeRelease
  <2>2. CASE FinalizeRaises(a)
    <3>1. "audit" \in FaultKind /\ faults < MaxFault
      BY <2>2 DEF FinalizeRaises, Fault
    <3>2. Attempts("audit") = 4
      BY DEF Attempts
    <3>3. tries[a] + 1 < Attempts(pc[a])
      BY <3>1, <3>2, BoundAssumption DEF EnoughAttempts, TriesInv, TypeOK
    <3>. QED  BY <2>2, <3>3 DEF FinalizeRaises
  <2>. QED  BY <2>1, <2>2
<1>3. ASSUME NEW c \in Pollers, Poll(c) PROVE pc'[a] = pc[a]
  BY <1>3, Kinds DEF Poll, Submittable
<1>4. CASE \/ \E p \in Proc : Create(p)
           \/ \E j \in Job : CreateChild(j)
           \/ CreateRaises \/ UNCHANGED vars
  BY <1>4 DEF Create, CreateBatch, CreateReleaseBatch, CreateChild, CreateRaises, vars
<1>. QED  BY <1>1, <1>2, <1>3, <1>4, Kinds DEF Next, StepOf

LEMMA RecordedStep ==
  ASSUME Alone, EnoughAttempts, AloneInv, TriesInv, UncrashedInv, RecordedInv, [Next]_vars
  PROVE  RecordedInv'
<1>. TypeOK /\ KindInv /\ AsleepInv /\ OwnInv /\ RunInv
  BY DEF AloneInv, RunInv
<1>. /\ pc \in [Actor -> PC] /\ status \in [Job -> Status]
     /\ evJob \in [Job -> Seq(Status)] /\ evJob' \in [Job -> Seq(Status)]
  <2>1. TypeOK'
    BY TypeStep
  <2>. QED  BY <2>1 DEF TypeOK
<1>. SUFFICES ASSUME crashes' = 0, NEW j \in Job, status'[j] \in Terminal, j \notin cancelled'
              PROVE  evJob'[j] # <<>> \/ \E a \in Tasks : a.id = j /\ pc'[a] = "audit"
  BY DEF RecordedInv
<1>0. crashes = 0 /\ \A p \in Proc : ~Crash(p)
  BY NoCrash
<1>1. \A a \in Tasks : AppendChildAudit(a) /\ a.id = j => evJob'[j] # <<>>
  <2>. SUFFICES ASSUME NEW a \in Tasks, AppendChildAudit(a), a.id = j PROVE evJob'[j] # <<>>
    OBVIOUS
  <2>1. evJob'[j] = Append(evJob[j], Seen(a, j))
    BY DEF AppendChildAudit
  <2>. QED  BY <2>1
<1>2. evJob[j] # <<>> => evJob'[j] # <<>>
  <2>1. CASE evJob' = evJob
    BY <2>1
  <2>2. ASSUME NEW a \in Tasks, evJob' = [evJob EXCEPT ![a.id] = Append(@, status[a.id])]
        PROVE  evJob[j] # <<>> => evJob'[j] # <<>>
    <3>1. CASE a.id = j
      <4>1. evJob'[j] = Append(evJob[j], status[j])
        BY <2>2, <3>1
      <4>. QED  BY <4>1
    <3>2. CASE a.id # j
      <4>1. evJob'[j] = evJob[j]
        BY <2>2, <3>2
      <4>. QED  BY <4>1
    <3>. QED  BY <3>1, <3>2
  <2>. QED  BY <2>1, <2>2, JobEvents
<1>3. CASE status[j] \in Terminal
  <2>1. j \notin cancelled
    BY CancelledKept
  <2>2. CASE evJob[j] # <<>>
    BY <1>2, <2>2
  <2>3. ASSUME NEW a \in Tasks, a.id = j, pc[a] = "audit"
        PROVE  evJob'[j] # <<>> \/ pc'[a] = "audit"
    BY <1>0, <1>1, <2>3, AuditStays
  <2>. QED  BY <1>0, <1>3, <2>1, <2>2, <2>3 DEF RecordedInv
<1>4. CASE status[j] \notin Terminal
  <2>1. ASSUME NEW a \in Tasks, TaskStep(a) PROVE a.id = j /\ pc'[a] = "audit"
    <3>1. CASE SyncJob(a) \/ Backstop(a)
      BY <1>4, <3>1, ActorKinds, Kinds DEF SyncJob, Backstop, Go
    <3>2. CASE ClaimJob(a) \/ Execute(a)
      BY <1>4, <3>2, ActorKinds DEF ClaimJob, Execute, Terminal
    <3>3. CASE LoadJob(a) \/ AppendChildAudit(a) \/ FinalizeRelease(a)
      BY <1>4, <3>3 DEF LoadJob, AppendChildAudit, FinalizeRelease, rows
    <3>. QED  BY <2>1, <3>1, <3>2, <3>3 DEF TaskStep
  <2>2. ASSUME NEW a \in Cancels, CancelSelect(a) \/ CancelStep(a) PROVE FALSE
    BY <1>4, <2>2 DEF CancelSelect, CancelStep, CancelUpdate, CancelRequery, rows
  <2>3. ASSUME NEW a \in Boots, BootStep(a) PROVE FALSE
    <3>1. pc[a] # "up"
      BY <2>3 DEF BootStep, SweepSelect, SweepMark, Reconcile
    <3>2. batch = "absent"
      BY <1>0, <3>1 DEF UncrashedInv
    <3>3. pc[a] = "mark" => ids[a] = {}
      BY <3>2 DEF RunInv, RowsExist, OwnInv, Orphans
    <3>. QED
      BY <1>4, <2>3, <3>3 DEF BootStep, SweepSelect, SweepMark, Reconcile, rows
  <2>4. ASSUME NEW p \in Proc, Create(p) PROVE FALSE
    BY <1>4, <2>4 DEF Create, CreateBatch, CreateReleaseBatch, Terminal
  <2>5. ASSUME NEW k \in Job, CreateChild(k) PROVE FALSE
    BY <1>4, <2>5 DEF CreateChild, Terminal
  <2>6. ASSUME NEW a \in Actor, Check(a) \/ SyncEach(a) \/ Raise(a) PROVE FALSE
    BY <1>4, <2>6 DEF Check, Count, ClaimBatch, Announce, SyncEach, Raise, AnnounceRaises,
       CountRaises, StageRaises, ClaimRaises, FinalizeRaises, CancelRaises, rows
  <2>7. CASE CreateRaises \/ (\E a \in Pollers : Poll(a)) \/ UNCHANGED vars
    BY <1>4, <2>7 DEF CreateRaises, Poll, vars, rows
  <2>. QED  BY <1>0, <2>1, <2>2, <2>3, <2>4, <2>5, <2>6, <2>7 DEF Next
<1>. QED  BY <1>3, <1>4

LEMMA AnnouncedStep ==
  ASSUME "announce" \notin FaultKind, TypeOK, AnnouncedInv, [Next]_vars
  PROVE  AnnouncedInv'
<1>. /\ pc \in [Actor -> PC]
     /\ evCompleted \in Seq([done : Nat, refused : Nat, failed : Nat])
     /\ evCompleted' \in Seq([done : Nat, refused : Nat, failed : Nat])
  <2>1. TypeOK'
    BY TypeStep
  <2>. QED  BY <2>1 DEF TypeOK
<1>. SUFFICES ASSUME crashes' = 0, batch' = "finished"
              PROVE  evCompleted' # <<>> \/ \E a \in Actor : pc'[a] = "announce"
  BY DEF AnnouncedInv
<1>0. crashes = 0 /\ \A p \in Proc : ~Crash(p)
  BY NoCrash
<1>1. ASSUME NEW a \in Actor, Announce(a) PROVE evCompleted' # <<>>
  <2>. DEFINE counts == [done |-> Tally("done"), refused |-> Tally("refused"),
                         failed |-> Tally("failed")]
  <2>1. evCompleted' = Append(evCompleted, counts)
    BY <1>1 DEF Announce
  <2>2. Len(evCompleted') = Len(evCompleted) + 1
    <3>. HIDE DEF counts
    <3>. QED  BY <2>1
  <2>. QED  BY <2>2
<1>2. ASSUME NEW a \in Actor, ClaimBatch(a)
      PROVE  /\ evCompleted' = evCompleted /\ pc[a] = "claim"
             /\ pc'[a] = "announce" \/ batch = "finished"
  BY <1>2 DEF ClaimBatch, Unclaimed, Go, chain
<1>3. (\A a \in Actor : ~ClaimBatch(a)) => batch = "finished"
  BY DEF Next, Create, CreateBatch, CreateReleaseBatch, CreateChild,
     CreateRaises, Crash, Check, Count, Announce, SyncEach, Raise, AnnounceRaises,
     CountRaises, StageRaises, ClaimRaises, FinalizeRaises, CancelRaises, TaskStep,
     ClaimJob, LoadJob, Execute, SyncJob, Backstop, AppendChildAudit,
     FinalizeRelease, Poll, CancelSelect, CancelStep, CancelUpdate, CancelRequery,
     BootStep, SweepSelect, SweepMark, Reconcile, vars, rows
<1>4. (\A a \in Actor : ~Announce(a)) => evCompleted' = evCompleted
  BY DEF Next, Create, CreateBatch, CreateReleaseBatch, CreateChild,
     CreateRaises, Crash, Check, Count, ClaimBatch, SyncEach, Raise, AnnounceRaises,
     CountRaises, StageRaises, ClaimRaises, FinalizeRaises, CancelRaises, TaskStep,
     ClaimJob, LoadJob, Execute, SyncJob, Backstop, AppendChildAudit,
     FinalizeRelease, Poll, CancelSelect, CancelStep, CancelUpdate, CancelRequery,
     BootStep, SweepSelect, SweepMark, Reconcile, vars, chain
<1>5. ASSUME NEW a \in Actor, pc[a] = "announce" PROVE pc'[a] = "announce" \/ Announce(a)
  <2>1. ASSUME NEW c \in Actor, StepOf(c), c # a PROVE pc'[a] = pc[a]
    BY <2>1, OthersStay
  <2>2. CASE StepOf(a)
    BY <1>5, <2>2 DEF StepOf, Check, Count, ClaimBatch, SyncEach, Raise, AnnounceRaises,
       Fault, CountRaises, StageRaises, ClaimRaises, FinalizeRaises, CancelRaises,
       TaskStep, ClaimJob, LoadJob, Execute, SyncJob, Backstop, AppendChildAudit,
       FinalizeRelease, CancelSelect, CancelStep, CancelUpdate, CancelRequery,
       BootStep, SweepSelect, SweepMark, Reconcile
  <2>3. ASSUME NEW c \in Pollers, Poll(c) PROVE pc'[a] = pc[a]
    BY <1>5, <2>3, Kinds DEF Poll, Submittable
  <2>4. CASE \/ \E p \in Proc : Create(p)
             \/ \E j \in Job : CreateChild(j)
             \/ CreateRaises \/ UNCHANGED vars
    BY <1>5, <2>4 DEF Create, CreateBatch, CreateReleaseBatch, CreateChild,
       CreateRaises, vars
  <2>. QED  BY <1>0, <1>5, <2>1, <2>2, <2>3, <2>4, Kinds DEF Next, StepOf
<1>6. CASE batch = "finished"
  <2>1. CASE \E a \in Actor : Announce(a)
    BY <1>1, <2>1
  <2>2. CASE \A a \in Actor : ~Announce(a)
    BY <1>0, <1>4, <1>5, <1>6, <2>2 DEF AnnouncedInv
  <2>. QED  BY <2>1, <2>2
<1>7. CASE batch # "finished"
  BY <1>2, <1>3, <1>7
<1>. QED  BY <1>6, <1>7

\* Whatever is running, ended or announced is accounted for
\* (BatchDispatch!ChildrenAccountedFor): a running child has its task, an ended
\* one its event, a finished batch its announcement, a Release one settlement,
\* and row, Release and chain say the same.  For one process, on SQLite or with
\* one cancel request, unless a call raises where dispatcher.py:205 catches
\* nothing, the announcement itself raises, or more calls raise than the
\* finalizer has attempts.
THEOREM NoChildIsLost ==
  ASSUME Alone, OneCancel, FaultKind \cap {"claim", "announce"} = {}, EnoughAttempts
  PROVE  Spec => []ChildrenAccountedFor
<1>1. Init => /\ OwnedInv /\ JobEventInv /\ TriesInv /\ UncrashedInv /\ RecordedInv
              /\ AnnouncedInv
  BY Kinds DEF Init, OwnedInv, JobEventInv, TriesInv, UncrashedInv, RecordedInv,
     AnnouncedInv, Terminal
<1>2. /\ EachInv /\ OwnedInv /\ JobEventInv /\ TriesInv /\ UncrashedInv /\ RecordedInv
      /\ AnnouncedInv /\ [Next]_vars
      => (OwnedInv /\ JobEventInv /\ TriesInv /\ UncrashedInv /\ RecordedInv /\ AnnouncedInv)'
  <2>1. EachInv => AloneInv /\ TypeOK
    BY DEF EachInv, AloneInv, RunInv
  <2>2. "claim" \notin FaultKind /\ "announce" \notin FaultKind
    OBVIOUS
  <2>. QED
    BY <2>1, <2>2, OwnedStep, JobEventStep, TriesStep, UncrashedStep, RecordedStep,
       AnnouncedStep
<1>3. /\ EachInv /\ OwnedInv /\ JobEventInv /\ TriesInv /\ UncrashedInv /\ RecordedInv
      /\ AnnouncedInv
      => ChildrenAccountedFor
  <2>. SUFFICES ASSUME EachInv, OwnedInv, JobEventInv, RecordedInv, AnnouncedInv
                PROVE  ChildrenAccountedFor
    OBVIOUS
  <2>. TypeOK /\ RowInv
    BY DEF EachInv, AloneInv, RunInv, SettleInv
  <2>1. RunningIsOwned
    <3>. SUFFICES ASSUME NEW p \in Proc, NEW j \in Job, Up(p), status[j] = "running"
                  PROVE  InFlight(j) # {}
      BY DEF RunningIsOwned
    <3>1. \E a \in Tasks : a.id = j /\ pc[a] \in Held
      BY OneBoot DEF OwnedInv, Up
    <3>. QED  BY <3>1 DEF InFlight, Held
  <2>2. EndedChildIsRecorded
    <3>. SUFFICES ASSUME NEW j \in Job, crashes = 0, status[j] \in Terminal,
                         j \notin cancelled, InFlight(j) = {}
                  PROVE  evJob[j] # <<>>
      BY DEF EndedChildIsRecorded
    <3>1. \A a \in Tasks : a.id = j => pc[a] # "audit"
      BY DEF InFlight
    <3>. QED  BY <3>1 DEF RecordedInv
  <2>3. FinishedIsAnnounced
    BY DEF AnnouncedInv, FinishedIsAnnounced
  <2>4. ReleaseTerminalOnce
    <3>. SUFFICES ASSUME NEW j \in Job PROVE Len(evRelease[j]) <= 1
      BY DEF ReleaseTerminalOnce
    <3>1. evRelease[j] = <<>> \/ evRelease[j] = <<status[j]>>
      BY DEF RowInv, Unsettled, Settled
    <3>2. CASE evRelease[j] = <<>>
      <4>1. Len(evRelease[j]) = 0
        BY <3>2
      <4>. QED  BY <4>1
    <3>3. CASE evRelease[j] = <<status[j]>>
      <4>1. Len(evRelease[j]) = 1
        BY <3>3
      <4>. QED  BY <4>1
    <3>. QED  BY <3>1, <3>2, <3>3
  <2>5. RecordsAgree
    <3>. SUFFICES ASSUME NEW j \in Job
                  PROVE  /\ \A i \in DOMAIN evJob[j] : evJob[j][i] = status[j]
                         /\ \A i \in DOMAIN evRelease[j] : evRelease[j][i] = status[j]
                         /\ release[j] \in Terminal => release[j] = status[j]
      BY DEF RecordsAgree
    <3>1. \A i \in DOMAIN evJob[j] : evJob[j][i] = status[j]
      BY DEF JobEventInv
    <3>2. CASE Unsettled(j)
      BY <3>1, <3>2 DEF Unsettled, Terminal
    <3>3. CASE Settled(j)
      <4>1. DOMAIN evRelease[j] = {1} /\ evRelease[j][1] = status[j]
        BY <3>3 DEF Settled
      <4>. QED  BY <3>1, <3>3, <4>1 DEF Settled
    <3>. QED  BY <3>2, <3>3 DEF RowInv
  <2>. QED  BY <2>1, <2>2, <2>3, <2>4, <2>5 DEF ChildrenAccountedFor
<1>. QED  BY <1>1, <1>2, <1>3, SettleAlways, PTL DEF Spec

----------------------------------------------------------------------------
(***************************************************************************)
(* True counts.  A plain batch has all its rows from the start and none    *)
(* comes back to the queue, so what was outstanding when the batch was     *)
(* claimed stays ended, and the first cancel to flip rows flips every one  *)
(* that is left: there is one batch.cancelled at most.                     *)
(***************************************************************************)
AllEnded == \A j \in Job : status[j] \in Terminal

Begun == Ending \cup Closing \cup {"sync", "update", "requery"}

PlainInv ==
  /\ creator = NoProc
  /\ batch # "absent" => \A j \in Job : status[j] # "absent"
  /\ \A a \in Actor : pc[a] \in Begun => batch # "absent" \/ (a \in Pollers /\ pc[a] = "count")
  /\ \A a \in Actor : pc[a] = "claim" => AllEnded
  /\ \A a \in Actor : pc[a] = "announce" => batch = "finished"
  /\ batch = "finished" => AllEnded

CancelledInv ==
  /\ evCancelled = IF cancelled = {} THEN <<>> ELSE <<Cardinality(cancelled)>>
  /\ cancelled # {} => \A j \in Job : status[j] # "queued"
  /\ \A a \in Cancels : pc[a] = "update" =>
       \A j \in Job : status[j] = "queued" => j \in ids[a]

\* A batch that exists does not cease to.
LEMMA BatchStays ==
  ASSUME TypeOK, [Next]_vars
  PROVE  /\ batch # "absent" => batch' # "absent"
         /\ batch' = "finished" =>
              batch = "finished" \/ \E a \in Actor : ClaimBatch(a) /\ Unclaimed
<1>1. CASE \E a \in Actor : ClaimBatch(a)
  BY <1>1 DEF ClaimBatch, Unclaimed
<1>2. CASE \A a \in Actor : ~ClaimBatch(a)
  BY <1>2 DEF Next, Create, CreateBatch, CreateReleaseBatch, CreateChild,
     CreateRaises, Crash, Check, Count, Announce, SyncEach, Raise, AnnounceRaises,
     CountRaises, StageRaises, ClaimRaises, FinalizeRaises, CancelRaises, TaskStep,
     ClaimJob, LoadJob, Execute, SyncJob, Backstop, AppendChildAudit,
     FinalizeRelease, Poll, CancelSelect, CancelStep, CancelUpdate, CancelRequery,
     BootStep, SweepSelect, SweepMark, Reconcile, vars, rows
<1>. QED  BY <1>1, <1>2

\* A thread gets past its start only in a batch that exists.
LEMMA PlainBegins ==
  ASSUME Alone, AloneInv, PlainInv, NEW a \in Actor, StepOf(a), pc'[a] \in Begun
  PROVE  batch # "absent" \/ (a \in Pollers /\ pc'[a] = "count")
<1>. TypeOK /\ KindInv /\ OwnInv /\ RunInv
  BY DEF AloneInv, RunInv
<1>. pc \in [Actor -> PC]
  BY DEF TypeOK
<1>. SUFFICES ASSUME batch = "absent" PROVE a \in Pollers /\ pc'[a] = "count"
  OBVIOUS
<1>0. \A j \in Job : status[j] = "absent"
  BY DEF RunInv, RowsExist
<1>1. pc[a] \in Begun => a \in Pollers /\ pc[a] = "count"
  BY DEF PlainInv
<1>2. a \in Tasks => pc[a] \in {"idle", "pending"}
  <2>1. a \in Tasks => pc[a] \notin Held
    BY <1>0, ActorKinds DEF OwnInv
  <2>. QED  BY <1>1, <2>1, Kinds DEF KindInv, Begun
<1>3. CASE Check(a)
  BY <1>1, <1>3, Kinds DEF Check, Count, Ready, ClaimBatch, Announce, Go, AfterCheck, Begun,
     Ending, Closing
<1>4. CASE SyncEach(a)
  <2>1. \A j \in ids[a] : j \in Job
    BY DEF TypeOK
  <2>. QED  BY <1>0, <1>4, <2>1 DEF SyncEach, RunInv, RowsExist
<1>5. CASE Raise(a)
  <2>1. pc[a] # "announce" /\ pc[a] # "sync" /\ pc[a] # "release"
    BY <1>1 DEF Begun, Ending, Closing
  <2>2. pc[a] = "count" => a \notin Tasks \cup Cancels
    BY <1>1, Kinds DEF Begun, Closing
  <2>3. pc[a] # "audit"
    BY <1>1 DEF Begun, Ending
  <2>4. StageRaises(a) \/ ClaimRaises(a)
    BY <1>5, <2>1, <2>2, <2>3 DEF Raise, AnnounceRaises, CountRaises, FinalizeRaises,
       CancelRaises
  <2>5. pc'[a] \in {"broken", "idle"}
    BY <2>4 DEF StageRaises, ClaimRaises, Go
  <2>. QED  BY <2>5 DEF Begun, Ending, Closing
<1>6. CASE a \in Tasks /\ TaskStep(a)
  <2>1. ClaimJob(a)
    BY <1>2, <1>6 DEF TaskStep, ClaimJob, LoadJob, Execute, SyncJob, Backstop,
       AppendChildAudit, FinalizeRelease
  <2>. QED  BY <2>1 DEF ClaimJob, Go, Begun, Ending, Closing
<1>7. CASE a \in Cancels /\ (CancelSelect(a) \/ CancelStep(a))
  BY <1>1, <1>7, Kinds DEF CancelSelect, CancelStep, CancelUpdate, CancelRequery, Begun
<1>8. CASE a \in Boots /\ BootStep(a)
  <2>1. CASE SweepMark(a)
    <3>1. ids[a] = {}
      BY <1>0, <1>8, <2>1 DEF SweepMark, OwnInv, Orphans
    <3>. QED  BY <2>1, <3>1 DEF SweepMark, Go, Begun, Ending, Closing
  <2>2. CASE SweepSelect(a) \/ Reconcile(a)
    BY <2>2 DEF SweepSelect, Reconcile, Go, Begun, Ending, Closing
  <2>. QED  BY <1>8, <2>1, <2>2 DEF BootStep
<1>. QED  BY <1>3, <1>4, <1>5, <1>6, <1>7, <1>8 DEF StepOf

\* The count that lets a thread claim the batch, and the claim.
LEMMA PlainClaims ==
  ASSUME Alone, AloneInv, PlainInv, NEW a \in Actor, StepOf(a),
         pc'[a] \in {"claim", "announce"}
  PROVE  /\ pc'[a] = "claim" => AllEnded
         /\ pc'[a] = "announce" => batch' = "finished"
<1>. TypeOK /\ KindInv
  BY DEF AloneInv, RunInv
<1>. pc \in [Actor -> PC] /\ status \in [Job -> Status]
  BY DEF TypeOK
<1>1. CASE Count(a)
  <2>1. pc[a] = "count" /\ Ready(a) /\ pc'[a] = "claim"
    BY <1>1 DEF Count, Go, AfterCheck
  <2>2. batch # "absent"
    BY <2>1 DEF Ready, PlainInv, Begun, Closing
  <2>3. \A j \in Job : status[j] \notin {"absent", "queued", "running"}
    BY <2>1, <2>2 DEF Ready, Outstanding, PlainInv
  <2>. QED  BY <2>1, <2>3 DEF AllEnded, Status
<1>2. CASE ClaimBatch(a)
  BY <1>2 DEF ClaimBatch, Go, AfterCheck
<1>3. CASE Announce(a) \/ AnnounceRaises(a) \/ CountRaises(a)
  BY <1>3 DEF Announce, AnnounceRaises, CountRaises, Go, AfterCheck
<1>4. CASE ~(Check(a) \/ AnnounceRaises(a) \/ CountRaises(a))
  <2>1. pc'[a] = pc[a] \/ pc'[a] \notin {"claim", "announce"}
    BY <1>4 DEF StepOf, SyncEach, Raise, StageRaises, ClaimRaises,
       FinalizeRaises, CancelRaises, TaskStep, ClaimJob, LoadJob, Execute, SyncJob,
       Backstop, AppendChildAudit, FinalizeRelease, CancelSelect, CancelStep,
       CancelUpdate, CancelRequery, BootStep, SweepSelect, SweepMark, Reconcile, Go
  <2>2. pc[a] \notin {"claim", "announce"}
    BY <1>4, Kinds DEF StepOf, SyncEach, Raise, StageRaises, ClaimRaises,
       FinalizeRaises, CancelRaises, TaskStep, ClaimJob, LoadJob, Execute, SyncJob,
       Backstop, AppendChildAudit, FinalizeRelease, CancelSelect, CancelStep,
       CancelUpdate, CancelRequery, BootStep, SweepSelect, SweepMark, Reconcile
  <2>. QED  BY <2>1, <2>2
<1>. QED  BY <1>1, <1>2, <1>3, <1>4 DEF Check

LEMMA PlainStep ==
  ASSUME Alone, ~Wrapped, AloneInv, PlainInv, [Next]_vars
  PROVE  PlainInv'
<1>. TypeOK /\ KindInv /\ RunInv
  BY DEF AloneInv, RunInv
<1>. pc \in [Actor -> PC] /\ status \in [Job -> Status]
  BY DEF TypeOK
<1>1. creator' = NoProc
  BY DEF PlainInv, Next, Create, CreateBatch, CreateReleaseBatch, CreateChild,
     CreateRaises, Crash, Check, Count, ClaimBatch, Announce, SyncEach, Raise,
     AnnounceRaises, CountRaises, StageRaises, ClaimRaises, FinalizeRaises,
     CancelRaises, TaskStep, ClaimJob, LoadJob, Execute, SyncJob, Backstop,
     AppendChildAudit, FinalizeRelease, Poll, CancelSelect, CancelStep, CancelUpdate,
     CancelRequery, BootStep, SweepSelect, SweepMark, Reconcile, vars, local
<1>2. batch' # "absent" => \A j \in Job : status'[j] # "absent"
  <2>1. CASE \E p \in Proc : CreateBatch(p)
    BY <2>1 DEF CreateBatch
  <2>2. CASE \A p \in Proc : ~CreateBatch(p)
    <3>1. batch' # "absent" => batch # "absent"
      BY <2>2 DEF PlainInv, Next, Create, CreateReleaseBatch, CreateChild,
         CreateRaises, Crash, Check, Count, ClaimBatch, Unclaimed, Announce, SyncEach, Raise,
         AnnounceRaises, CountRaises, StageRaises, ClaimRaises, FinalizeRaises,
         CancelRaises, TaskStep, ClaimJob, LoadJob, Execute, SyncJob, Backstop,
         AppendChildAudit, FinalizeRelease, Poll, CancelSelect, CancelStep,
         CancelUpdate, CancelRequery, BootStep, SweepSelect, SweepMark, Reconcile,
         vars, rows
    <3>2. \A j \in Job : status[j] # "absent" => status'[j] # "absent"
      <4>. SUFFICES ASSUME NEW j \in Job, status[j] # "absent", status'[j] = "absent"
                    PROVE  FALSE
        OBVIOUS
      <4>1. status[j] = "queued"
        BY NeverRequeued
      <4>. QED
        BY <2>2, <4>1, ActorKinds DEF PlainInv, Next, Create, CreateReleaseBatch, CreateChild,
           CreateRaises, Crash, Check, Count, ClaimBatch, Announce, SyncEach, Raise,
           AnnounceRaises, CountRaises, StageRaises, ClaimRaises, FinalizeRaises,
           CancelRaises, TaskStep, ClaimJob, LoadJob, Execute, SyncJob, Backstop,
           AppendChildAudit, FinalizeRelease, Poll, CancelSelect, CancelStep,
           CancelUpdate, CancelRequery, BootStep, SweepSelect, SweepMark, Reconcile,
           vars, rows, Terminal
    <3>. QED  BY <3>1, <3>2 DEF PlainInv
  <2>. QED  BY <2>1, <2>2
<1>3. ASSUME NEW a \in Actor, ~StepOf(a)
      PROVE  pc'[a] = pc[a] \/ pc'[a] \notin Begun \/ (a \in Pollers /\ pc'[a] = "count")
  <2>1. ASSUME NEW c \in Actor, StepOf(c) PROVE pc'[a] = pc[a]
    BY <1>3, <2>1, OthersStay
  <2>2. ASSUME NEW c \in Pollers, Poll(c)
        PROVE  pc'[a] = pc[a] \/ pc'[a] \notin Begun \/ (a \in Pollers /\ pc'[a] = "count")
    BY <2>2, Kinds DEF Poll, Begun, Ending, Closing
  <2>3. ASSUME NEW p \in Proc, Crash(p) PROVE pc'[a] = pc[a] \/ pc'[a] \notin Begun
    BY <2>3 DEF Crash, Begun, Ending, Closing
  <2>4. ASSUME \/ \E p \in Proc : Create(p)
               \/ \E j \in Job : CreateChild(j)
               \/ CreateRaises \/ UNCHANGED vars
        PROVE  pc'[a] = pc[a]
    BY <2>4 DEF Create, CreateBatch, CreateReleaseBatch, CreateChild, CreateRaises, vars
  <2>. QED  BY <2>1, <2>2, <2>3, <2>4, Kinds DEF Next, StepOf
<1>4. AllEnded => AllEnded'
  BY TerminalKept DEF AllEnded
<1>5. ASSUME NEW a \in Actor, pc'[a] \in Begun
      PROVE  batch' # "absent" \/ (a \in Pollers /\ pc'[a] = "count")
  <2>1. CASE StepOf(a)
    BY <1>5, <2>1, PlainBegins, BatchStays
  <2>2. CASE ~StepOf(a)
    BY <1>3, <1>5, <2>2, BatchStays DEF PlainInv
  <2>. QED  BY <2>1, <2>2
<1>6. ASSUME NEW a \in Actor
      PROVE  /\ pc'[a] = "claim" => AllEnded'
             /\ pc'[a] = "announce" => batch' = "finished"
  <2>1. CASE StepOf(a)
    BY <1>4, <2>1, PlainClaims
  <2>2. CASE ~StepOf(a)
    <3>1. pc'[a] \in {"claim", "announce"} => pc'[a] = pc[a]
      BY <1>3, <2>2 DEF Begun, Closing
    <3>2. batch = "finished" => batch' = "finished"
      BY DEF Next, Create, CreateBatch, CreateReleaseBatch, CreateChild,
         CreateRaises, Crash, Check, Count, ClaimBatch, Announce, SyncEach, Raise,
         AnnounceRaises, CountRaises, StageRaises, ClaimRaises, FinalizeRaises,
         CancelRaises, TaskStep, ClaimJob, LoadJob, Execute, SyncJob, Backstop,
         AppendChildAudit, FinalizeRelease, Poll, CancelSelect, CancelStep,
         CancelUpdate, CancelRequery, BootStep, SweepSelect, SweepMark, Reconcile,
         vars, rows
    <3>. QED  BY <1>4, <3>1, <3>2 DEF PlainInv
  <2>. QED  BY <2>1, <2>2
<1>7. batch' = "finished" => AllEnded'
  <2>1. \A a \in Actor : ClaimBatch(a) => pc[a] = "claim"
    BY DEF ClaimBatch
  <2>. QED  BY <1>4, <2>1, BatchStays DEF PlainInv
<1>. QED  BY <1>1, <1>2, <1>5, <1>6, <1>7 DEF PlainInv

LEMMA PlainAlways == ASSUME Alone, ~Wrapped PROVE Spec => [](AloneInv /\ PlainInv)
<1>1. Init => PlainInv
  BY Kinds DEF Init, PlainInv, Begun, Ending, Closing
<1>2. AloneInv /\ PlainInv /\ [Next]_vars => PlainInv'
  BY PlainStep
<1>. QED  BY <1>1, <1>2, AloneAlways, PTL DEF Spec

\* Only the UPDATE of a cancellation adds to the children that carry its error
\* and to the events that count them.
LEMMA CancelFrame ==
  ASSUME Alone, AloneInv, [Next]_vars, \A a \in Cancels : ~CancelUpdate(a)
  PROVE  evCancelled' = evCancelled /\ cancelled' = cancelled
<1>1. evCancelled' = evCancelled /\ \A j \in cancelled' : j \in cancelled
  BY DEF Next, Create, CreateBatch, CreateReleaseBatch, CreateChild, CreateRaises,
     Crash, Check, Count, ClaimBatch, Announce, SyncEach, Raise, AnnounceRaises,
     CountRaises, StageRaises, ClaimRaises, FinalizeRaises, CancelRaises,
     TaskStep, ClaimJob, LoadJob, Execute, SyncJob, Backstop, AppendChildAudit,
     FinalizeRelease, Poll, CancelSelect, CancelStep, CancelRequery, BootStep,
     SweepSelect, SweepMark, Reconcile, vars, rows, chain
<1>. QED  BY <1>1, CancelledKept

\* No row comes back to the queue of a batch that exists.
LEMMA QueueShrinks ==
  ASSUME AloneInv, PlainInv, batch # "absent", [Next]_vars, NEW j \in Job,
         status'[j] = "queued"
  PROVE  status[j] = "queued"
<1>1. RunInv
  BY DEF AloneInv
<1>. QED  BY <1>1, NeverRequeued DEF PlainInv

LEMMA CancelledFlips ==
  ASSUME AloneInv, PlainInv, CancelledInv, NEW a \in Cancels, CancelUpdate(a)
  PROVE  /\ evCancelled' = IF cancelled' = {} THEN <<>> ELSE <<Cardinality(cancelled')>>
         /\ \A j \in Job : status'[j] # "queued"
<1>. TypeOK /\ pc[a] = "update"
  BY DEF AloneInv, RunInv, CancelUpdate
<1>1. \A j \in Job : status[j] = "queued" => j \in Flipped(a)
  BY DEF CancelledInv, Flipped
<1>2. \A j \in Job : status'[j] # "queued"
  BY <1>1 DEF CancelUpdate
<1>3. CASE Flipped(a) = {}
  <2>1. cancelled' = cancelled /\ evCancelled' = evCancelled
    BY <1>3 DEF CancelUpdate
  <2>. QED  BY <1>2, <2>1 DEF CancelledInv
<1>4. CASE Flipped(a) # {}
  <2>1. cancelled = {}
    <3>1. PICK j \in ids[a] : status[j] = "queued"
      BY <1>4 DEF Flipped
    <3>2. j \in Job
      <4>1. ids[a] \subseteq Job
        BY DEF TypeOK, Actor
      <4>. QED  BY <4>1
    <3>. QED  BY <3>1, <3>2 DEF CancelledInv
  <2>2. evCancelled = <<>>
    BY <2>1 DEF CancelledInv
  <2>3. cancelled' = Flipped(a)
    BY <2>1 DEF CancelUpdate
  <2>4. evCancelled' = Append(<<>>, Cardinality(Flipped(a)))
    BY <1>4, <2>2 DEF CancelUpdate
  <2>5. evCancelled' = <<Cardinality(Flipped(a))>>
    BY <2>4
  <2>. QED  BY <1>2, <1>4, <2>3, <2>5
<1>. QED  BY <1>3, <1>4

\* What a cancellation is about to update is every child still queued.
LEMMA CancelledSelects ==
  ASSUME Alone, AloneInv, PlainInv, CancelledInv, [Next]_vars,
         NEW a \in Cancels, pc'[a] = "update", NEW j \in Job, status'[j] = "queued"
  PROVE  j \in ids'[a]
<1>. TypeOK /\ RunInv /\ KindInv /\ a \in Actor
  BY Kinds DEF AloneInv, RunInv
<1>. pc \in [Actor -> PC] /\ ids \in [Actor -> SUBSET Job]
  BY DEF TypeOK
<1>1. CASE CancelSelect(a)
  BY <1>1 DEF CancelSelect, rows
<1>2. CASE ~CancelSelect(a)
  <2>1. pc[a] = "update" /\ ids'[a] = ids[a]
    <3>1. ASSUME NEW c \in Actor, StepOf(c), c # a
          PROVE  pc[a] = "update" /\ ids'[a] = ids[a]
      BY <3>1, OthersStay
    <3>2. CASE StepOf(a)
      <4>1. pc'[a] = pc[a]
        BY <1>2, <3>2, Kinds DEF StepOf, Check, Count, ClaimBatch, Announce, SyncEach, Raise,
           AnnounceRaises, CountRaises, StageRaises, ClaimRaises, FinalizeRaises,
           CancelRaises, AfterCheck, TaskStep, CancelStep, CancelUpdate, CancelRequery,
           BootStep, Go
      <4>2. FALSE
        BY <1>2, <3>2, <4>1, Kinds DEF StepOf, Check, Count, ClaimBatch, Announce, SyncEach, Raise,
           AnnounceRaises, CountRaises, StageRaises, ClaimRaises, FinalizeRaises,
           CancelRaises, TaskStep, CancelStep, CancelUpdate, CancelRequery,
           BootStep, Go
      <4>. QED  BY <4>2
    <3>3. ASSUME NEW c \in Pollers, Poll(c) PROVE pc[a] = "update" /\ ids'[a] = ids[a]
      BY <3>3, Kinds DEF Poll, local
    <3>4. ASSUME NEW p \in Proc, Crash(p) PROVE pc[a] = "update" /\ ids'[a] = ids[a]
      BY <3>4, Kinds DEF Crash
    <3>5. CASE \/ \E p \in Proc : Create(p)
               \/ \E k \in Job : CreateChild(k)
               \/ CreateRaises \/ UNCHANGED vars
      BY <3>5 DEF Create, CreateBatch, CreateReleaseBatch, CreateChild, CreateRaises,
         vars, local
    <3>. QED  BY <3>1, <3>2, <3>3, <3>4, <3>5, Kinds DEF Next, StepOf
  <2>2. batch # "absent"
    BY <2>1, Kinds DEF PlainInv, Begun
  <2>. QED  BY <2>1, <2>2, QueueShrinks DEF CancelledInv
<1>. QED  BY <1>1, <1>2

LEMMA CancelledStep ==
  ASSUME Alone, AloneInv, PlainInv, CancelledInv, [Next]_vars
  PROVE  CancelledInv'
<1>. TypeOK /\ RunInv /\ OwnInv
  BY DEF AloneInv, RunInv
<1>1. \A a \in Cancels : pc'[a] = "update" =>
        \A j \in Job : status'[j] = "queued" => j \in ids'[a]
  BY CancelledSelects
<1>2. CASE \E a \in Cancels : CancelUpdate(a)
  BY <1>1, <1>2, CancelledFlips DEF CancelledInv
<1>3. CASE \A a \in Cancels : ~CancelUpdate(a)
  <2>1. evCancelled' = evCancelled /\ cancelled' = cancelled
    BY <1>3, CancelFrame
  <2>2. ASSUME cancelled # {} PROVE \A j \in Job : status'[j] # "queued"
    <3>1. batch # "absent"
      <4>1. PICK j \in cancelled : status[j] = "failed" /\ j \in Job
        BY <2>2 DEF OwnInv, TypeOK
      <4>. QED  BY <4>1 DEF RunInv, RowsExist
    <3>. QED  BY <2>2, <3>1, QueueShrinks DEF CancelledInv
  <2>. QED  BY <1>1, <2>1, <2>2 DEF CancelledInv
<1>. QED  BY <1>2, <1>3

\* The sum that BatchDispatch!CancelCountsTruthful takes of the reported counts.
Total(s) == FoldLeft(+, 0, s)

\* What FoldLeft of + is for a sequence, spelled out.
LEMMA SumUnfolded ==
  ASSUME NEW s
  PROVE  Total(s) =
           LET it == CHOOSE it : it = [x \in SUBSET (DOMAIN s) |->
                       IF x = {} THEN 0 ELSE it[x \ {Max(x)}] + s[Max(x)]]
           IN  it[DOMAIN s]
BY DEF Total, FoldLeft, MapThenFoldSet

\* Of no count and of one.
LEMMA SumOfNone == Total(<<>>) = 0
<1>. DEFINE s == <<>>
            Is(it) == it = [x \in SUBSET (DOMAIN s) |->
                       IF x = {} THEN 0 ELSE it[x \ {Max(x)}] + s[Max(x)]]
            it == CHOOSE it : Is(it)
<1>1. Total(s) = it[DOMAIN s]
  BY SumUnfolded
<1>2. DOMAIN s = {}
  OBVIOUS
<1>3. Is([x \in SUBSET (DOMAIN s) |-> 0])
  BY <1>2
<1>4. Is(it)
  <2>. HIDE DEF Is
  <2>. QED  BY <1>3
<1>. QED  BY <1>1, <1>2, <1>4

LEMMA SumOfOne == ASSUME NEW n \in Nat, NEW s, s = <<n>> PROVE Total(s) = n
<1>. DEFINE Is(it) == it = [x \in SUBSET (DOMAIN s) |->
                       IF x = {} THEN 0 ELSE it[x \ {Max(x)}] + s[Max(x)]]
            it == CHOOSE it : Is(it)
<1>1. Total(s) = it[DOMAIN s]
  BY SumUnfolded
<1>2. DOMAIN s = {1} /\ s[1] = n
  OBVIOUS
<1>3. Max({1}) = 1
  BY DEF Max
<1>. DEFINE f == [x \in SUBSET (DOMAIN s) |-> IF x = {} THEN 0 ELSE n]
<1>4. Is(f)
  <2>1. \A x \in SUBSET (DOMAIN s) : x = {} \/ x = {1}
    BY <1>2
  <2>2. {1} \ {Max({1})} = {} /\ {} \in SUBSET (DOMAIN s)
    BY <1>2, <1>3
  <2>3. \A x \in SUBSET (DOMAIN s) : f[x] = IF x = {} THEN 0 ELSE f[x \ {Max(x)}] + s[Max(x)]
    <3>1. f[{1}] = n /\ f[{}] = 0
      BY <1>2
    <3>2. f[{1} \ {Max({1})}] + s[Max({1})] = n
      <4>. HIDE DEF f
      <4>. QED  BY <1>2, <1>3, <2>2, <3>1
    <3>. HIDE DEF f
    <3>. QED  BY <2>1, <3>1, <3>2
  <2>. QED  BY <2>3
<1>5. Is(it)
  <2>. HIDE DEF Is, f
  <2>. QED  BY <1>4
<1>6. it[{1}] = it[{1} \ {Max({1})}] + s[Max({1})]
  <2>. HIDE DEF it
  <2>. QED  BY <1>2, <1>5
<1>7. it[{}] = 0
  <2>. HIDE DEF it
  <2>. QED  BY <1>2, <1>5
<1>8. {1} \ {Max({1})} = {}
  BY <1>3
<1>9. it[{1}] = 0 + n
  <2>. HIDE DEF it
  <2>. QED  BY <1>2, <1>3, <1>6, <1>7, <1>8
<1>10. Total(s) = it[{1}]
  <2>. HIDE DEF it
  <2>. QED  BY <1>1, <1>2
<1>. HIDE DEF it
<1>. QED  BY <1>9, <1>10

\* Two sets that share nothing are counted by their counts.
LEMMA CountOfTwo ==
  ASSUME NEW S, NEW T, IsFiniteSet(S), IsFiniteSet(T), S \cap T = {}
  PROVE  Cardinality(S \cup T) = Cardinality(S) + Cardinality(T)
<1>1. PICK n \in Nat, m \in Nat : n = Cardinality(S) /\ m = Cardinality(T)
  BY FS_CardinalityType
<1>2. Cardinality(S \cup T) = Cardinality(S) + Cardinality(T) - Cardinality(S \cap T)
  BY FS_Union
<1>3. Cardinality(S \cap T) = 0
  BY FS_EmptySet
<1>4. Cardinality(S \cup T) = n + m - 0
  BY <1>1, <1>2, <1>3
<1>5. n + m - 0 = n + m
  OBVIOUS
<1>. QED  BY <1>1, <1>4, <1>5

\* When all rows have ended, the three tallies share them out.
LEMMA TalliesShare ==
  ASSUME AllEnded
  PROVE  /\ Tally("done") \in Nat /\ Tally("refused") \in Nat /\ Tally("failed") \in Nat
         /\ Tally("done") + Tally("refused") + Tally("failed") = Cardinality(Job)
<1>. DEFINE At(s) == {j \in Job : status[j] = s}
<1>1. \A s : At(s) \in SUBSET Job /\ IsFiniteSet(At(s)) /\ Cardinality(At(s)) \in Nat
  BY JobAssumption, FS_Subset, FS_CardinalityType
<1>2. At("done") \cap At("refused") = {}
  OBVIOUS
<1>3. (At("done") \cup At("refused")) \cap At("failed") = {}
  OBVIOUS
<1>4. (At("done") \cup At("refused")) \cup At("failed") = Job
  BY DEF AllEnded, Terminal
<1>5. Tally("done") = Cardinality(At("done")) /\ Tally("refused") = Cardinality(At("refused"))
      /\ Tally("failed") = Cardinality(At("failed"))
  BY DEF Tally
<1>. HIDE DEF At
<1>6. Cardinality(At("done") \cup At("refused")) = Cardinality(At("done")) + Cardinality(At("refused"))
  BY <1>1, <1>2, CountOfTwo
<1>7. IsFiniteSet(At("done") \cup At("refused"))
  BY <1>1, FS_Union
<1>8. Cardinality(Job) = Cardinality(At("done") \cup At("refused")) + Cardinality(At("failed"))
  BY <1>1, <1>3, <1>4, <1>7, CountOfTwo
<1>. QED  BY <1>1, <1>5, <1>6, <1>8

LEMMA CompletedStep ==
  ASSUME TypeOK, PlainInv, CompletedCountsAddUp, [Next]_vars
  PROVE  CompletedCountsAddUp'
<1>1. CASE \E a \in Actor : Announce(a)
  <2>. DEFINE n == [done |-> Tally("done"), refused |-> Tally("refused"),
                    failed |-> Tally("failed")]
  <2>1. evCompleted' = Append(evCompleted, n)
    BY <1>1 DEF Announce
  <2>2. AllEnded
    BY <1>1 DEF Announce, PlainInv
  <2>3. n.done + n.refused + n.failed = Cardinality(Job)
    BY <2>2, TalliesShare
  <2>4. evCompleted \in Seq([done : Nat, refused : Nat, failed : Nat])
    BY DEF TypeOK
  <2>5. n \in [done : Nat, refused : Nat, failed : Nat]
    BY <2>2, TalliesShare
  <2>. HIDE DEF n
  <2>6. \A i \in DOMAIN evCompleted' : evCompleted'[i] = n \/
          (i \in DOMAIN evCompleted /\ evCompleted'[i] = evCompleted[i])
    BY <2>1, <2>4, <2>5
  <2>. QED  BY <2>3, <2>6 DEF CompletedCountsAddUp
<1>2. CASE \A a \in Actor : ~Announce(a)
  <2>1. evCompleted' = evCompleted
    BY <1>2 DEF Next, Create, CreateBatch, CreateReleaseBatch, CreateChild, CreateRaises,
       Crash, Check, Count, ClaimBatch, SyncEach, Raise, AnnounceRaises,
       CountRaises, StageRaises, ClaimRaises, FinalizeRaises, CancelRaises,
       TaskStep, ClaimJob, LoadJob, Execute, SyncJob, Backstop, AppendChildAudit,
       FinalizeRelease, Poll, CancelSelect, CancelStep, CancelUpdate, CancelRequery,
       BootStep, SweepSelect, SweepMark, Reconcile, vars, chain
  <2>. QED  BY <2>1 DEF CompletedCountsAddUp
<1>. QED  BY <1>1, <1>2

\* What batch.completed and batch.cancelled report of a batch is so and stays
\* so (BatchDispatch!CountsAreTrue): finished_utc is set by check_batch_completion
\* when every child has ended, and the counts of cancel_batch are those of the
\* children that carry its error.  Of the batches that create_batch submits: a
\* release batch is created child by child and may be claimed in between.
THEOREM CountsStayTrue ==
  ASSUME Alone, ~Wrapped
  PROVE  Spec => []CountsAreTrue
<1>1. Init => CancelledInv /\ CompletedCountsAddUp
  BY Kinds DEF Init, CancelledInv, CompletedCountsAddUp
<1>2. AloneInv /\ PlainInv /\ CancelledInv /\ CompletedCountsAddUp /\ [Next]_vars
      => CancelledInv' /\ CompletedCountsAddUp'
  BY CancelledStep, CompletedStep DEF AloneInv, RunInv
<1>3. AloneInv /\ PlainInv /\ CancelledInv /\ CompletedCountsAddUp => CountsAreTrue
  <2>. SUFFICES ASSUME AloneInv, PlainInv, CancelledInv, CompletedCountsAddUp
                PROVE  CountsAreTrue
    OBVIOUS
  <2>1. FinishedMeansTerminal
    BY DEF PlainInv, AllEnded, FinishedMeansTerminal
  <2>2. Cardinality(cancelled) \in Nat
    BY TallyIsNat DEF AloneInv, RunInv, TypeOK
  <2>3. Total(evCancelled) = Cardinality(cancelled)
    <3>1. CASE cancelled = {}
      <4>1. evCancelled = <<>> /\ Cardinality(cancelled) = 0
        BY <3>1, FS_EmptySet DEF CancelledInv
      <4>. QED  BY <4>1, SumOfNone
    <3>2. CASE cancelled # {}
      <4>1. evCancelled = <<Cardinality(cancelled)>>
        BY <3>2 DEF CancelledInv
      <4>. QED  BY <2>2, <4>1, SumOfOne
    <3>. QED  BY <3>1, <3>2
  <2>4. CancelCountsTruthful
    BY <2>3 DEF Total, CancelCountsTruthful
  <2>. QED  BY <2>1, <2>4 DEF CountsAreTrue
<1>. QED  BY <1>1, <1>2, <1>3, PlainAlways, PTL DEF Spec
=============================================================================
