----------------------- MODULE ReleaseRequest_proofs -----------------------
(***************************************************************************)
(* Proofs about ReleaseRequest: its types, that a token authorizes one     *)
(* Job, and that a content-altering run is authorized in the chain first.  *)
(***************************************************************************)
EXTENDS ReleaseRequest, FiniteSetTheorems, TLAPS

(***************************************************************************)
(* Type correctness needs to know which handlers carry a token, that a     *)
(* Release is only settled with a terminal Job, and that nobody handles a  *)
(* request while the process boots.                                        *)
(***************************************************************************)
PlacedInv ==
  \A r \in Request :
    /\ pc[r] \in {"verified", "using", "used"} => HasToken(r)
    /\ pc[r] = "staged" => ~HasToken(r)
    /\ pc[r] \in {"synced", "ended"} => job[r] \in Terminal

BootInv ==
  /\ boot # "up" => \A r \in Request : ~InFlight(r)
  /\ boot = "up" => todo = {}
  /\ \A r \in todo : job[r] \in Terminal

TypeInv == TypeOK /\ PlacedInv /\ BootInv

LEMMA BodyParts ==
  ASSUME TypeOK, NEW r \in Request
  PROVE  /\ body[r].kind \in {"inspect", "sanitize", "release"}
         /\ body[r].token \in Token \cup {NoToken}
<1>1. body[r] \in Body
  BY DEF TypeOK
<1>. QED  BY <1>1 DEF Body

LEMMA TypeInit == Init => TypeInv
<1>. SUFFICES ASSUME Init PROVE TypeInv
  OBVIOUS
<1>1. body \in [Request -> Body]
  BY RequestAssumption DEF Init
<1>2. events \in [Request -> Seq([action : Action, status : JobStatus])]
  BY DEF Init
<1>3. crashes \in 0 .. MaxCrash /\ faults \in 0 .. MaxFault
  BY RequestAssumption DEF Init
<1>. QED
  BY <1>1, <1>2, <1>3 DEF Init, TypeInv, TypeOK, PlacedInv, BootInv, InFlight, Label, JobStatus

LEMMA AppendTyped ==
  ASSUME TypeOK, NEW r \in Request, NEW action \in Action, NEW status \in JobStatus,
         Append1(r, action, status)
  PROVE  events' \in [Request -> Seq([action : Action, status : JobStatus])]
<1>1. events[r] \in Seq([action : Action, status : JobStatus])
  BY DEF TypeOK
<1>2. Append(events[r], [action |-> action, status |-> status])
        \in Seq([action : Action, status : JobStatus])
  BY <1>1
<1>. QED  BY <1>2 DEF TypeOK, Append1

\* What a step of one handler does to the places.
LEMMA PlaceTyped ==
  ASSUME TypeOK, NEW r \in Request, NEW label \in Label, Go(r, label)
  PROVE  /\ pc' \in [Request -> Label] /\ pc'[r] = label
         /\ \A q \in Request \ {r} : pc'[q] = pc[q]
BY DEF TypeOK, Go

LEMMA TypeHandle ==
  ASSUME TypeInv, NEW r \in Request, Authorize(r) \/ Handle(r) \/ Raises(r)
  PROVE  TypeInv'
<1>. USE DEF TypeInv
<1>0. /\ body[r].token \in Token \cup {NoToken}
      /\ job[r] \in JobStatus
      /\ tx \in Request \cup {NoRequest}
  BY BodyParts DEF TypeOK
<1>a. boot = "up" /\ todo = {}
  BY DEF BootInv, InFlight, Handle, Authorize, InsertUse, AppendUsed, CommitJob,
         AppendCreated, Launch, SyncJob, AppendEnd, AppendTerminal, Raises
<1>b. BootInv'
  BY <1>a DEF BootInv, Handle, Authorize, InsertUse, AppendUsed, CommitJob,
         AppendCreated, Launch, SyncJob, AppendEnd, AppendTerminal, Raises
<1>1. CASE Authorize(r)
  <2>1. /\ pc' \in [Request -> Label]
        /\ pc'[r] \in {"verified", "staged", "refused"}
        /\ pc'[r] = "verified" => HasToken(r)
        /\ pc'[r] = "staged" => ~HasToken(r)
        /\ \A q \in Request \ {r} : pc'[q] = pc[q]
    BY <1>1 DEF Authorize, Go, TypeOK, Label
  <2>2. tx' \in Request \cup {NoRequest}
    BY <1>0, <1>1 DEF Authorize, Hold
  <2>. QED
    BY <1>b, <1>1, <2>1, <2>2 DEF Authorize, TypeOK, PlacedInv, HasToken, rows, bounds
<1>2. CASE InsertUse(r)
  <2>1. /\ pc' \in [Request -> Label] /\ pc'[r] \in {"refused", "using"}
        /\ \A q \in Request \ {r} : pc'[q] = pc[q]
    BY <1>2 DEF InsertUse, Go, TypeOK, Label
  <2>2. HasToken(r) /\ body[r].token \in Token
    BY <1>0, <1>2 DEF InsertUse, PlacedInv, HasToken
  <2>3. consumed' \subseteq Token /\ tx' \in Request \cup {NoRequest}
    BY <1>0, <1>2, <2>2 DEF InsertUse, TypeOK, Leave
  <2>. QED
    BY <1>b, <1>2, <2>1, <2>2, <2>3 DEF InsertUse, TypeOK, PlacedInv, HasToken, rows, bounds
<1>3. CASE AppendUsed(r)
  <2>1. HasToken(r)
    BY <1>3 DEF AppendUsed, PlacedInv
  <2>2. /\ pc' \in [Request -> Label] /\ pc'[r] \in {"used", "queued"}
        /\ \A q \in Request \ {r} : pc'[q] = pc[q]
    BY <1>3 DEF AppendUsed, Go, TypeOK, Label
  <2>3. events' \in [Request -> Seq([action : Action, status : JobStatus])]
    BY <1>3, AppendTyped DEF AppendUsed, Action, JobStatus
  <2>4. tx' \in Request \cup {NoRequest}
    BY <1>0, <1>3 DEF AppendUsed, Leave
  <2>5. use' \in [Token -> Request \cup {NoRequest}] /\ job' \in [Request -> JobStatus]
    BY <1>3 DEF AppendUsed, TypeOK, JobStatus
  <2>. QED
    BY <1>b, <1>3, <2>1, <2>2, <2>3, <2>4, <2>5
    DEF AppendUsed, TypeOK, PlacedInv, HasToken, bounds
<1>4. CASE CommitJob(r)
  <2>1. /\ pc' \in [Request -> Label] /\ pc'[r] = "queued"
        /\ \A q \in Request \ {r} : pc'[q] = pc[q]
    BY <1>4 DEF CommitJob, Go, TypeOK, Label
  <2>2. job' \in [Request -> JobStatus] /\ tx' \in Request \cup {NoRequest}
    BY <1>0, <1>4 DEF CommitJob, TypeOK, JobStatus, Leave
  <2>. QED
    BY <1>b, <1>4, <2>1, <2>2 DEF CommitJob, TypeOK, PlacedInv, HasToken, bounds
<1>5. CASE AppendCreated(r)
  <2>1. /\ pc' \in [Request -> Label] /\ pc'[r] = "queued"
        /\ \A q \in Request \ {r} : pc'[q] = pc[q]
    BY <1>5 DEF AppendCreated, Go, TypeOK, Label
  <2>2. /\ job' \in [Request -> JobStatus]
        /\ release' \in [Request -> {"none", "queued"} \cup Terminal]
        /\ tx' \in Request \cup {NoRequest}
    BY <1>0, <1>5 DEF AppendCreated, TypeOK, JobStatus, Leave
  <2>3. events' \in [Request -> Seq([action : Action, status : JobStatus])]
    BY <1>5, AppendTyped DEF AppendCreated, Action, JobStatus
  <2>. QED
    BY <1>b, <1>5, <2>1, <2>2, <2>3 DEF AppendCreated, TypeOK, PlacedInv, HasToken, bounds
<1>6. CASE Launch(r)
  BY <1>b, <1>6 DEF Launch, Go, TypeOK, PlacedInv, HasToken, Label, JobStatus, bounds
<1>7. CASE SyncJob(r)
  BY <1>b, <1>7 DEF SyncJob, Go, TypeOK, PlacedInv, HasToken, Label, JobStatus, Outcomes, bounds
<1>8. CASE AppendEnd(r)
  <2>1. /\ pc' \in [Request -> Label] /\ pc'[r] \in {"ended", "over"}
        /\ \A q \in Request \ {r} : pc'[q] = pc[q]
    BY <1>8 DEF AppendEnd, AfterEnd, Go, TypeOK, Label
  <2>2. events' \in [Request -> Seq([action : Action, status : JobStatus])]
    BY <1>0, <1>8, AppendTyped DEF AppendEnd, Action
  <2>. QED
    BY <1>b, <1>8, <2>1, <2>2 DEF AppendEnd, TypeOK, PlacedInv, HasToken, bounds
<1>9. CASE AppendTerminal(r)
  <2>1. /\ pc' \in [Request -> Label] /\ pc'[r] = "over"
        /\ \A q \in Request \ {r} : pc'[q] = pc[q]
    BY <1>9 DEF AppendTerminal, Go, TypeOK, Label
  <2>2. events' \in [Request -> Seq([action : Action, status : JobStatus])]
    BY <1>0, <1>9, AppendTyped DEF AppendTerminal, Action
  <2>3. release' \in [Request -> {"none", "queued"} \cup Terminal]
    BY <1>9 DEF AppendTerminal, TypeOK, PlacedInv
  <2>. QED
    BY <1>b, <1>9, <2>1, <2>2, <2>3 DEF AppendTerminal, TypeOK, PlacedInv, HasToken, bounds
<1>10. CASE Raises(r)
  <2>1. faults' \in 0 .. MaxFault /\ tx' \in Request \cup {NoRequest}
    BY <1>0, <1>10, RequestAssumption DEF Raises, TypeOK, Leave
  <2>. QED
    BY <1>b, <1>10, <2>1 DEF Raises, Go, TypeOK, PlacedInv, HasToken, Label, rows
<1>. QED
  BY <1>1, <1>2, <1>3, <1>4, <1>5, <1>6, <1>7, <1>8, <1>9, <1>10 DEF Handle

LEMMA TypeBoot == TypeInv /\ (Crash \/ Boot) => TypeInv'
<1>. SUFFICES ASSUME TypeInv, Crash \/ Boot PROVE TypeInv'
  OBVIOUS
<1>. USE DEF TypeInv
<1>1. CASE Crash
  <2>1. crashes' \in 0 .. MaxCrash
    BY <1>1, RequestAssumption DEF Crash, TypeOK
  <2>2. pc' \in [Request -> Label]
        /\ \A r \in Request : pc'[r] = pc[r] \/ pc'[r] = "over"
    BY <1>1 DEF Crash, TypeOK, Label
  <2>3. \A r \in Request : pc'[r] \in {"new", "refused", "over"}
    BY <1>1 DEF Crash
  <2>. QED
    BY <1>1, <2>1, <2>2, <2>3
    DEF Crash, TypeOK, PlacedInv, BootInv, InFlight, HasToken, rows
<1>2. CASE Sweep
  BY <1>2 DEF Sweep, Orphans, TypeOK, PlacedInv, BootInv, InFlight, HasToken, JobStatus,
              Terminal, bounds
<1>3. CASE SyncRelease
  <2>1. PICK r \in todo :
          /\ todo' = todo \ {r}
          /\ IF release[r] = "none" THEN UNCHANGED <<release, events>>
             ELSE /\ release' = [release EXCEPT ![r] = job[r]]
                  /\ Append1(r, "release.terminal", job[r])
    BY <1>3 DEF SyncRelease
  <2>2. r \in Request /\ job[r] \in Terminal /\ job[r] \in JobStatus
    BY <2>1 DEF TypeOK, BootInv, JobStatus
  <2>3. release' \in [Request -> {"none", "queued"} \cup Terminal]
    BY <2>1, <2>2 DEF TypeOK
  <2>4. events' \in [Request -> Seq([action : Action, status : JobStatus])]
    BY <2>1, <2>2, AppendTyped DEF Action, TypeOK
  <2>5. boot # "up"
    BY <1>3 DEF SyncRelease
  <2>. QED
    BY <1>3, <2>1, <2>3, <2>4, <2>5
    DEF SyncRelease, TypeOK, PlacedInv, BootInv, InFlight, HasToken, bounds
<1>4. CASE Reconcile
  BY <1>4 DEF Reconcile, Stale, TypeOK, PlacedInv, BootInv, InFlight, HasToken, rows, bounds
<1>5. CASE Serve
  BY <1>5 DEF Serve, TypeOK, PlacedInv, BootInv, InFlight, HasToken, rows, bounds
<1>. QED  BY <1>1, <1>2, <1>3, <1>4, <1>5 DEF Boot

LEMMA TypeExpire ==
  ASSUME TypeInv, NEW t \in Token, Expire(t)
  PROVE  TypeInv'
BY DEF TypeInv, TypeOK, PlacedInv, BootInv, InFlight, HasToken, Expire, rows, bounds

LEMMA TypeStutter == TypeInv /\ UNCHANGED vars => TypeInv'
BY DEF TypeInv, TypeOK, PlacedInv, BootInv, InFlight, HasToken, vars, rows, bounds

LEMMA TypeStep == TypeInv /\ [Next]_vars => TypeInv'
<1>. SUFFICES ASSUME TypeInv, [Next]_vars PROVE TypeInv'
  OBVIOUS
<1>1. CASE \E r \in Request : Authorize(r) \/ Handle(r) \/ Raises(r)
  BY <1>1, TypeHandle
<1>2. CASE \E t \in Token : Expire(t)
  BY <1>2, TypeExpire
<1>3. CASE Crash \/ Boot
  BY <1>3, TypeBoot
<1>. QED  BY <1>1, <1>2, <1>3, TypeStutter DEF Next

\* Every variable keeps its type, whatever requests, tokens, deaths and raised
\* calls there are.
THEOREM TypeCorrect == Spec => []TypeOK
<1>1. TypeInv => TypeOK
  BY DEF TypeInv
<1>. QED  BY <1>1, TypeInit, TypeStep, PTL DEF Spec
----------------------------------------------------------------------------
(***************************************************************************)
(* The use of tokens: while a handler has flushed its AttestationUse row   *)
(* the token is unspent and no other handler has flushed one; afterwards   *)
(* the row names this handler's Job and the chain has attest.used.         *)
(***************************************************************************)
AuthInv ==
  \A r \in Request : HasToken(r) =>
    /\ job[r] # "absent" => use[body[r].token] = r
    /\ pc[r] = "using" => use[body[r].token] = NoRequest /\ ~Inserting(r)
    /\ pc[r] \in {"used", "queued", "running"} =>
         use[body[r].token] = r /\ Recorded(r, "attest.used") # {}

LEMMA AppendRecords ==
  ASSUME TypeOK, NEW r \in Request, NEW action, NEW status, Append1(r, action, status)
  PROVE  /\ Recorded(r, action)' # {}
         /\ Recorded(r, "attest.used") # {} => Recorded(r, "attest.used")' # {}
         /\ \A q \in Request \ {r} : events'[q] = events[q]
<1>. DEFINE event == [action |-> action, status |-> status]
<1>1. events[r] \in Seq([action : Action, status : JobStatus])
  BY DEF TypeOK
<1>2. events'[r] = Append(events[r], event)
  BY DEF Append1, TypeOK
<1>3. DOMAIN events'[r] = 1 .. Len(events[r]) + 1
  BY <1>1, <1>2
<1>4. events'[r][Len(events[r]) + 1] = event
  BY <1>1, <1>2
<1>5. \A i \in DOMAIN events[r] : i \in DOMAIN events'[r] /\ events'[r][i] = events[r][i]
  BY <1>1, <1>2
<1>6. Len(events[r]) + 1 \in DOMAIN events'[r]
  BY <1>1, <1>3
<1>7. Len(events[r]) + 1 \in Recorded(r, action)'
  BY <1>4, <1>6 DEF Recorded
<1>8. Recorded(r, "attest.used") \subseteq Recorded(r, "attest.used")'
  BY <1>5 DEF Recorded
<1>. QED
  BY <1>7, <1>8 DEF Append1, TypeOK

\* The events of a request that a step leaves alone record what they recorded.
LEMMA RecordedKept ==
  ASSUME NEW r \in Request, events'[r] = events[r]
  PROVE  Recorded(r, "attest.used")' = Recorded(r, "attest.used")
BY DEF Recorded

LEMMA AuthInit == Init => AuthInv
BY DEF Init, AuthInv, Inserting

\* A step that spends no token, flushes no row and drops no event.
LEMMA AuthKept ==
  ASSUME TypeInv, AuthInv, UNCHANGED <<body, use>>,
         \A q \in Request : HasToken(q) =>
           /\ job'[q] # "absent" => use[body[q].token] = q
           /\ pc'[q] = "using" => pc[q] = "using"
           /\ pc'[q] \in {"used", "queued", "running"} =>
                /\ pc[q] \in {"used", "queued", "running"}
                /\ Recorded(q, "attest.used") # {} => Recorded(q, "attest.used")' # {}
  PROVE  AuthInv'
<1>. SUFFICES ASSUME NEW r \in Request, HasToken(r)
              PROVE  /\ job'[r] # "absent" => use'[body'[r].token] = r
                     /\ pc'[r] = "using" => use'[body'[r].token] = NoRequest /\ ~Inserting(r)'
                     /\ pc'[r] \in {"used", "queued", "running"} =>
                          use'[body'[r].token] = r /\ Recorded(r, "attest.used")' # {}
  BY DEF AuthInv, HasToken
<1>1. pc'[r] = "using" => ~Inserting(r)'
  <2>. SUFFICES ASSUME pc'[r] = "using", Inserting(r)' PROVE FALSE
    OBVIOUS
  <2>1. PICK q \in Request \ {r} : pc'[q] = "using" /\ body[q].token = body[r].token
    BY DEF Inserting
  <2>2. pc[q] = "using" /\ pc[r] = "using"
    BY <2>1 DEF HasToken
  <2>. QED  BY <2>1, <2>2 DEF AuthInv, Inserting
<1>. QED  BY <1>1 DEF AuthInv

LEMMA AuthHandle ==
  ASSUME TypeInv, AuthInv, NEW r \in Request, Authorize(r) \/ Handle(r) \/ Raises(r)
  PROVE  AuthInv'
<1>0. TypeOK /\ PlacedInv /\ NoRequest \notin Request
  BY RequestAssumption DEF TypeInv
<1>a. ASSUME NEW label, Go(r, label)
      PROVE  pc'[r] = label /\ \A q \in Request \ {r} : pc'[q] = pc[q]
  BY <1>0, <1>a DEF Go, TypeOK
<1>1. CASE Authorize(r)
  <2>1. pc'[r] \in {"verified", "staged", "refused"} /\ \A q \in Request \ {r} : pc'[q] = pc[q]
    BY <1>0, <1>1 DEF Authorize, Go, TypeOK
  <2>. QED
    BY <1>1, <2>1, RecordedKept, AuthKept DEF Authorize, AuthInv, rows
<1>2. CASE InsertUse(r)
  <2>0. HasToken(r)
    BY <1>0, <1>2 DEF InsertUse, PlacedInv
  <2>1. CASE Spent(r)
    <3>1. pc'[r] = "refused" /\ \A q \in Request \ {r} : pc'[q] = pc[q]
      BY <1>a, <1>2, <2>1 DEF InsertUse
    <3>. QED
      BY <1>2, <3>1, RecordedKept, AuthKept DEF InsertUse, AuthInv, rows
  <2>2. CASE ~Spent(r)
    <3>1. pc'[r] = "using" /\ \A q \in Request \ {r} : pc'[q] = pc[q]
      BY <1>a, <1>2, <2>2 DEF InsertUse
    <3>2. UNCHANGED <<body, job, use, events>>
      BY <1>2 DEF InsertUse, rows
    <3>3. use[body[r].token] = NoRequest
      BY <2>2 DEF Spent
    <3>4. ~Inserting(r)'
      BY <1>2, <3>1, <3>2 DEF InsertUse, Inserting
    <3>5. ASSUME NEW q \in Request \ {r}, HasToken(q), pc[q] = "using"
          PROVE  ~Inserting(q)'
      BY <1>2, <3>1, <3>2, <3>5 DEF InsertUse, Inserting, AuthInv
    <3>. QED
      BY <3>1, <3>2, <3>3, <3>4, <3>5, RecordedKept DEF AuthInv, HasToken
  <2>. QED  BY <2>1, <2>2
<1>3. CASE AppendUsed(r)
  <2>1. HasToken(r) /\ body[r].token \in Token
    BY <1>0, <1>3, BodyParts DEF AppendUsed, PlacedInv, HasToken
  <2>2. /\ pc'[r] \in {"used", "queued"} /\ \A q \in Request \ {r} : pc'[q] = pc[q]
        /\ UNCHANGED body
    BY <1>0, <1>3 DEF AppendUsed, Go, TypeOK
  <2>3. /\ use'[body[r].token] = r
        /\ \A t \in Token \ {body[r].token} : use'[t] = use[t]
        /\ \A q \in Request \ {r} : job'[q] = job[q]
    BY <1>0, <1>3, <2>1 DEF AppendUsed, TypeOK
  <2>4. /\ Recorded(r, "attest.used")' # {}
        /\ \A q \in Request \ {r} : events'[q] = events[q]
    BY <1>0, <1>3, AppendRecords DEF AppendUsed
  <2>5. ASSUME NEW q \in Request \ {r}, HasToken(q), body[q].token = body[r].token
        PROVE  /\ job[q] = "absent" /\ pc[q] # "using"
               /\ pc[q] \notin {"used", "queued", "running"}
    <3>1. use[body[r].token] = NoRequest /\ ~Inserting(r)
      BY <1>3, <2>1 DEF AppendUsed, AuthInv
    <3>. QED  BY <1>0, <2>5, <3>1 DEF AuthInv, Inserting
  <2>6. ASSUME NEW q \in Request \ {r}, HasToken(q), body[q].token # body[r].token
        PROVE  use'[body[q].token] = use[body[q].token]
    BY <1>0, <2>3, <2>6, BodyParts DEF HasToken
  <2>7. ASSUME NEW q \in Request \ {r}, HasToken(q), pc'[q] = "using"
        PROVE  ~Inserting(q)'
    BY <2>2, <2>7 DEF Inserting, AuthInv
  <2>8. ASSUME NEW q \in Request \ {r}, HasToken(q)
        PROVE  /\ job'[q] # "absent" => use'[body[q].token] = q
               /\ pc'[q] = "using" => use'[body[q].token] = NoRequest /\ ~Inserting(q)'
               /\ pc'[q] \in {"used", "queued", "running"} =>
                    use'[body[q].token] = q /\ Recorded(q, "attest.used")' # {}
    <3>1. CASE body[q].token = body[r].token
      BY <2>2, <2>3, <2>5, <2>8, <3>1
    <3>2. CASE body[q].token # body[r].token
      <4>1. Recorded(q, "attest.used")' = Recorded(q, "attest.used")
        BY <2>4, RecordedKept
      <4>. QED
        BY <2>2, <2>3, <2>6, <2>7, <2>8, <3>2, <4>1 DEF AuthInv
    <3>. QED  BY <3>1, <3>2
  <2>. QED
    BY <2>2, <2>3, <2>4, <2>8 DEF AuthInv, HasToken
<1>4. CASE CommitJob(r)
  <2>1. ~HasToken(r)
    BY <1>0, <1>4 DEF CommitJob, PlacedInv
  <2>2. \A q \in Request \ {r} : pc'[q] = pc[q] /\ job'[q] = job[q]
    BY <1>0, <1>4 DEF CommitJob, Go, TypeOK
  <2>. QED
    BY <1>4, <2>1, <2>2, RecordedKept, AuthKept DEF CommitJob, AuthInv
<1>5. CASE AppendCreated(r)
  <2>1. /\ pc'[r] = "queued"
        /\ \A q \in Request \ {r} : pc'[q] = pc[q] /\ job'[q] = job[q] /\ events'[q] = events[q]
        /\ Recorded(r, "attest.used") # {} => Recorded(r, "attest.used")' # {}
    BY <1>0, <1>5, AppendRecords DEF AppendCreated, Go, TypeOK
  <2>2. HasToken(r) => pc[r] = "used"
    BY <1>0, <1>5 DEF AppendCreated, PlacedInv
  <2>. QED
    BY <1>5, <2>1, <2>2, RecordedKept, AuthKept DEF AppendCreated, AuthInv
<1>6. CASE Launch(r)
  <2>1. pc'[r] = "running" /\ \A q \in Request \ {r} : pc'[q] = pc[q] /\ job'[q] = job[q]
    BY <1>0, <1>6 DEF Launch, Go, TypeOK
  <2>. QED
    BY <1>6, <2>1, RecordedKept, AuthKept DEF Launch, AuthInv
<1>7. CASE SyncJob(r)
  <2>1. pc'[r] = "synced" /\ \A q \in Request \ {r} : pc'[q] = pc[q] /\ job'[q] = job[q]
    BY <1>0, <1>7 DEF SyncJob, Go, TypeOK
  <2>. QED
    BY <1>7, <2>1, RecordedKept, AuthKept DEF SyncJob, AuthInv
<1>8. CASE AppendEnd(r)
  <2>1. /\ pc'[r] \in {"ended", "over"}
        /\ \A q \in Request \ {r} : pc'[q] = pc[q] /\ events'[q] = events[q]
    BY <1>0, <1>8, AppendRecords DEF AppendEnd, AfterEnd, Go, TypeOK
  <2>. QED
    BY <1>8, <2>1, RecordedKept, AuthKept DEF AppendEnd, AuthInv
<1>9. CASE AppendTerminal(r)
  <2>1. /\ pc'[r] = "over"
        /\ \A q \in Request \ {r} : pc'[q] = pc[q] /\ events'[q] = events[q]
    BY <1>0, <1>9, AppendRecords DEF AppendTerminal, Go, TypeOK
  <2>. QED
    BY <1>9, <2>1, RecordedKept, AuthKept DEF AppendTerminal, AuthInv
<1>10. CASE Raises(r)
  <2>1. pc'[r] = "over" /\ \A q \in Request \ {r} : pc'[q] = pc[q]
    BY <1>0, <1>10 DEF Raises, Go, TypeOK
  <2>. QED
    BY <1>10, <2>1, RecordedKept, AuthKept DEF Raises, AuthInv, rows
<1>. QED
  BY <1>1, <1>2, <1>3, <1>4, <1>5, <1>6, <1>7, <1>8, <1>9, <1>10 DEF Handle

LEMMA AuthBoot ==
  ASSUME TypeInv, AuthInv, Crash \/ Boot
  PROVE  AuthInv'
<1>0. TypeOK /\ BootInv
  BY DEF TypeInv
<1>1. CASE Crash
  <2>1. \A q \in Request : pc'[q] \notin {"using", "used", "queued", "running"}
    BY <1>1 DEF Crash
  <2>. QED  BY <1>1, <2>1, AuthKept DEF Crash, AuthInv, rows
<1>2. CASE Boot
  <2>1. \A q \in Request : pc'[q] = pc[q] /\ pc[q] \notin {"using", "used", "queued", "running"}
    BY <1>0, <1>2
    DEF Boot, Sweep, SyncRelease, Reconcile, Serve, BootInv, InFlight
  <2>2. \A q \in Request : job'[q] # "absent" => job[q] # "absent"
    BY <1>0, <1>2 DEF Boot, Sweep, Orphans, SyncRelease, Reconcile, Serve, rows, TypeOK
  <2>3. UNCHANGED <<body, use>>
    BY <1>2 DEF Boot, Sweep, SyncRelease, Reconcile, Serve, rows
  <2>. QED  BY <2>1, <2>2, <2>3, AuthKept DEF AuthInv
<1>. QED  BY <1>1, <1>2

LEMMA AuthStep == TypeInv /\ AuthInv /\ [Next]_vars => AuthInv'
<1>. SUFFICES ASSUME TypeInv, AuthInv, [Next]_vars PROVE AuthInv'
  OBVIOUS
<1>1. CASE \E r \in Request : Authorize(r) \/ Handle(r) \/ Raises(r)
  BY <1>1, AuthHandle
<1>2. CASE \E t \in Token : Expire(t)
  BY <1>2, RecordedKept, AuthKept DEF Expire, AuthInv, rows
<1>3. CASE Crash \/ Boot
  BY <1>3, AuthBoot
<1>4. CASE UNCHANGED vars
  BY <1>4, RecordedKept, AuthKept DEF vars, AuthInv, rows
<1>. QED  BY <1>1, <1>2, <1>3, <1>4 DEF Next

LEMMA AuthAlways == Spec => [](TypeInv /\ AuthInv)
<1>1. Init => TypeInv /\ AuthInv
  BY TypeInit, AuthInit
<1>2. TypeInv /\ AuthInv /\ [Next]_vars => (TypeInv /\ AuthInv)'
  BY TypeStep, AuthStep
<1>. QED  BY <1>1, <1>2, PTL DEF Spec

\* An attestation token authorizes one Job, whatever requests race and however
\* often the process forgets the tokens it has seen.
THEOREM TokensAreOneShot == Spec => []TokenSpentOnce
<1>1. TypeInv /\ AuthInv => TokenSpentOnce
  BY DEF AuthInv, TokenSpentOnce, HasToken
<1>. QED  BY <1>1, AuthAlways, PTL

\* The worker of a Job with a token is launched only with that token spent on it
\* and its use in the chain.
THEOREM AlteringRunsAreAuthorized == Spec => AlteringRunIsAuthorized
<1>1. TypeInv /\ AuthInv /\ [Next]_vars =>
        [\A r \in Request :
           HasToken(r) /\ job[r] # "running" /\ job'[r] = "running"
             => use[body[r].token] = r /\ Recorded(r, "attest.used") # {}]_vars
  <2>. SUFFICES ASSUME TypeInv, AuthInv, Next, NEW r \in Request, HasToken(r),
                       job[r] # "running", job'[r] = "running"
                PROVE  use[body[r].token] = r /\ Recorded(r, "attest.used") # {}
    BY DEF vars, rows
  <2>0. TypeOK
    BY DEF TypeInv
  <2>1. Launch(r)
    <3>1. CASE \E q \in Request : Authorize(q) \/ Handle(q) \/ Raises(q)
      <4>1. PICK q \in Request : Authorize(q) \/ Handle(q) \/ Raises(q)
        BY <3>1
      <4>2. q = r /\ Handle(q)
        BY <2>0, <4>1
        DEF TypeOK, Handle, Authorize, InsertUse, AppendUsed, CommitJob, AppendCreated,
            Launch, SyncJob, AppendEnd, AppendTerminal, Raises, rows
      <4>. QED
        BY <2>0, <4>1, <4>2
        DEF TypeOK, Handle, InsertUse, AppendUsed, CommitJob, AppendCreated, SyncJob,
            Outcomes, Terminal, AppendEnd, AppendTerminal, rows
    <3>2. CASE \E t \in Token : Expire(t)
      BY <3>2 DEF Expire, rows
    <3>3. CASE Crash \/ Boot
      BY <2>0, <3>3
      DEF TypeOK, Crash, Boot, Sweep, SyncRelease, Reconcile, Serve, rows
    <3>. QED  BY <3>1, <3>2, <3>3 DEF Next
  <2>. QED  BY <2>1 DEF Launch, AuthInv
<1>. QED  BY <1>1, AuthAlways, PTL DEF Spec, AlteringRunIsAuthorized
----------------------------------------------------------------------------
(***************************************************************************)
(* The settling of Releases.  A Release is queued from the commit of       *)
(* release.created until one of two hands settles it: the handler, which   *)
(* is over afterwards, or a boot, which no handler survives.  What a boot  *)
(* has in todo is queued or has no Release.                                *)
(***************************************************************************)
Before == {"new", "refused", "staged", "verified", "using"}
Settled(r) ==
  \E i \in DOMAIN events[r] :
    Recorded(r, "release.terminal") = {i} /\ events[r][i].status = job[r]

ReleaseOf(r) ==
  /\ pc[r] \in Before => job[r] = "absent"
  /\ pc[r] \in Before \cup {"used"} => release[r] = "none"
  /\ pc[r] \in {"used", "ended"} => body[r].kind = "release"
  /\ pc[r] \in {"queued", "running", "synced", "ended"} =>
       release[r] = IF body[r].kind = "release" THEN "queued" ELSE "none"
  /\ release[r] # "none" => job[r] # "absent"
  /\ release[r] \in {"none", "queued"} => Recorded(r, "release.terminal") = {}
  /\ release[r] \in Terminal => pc[r] = "over" /\ job[r] = release[r] /\ Settled(r)

ReleaseInv == \A r \in Request : ReleaseOf(r)

Unfinished(r) == job[r] \in {"queued", "running"} \/ release[r] = "queued"

LeftInv ==
  /\ \A r \in todo : release[r] \in {"none", "queued"}
  /\ boot \in {"sync", "heal"} => \A r \in Request : job[r] \notin {"queued", "running"}
  /\ boot = "heal" => \A r \in Request : release[r] = "queued" => r \in todo
  /\ boot = "up" /\ faults = 0 => \A r \in Request : Unfinished(r) => InFlight(r)

SettleInv == ReleaseInv /\ LeftInv

LEMMA SettleInit == Init => SettleInv
BY DEF Init, SettleInv, ReleaseInv, ReleaseOf, LeftInv, Unfinished, Before, Recorded, Terminal

\* An append adds one event at the end of one request's events.
LEMMA AppendExact ==
  ASSUME TypeOK, NEW r \in Request, NEW action, NEW status, Append1(r, action, status)
  PROVE  /\ \A q \in Request \ {r} : events'[q] = events[q]
         /\ \A i \in DOMAIN events[r] : i \in DOMAIN events'[r] /\ events'[r][i] = events[r][i]
         /\ \A a : a # action => Recorded(r, a)' = Recorded(r, a)
         /\ \E n \in DOMAIN events'[r] :
              Recorded(r, action)' = Recorded(r, action) \cup {n} /\ events'[r][n].status = status
<1>. DEFINE event == [action |-> action, status |-> status]
            n == Len(events[r]) + 1
<1>1. events[r] \in Seq([action : Action, status : JobStatus])
  BY DEF TypeOK
<1>2. events'[r] = Append(events[r], event)
  BY DEF Append1, TypeOK
<1>3. /\ DOMAIN events[r] = 1 .. Len(events[r]) /\ Len(events[r]) \in Nat
      /\ DOMAIN events'[r] = 1 .. n /\ events'[r][n] = event
      /\ \A i \in DOMAIN events[r] : events'[r][i] = events[r][i]
  BY <1>1, <1>2
<1>4. DOMAIN events'[r] = DOMAIN events[r] \cup {n}
  BY <1>3
<1>5. event.action = action /\ event.status = status
  OBVIOUS
<1>. HIDE DEF n, event
<1>6. \A a : a # action => Recorded(r, a)' = Recorded(r, a)
  BY <1>3, <1>4, <1>5 DEF Recorded
<1>7. Recorded(r, action)' = Recorded(r, action) \cup {n}
  BY <1>3, <1>4, <1>5 DEF Recorded
<1>. QED  BY <1>3, <1>4, <1>5, <1>6, <1>7 DEF Append1, TypeOK

\* A step that leaves a request's rows, place and events alone.
LEMMA ReleaseKept ==
  ASSUME NEW r \in Request, ReleaseOf(r), UNCHANGED body,
         pc'[r] = pc[r], job'[r] = job[r], release'[r] = release[r], events'[r] = events[r]
  PROVE  ReleaseOf(r)'
BY DEF ReleaseOf, Settled, Recorded

\* Events of a handler's own leave the Release as it is.
LEMMA NotSettling ==
  ASSUME TypeOK, NEW r \in Request, release[r] \notin Terminal, release'[r] \in {"none", "queued"},
         ReleaseOf(r),
         \/ events'[r] = events[r]
         \/ \E action \in {"attest.used", "release.created", "job"} :
              \E status : Append1(r, action, status)
  PROVE  Recorded(r, "release.terminal")' = {}
<1>1. release[r] \in {"none", "queued"}
  BY DEF TypeOK
<1>2. Recorded(r, "release.terminal")' = Recorded(r, "release.terminal")
  <2>1. CASE events'[r] = events[r]
    BY <2>1 DEF Recorded
  <2>2. ASSUME NEW action \in {"attest.used", "release.created", "job"}, NEW status,
               Append1(r, action, status)
        PROVE  Recorded(r, "release.terminal")' = Recorded(r, "release.terminal")
    BY <2>2, AppendExact
  <2>. QED  BY <2>1, <2>2
<1>. QED  BY <1>1, <1>2 DEF ReleaseOf

\* Whoever settles a queued Release settles it once.
LEMMA Settling ==
  ASSUME TypeOK, NEW r \in Request, release[r] = "queued", ReleaseOf(r), job[r] \in Terminal,
         job'[r] = job[r], release' = [release EXCEPT ![r] = job[r]],
         Append1(r, "release.terminal", job[r]), pc'[r] = "over"
  PROVE  ReleaseOf(r)'
<1>1. Recorded(r, "release.terminal") = {}
  BY DEF ReleaseOf
<1>2. PICK n \in DOMAIN events'[r] :
        Recorded(r, "release.terminal")' = {n} /\ events'[r][n].status = job[r]
  BY <1>1, AppendExact
<1>3. Settled(r)'
  BY <1>2 DEF Settled
<1>4. release'[r] = job[r]
  BY DEF TypeOK
<1>. QED  BY <1>3, <1>4 DEF ReleaseOf, Before, Terminal

\* The other requests keep what they have when one handler moves.
LEMMA OthersRest ==
  ASSUME TypeOK, NEW r \in Request, Authorize(r) \/ Handle(r) \/ Raises(r)
  PROVE  /\ UNCHANGED <<body, boot, todo>>
         /\ \A q \in Request \ {r} : /\ pc'[q] = pc[q] /\ job'[q] = job[q]
                                     /\ release'[q] = release[q] /\ events'[q] = events[q]
<1>1. CASE Authorize(r) \/ InsertUse(r) \/ CommitJob(r) \/ Launch(r) \/ SyncJob(r) \/ Raises(r)
  BY <1>1 DEF Authorize, InsertUse, CommitJob, Launch, SyncJob, Raises, Go, TypeOK, rows, bounds
<1>2. CASE AppendUsed(r) \/ AppendCreated(r) \/ AppendEnd(r) \/ AppendTerminal(r)
  BY <1>2 DEF AppendUsed, AppendCreated, AppendEnd, AppendTerminal, Append1, Go, TypeOK, bounds
<1>. QED  BY <1>1, <1>2 DEF Handle

\* What a handler's step makes of its own Release.
LEMMA ReleaseHandle ==
  ASSUME TypeInv, ReleaseInv, NEW r \in Request, Authorize(r) \/ Handle(r) \/ Raises(r)
  PROVE  ReleaseOf(r)' /\ (faults' = 0 => (Unfinished(r)' => InFlight(r)'))
<1>0. TypeOK /\ PlacedInv /\ ReleaseOf(r) /\ UNCHANGED body
  BY OthersRest DEF TypeInv, ReleaseInv
<1>a. ASSUME NEW label, Go(r, label) PROVE pc'[r] = label
  BY <1>0, <1>a DEF Go, TypeOK
<1>b. pc[r] # "over" /\ release[r] \notin Terminal
  BY <1>0 DEF ReleaseOf, Handle, Authorize, InsertUse, AppendUsed, CommitJob, AppendCreated, Launch,
              SyncJob, AppendEnd, AppendTerminal, Raises
<1>. USE DEF Unfinished, InFlight, Before, Terminal
<1>1. CASE Authorize(r) \/ InsertUse(r) \/ Raises(r)
  <2>1. job'[r] = job[r] /\ release'[r] = release[r] /\ events'[r] = events[r]
    BY <1>1 DEF Authorize, InsertUse, Raises, rows
  <2>2. Recorded(r, "release.terminal")' = Recorded(r, "release.terminal")
    BY <2>1 DEF Recorded
  <2>3. \/ pc[r] \in Before /\ pc'[r] \in {"verified", "staged", "refused", "using"}
        \/ pc'[r] = "over" /\ faults' # 0
    <3>1. CASE Authorize(r)
      BY <1>a, <3>1 DEF Authorize
    <3>2. CASE InsertUse(r)
      BY <1>a, <3>2 DEF InsertUse
    <3>3. CASE Raises(r)
      BY <1>0, <1>a, <3>3, RequestAssumption DEF Raises, TypeOK
    <3>. QED  BY <1>1, <3>1, <3>2, <3>3
  <2>. QED  BY <1>0, <1>b, <2>1, <2>2, <2>3 DEF ReleaseOf
<1>2. CASE AppendUsed(r)
  <2>1. /\ pc[r] = "using" /\ pc'[r] = IF body[r].kind = "release" THEN "used" ELSE "queued"
        /\ job'[r] = "queued" /\ release'[r] = release[r]
    BY <1>0, <1>2, <1>a DEF AppendUsed, TypeOK
  <2>2. release[r] = "none"
    BY <1>0, <2>1 DEF ReleaseOf
  <2>3. Recorded(r, "release.terminal")' = {}
    BY <1>0, <1>2, <2>1, <2>2, NotSettling DEF AppendUsed
  <2>. QED  BY <1>0, <2>1, <2>2, <2>3 DEF ReleaseOf
<1>3. CASE CommitJob(r)
  <2>1. /\ pc[r] = "staged" /\ pc'[r] = "queued" /\ body[r].kind # "release"
        /\ job'[r] = "queued" /\ release'[r] = release[r] /\ events'[r] = events[r]
    BY <1>0, <1>3, <1>a DEF CommitJob, TypeOK
  <2>2. release[r] = "none"
    BY <1>0, <2>1 DEF ReleaseOf
  <2>3. Recorded(r, "release.terminal")' = {}
    BY <1>0, <1>3, <2>1, <2>2, NotSettling
  <2>. QED  BY <1>0, <2>1, <2>2, <2>3 DEF ReleaseOf
<1>4. CASE AppendCreated(r)
  <2>1. /\ body[r].kind = "release" /\ pc'[r] = "queued"
        /\ job'[r] = "queued" /\ release'[r] = "queued"
    BY <1>0, <1>4, <1>a DEF AppendCreated, TypeOK, ReleaseOf
  <2>2. Recorded(r, "release.terminal")' = {}
    BY <1>0, <1>4, <1>b, <2>1, NotSettling DEF AppendCreated
  <2>. QED  BY <1>0, <2>1, <2>2 DEF ReleaseOf
<1>5. CASE Launch(r) \/ SyncJob(r)
  <2>1. /\ \/ pc[r] = "queued" /\ pc'[r] = "running"
           \/ pc[r] = "running" /\ pc'[r] = "synced"
        /\ release'[r] = release[r] /\ events'[r] = events[r] /\ job'[r] # "absent"
    BY <1>0, <1>5, <1>a DEF Launch, SyncJob, TypeOK, Outcomes
  <2>2. Recorded(r, "release.terminal")' = {} /\ release[r] \in {"none", "queued"}
    BY <1>0, <1>b, <2>1, NotSettling DEF TypeOK
  <2>. QED  BY <1>0, <2>1, <2>2 DEF ReleaseOf
<1>6. CASE AppendEnd(r)
  <2>1. /\ pc[r] = "synced" /\ pc'[r] = IF body[r].kind = "release" THEN "ended" ELSE "over"
        /\ release'[r] = release[r] /\ job'[r] = job[r] /\ job[r] \in Terminal
    BY <1>0, <1>6, <1>a DEF AppendEnd, AfterEnd, PlacedInv
  <2>2. Recorded(r, "release.terminal")' = {} /\ release[r] \in {"none", "queued"}
    BY <1>0, <1>6, <1>b, <2>1, NotSettling DEF AppendEnd, TypeOK
  <2>. QED  BY <1>0, <2>1, <2>2 DEF ReleaseOf
<1>7. CASE AppendTerminal(r)
  <2>1. /\ pc[r] = "ended" /\ pc'[r] = "over" /\ job'[r] = job[r] /\ job[r] \in Terminal
        /\ release' = [release EXCEPT ![r] = job[r]]
        /\ Append1(r, "release.terminal", job[r])
    BY <1>0, <1>7, <1>a DEF AppendTerminal, PlacedInv
  <2>2. release[r] = "queued" /\ release'[r] = job[r]
    BY <1>0, <2>1 DEF ReleaseOf, TypeOK
  <2>. QED  BY <1>0, <2>1, <2>2, Settling
<1>. QED  BY <1>1, <1>2, <1>3, <1>4, <1>5, <1>6, <1>7 DEF Handle

LEMMA SettleHandle ==
  ASSUME TypeInv, SettleInv, NEW r \in Request, Authorize(r) \/ Handle(r) \/ Raises(r)
  PROVE  SettleInv'
<1>0. /\ TypeOK /\ BootInv /\ ReleaseInv /\ LeftInv
      /\ ReleaseOf(r)' /\ (faults' = 0 => (Unfinished(r)' => InFlight(r)'))
  BY ReleaseHandle DEF TypeInv, SettleInv
<1>1. boot = "up" /\ todo = {} /\ UNCHANGED <<boot, todo>>
  BY <1>0 DEF BootInv, InFlight, Handle, Authorize, InsertUse, AppendUsed, CommitJob,
         AppendCreated, Launch, SyncJob, AppendEnd, AppendTerminal, Raises
<1>2. faults' = 0 => faults = 0
  <2>1. CASE Raises(r)
    BY <1>0, <2>1 DEF Raises, TypeOK
  <2>2. CASE ~Raises(r)
    BY <2>2 DEF Handle, Authorize, InsertUse, AppendUsed, CommitJob, AppendCreated, Launch, SyncJob,
           AppendEnd, AppendTerminal, bounds
  <2>. QED  BY <2>1, <2>2
<1>3. ASSUME NEW q \in Request \ {r}
      PROVE  ReleaseOf(q)' /\ (Unfinished(q)' <=> Unfinished(q)) /\ (InFlight(q)' <=> InFlight(q))
  <2>1. UNCHANGED body /\ pc'[q] = pc[q] /\ job'[q] = job[q] /\ release'[q] = release[q]
        /\ events'[q] = events[q]
    BY <1>0, OthersRest
  <2>. QED  BY <1>0, <2>1, ReleaseKept DEF ReleaseInv, Unfinished, InFlight
<1>4. LeftInv'
  BY <1>0, <1>1, <1>2, <1>3 DEF LeftInv
<1>. QED  BY <1>0, <1>3, <1>4 DEF SettleInv, ReleaseInv

LEMMA SettleBoot ==
  ASSUME TypeInv, SettleInv, Crash \/ Boot
  PROVE  SettleInv'
<1>0. TypeOK /\ BootInv /\ ReleaseInv /\ LeftInv
  BY DEF TypeInv, SettleInv
<1>1. CASE Crash
  <2>1. \A r \in Request : /\ pc'[r] = IF pc[r] \in {"new", "refused"} THEN pc[r] ELSE "over"
                           /\ job'[r] = job[r] /\ release'[r] = release[r] /\ events'[r] = events[r]
    BY <1>1 DEF Crash, rows
  <2>2. \A r \in Request : ReleaseOf(r)'
    <3>. SUFFICES ASSUME NEW r \in Request PROVE ReleaseOf(r)'
      OBVIOUS
    <3>1. UNCHANGED body /\ ReleaseOf(r) /\ release[r] \in {"none", "queued"} \cup Terminal
      BY <1>0, <1>1 DEF Crash, ReleaseInv, TypeOK
    <3>2. Recorded(r, "release.terminal")' = Recorded(r, "release.terminal")
      BY <2>1 DEF Recorded
    <3>3. Settled(r) => Settled(r)'
      BY <2>1, <3>2 DEF Settled
    <3>. QED  BY <2>1, <3>1, <3>2, <3>3 DEF ReleaseOf, Before
  <2>3. LeftInv'
    BY <1>1 DEF Crash, LeftInv
  <2>. QED  BY <2>2, <2>3 DEF SettleInv, ReleaseInv
<1>2. CASE Sweep
  <2>1. /\ boot = "down" /\ boot' = "sync" /\ todo' = Orphans /\ UNCHANGED <<body, pc, release, events>>
        /\ \A r \in Request : job'[r] = IF r \in Orphans THEN "failed" ELSE job[r]
    BY <1>2 DEF Sweep
  <2>2. \A r \in Request : ReleaseOf(r)'
    <3>. SUFFICES ASSUME NEW r \in Request PROVE ReleaseOf(r)'
      OBVIOUS
    <3>1. ReleaseOf(r) /\ (r \in Orphans <=> job[r] \in {"queued", "running"})
      BY <1>0 DEF ReleaseInv, Orphans
    <3>2. Recorded(r, "release.terminal")' = Recorded(r, "release.terminal")
      BY <2>1 DEF Recorded
    <3>3. release[r] \in Terminal => job'[r] = job[r]
      BY <2>1, <3>1 DEF ReleaseOf, Terminal
    <3>4. release[r] \in Terminal /\ Settled(r) => Settled(r)'
      BY <2>1, <3>2, <3>3 DEF Settled
    <3>. QED  BY <2>1, <3>1, <3>2, <3>3, <3>4 DEF ReleaseOf
  <2>3. \A r \in Orphans : release[r] \in {"none", "queued"}
    BY <1>0 DEF ReleaseInv, ReleaseOf, Orphans, Terminal, TypeOK
  <2>4. LeftInv'
    BY <2>1, <2>3 DEF LeftInv, Orphans
  <2>. QED  BY <2>2, <2>4 DEF SettleInv, ReleaseInv
<1>3. CASE SyncRelease
  <2>1. PICK r \in todo :
          /\ todo' = todo \ {r}
          /\ IF release[r] = "none" THEN UNCHANGED <<release, events>>
             ELSE /\ release' = [release EXCEPT ![r] = job[r]]
                  /\ Append1(r, "release.terminal", job[r])
    BY <1>3 DEF SyncRelease
  <2>2. /\ r \in Request /\ job[r] \in Terminal /\ release[r] \in {"none", "queued"}
        /\ UNCHANGED <<body, pc, job, boot>> /\ boot # "up" /\ ReleaseOf(r)
    BY <1>0, <1>3, <2>1 DEF SyncRelease, TypeOK, BootInv, LeftInv, ReleaseInv
  <2>3. \A q \in Request \ {r} : release'[q] = release[q] /\ events'[q] = events[q]
    BY <1>0, <2>1, <2>2 DEF Append1, TypeOK
  <2>4. ReleaseOf(r)' /\ release'[r] # "queued"
    <3>1. CASE release[r] = "none"
      BY <2>1, <2>2, <3>1, ReleaseKept
    <3>2. CASE release[r] = "queued"
      <4>1. pc[r] = "over"
        BY <1>0, <2>2, <3>2 DEF BootInv, InFlight, ReleaseOf, Before
      <4>2. release'[r] = job[r]
        BY <1>0, <2>1, <2>2, <3>2 DEF TypeOK
      <4>. QED  BY <1>0, <2>1, <2>2, <3>2, <4>1, <4>2, Settling DEF Terminal
    <3>. QED  BY <2>2, <3>1, <3>2
  <2>5. \A q \in Request \ {r} : ReleaseOf(q)'
    BY <1>0, <2>2, <2>3, ReleaseKept DEF ReleaseInv
  <2>6. LeftInv'
    <3>1. todo \subseteq Request
      BY <1>0 DEF TypeOK
    <3>. QED  BY <1>0, <2>1, <2>2, <2>3, <2>4, <3>1 DEF LeftInv
  <2>. QED  BY <2>4, <2>5, <2>6 DEF SettleInv, ReleaseInv
<1>4. CASE Reconcile \/ Serve
  <2>1. UNCHANGED <<body, pc, job, release, events>>
    BY <1>4 DEF Reconcile, Serve, rows
  <2>2. ReleaseInv'
    BY <1>0, <2>1, ReleaseKept DEF ReleaseInv
  <2>3. LeftInv'
    <3>1. CASE Reconcile
      <4>1. boot = "sync" /\ boot' = "heal" /\ todo' = Stale
        BY <3>1 DEF Reconcile
      <4>2. \A r \in Request : release[r] = "queued" => job[r] \in Terminal
        BY <1>0, <4>1 DEF LeftInv, ReleaseInv, ReleaseOf, TypeOK, JobStatus
      <4>3. \A r \in Request : release[r] = "queued" => r \in Stale
        BY <4>2 DEF Stale
      <4>4. \A r \in Stale : release[r] = "queued"
        BY <1>0 DEF Stale, TypeOK, Terminal
      <4>. QED  BY <1>0, <2>1, <4>1, <4>3, <4>4 DEF LeftInv
    <3>2. CASE Serve
      <4>1. boot = "heal" /\ boot' = "up" /\ todo = {} /\ todo' = {}
        BY <3>2 DEF Serve
      <4>2. \A r \in Request : ~Unfinished(r)
        BY <1>0, <4>1 DEF LeftInv, Unfinished
      <4>. QED  BY <2>1, <4>1, <4>2 DEF LeftInv, Unfinished
    <3>. QED  BY <1>4, <3>1, <3>2
  <2>. QED  BY <2>2, <2>3 DEF SettleInv
<1>. QED  BY <1>1, <1>2, <1>3, <1>4 DEF Boot

LEMMA SettleStep == TypeInv /\ SettleInv /\ [Next]_vars => SettleInv'
<1>. SUFFICES ASSUME TypeInv, SettleInv, [Next]_vars PROVE SettleInv'
  OBVIOUS
<1>1. CASE \E r \in Request : Authorize(r) \/ Handle(r) \/ Raises(r)
  BY <1>1, SettleHandle
<1>2. CASE (\E t \in Token : Expire(t)) \/ UNCHANGED vars
  <2>1. UNCHANGED <<body, pc, job, release, events, boot, todo, faults>>
    BY <1>2 DEF Expire, vars, rows, bounds
  <2>2. ReleaseInv'
    BY <2>1, ReleaseKept DEF SettleInv, ReleaseInv
  <2>. QED  BY <2>1, <2>2 DEF SettleInv, LeftInv, Unfinished, InFlight
<1>3. CASE Crash \/ Boot
  BY <1>3, SettleBoot
<1>. QED  BY <1>1, <1>2, <1>3 DEF Next

\* A Release is settled once and with the outcome of its Job, and while the
\* process serves every unfinished one has a handler, for any requests, tokens
\* and deaths: handler and boot never settle the same one twice.
THEOREM ReleasesSettleOnce == Spec => []ReleasesAreSettled
<1>1. TypeInv /\ SettleInv => NoneStranded
  BY DEF SettleInv, LeftInv, NoneStranded, Unfinished
<1>2. TypeInv /\ SettleInv => SettledOnce
  <2>. SUFFICES ASSUME TypeInv, SettleInv, NEW r \in Request
                PROVE  /\ Cardinality(Recorded(r, "release.terminal")) <= 1
                       /\ release[r] \in Terminal =>
                            /\ release[r] = job[r]
                            /\ \E i \in Recorded(r, "release.terminal") : events[r][i].status = job[r]
    BY DEF SettledOnce
  <2>1. ReleaseOf(r) /\ release[r] \in {"none", "queued"} \cup Terminal
    BY DEF SettleInv, ReleaseInv, TypeInv, TypeOK
  <2>2. \/ Recorded(r, "release.terminal") = {}
        \/ \E i : Recorded(r, "release.terminal") = {i}
    BY <2>1 DEF ReleaseOf, Settled
  <2>3. Cardinality(Recorded(r, "release.terminal")) <= 1
    <3>1. CASE Recorded(r, "release.terminal") = {}
      <4>1. Cardinality(Recorded(r, "release.terminal")) = 0
        BY <3>1, FS_EmptySet
      <4>. QED  BY <4>1
    <3>2. ASSUME NEW i, Recorded(r, "release.terminal") = {i}
          PROVE  Cardinality(Recorded(r, "release.terminal")) <= 1
      <4>1. Cardinality({i}) = 1
        BY FS_Singleton
      <4>. QED  BY <3>2, <4>1
    <3>. QED  BY <2>2, <3>1, <3>2
  <2>. QED  BY <2>1, <2>3 DEF ReleaseOf, Settled
<1>3. Init => TypeInv /\ SettleInv
  BY TypeInit, SettleInit
<1>4. TypeInv /\ SettleInv /\ [Next]_vars => (TypeInv /\ SettleInv)'
  BY TypeStep, SettleStep
<1>. QED  BY <1>1, <1>2, <1>3, <1>4, PTL DEF Spec, ReleasesAreSettled
=============================================================================
