---------------------------- MODULE MatterAccess ----------------------------
(***************************************************************************)
(* Who may do what on one matter: the grants (service/app/acl.py), the     *)
(* handlers that create, change and use them (create_matter, put_acl,      *)
(* delete_acl, job_bundle with the original) and the audit events they     *)
(* append.  grant and revoke commit before the handler appends its event;  *)
(* a download's two events are committed before its original is read.  On  *)
(* SQLite a handler owns the database from its permission check to its     *)
(* first commit, on Postgres any two statements may be interleaved.        *)
(***************************************************************************)
EXTENDS Integers, Sequences, FiniteSets, Functions

CONSTANTS
  User,
  Request,       \* requests the matter receives, each handled by its own thread
  Unknown,       \* permission names outside KNOWN_PERMS
  Asked,         \* the requests that may be sent
  Serializable,  \* TRUE: SQLite (BEGIN IMMEDIATE), FALSE: Postgres
  MaxCrash,      \* bound on process deaths
  MaxFault       \* bound on handlers that raise at the chain

ASSUME AccessAssumption ==
  /\ IsFiniteSet(User)
  /\ Serializable \in BOOLEAN
  /\ MaxCrash \in Nat /\ MaxFault \in Nat

\* The permissions some guard tells apart; upload, inspect and sanitize are
\* granted and revoked like read.
KNOWN_PERMS == {"admin", "read", "download_original"}
OWNER_PERMS == KNOWN_PERMS \ {"download_original"}

ASSUME UnknownAssumption == Unknown \cap KNOWN_PERMS = {}

NoRequest == "no request"
ASSUME RequestAssumption == NoRequest \notin Request

Body ==
  [kind : {"grant", "revoke"}, by : User, user : User,
   perm : KNOWN_PERMS \cup Unknown, confirm : BOOLEAN]
    \cup [kind : {"create", "download"}, by : User]

ASSUME AskedAssumption == Asked \subseteq Body

VARIABLES
  created,  \* the matter's row is committed
  acl,      \* committed grants, <<user, perm>>
  log,      \* the matter's audit events
  left,     \* the downloads whose original has left
  tx,       \* the request that holds SQLite's write lock
  pc,       \* where each request's handler stands
  body,     \* what each request asks for
  crashes, faults

bounds == <<crashes, faults>>
vars == <<created, acl, log, left, tx, pc, body, bounds>>

Init ==
  /\ created = FALSE
  /\ acl = {}
  /\ log = <<>> /\ left = {}
  /\ tx = NoRequest
  /\ pc = [r \in Request |-> "new"]
  /\ body \in [Request -> Asked]
  /\ crashes = 0 /\ faults = 0

Grant(r) == <<body[r].user, body[r].perm>>
HasPerm(user, perm) == <<user, perm>> \in acl
Admins == {u \in User : HasPerm(u, "admin")}

Go(r, label) == pc' = [pc EXCEPT ![r] = label]

Free(r) == Serializable => tx \in {NoRequest, r}

\* Mutant: SQLite's deferred BEGIN, which locks nothing before the first write.
HoldNothing(r) == tx' = NoRequest

Hold(r) == tx' = IF Serializable THEN r ELSE NoRequest
Release(r) == tx' = IF tx = r THEN NoRequest ELSE tx

\* The handler answers: its session closes.
Answer(r) == Release(r) /\ Go(r, "done")

----------------------------------------------------------------------------
\* create_matter: the creator's grants and the matter's row, in one commit.
CreateMatter(r) ==
  /\ pc[r] = "new" /\ body[r].kind = "create" /\ ~created /\ Free(r)
  /\ created' = TRUE
  /\ acl' = {body[r].by} \X OWNER_PERMS
  /\ Go(r, "append")
  /\ UNCHANGED <<log, left, tx, body, bounds>>

\* The permissions a handler requires before it does anything.
Required(r) ==
  IF body[r].kind = "download" THEN {"read", "download_original"} ELSE {"admin"}

\* delete_acl's self-lockout guard.
SelfLockout(r) ==
  /\ body[r].kind = "revoke" /\ body[r].user = body[r].by
  /\ body[r].perm \in {"admin", "read"} /\ ~body[r].confirm

Refused(r) == SelfLockout(r) \/ \E p \in Required(r) : ~HasPerm(body[r].by, p)

\* _require, and what the handler refuses before it touches the grants.
Authorize(r) ==
  /\ pc[r] = "new" /\ body[r].kind # "create" /\ created /\ Free(r)
  /\ IF Refused(r) THEN Answer(r)
     ELSE Hold(r) /\ Go(r, IF body[r].kind = "download" THEN "append"
                           ELSE body[r].kind)
  /\ UNCHANGED <<created, acl, log, left, body, bounds>>

Known(r) == body[r].perm \in KNOWN_PERMS

\* grant: an unknown permission is refused, a grant that is there is kept.
CheckGrant(r) ==
  /\ pc[r] = "grant"
  /\ \/ ~Known(r) /\ Answer(r)
     \/ /\ Known(r)
        /\ Go(r, IF Grant(r) \in acl THEN "append" ELSE "insert")
        /\ UNCHANGED tx
  /\ UNCHANGED <<created, acl, log, left, body, bounds>>

\* Mutant: put_acl answers as soon as the grant is committed.
AfterInsertSilent(r) == "done"

AfterInsert(r) == "append"

\* A grant that appeared since the check is refused by the primary key: the
\* handler raises and appends nothing.
InsertGrant(r) ==
  /\ pc[r] = "insert"
  /\ acl' = acl \cup {Grant(r)}
  /\ Release(r) /\ Go(r, IF Grant(r) \in acl THEN "done" ELSE AfterInsert(r))
  /\ UNCHANGED <<created, log, left, body, bounds>>

\* revoke: the last admin guard is for a grant that is there.
CheckRevoke(r) ==
  /\ pc[r] = "revoke"
  /\ Go(r, IF body[r].perm = "admin" /\ Grant(r) \in acl THEN "count" ELSE "delete")
  /\ UNCHANGED <<created, acl, log, left, tx, body, bounds>>

\* Mutant: refuses only when no admin is left to count.
IsLastNever == Cardinality(Admins) <= 0

IsLast == Cardinality(Admins) <= 1

CountAdmins(r) ==
  /\ pc[r] = "count"
  /\ \/ IsLast /\ Answer(r)
     \/ ~IsLast /\ Go(r, "delete") /\ UNCHANGED tx
  /\ UNCHANGED <<created, acl, log, left, body, bounds>>

DeleteGrant(r) ==
  /\ pc[r] = "delete"
  /\ acl' = acl \ {Grant(r)}
  /\ Release(r) /\ Go(r, "append")
  /\ UNCHANGED <<created, log, left, body, bounds>>

\* A change of the grants is answered for; a download has only been recorded.
AfterAppend(r) == IF body[r].kind = "download" THEN "certify" ELSE "done"

\* append_event, in one step, and its commit: AuditChain is about its inside.
AppendEvent(r) ==
  /\ pc[r] = "append" /\ Free(r)
  /\ log' = Append(log, body[r])
  /\ Release(r) /\ Go(r, AfterAppend(r))
  /\ UNCHANGED <<created, acl, left, body, bounds>>

Certificate(r) == [kind |-> "certificate", by |-> body[r].by]

\* _append_certificate_issued: a second event, in a transaction of its own.
AppendCertificate(r) ==
  /\ pc[r] = "certify" /\ Free(r)
  /\ log' = Append(log, Certificate(r))
  /\ Release(r) /\ Go(r, "assemble")
  /\ UNCHANGED <<created, acl, left, body, bounds>>

\* The packet is assembled, signed and stamped: the query for its Release
\* begins the transaction that lasts until the answer.  No permission is
\* asked for again.
Assemble(r) ==
  /\ pc[r] = "assemble" /\ Free(r)
  /\ Hold(r) /\ Go(r, "leave")
  /\ UNCHANGED <<created, acl, log, left, body, bounds>>

\* The original is read into the answer, where there is one.
SendOriginal(r) ==
  /\ pc[r] = "leave"
  /\ left' \in {left, left \cup {r}}
  /\ Answer(r)
  /\ UNCHANGED <<created, acl, log, body, bounds>>

\* An append kept colliding, or the database stayed locked: the handler raises.
Raises(r) ==
  /\ pc[r] \in {"append", "certify", "assemble"} /\ faults < MaxFault
  /\ faults' = faults + 1
  /\ Answer(r)
  /\ UNCHANGED <<created, acl, log, left, body, crashes>>

\* A process death ends every request it was serving.
Crash ==
  /\ crashes < MaxCrash
  /\ crashes' = crashes + 1
  /\ tx' = NoRequest
  /\ pc' = [r \in Request |-> IF pc[r] = "new" THEN "new" ELSE "done"]
  /\ UNCHANGED <<created, acl, log, left, body, faults>>

Handle(r) ==
  \/ CreateMatter(r) \/ Authorize(r) \/ CheckGrant(r) \/ InsertGrant(r)
  \/ CheckRevoke(r) \/ CountAdmins(r) \/ DeleteGrant(r)
  \/ AppendEvent(r) \/ AppendCertificate(r) \/ Assemble(r) \/ SendOriginal(r)
  \/ Raises(r)

Next == (\E r \in Request : Handle(r)) \/ Crash

Spec == Init /\ [][Next]_vars

----------------------------------------------------------------------------
Label ==
  {"new", "grant", "insert", "revoke", "count", "delete",
   "append", "certify", "assemble", "leave", "done"}

Event == Body \cup [kind : {"certificate"}, by : User]

TypeOK ==
  /\ created \in BOOLEAN
  /\ acl \in SUBSET (User \X KNOWN_PERMS)
  /\ log \in Seq(Event)
  /\ left \in SUBSET Request
  /\ tx \in Request \cup {NoRequest}
  /\ pc \in [Request -> Label]
  /\ body \in [Request -> Body]
  /\ crashes \in 0 .. MaxCrash
  /\ faults \in 0 .. MaxFault

(***************************************************************************)
(* Properties.                                                             *)
(***************************************************************************)
\* A matter never loses its last admin: put_acl requires one, so no request
\* could bring one back.
LastAdminStays == created => Admins # {}

\* Every change of the grants is the act of a user who holds the permission at
\* that moment, not at some earlier check; and the chain records a download of
\* the original for nobody who does not hold both permissions when it does.  It
\* says nothing of the later moment the original is read: job_bundle has
\* committed twice by then, and a revoke in between does not stop it.
ActsWithPermission ==
  [][\A r \in Request :
       \/ pc[r] \in {"insert", "delete"} /\ acl' # acl /\ pc'[r] # pc[r]
       \/ pc[r] = "append" /\ body[r].kind = "download" /\ log' # log /\ pc'[r] # pc[r]
       => \A p \in Required(r) : HasPerm(body[r].by, p)]_vars

Quiet == \A r \in Request : pc[r] \in {"new", "done"}

Logged(kind, grant) ==
  \E e \in Range(log) : e.kind = kind /\ <<e.user, e.perm>> = grant

Bootstrapped ==
  UNION {{body[r].by} \X OWNER_PERMS :
           r \in {q \in Request : body[q].kind = "create" /\ pc[q] # "new"}}

\* While no process dies and nothing raises: once no request is in flight, each
\* grant the matter has that its creation did not give, and each it lost, is
\* accounted for by an event of the chain.
ChangeIsLogged ==
  created /\ Quiet /\ crashes = 0 /\ faults = 0 =>
    /\ \A g \in acl \ Bootstrapped : Logged("grant", g)
    /\ \A g \in Bootstrapped \ acl : Logged("revoke", g)

\* Whatever dies or raises, and however many downloads of one user overlap: as
\* many originals have left as the chain has downloads by that user, or fewer.
\* job_bundle appends its events first, not last.
OriginalIsLogged ==
  \A u \in User :
    LET download == [kind |-> "download", by |-> u] IN
    Cardinality({r \in left : body[r] = download})
      <= Cardinality({i \in DOMAIN log : log[i] = download})

\* What is done under a grant, or to the grants, is in the chain.
ActsAreLogged == ChangeIsLogged /\ OriginalIsLogged
=============================================================================
