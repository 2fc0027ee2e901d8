------------------------ MODULE MatterAccess_proofs -------------------------
(***************************************************************************)
(* What the grants guarantee for any users and requests: on SQLite, where  *)
(* a handler owns the database from its check to its first commit, the     *)
(* last admin stays, and nobody changes the grants, or has a download of   *)
(* the original recorded, on a permission that is gone; and anywhere, what *)
(* was changed or has left is in the chain.                                *)
(***************************************************************************)
EXTENDS MatterAccess, FiniteSetTheorems, TLAPS

LEMMA OwnerPermsKnown == OWNER_PERMS \subseteq KNOWN_PERMS /\ "admin" \in OWNER_PERMS
BY DEF OWNER_PERMS, KNOWN_PERMS

(***************************************************************************)
(* Types, and what a handler's place says of its request.                  *)
(***************************************************************************)
GrantAt(r) == pc[r] \in {"grant", "insert"} => body[r].kind = "grant"
RevokeAt(r) == pc[r] \in {"revoke", "count", "delete"} => body[r].kind = "revoke"
KnownAt(r) == pc[r] = "insert" => Known(r)
DownloadAt(r) == pc[r] \in {"certify", "assemble", "leave"} => body[r].kind = "download"

Placed == \A r \in Request : GrantAt(r) /\ RevokeAt(r) /\ KnownAt(r) /\ DownloadAt(r)

TypeInv == TypeOK /\ Placed

LEMMA TypeInit == Init => TypeInv
<1>. SUFFICES ASSUME Init PROVE TypeInv
  OBVIOUS
<1>1. body \in [Request -> Body]
  BY AskedAssumption DEF Init
<1>2. log \in Seq(Event) /\ left \in SUBSET Request
  <2>1. log = <<>> /\ left = {}
    BY DEF Init
  <2>. QED  BY <2>1
<1>3. acl \in SUBSET (User \X KNOWN_PERMS)
  BY DEF Init
<1>4. Placed
  BY DEF Init, Placed, GrantAt, RevokeAt, KnownAt, DownloadAt
<1>5. created \in BOOLEAN /\ tx \in Request \cup {NoRequest}
  BY DEF Init
<1>6. pc \in [Request -> Label]
  BY DEF Init, Label
<1>7. crashes \in 0 .. MaxCrash /\ faults \in 0 .. MaxFault
  <2>1. crashes = 0 /\ faults = 0
    BY DEF Init
  <2>2. MaxCrash \in Nat /\ MaxFault \in Nat
    BY AccessAssumption
  <2>. QED  BY <2>1, <2>2
<1>. QED
  BY <1>1, <1>2, <1>3, <1>4, <1>5, <1>6, <1>7 DEF TypeInv, TypeOK

\* Grants name users, and known permissions when they are inserted.
LEMMA BodyParts ==
  ASSUME TypeInv, NEW r \in Request
  PROVE  /\ body[r].by \in User
         /\ body[r].kind \in {"grant", "revoke"}
              => body[r].user \in User /\ body[r].perm \in KNOWN_PERMS \cup Unknown
         /\ body[r].kind \in {"create", "download", "grant", "revoke"}
<1>1. body[r] \in Body
  BY DEF TypeInv, TypeOK
<1>. QED  BY <1>1 DEF Body

\* Every place a step goes to is a label.
LEMMA TypePlace ==
  ASSUME TypeInv, NEW r \in Request, NEW label \in Label, Go(r, label)
  PROVE  pc' \in [Request -> Label]
BY DEF TypeInv, TypeOK, Go

LEMMA TypeAnswer ==
  ASSUME TypeInv, NEW r \in Request, Answer(r)
  PROVE  /\ pc' \in [Request -> Label] /\ pc'[r] = "done"
         /\ \A q \in Request : q # r => pc'[q] = pc[q]
         /\ tx' \in Request \cup {NoRequest}
BY DEF TypeInv, TypeOK, Answer, Go, Release, Label

LEMMA TypeHandle ==
  ASSUME TypeInv, NEW r \in Request, Handle(r)
  PROVE  TypeInv'
<1>0. /\ pc \in [Request -> Label] /\ tx \in Request \cup {NoRequest}
      /\ body \in [Request -> Body]
  BY DEF TypeInv, TypeOK
<1>1. CASE CreateMatter(r)
  <2>1. acl' \in SUBSET (User \X KNOWN_PERMS)
    BY <1>1, BodyParts, OwnerPermsKnown DEF CreateMatter
  <2>. QED
    BY <1>1, <2>1 DEF TypeInv, TypeOK, CreateMatter, Go, Label, bounds, Placed,
                      GrantAt, RevokeAt, KnownAt, DownloadAt, Known
<1>2. CASE Authorize(r)
  <2>1. CASE Refused(r)
    BY <1>2, <2>1, TypeAnswer DEF Authorize, TypeInv, TypeOK, bounds, Placed,
                      GrantAt, RevokeAt, KnownAt, DownloadAt, Known
  <2>2. CASE ~Refused(r)
    <3>. DEFINE label == IF body[r].kind = "download" THEN "append" ELSE body[r].kind
    <3>1. label \in {"append", "grant", "revoke"}
      BY <1>2, BodyParts DEF Authorize
    <3>2. tx' \in Request \cup {NoRequest} /\ pc' = [pc EXCEPT ![r] = label]
      BY <1>2, <2>2 DEF Authorize, Hold, Go
    <3>3. pc' \in [Request -> Label]
      BY <1>0, <3>1, <3>2 DEF Label
    <3>4. Placed'
      BY <1>0, <1>2, <3>1, <3>2
      DEF TypeInv, Authorize, Placed, GrantAt, RevokeAt, KnownAt, DownloadAt, Known
    <3>. QED
      BY <1>2, <3>2, <3>3, <3>4 DEF Authorize, TypeInv, TypeOK, bounds
  <2>. QED  BY <2>1, <2>2
<1>3. CASE CheckGrant(r)
  <2>1. CASE Answer(r)
    BY <1>3, <2>1, TypeAnswer DEF CheckGrant, TypeInv, TypeOK, bounds, Placed,
                      GrantAt, RevokeAt, KnownAt, DownloadAt, Known
  <2>2. CASE /\ Known(r) /\ UNCHANGED tx
             /\ Go(r, IF Grant(r) \in acl THEN "append" ELSE "insert")
    BY <1>3, <2>2 DEF CheckGrant, TypeInv, TypeOK, bounds, Placed, Label, Go,
                      GrantAt, RevokeAt, KnownAt, DownloadAt, Known
  <2>. QED  BY <1>3, <2>1, <2>2 DEF CheckGrant
<1>4. CASE InsertGrant(r)
  <2>1. CASE Grant(r) \in acl
    <3>1. Answer(r) /\ UNCHANGED acl
      BY <1>4, <2>1 DEF InsertGrant, Answer
    <3>. QED
      BY <1>4, <3>1, TypeAnswer DEF InsertGrant, TypeInv, TypeOK, bounds, Placed,
                      GrantAt, RevokeAt, KnownAt, DownloadAt, Known
  <2>2. CASE Grant(r) \notin acl
    <3>1. Grant(r) \in User \X KNOWN_PERMS
      BY <1>4, BodyParts DEF InsertGrant, TypeInv, Placed, GrantAt, KnownAt, Known, Grant
    <3>. QED
      BY <1>4, <2>2, <3>1 DEF InsertGrant, TypeInv, TypeOK, bounds, Placed, Label, Go,
                      GrantAt, RevokeAt, KnownAt, DownloadAt, Known, AfterInsert, Release
  <2>. QED  BY <2>1, <2>2
<1>5. CASE CheckRevoke(r)
  BY <1>5 DEF CheckRevoke, TypeInv, TypeOK, bounds, Placed, Label, Go,
              GrantAt, RevokeAt, KnownAt, DownloadAt, Known
<1>6. CASE CountAdmins(r)
  <2>1. CASE Answer(r)
    BY <1>6, <2>1, TypeAnswer DEF CountAdmins, TypeInv, TypeOK, bounds, Placed,
                      GrantAt, RevokeAt, KnownAt, DownloadAt, Known
  <2>2. CASE Go(r, "delete") /\ UNCHANGED tx
    BY <1>6, <2>2 DEF CountAdmins, TypeInv, TypeOK, bounds, Placed, Label, Go,
                      GrantAt, RevokeAt, KnownAt, DownloadAt, Known
  <2>. QED  BY <1>6, <2>1, <2>2 DEF CountAdmins
<1>7. CASE DeleteGrant(r)
  BY <1>7 DEF DeleteGrant, TypeInv, TypeOK, bounds, Placed, Label, Go, Release,
              GrantAt, RevokeAt, KnownAt, DownloadAt, Known
<1>8. CASE AppendEvent(r)
  <2>1. log' \in Seq(Event)
    <3>1. body[r] \in Event
      BY <1>0 DEF Event
    <3>. QED  BY <3>1, <1>8 DEF AppendEvent, TypeInv, TypeOK
  <2>2. tx' \in Request \cup {NoRequest}
    BY <1>0, <1>8 DEF AppendEvent, Release
  <2>3. AfterAppend(r) \in {"certify", "done"} /\ pc' = [pc EXCEPT ![r] = AfterAppend(r)]
    BY <1>8 DEF AppendEvent, Go, AfterAppend
  <2>4. Placed'
    BY <1>0, <1>8, <2>3 DEF AppendEvent, AfterAppend, TypeInv, Placed, GrantAt, RevokeAt,
                            KnownAt, DownloadAt, Known
  <2>5. pc' \in [Request -> Label]
    BY <1>0, <2>3 DEF Label
  <2>. QED
    BY <1>8, <2>1, <2>2, <2>4, <2>5 DEF AppendEvent, TypeInv, TypeOK, bounds
<1>9. CASE AppendCertificate(r)
  <2>1. log' \in Seq(Event)
    <3>1. Certificate(r) \in Event
      BY BodyParts DEF Event, Certificate
    <3>. QED  BY <3>1, <1>9 DEF AppendCertificate, TypeInv, TypeOK
  <2>. QED
    BY <1>0, <1>9, <2>1 DEF AppendCertificate, TypeInv, TypeOK, bounds, Placed, Label, Go,
       Release, GrantAt, RevokeAt, KnownAt, DownloadAt, Known
<1>10. CASE Assemble(r)
  BY <1>0, <1>10 DEF Assemble, TypeInv, TypeOK, bounds, Placed, Label, Go, Hold,
     GrantAt, RevokeAt, KnownAt, DownloadAt, Known
<1>11. CASE SendOriginal(r)
  BY <1>11, TypeAnswer DEF SendOriginal, TypeInv, TypeOK, bounds, Placed,
     GrantAt, RevokeAt, KnownAt, DownloadAt, Known
<1>12. CASE Raises(r)
  BY <1>12, TypeAnswer, AccessAssumption
  DEF Raises, TypeInv, TypeOK, bounds, Placed, GrantAt, RevokeAt, KnownAt, DownloadAt, Known
<1>. QED
  BY <1>1, <1>2, <1>3, <1>4, <1>5, <1>6, <1>7, <1>8, <1>9, <1>10, <1>11, <1>12 DEF Handle

LEMMA TypeStep == TypeInv /\ [Next]_vars => TypeInv'
<1>. SUFFICES ASSUME TypeInv, [Next]_vars PROVE TypeInv'
  OBVIOUS
<1>1. CASE UNCHANGED vars
  BY <1>1
  DEF vars, bounds, TypeInv, TypeOK, Placed, GrantAt, RevokeAt, KnownAt, DownloadAt, Known
<1>2. CASE Crash
  BY <1>2, AccessAssumption
  DEF Crash, TypeInv, TypeOK, Placed, GrantAt, RevokeAt, KnownAt, DownloadAt, Known, Label
<1>. QED
  BY <1>1, <1>2, TypeHandle DEF Next

\* Every variable keeps its type.
THEOREM TypeCorrect == Spec => []TypeOK
<1>1. TypeInv => TypeOK
  BY DEF TypeInv
<1>. QED  BY <1>1, TypeInit, TypeStep, PTL DEF Spec

LEMMA TypeAlways == Spec => []TypeInv
BY TypeInit, TypeStep, PTL DEF Spec

----------------------------------------------------------------------------
(***************************************************************************)
(* On SQLite a handler between its check and its first commit owns the     *)
(* database, so what it checked still holds; and a delete that is about to *)
(* happen leaves an admin.                                                 *)
(***************************************************************************)
Deciding(r) == pc[r] \in {"grant", "insert", "revoke", "count", "delete"}
Serving(r) == pc[r] = "append" /\ body[r].kind = "download"

OwnsInv == \A r \in Request : Deciding(r) \/ Serving(r) => tx = r

HoldsPerms(r) == \A p \in Required(r) : HasPerm(body[r].by, p)

PermInv == \A r \in Request : Deciding(r) \/ Serving(r) => HoldsPerms(r)

AdminInv ==
  /\ created => Admins # {}
  /\ \A r \in Request : pc[r] # "new" => created
  /\ \A r \in Request : pc[r] = "delete" =>
       \E u \in Admins : <<u, "admin">> # Grant(r)

AccessInv == Serializable => OwnsInv /\ PermInv /\ AdminInv

LEMMA AccessInit == Init => AccessInv
BY DEF Init, AccessInv, OwnsInv, PermInv, AdminInv, Deciding, Serving

\* A step of r that leaves the grants alone and begins no new decision.
LEMMA AccessKept ==
  ASSUME TypeInv, Serializable, AccessInv,
         NEW r \in Request, UNCHANGED <<created, acl, body>>, pc[r] # "new",
         \A q \in Request : q # r => pc'[q] = pc[q],
         \A q \in Request : q # r => (tx = q => tx' = q),
         Deciding(r)' \/ Serving(r)' => (Deciding(r) \/ Serving(r)) /\ tx' = tx,
         pc'[r] = "delete" => \E u \in Admins : <<u, "admin">> # Grant(r)
  PROVE  AccessInv'
<1>. USE DEF AccessInv
<1>1. OwnsInv'
  BY DEF OwnsInv, Deciding, Serving
<1>2. PermInv'
  BY DEF PermInv, HoldsPerms, Required, HasPerm, Deciding, Serving
<1>3. AdminInv'
  BY DEF AdminInv, Admins, HasPerm, Grant
<1>. QED  BY <1>1, <1>2, <1>3

\* A step of r that changes the grants: nobody else is deciding anything.
LEMMA AccessChanged ==
  ASSUME TypeInv, Serializable, AccessInv, NEW r \in Request,
         Deciding(r), UNCHANGED <<created, body>>, Admins' # {},
         pc'[r] = "append", body[r].kind # "download",
         \A q \in Request : q # r => pc'[q] = pc[q]
  PROVE  AccessInv'
<1>. USE DEF AccessInv
<1>1. \A q \in Request : ~ (Deciding(q) \/ Serving(q))'
  BY DEF OwnsInv, Deciding, Serving
<1>2. OwnsInv' /\ PermInv'
  BY <1>1 DEF OwnsInv, PermInv
<1>3. AdminInv'
  BY <1>1 DEF AdminInv, Deciding
<1>. QED  BY <1>2, <1>3

\* What CountAdmins counted: with two admins, one is left whoever goes.
LEMMA AnotherAdmin ==
  ASSUME Cardinality(Admins) > 1, NEW g
  PROVE  \E u \in Admins : <<u, "admin">> # g
<1>1. IsFiniteSet(Admins) /\ Cardinality(Admins) \in Nat
  BY AccessAssumption, FS_Subset, FS_CardinalityType DEF Admins
<1>. SUFFICES ASSUME \A u \in Admins : <<u, "admin">> = g PROVE FALSE
  OBVIOUS
<1>2. Admins # {}
  BY <1>1, FS_EmptySet
<1>3. PICK v : v \in Admins
  BY <1>2
<1>4. Admins = {v}
  BY <1>3
<1>. QED  BY <1>1, <1>4, FS_Singleton

LEMMA AccessHandle ==
  ASSUME TypeInv, Serializable, AccessInv, NEW r \in Request, Handle(r)
  PROVE  AccessInv'
<1>0. /\ pc \in [Request -> Label] /\ tx \in Request \cup {NoRequest}
      /\ body \in [Request -> Body] /\ NoRequest \notin Request
      /\ Placed
  BY RequestAssumption DEF TypeInv, TypeOK
<1>a. ASSUME Answer(r)
      PROVE  /\ pc'[r] = "done"
             /\ \A q \in Request : q # r => pc'[q] = pc[q]
             /\ \A q \in Request : q # r => (tx = q => tx' = q)
  BY <1>0, <1>a DEF Answer, Go, Release
<1>b. ASSUME NEW label, Go(r, label)
      PROVE  pc'[r] = label /\ \A q \in Request : q # r => pc'[q] = pc[q]
  BY <1>0, <1>b DEF Go
<1>1. CASE CreateMatter(r)
  <2>1. \A q \in Request : pc[q] = "new"
    BY <1>1 DEF CreateMatter, AccessInv, AdminInv
  <2>2. pc'[r] = "append" /\ \A q \in Request : q # r => pc'[q] = "new"
    BY <1>1, <1>b, <2>1 DEF CreateMatter
  <2>3. body'[r].kind = "create" /\ created'
    BY <1>1 DEF CreateMatter
  <2>4. body[r].by \in Admins'
    BY <1>1, BodyParts, OwnerPermsKnown DEF CreateMatter, Admins, HasPerm
  <2>. QED
    BY <2>2, <2>3, <2>4 DEF AccessInv, OwnsInv, PermInv, AdminInv, Deciding, Serving
<1>2. CASE Authorize(r)
  <2>1. CASE Refused(r)
    <3>1. UNCHANGED <<created, acl, body>> /\ Answer(r)
      BY <1>2, <2>1 DEF Authorize
    <3>2. pc'[r] = "done" /\ \A q \in Request : q # r => pc'[q] = pc[q]
      BY <1>a, <3>1
    <3>3. \A q \in Request : q # r => (tx = q => tx' = q)
      BY <1>a, <3>1
    <3>4. OwnsInv' /\ PermInv'
      BY <3>1, <3>2, <3>3 DEF AccessInv, OwnsInv, PermInv, HoldsPerms, Required, HasPerm,
                              Deciding, Serving
    <3>5. AdminInv'
      BY <1>2, <3>1, <3>2 DEF Authorize, AccessInv, AdminInv, Admins, HasPerm, Grant
    <3>. QED  BY <3>4, <3>5 DEF AccessInv
  <2>2. CASE ~Refused(r)
    <3>1. /\ UNCHANGED <<created, acl, body>> /\ tx' = r /\ created
          /\ tx \in {NoRequest, r}
      BY <1>2, <2>2 DEF Authorize, Hold, Free
    <3>2. /\ pc'[r] \in {"append", "grant", "revoke"}
          /\ \A q \in Request : q # r => pc'[q] = pc[q]
      BY <1>2, <1>b, <2>2, BodyParts DEF Authorize
    <3>3. HoldsPerms(r)
      BY <2>2 DEF Refused, HoldsPerms
    <3>4. \A q \in Request : q # r => ~ (Deciding(q) \/ Serving(q))
      BY <1>0, <3>1 DEF AccessInv, OwnsInv
    <3>5. OwnsInv' /\ PermInv'
      BY <3>1, <3>2, <3>3, <3>4 DEF OwnsInv, PermInv, HoldsPerms, Required, HasPerm,
                              Deciding, Serving
    <3>6. AdminInv'
      BY <3>1, <3>2 DEF AccessInv, AdminInv, Admins, HasPerm, Grant
    <3>. QED  BY <3>5, <3>6 DEF AccessInv
  <2>. QED  BY <2>1, <2>2
<1>3. CASE CheckGrant(r)
  <2>1. CASE Answer(r)
    BY <1>3, <1>a, <2>1, AccessKept DEF CheckGrant, Deciding, Serving
  <2>2. CASE /\ Known(r) /\ UNCHANGED tx
             /\ Go(r, IF Grant(r) \in acl THEN "append" ELSE "insert")
    <3>1. /\ pc'[r] \in {"append", "insert"}
          /\ \A q \in Request : q # r => pc'[q] = pc[q]
      BY <1>b, <2>2
    <3>. QED
      BY <1>3, <2>2, <3>1, AccessKept DEF CheckGrant, Deciding, Serving
  <2>. QED  BY <1>3, <2>1, <2>2 DEF CheckGrant
<1>4. CASE InsertGrant(r)
  <2>1. CASE Grant(r) \in acl
    <3>1. Answer(r) /\ UNCHANGED acl
      BY <1>4, <2>1 DEF InsertGrant, Answer
    <3>. QED
      BY <1>4, <1>a, <3>1, AccessKept DEF InsertGrant, Deciding, Serving
  <2>2. CASE Grant(r) \notin acl
    <3>1. /\ pc'[r] = "append" /\ \A q \in Request : q # r => pc'[q] = pc[q]
      BY <1>4, <1>b, <2>2 DEF InsertGrant, AfterInsert
    <3>2. Admins # {}
      BY <1>4 DEF InsertGrant, AccessInv, AdminInv
    <3>3. Admins' # {}
      BY <1>4, <3>2 DEF InsertGrant, Admins, HasPerm
    <3>4. body[r].kind = "grant"
      BY <1>0, <1>4 DEF InsertGrant, Placed, GrantAt
    <3>. QED
      BY <1>4, <3>1, <3>3, <3>4, AccessChanged DEF InsertGrant, Deciding
  <2>. QED  BY <2>1, <2>2
<1>5. CASE CheckRevoke(r)
  <2>1. /\ pc'[r] = IF body[r].perm = "admin" /\ Grant(r) \in acl THEN "count" ELSE "delete"
        /\ \A q \in Request : q # r => pc'[q] = pc[q]
    BY <1>5, <1>b DEF CheckRevoke
  <2>2. ASSUME ~ (body[r].perm = "admin" /\ Grant(r) \in acl)
        PROVE  \E u \in Admins : <<u, "admin">> # Grant(r)
    <3>1. Admins # {}
      BY <1>5 DEF CheckRevoke, AccessInv, AdminInv
    <3>. QED  BY <2>2, <3>1 DEF Admins, HasPerm, Grant
  <2>. QED
    BY <1>5, <2>1, <2>2, AccessKept DEF CheckRevoke, Deciding, Serving
<1>6. CASE CountAdmins(r)
  <2>1. CASE Answer(r)
    BY <1>6, <1>a, <2>1, AccessKept DEF CountAdmins, Deciding, Serving
  <2>2. CASE ~IsLast /\ Go(r, "delete") /\ UNCHANGED tx
    <3>1. Cardinality(Admins) > 1
      <4>1. Cardinality(Admins) \in Nat
        BY AccessAssumption, FS_Subset, FS_CardinalityType DEF Admins
      <4>. QED  BY <2>2, <4>1 DEF IsLast
    <3>2. \E u \in Admins : <<u, "admin">> # Grant(r)
      BY <3>1, AnotherAdmin
    <3>3. pc'[r] = "delete" /\ \A q \in Request : q # r => pc'[q] = pc[q]
      BY <1>b, <2>2
    <3>. QED
      BY <1>6, <2>2, <3>2, <3>3, AccessKept DEF CountAdmins, Deciding, Serving
  <2>. QED  BY <1>6, <2>1, <2>2 DEF CountAdmins
<1>7. CASE DeleteGrant(r)
  <2>1. pc'[r] = "append" /\ \A q \in Request : q # r => pc'[q] = pc[q]
    BY <1>7, <1>b DEF DeleteGrant
  <2>2. Admins' # {}
    BY <1>7 DEF DeleteGrant, AccessInv, AdminInv, Admins, HasPerm
  <2>3. body[r].kind = "revoke"
    BY <1>0, <1>7 DEF DeleteGrant, Placed, RevokeAt
  <2>. QED
    BY <1>7, <2>1, <2>2, <2>3, AccessChanged DEF DeleteGrant, Deciding
<1>8. CASE AppendEvent(r)
  <2>1. /\ pc'[r] \in {"certify", "done"} /\ \A q \in Request : q # r => pc'[q] = pc[q]
        /\ \A q \in Request : q # r => (tx = q => tx' = q)
    BY <1>0, <1>8 DEF AppendEvent, AfterAppend, Go, Release
  <2>. QED
    BY <1>8, <2>1, AccessKept DEF AppendEvent, Deciding, Serving
<1>9. CASE AppendCertificate(r)
  <2>1. /\ pc'[r] = "assemble" /\ \A q \in Request : q # r => pc'[q] = pc[q]
        /\ \A q \in Request : q # r => (tx = q => tx' = q)
    BY <1>0, <1>9 DEF AppendCertificate, Go, Release
  <2>. QED
    BY <1>9, <2>1, AccessKept DEF AppendCertificate, Deciding, Serving
<1>10. CASE Assemble(r)
  <2>1. /\ pc'[r] = "leave" /\ \A q \in Request : q # r => pc'[q] = pc[q]
        /\ \A q \in Request : q # r => (tx = q => tx' = q)
    BY <1>0, <1>10 DEF Assemble, Go, Hold, Free
  <2>. QED
    BY <1>10, <2>1, AccessKept DEF Assemble, Deciding, Serving
<1>11. CASE SendOriginal(r)
  BY <1>11, <1>a, AccessKept DEF SendOriginal, Deciding, Serving
<1>12. CASE Raises(r)
  BY <1>12, <1>a, AccessKept DEF Raises, Deciding, Serving
<1>. QED
  BY <1>1, <1>2, <1>3, <1>4, <1>5, <1>6, <1>7, <1>8, <1>9, <1>10, <1>11, <1>12 DEF Handle

LEMMA AccessStep == TypeInv /\ AccessInv /\ [Next]_vars => AccessInv'
<1>. SUFFICES ASSUME TypeInv, AccessInv, [Next]_vars, Serializable PROVE AccessInv'
  BY DEF AccessInv
<1>1. CASE UNCHANGED vars
  BY <1>1 DEF vars, AccessInv, OwnsInv, PermInv, AdminInv, Deciding, Serving,
              HoldsPerms, Required, HasPerm, Admins, Grant
<1>2. CASE Crash
  <2>1. /\ \A r \in Request : pc'[r] = IF pc[r] = "new" THEN "new" ELSE "done"
        /\ UNCHANGED <<created, acl, body>>
    BY <1>2 DEF Crash
  <2>. QED
    BY <2>1 DEF AccessInv, OwnsInv, PermInv, AdminInv, Deciding, Serving,
                Admins, HasPerm
<1>. QED
  BY <1>1, <1>2, AccessHandle DEF Next

LEMMA AccessAlways == Spec => []AccessInv
BY TypeAlways, AccessInit, AccessStep, PTL DEF Spec

\* On SQLite a matter never loses its last admin, whatever grants and revokes
\* are in flight and whatever dies.
THEOREM LastAdminStaysOnSqlite == Spec => [](Serializable => LastAdminStays)
<1>1. AccessInv => (Serializable => LastAdminStays)
  BY DEF AccessInv, AdminInv, LastAdminStays
<1>. QED  BY <1>1, AccessAlways, PTL

\* The step that changes the grants, or records a download of the original.
Acts(r) ==
  \/ pc[r] \in {"insert", "delete"} /\ acl' # acl /\ pc'[r] # pc[r]
  \/ pc[r] = "append" /\ body[r].kind = "download" /\ log' # log /\ pc'[r] # pc[r]

ActsPermitted == \A r \in Request : Acts(r) => HoldsPerms(r)

\* On SQLite whoever changes the grants still holds the permission at that very
\* step, and so does whoever has a download of the original recorded.  The
\* original is read later, and that step is not said to be permitted.
THEOREM ActsWithPermissionOnSqlite ==
  ASSUME Serializable
  PROVE  Spec => ActsWithPermission
<1>1. AccessInv => ActsPermitted
  BY DEF AccessInv, PermInv, ActsPermitted, Acts, Deciding, Serving
<1>2. ActsPermitted
        => \A r \in Request :
             \/ pc[r] \in {"insert", "delete"} /\ acl' # acl /\ pc'[r] # pc[r]
             \/ pc[r] = "append" /\ body[r].kind = "download" /\ log' # log
                 /\ pc'[r] # pc[r]
             => \A p \in Required(r) : HasPerm(body[r].by, p)
  BY DEF ActsPermitted, Acts, HoldsPerms
<1>. QED  BY <1>1, <1>2, AccessAlways, PTL DEF ActsWithPermission

----------------------------------------------------------------------------
(***************************************************************************)
(* The trail of the grants, on SQLite and on Postgres.  A change that no   *)
(* event accounts for yet is one whose handler is about to append.         *)
(***************************************************************************)
\* Until the matter is created nobody has done anything.
FreshInv == ~created => acl = {} /\ \A r \in Request : pc[r] = "new"

Pending(kind, g) ==
  \E r \in Request : pc[r] = "append" /\ body[r].kind = kind /\ Grant(r) = g

Traced(kind, g) == Logged(kind, g) \/ Pending(kind, g)

TrailInv ==
  crashes = 0 /\ faults = 0 =>
    /\ \A g \in acl \ Bootstrapped : Traced("grant", g)
    /\ \A g \in Bootstrapped \ acl : Traced("revoke", g)

LEMMA FreshStep == TypeInv /\ FreshInv /\ [Next]_vars => FreshInv'
<1>. SUFFICES ASSUME TypeInv, FreshInv, [Next]_vars, ~created' PROVE FreshInv'
  BY DEF FreshInv
<1>. pc \in [Request -> Label]
  BY DEF TypeInv, TypeOK
<1>1. ~created
  BY DEF Next, Handle, CreateMatter, Authorize, CheckGrant, InsertGrant, CheckRevoke,
     CountAdmins, DeleteGrant, AppendEvent,
     AppendCertificate, Assemble, SendOriginal, Raises, Crash, vars
<1>2. \A r \in Request : ~Handle(r)
  BY <1>1 DEF FreshInv, Handle, CreateMatter, Authorize, CheckGrant, InsertGrant,
     CheckRevoke, CountAdmins, DeleteGrant, AppendEvent,
     AppendCertificate, Assemble, SendOriginal, Raises
<1>. QED  BY <1>1, <1>2 DEF FreshInv, Next, Crash, vars

\* Events stay, and a step appends one at most.
LEMMA LogGrows ==
  ASSUME TypeInv, NEW r \in Request, Handle(r)
  PROVE  /\ \A i \in DOMAIN log : i \in DOMAIN log' /\ log'[i] = log[i]
         /\ AppendEvent(r) => /\ Len(log) + 1 \in DOMAIN log' /\ Len(log) + 1 \notin DOMAIN log
                             /\ log'[Len(log) + 1] = body[r]
<1>. log \in Seq(Event)
  BY DEF TypeInv, TypeOK
<1>0. body[r] \in Event /\ Certificate(r) \in Event
  BY BodyParts DEF TypeInv, TypeOK, Event, Certificate
<1>1. CASE AppendEvent(r) \/ AppendCertificate(r)
  <2>1. CASE AppendEvent(r)
    BY <1>0, <2>1 DEF AppendEvent
  <2>2. CASE AppendCertificate(r)
    <3>1. ~AppendEvent(r) /\ log' = Append(log, Certificate(r))
      BY <2>2 DEF AppendEvent, AppendCertificate
    <3>. QED  BY <1>0, <3>1
  <2>. QED  BY <1>1, <2>1, <2>2
<1>2. CASE ~(AppendEvent(r) \/ AppendCertificate(r))
  <2>1. log' = log
    BY <1>2 DEF Handle, CreateMatter, Authorize, CheckGrant, InsertGrant, CheckRevoke,
       CountAdmins, DeleteGrant, Assemble, SendOriginal, Raises
  <2>. QED  BY <1>2, <2>1
<1>. QED  BY <1>1, <1>2

\* The event a handler was about to append is there when it is
\* done, while no append raises and no process dies.
LEMMA TracedStays ==
  ASSUME TypeInv, NEW r \in Request, Handle(r), faults' = 0,
         NEW kind \in {"grant", "revoke"}, NEW g, Traced(kind, g)
  PROVE  Traced(kind, g)'
<1>. pc \in [Request -> Label] /\ body' = body
  BY DEF TypeInv, TypeOK, Handle, CreateMatter, Authorize, CheckGrant, InsertGrant,
     CheckRevoke, CountAdmins, DeleteGrant, AppendEvent,
     AppendCertificate, Assemble, SendOriginal, Raises
<1>. ~Raises(r)
  BY DEF Raises, TypeInv, TypeOK
<1>1. \A q \in Request : q # r => pc'[q] = pc[q]
  BY DEF Handle, CreateMatter, Authorize, CheckGrant, InsertGrant, CheckRevoke,
     CountAdmins, DeleteGrant, AppendEvent, AppendCertificate, Assemble, SendOriginal,
     Answer, Go
<1>a. \A e \in Range(log) : e \in Range(log')
  BY LogGrows DEF Range
<1>2. CASE AppendEvent(r)
  <2>3. body[r] \in Range(log')
    BY <1>2, LogGrows DEF Range
  <2>4. CASE Logged(kind, g)
    BY <1>a, <2>4 DEF Logged, Traced
  <2>5. CASE Pending(kind, g)
    <3>1. PICK q \in Request : pc[q] = "append" /\ body[q].kind = kind /\ Grant(q) = g
      BY <2>5 DEF Pending
    <3>2. CASE q = r
      BY <2>3, <3>1, <3>2 DEF Logged, Traced, Grant
    <3>3. CASE q # r
      BY <1>1, <3>1, <3>3 DEF Pending, Traced, Grant
    <3>. QED  BY <3>2, <3>3
  <2>. QED  BY <2>4, <2>5 DEF Traced
<1>3. CASE ~AppendEvent(r)
  <2>1. pc[r] # "append"
    BY <1>3 DEF Handle, CreateMatter, Authorize, CheckGrant, InsertGrant, CheckRevoke,
       CountAdmins, DeleteGrant, AppendCertificate, Assemble, SendOriginal
  <2>2. Pending(kind, g) => Pending(kind, g)'
    BY <1>1, <2>1 DEF Pending, Grant
  <2>3. Logged(kind, g) => Logged(kind, g)'
    BY <1>a DEF Logged
  <2>. QED  BY <2>2, <2>3 DEF Traced
<1>. QED  BY <1>2, <1>3

\* Only creation adds to what creation gave.
LEMMA BootstrappedStays ==
  ASSUME TypeInv, NEW r \in Request, Handle(r), ~CreateMatter(r), created
  PROVE  Bootstrapped' = Bootstrapped
<1>. pc \in [Request -> Label]
  BY DEF TypeInv, TypeOK
<1>1. body' = body
  BY DEF Handle, Authorize, CheckGrant, InsertGrant, CheckRevoke, CountAdmins,
     DeleteGrant, AppendEvent,
     AppendCertificate, Assemble, SendOriginal, Raises
<1>2. \A q \in Request : body[q].kind = "create" => (pc'[q] # "new" <=> pc[q] # "new")
  <2>1. \A q \in Request : q # r => pc'[q] = pc[q]
    BY DEF Handle, Authorize, CheckGrant, InsertGrant, CheckRevoke, CountAdmins,
       DeleteGrant, AppendEvent,
       AppendCertificate, Assemble, SendOriginal, Raises, Answer, Go
  <2>2. body[r].kind = "create" => (pc'[r] # "new" <=> pc[r] # "new")
    BY DEF Handle, Authorize, CheckGrant, InsertGrant, CheckRevoke, CountAdmins,
       DeleteGrant, AppendEvent, AppendCertificate, Assemble, SendOriginal, Raises,
       Answer, Go, AfterInsert, AfterAppend
  <2>. QED  BY <2>1, <2>2
<1>3. {q \in Request : body'[q].kind = "create" /\ pc'[q] # "new"}
        = {q \in Request : body[q].kind = "create" /\ pc[q] # "new"}
  BY <1>1, <1>2
<1>. QED  BY <1>1, <1>3 DEF Bootstrapped

\* Creation gives exactly the grants it is supposed to.
LEMMA CreationGives ==
  ASSUME TypeInv, FreshInv, NEW r \in Request, CreateMatter(r)
  PROVE  acl' = Bootstrapped'
<1>. pc \in [Request -> Label]
  BY DEF TypeInv, TypeOK
<1>1. \A q \in Request : pc'[q] # "new" <=> q = r
  BY DEF CreateMatter, FreshInv, Go
<1>2. {q \in Request : body'[q].kind = "create" /\ pc'[q] # "new"} = {r}
  BY <1>1 DEF CreateMatter
<1>3. Bootstrapped' = {body'[r].by} \X OWNER_PERMS
  BY <1>2 DEF Bootstrapped
<1>. QED  BY <1>3 DEF CreateMatter

LEMMA TrailHandle ==
  ASSUME TypeInv, FreshInv, TrailInv, NEW r \in Request, Handle(r)
  PROVE  TrailInv'
<1>. SUFFICES ASSUME crashes' = 0, faults' = 0
              PROVE  /\ \A g \in acl' \ Bootstrapped' : Traced("grant", g)'
                     /\ \A g \in Bootstrapped' \ acl' : Traced("revoke", g)'
  BY DEF TrailInv
<1>. pc \in [Request -> Label]
  BY DEF TypeInv, TypeOK
<1>1. CASE CreateMatter(r)
  BY <1>1, CreationGives
<1>2. CASE ~CreateMatter(r)
  <2>1. created
    BY <1>2 DEF FreshInv, Handle, Authorize, CheckGrant, InsertGrant, CheckRevoke,
       CountAdmins, DeleteGrant, AppendEvent,
       AppendCertificate, Assemble, SendOriginal, Raises
  <2>2. Bootstrapped' = Bootstrapped
    BY <1>2, <2>1, BootstrappedStays
  <2>3. /\ \A g \in acl \ Bootstrapped : Traced("grant", g)
        /\ \A g \in Bootstrapped \ acl : Traced("revoke", g)
    BY DEF TrailInv, TypeInv, TypeOK, Handle, CreateMatter, Authorize, CheckGrant,
       InsertGrant, CheckRevoke, CountAdmins, DeleteGrant, AppendEvent,
       AppendCertificate, Assemble, SendOriginal, Raises,
       bounds
  <2>4. ASSUME NEW g \in acl', g \notin acl PROVE Traced("grant", g)'
    <3>1. InsertGrant(r) /\ g = Grant(r)
      BY <1>2, <2>4 DEF Handle, Authorize, CheckGrant, InsertGrant, CheckRevoke,
         CountAdmins, DeleteGrant, AppendEvent,
         AppendCertificate, Assemble, SendOriginal, Raises
    <3>2. pc'[r] = "append" /\ body'[r] = body[r] /\ body[r].kind = "grant"
      BY <2>4, <3>1 DEF InsertGrant, AfterInsert, Go, TypeInv, Placed, GrantAt
    <3>. QED  BY <3>1, <3>2 DEF Traced, Pending, Grant
  <2>5. ASSUME NEW g \in acl, g \notin acl' PROVE Traced("revoke", g)'
    <3>1. DeleteGrant(r) /\ g = Grant(r)
      BY <1>2, <2>5 DEF Handle, Authorize, CheckGrant, InsertGrant, CheckRevoke,
         CountAdmins, DeleteGrant, AppendEvent,
         AppendCertificate, Assemble, SendOriginal, Raises
    <3>2. pc'[r] = "append" /\ body'[r] = body[r] /\ body[r].kind = "revoke"
      BY <3>1 DEF DeleteGrant, Go, TypeInv, Placed, RevokeAt
    <3>. QED  BY <3>1, <3>2 DEF Traced, Pending, Grant
  <2>. QED  BY <2>2, <2>3, <2>4, <2>5, TracedStays
<1>. QED  BY <1>1, <1>2

LEMMA ChangesLogged == Spec => []ChangeIsLogged
<1>1. Init => FreshInv /\ TrailInv
  <2>. SUFFICES ASSUME Init PROVE FreshInv /\ TrailInv
    OBVIOUS
  <2>1. acl = {} /\ Bootstrapped = {}
    BY DEF Init, Bootstrapped
  <2>. QED  BY <2>1 DEF Init, FreshInv, TrailInv
<1>2. TypeInv /\ FreshInv /\ TrailInv /\ [Next]_vars => FreshInv' /\ TrailInv'
  <2>. SUFFICES ASSUME TypeInv, FreshInv, TrailInv, [Next]_vars PROVE TrailInv'
    BY FreshStep
  <2>1. CASE UNCHANGED vars
    BY <2>1 DEF vars, bounds, TrailInv, Traced, Logged, Pending, Grant, Bootstrapped
  <2>2. CASE Crash
    <3>1. crashes' # 0
      BY <2>2 DEF Crash, TypeInv, TypeOK
    <3>. QED  BY <3>1 DEF TrailInv
  <2>. QED  BY <2>1, <2>2, TrailHandle DEF Next
<1>3. TrailInv => ChangeIsLogged
  <2>. SUFFICES ASSUME Quiet PROVE \A kind, g : ~Pending(kind, g)
    BY DEF TrailInv, ChangeIsLogged, Traced
  <2>. QED  BY DEF Quiet, Pending
<1>. QED  BY <1>1, <1>2, <1>3, TypeAlways, PTL DEF Spec

----------------------------------------------------------------------------
(***************************************************************************)
(* The trail of the originals: the downloads of a user that have been      *)
(* recorded, and are to send their original or have sent it, are no more   *)
(* than the records.                                                       *)
(***************************************************************************)
Download(u) == [kind |-> "download", by |-> u]

Recorded(u) == {i \in DOMAIN log : log[i] = Download(u)}

Recording(r) == r \in left \/ pc[r] \in {"certify", "assemble", "leave"}
Served(u) == {r \in Request : body[r] = Download(u) /\ Recording(r)}

ServedInv ==
  \A u \in User : /\ IsFiniteSet(Served(u))
                  /\ Cardinality(Served(u)) <= Cardinality(Recorded(u))

LEMMA RecordsFinite ==
  ASSUME TypeInv, NEW u
  PROVE  IsFiniteSet(Recorded(u)) /\ Cardinality(Recorded(u)) \in Nat
<1>1. DOMAIN log = 1 .. Len(log) /\ Len(log) \in Nat
  BY DEF TypeInv, TypeOK
<1>2. IsFiniteSet(DOMAIN log)
  BY <1>1, FS_Interval
<1>. QED  BY <1>2, FS_Subset, FS_CardinalityType DEF Recorded

\* Whoever is served in a step was served before, or has just been recorded.
LEMMA ServedGrows ==
  ASSUME TypeInv, NEW r \in Request, Handle(r), NEW q \in Request, Recording(q)'
  PROVE  Recording(q) \/ (q = r /\ AppendEvent(r))
<1>. pc \in [Request -> Label]
  BY DEF TypeInv, TypeOK
<1>1. CASE AppendEvent(r)
  BY <1>1 DEF AppendEvent, Go, Recording
<1>2. CASE AppendCertificate(r) \/ Assemble(r)
  BY <1>2 DEF AppendCertificate, Assemble, Go, Recording
<1>3. CASE SendOriginal(r)
  BY <1>3 DEF SendOriginal, Answer, Go, Recording
<1>4. CASE Raises(r)
  BY <1>4 DEF Raises, Answer, Go, Recording
<1>5. CASE Authorize(r)
  <2>1. left' = left /\ \E label \in {"done", "append", body[r].kind} : Go(r, label)
    BY <1>5 DEF Authorize, Answer
  <2>2. body[r].kind \in {"create", "download", "grant", "revoke"}
    BY BodyParts
  <2>. QED  BY <2>1, <2>2 DEF Go, Recording
<1>6. CASE CreateMatter(r) \/ CheckGrant(r) \/ InsertGrant(r) \/ CheckRevoke(r)
           \/ CountAdmins(r) \/ DeleteGrant(r)
  <2>1. /\ left' = left
        /\ \E label \in {"append", "done", "insert", "count", "delete"} : Go(r, label)
    BY <1>6 DEF CreateMatter, CheckGrant, InsertGrant, AfterInsert, CheckRevoke,
       CountAdmins, DeleteGrant, Answer
  <2>. QED  BY <2>1 DEF Go, Recording
<1>. QED  BY <1>1, <1>2, <1>3, <1>4, <1>5, <1>6 DEF Handle

LEMMA ServedHandle ==
  ASSUME TypeInv, ServedInv, NEW r \in Request, Handle(r), NEW u \in User
  PROVE  /\ IsFiniteSet(Served(u)')
         /\ Cardinality(Served(u)') <= Cardinality(Recorded(u)')
<1>1. body' = body
  BY DEF Handle, CreateMatter, Authorize, CheckGrant, InsertGrant, CheckRevoke,
     CountAdmins, DeleteGrant, AppendEvent, AppendCertificate, Assemble, SendOriginal, Raises
<1>2. TypeInv'
  BY TypeHandle
<1>3. Recorded(u) \subseteq Recorded(u)'
  BY LogGrows DEF Recorded
<1>4. /\ IsFiniteSet(Recorded(u)) /\ Cardinality(Recorded(u)) \in Nat
      /\ IsFiniteSet(Recorded(u)') /\ Cardinality(Recorded(u)') \in Nat
      /\ Cardinality(Recorded(u)) <= Cardinality(Recorded(u)')
  <2>1. IsFiniteSet(Recorded(u)) /\ Cardinality(Recorded(u)) \in Nat
    BY RecordsFinite
  <2>2. IsFiniteSet(Recorded(u)')
    <3>1. DOMAIN log' = 1 .. Len(log') /\ Len(log') \in Nat
      BY <1>2 DEF TypeInv, TypeOK
    <3>2. IsFiniteSet(DOMAIN log')
      BY <3>1, FS_Interval
    <3>. QED  BY <3>2, FS_Subset DEF Recorded
  <2>. QED  BY <1>3, <2>1, <2>2, FS_Subset, FS_CardinalityType
<1>5. /\ IsFiniteSet(Served(u)) /\ Cardinality(Served(u)) \in Nat
      /\ Cardinality(Served(u)) <= Cardinality(Recorded(u))
  BY FS_CardinalityType DEF ServedInv
<1>6. CASE AppendEvent(r) /\ body[r] = Download(u)
  <2>. DEFINE n == Len(log) + 1
  <2>1. Served(u)' \subseteq Served(u) \cup {r}
    BY <1>1, ServedGrows DEF Served
  <2>2. n \notin Recorded(u) /\ Recorded(u) \cup {n} \subseteq Recorded(u)'
    BY <1>3, <1>6, LogGrows DEF Recorded
  <2>. HIDE DEF n
  <2>3. IsFiniteSet(Served(u) \cup {r})
        /\ Cardinality(Served(u) \cup {r}) <= Cardinality(Served(u)) + 1
    BY <1>5, FS_AddElement
  <2>4. IsFiniteSet(Recorded(u) \cup {n})
        /\ Cardinality(Recorded(u) \cup {n}) = Cardinality(Recorded(u)) + 1
    BY <1>4, <2>2, FS_AddElement
  <2>5. Cardinality(Recorded(u)) + 1 <= Cardinality(Recorded(u)')
    BY <1>4, <2>2, <2>4, FS_Subset
  <2>6. IsFiniteSet(Served(u)') /\ Cardinality(Served(u)') \in Nat
        /\ Cardinality(Served(u)') <= Cardinality(Served(u) \cup {r})
    BY <2>1, <2>3, FS_Subset, FS_CardinalityType
  <2>7. Cardinality(Served(u) \cup {r}) \in Nat
    BY <2>3, FS_CardinalityType
  <2>. QED  BY <1>4, <1>5, <2>3, <2>5, <2>6, <2>7
<1>7. CASE ~(AppendEvent(r) /\ body[r] = Download(u))
  <2>1. Served(u)' \subseteq Served(u)
    BY <1>1, <1>7, ServedGrows DEF Served
  <2>2. IsFiniteSet(Served(u)') /\ Cardinality(Served(u)') \in Nat
        /\ Cardinality(Served(u)') <= Cardinality(Served(u))
    BY <1>5, <2>1, FS_Subset, FS_CardinalityType
  <2>. QED  BY <1>4, <1>5, <2>2
<1>. QED  BY <1>6, <1>7

LEMMA ServedStep == TypeInv /\ ServedInv /\ [Next]_vars => ServedInv'
<1>. SUFFICES ASSUME TypeInv, ServedInv, [Next]_vars, NEW u \in User
              PROVE  /\ IsFiniteSet(Served(u)')
                     /\ Cardinality(Served(u)') <= Cardinality(Recorded(u)')
  BY DEF ServedInv
<1>1. CASE UNCHANGED vars
  <2>1. Served(u)' = Served(u) /\ Recorded(u)' = Recorded(u)
    BY <1>1 DEF vars, Served, Recording, Recorded
  <2>. QED  BY <2>1 DEF ServedInv
<1>2. CASE Crash
  <2>1. Served(u)' \subseteq Served(u) /\ Recorded(u)' = Recorded(u)
    <3>1. /\ UNCHANGED <<log, left, body>>
          /\ pc' = [r \in Request |-> IF pc[r] = "new" THEN "new" ELSE "done"]
      BY <1>2 DEF Crash
    <3>. QED  BY <3>1 DEF Served, Recording, Recorded
  <2>2. IsFiniteSet(Served(u)) /\ Cardinality(Served(u)) <= Cardinality(Recorded(u))
    BY DEF ServedInv
  <2>3. /\ IsFiniteSet(Served(u)') /\ Cardinality(Served(u)') <= Cardinality(Served(u))
        /\ Cardinality(Served(u)) \in Nat /\ Cardinality(Served(u)') \in Nat
    BY <2>1, <2>2, FS_Subset, FS_CardinalityType
  <2>4. Cardinality(Recorded(u)) \in Nat
    BY RecordsFinite
  <2>. QED  BY <2>1, <2>2, <2>3, <2>4
<1>. QED  BY <1>1, <1>2, ServedHandle DEF Next

LEMMA OriginalsLogged == Spec => []OriginalIsLogged
<1>1. Init => ServedInv
  <2>. SUFFICES ASSUME Init, NEW u \in User
                PROVE  /\ IsFiniteSet(Served(u))
                       /\ Cardinality(Served(u)) <= Cardinality(Recorded(u))
    BY DEF ServedInv
  <2>1. Served(u) = {} /\ Recorded(u) = {}
    BY DEF Init, Served, Recording, Recorded
  <2>2. IsFiniteSet({}) /\ Cardinality({}) = 0
    BY FS_EmptySet
  <2>. QED  BY <2>1, <2>2
<1>2. TypeInv /\ ServedInv => OriginalIsLogged
  <2>. SUFFICES ASSUME TypeInv, ServedInv, NEW u \in User
                PROVE  Cardinality({r \in left : body[r] = Download(u)})
                         <= Cardinality(Recorded(u))
    BY DEF OriginalIsLogged, Download, Recorded
  <2>1. {r \in left : body[r] = Download(u)} \subseteq Served(u)
    BY DEF Served, Recording, TypeInv, TypeOK
  <2>2. IsFiniteSet(Served(u)) /\ Cardinality(Served(u)) <= Cardinality(Recorded(u))
    BY DEF ServedInv
  <2>3. PICK sent : sent = {r \in left : body[r] = Download(u)}
    OBVIOUS
  <2>4. /\ Cardinality(sent) \in Nat /\ Cardinality(Served(u)) \in Nat
        /\ Cardinality(sent) <= Cardinality(Served(u))
    BY <2>1, <2>2, <2>3, FS_Subset, FS_CardinalityType
  <2>5. Cardinality(Recorded(u)) \in Nat
    BY RecordsFinite
  <2>. QED  BY <2>2, <2>3, <2>4, <2>5
<1>. QED  BY <1>1, <1>2, ServedStep, TypeAlways, PTL DEF Spec

\* What is done under a grant or to the grants is in the chain, on SQLite and on
\* Postgres, where handlers interleave statement by statement.  While no process
\* dies and nothing raises, every grant that creation did not give and every one
\* it lost has its event once no request is in flight (put_acl and delete_acl
\* append after their change is committed); and, whatever dies or raises, no user
\* has been sent more originals than the chain has downloads by that user
\* (job_bundle appends before it reads).
THEOREM ActsAreInTheChain == Spec => []ActsAreLogged
BY ChangesLogged, OriginalsLogged, PTL DEF ActsAreLogged
=============================================================================
