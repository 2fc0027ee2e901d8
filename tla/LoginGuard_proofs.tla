-------------------------- MODULE LoginGuard_proofs --------------------------
(***************************************************************************)
(* For any threads, processes, peers, persons, deployments, limits and     *)
(* bounds: the types (TypeOK); everybody who comes away with a signing key *)
(* comes away with the one on the volume (OneSigningKey); a session lasts  *)
(* until its lifetime, a revocation or the switch to an issuer ends it     *)
(* (SessionsLastAsPromised); a lockout is there when it is due and for as  *)
(* long as it says (LockoutsAreExact); and the wrong credentials of the    *)
(* requests let through in a stretch of time are capped                    *)
(* (GuessesAreCapped).                                                     *)
(***************************************************************************)
EXTENDS LoginGuard, FiniteSetTheorems, WellFoundedInduction, TLAPS

FilesTypes ==
  /\ cookieFile \in {Missing, Torn} \cup 1..made /\ made \in 0..MaxSecrets
  /\ keyFile \in Contents
  /\ mine \in [Thread -> 0..MaxSecrets]
  /\ at \in [Thread -> Places]

\* A key file that is not yet written has one thread that writes it, and until
\* it has, nobody has come away with a key.
KeyInv ==
  /\ \A t \in Thread : at[t] \in {"makeKey", "fillKey"} => mine[t] # NoSecret
  /\ \A t \in Thread : at[t] = "fillKey" => keyFile = Torn
  /\ \A t, u \in Thread : at[t] = "fillKey" /\ at[u] = "fillKey" => t = u
  /\ loaded # {} => Whole(keyFile) /\ loaded = {keyFile}

\* What a thread is to write was never in the file, and never will be twice.
SecretInv ==
  /\ \A t \in Thread : mine[t] # NoSecret => mine[t] \in 1..made /\ mine[t] # cookieFile
  /\ \A t, u \in Thread : mine[t] # NoSecret /\ mine[t] = mine[u] => t = u

\* After a final revocation there is a secret, and nobody is about to write.
FinalInv == final /\ revoked # {} => cookieFile \in 1..made /\ Writers = {}

FilesInv == FilesTypes /\ KeyInv /\ SecretInv /\ FinalInv

\* A settled session's secret is in the file, and nobody is about to write; a
\* session's secret is not what anybody is to write; and that of a revoked
\* session is not in the file, unless it is the empty one.
Lasting(token) ==
  /\ token.secret \in {Torn} \cup 1..made
  /\ token.settled => token \in revoked \/ (token.secret = cookieFile /\ Writers = {})
  /\ \A t \in Thread : mine[t] # NoSecret => mine[t] # token.secret
  /\ token \in revoked => token.secret # cookieFile \/ token.secret = Torn

TokensInv == \A token \in tokens : Lasting(token)

RevokedInv == revoked \subseteq tokens /\ final \in BOOLEAN

-----------------------------------------------------------------------------
(* The files.                                                               *)

Busy == {"open", "fill", "makeKey", "fillKey"}

\* A step that writes no file, and may drop what a thread was about to write.
Calm ==
  /\ UNCHANGED <<cookieFile, keyFile, made, revoked, final, loaded>>
  /\ mine' \in [Thread -> 0..MaxSecrets] /\ at' \in [Thread -> Places]
  /\ \A t \in Thread : mine'[t] \in {mine[t], NoSecret}
  /\ \A t \in Thread : at'[t] \in Busy => at'[t] = at[t] /\ mine'[t] = mine[t]

FileWrites(t) ==
  \/ Revoke(t)
  \/ /\ \/ Look(t) \/ Open(t) \/ Fill(t) \/ FindKey(t) \/ MakeKey(t) \/ FillKey(t)
        \/ FillKeyFails(t) \/ LoadKey(t)
     /\ UNCHANGED revocation

OwnerDeletes == HostDeletes /\ revoked' = tokens /\ final' = FALSE

LEMMA Secrets == /\ \A i \in 0..MaxSecrets : i # Missing /\ i # Torn
                 /\ MaxSecrets \in Nat /\ Missing # Torn
  BY FilesAssumption

LEMMA CalmKeepsFiles == ASSUME FilesInv, TokensInv, Calm PROVE FilesInv' /\ \A token \in tokens : Lasting(token)'
<1>1. FilesTypes'
  BY DEF FilesInv, FilesTypes, Calm
<1>2. KeyInv'
  <2>1. \A t \in Thread : at'[t] \in {"makeKey", "fillKey"} => at'[t] = at[t] /\ mine'[t] = mine[t]
    BY DEF Calm, Busy
  <2>. QED  BY <2>1 DEF FilesInv, KeyInv, Calm, Whole
<1>3. SecretInv'
  BY DEF FilesInv, SecretInv, Calm
<1>4. Writers' \subseteq Writers
  BY DEF Calm, Busy, Writers
<1>5. ASSUME NEW token \in tokens PROVE Lasting(token)'
  <2>1. Lasting(token)
    BY DEF TokensInv
  <2>. QED  BY <1>4, <2>1 DEF Lasting, Calm
<1>6. FinalInv'
  BY <1>4 DEF FilesInv, FinalInv, Calm
<1>. QED  BY <1>1, <1>2, <1>3, <1>5, <1>6 DEF FilesInv

\* A first secret is drawn only where there is no file, so that no settled
\* session's secret is in it.
LEMMA DrawsKeepFiles ==
  ASSUME FilesInv, TokensInv, NEW t \in Thread, NEW place \in {"open", "makeKey"}, Generate(t), Go(t, place),
         place = "open" => cookieFile = Missing,
         at[t] \notin Busy, UNCHANGED <<cookieFile, keyFile, revoked, final, loaded>>
  PROVE  FilesInv' /\ \A token \in tokens : Lasting(token)'
<1>1. made' = made + 1 /\ made \in 0..MaxSecrets /\ made < MaxSecrets /\ MaxSecrets \in Nat
  BY Secrets DEF Generate, FilesInv, FilesTypes
<1>2. \A u \in Thread : mine'[u] = IF u = t THEN made + 1 ELSE mine[u]
  BY DEF Generate, FilesInv, FilesTypes
<1>3. \A u \in Thread : at'[u] = IF u = t THEN place ELSE at[u]
  BY DEF Go, FilesInv, FilesTypes
<1>4. FilesTypes'
  <2>1. cookieFile' \in {Missing, Torn} \cup 1..made'
    BY <1>1 DEF FilesInv, FilesTypes
  <2>2. mine' \in [Thread -> 0..MaxSecrets] /\ at' \in [Thread -> Places]
    BY <1>1 DEF FilesInv, FilesTypes, Generate, Go, Places
  <2>. QED  BY <1>1, <2>1, <2>2 DEF FilesInv, FilesTypes
<1>5. KeyInv'
  BY <1>1, <1>2, <1>3 DEF FilesInv, KeyInv, Whole, NoSecret
<1>6. SecretInv'
  <2>1. made + 1 # cookieFile
    BY <1>1, Secrets DEF FilesInv, FilesTypes
  <2>2. \A u \in Thread : mine[u] # made + 1
    BY <1>1, Secrets DEF FilesInv, FilesTypes, SecretInv, NoSecret
  <2>. QED  BY <1>1, <1>2, <2>1, <2>2 DEF FilesInv, SecretInv, NoSecret
<1>7. place = "makeKey" => Writers' = Writers
  BY <1>3 DEF Writers, Busy
<1>8. ASSUME NEW token \in tokens PROVE Lasting(token)'
  <2>1. Lasting(token)
    BY DEF TokensInv
  <2>2. cookieFile = Missing => token.secret # cookieFile
    BY <1>1, <2>1, Secrets DEF Lasting
  <2>3. token.secret \in {Torn} \cup 1..made' /\ token.secret # made + 1
    BY <1>1, <2>1, Secrets DEF Lasting
  <2>. QED  BY <1>2, <1>7, <2>1, <2>2, <2>3 DEF Lasting
<1>9. FinalInv'
  <2>1. cookieFile \in 1..made => cookieFile \in 1..made' /\ cookieFile # Missing
    BY <1>1, Secrets
  <2>. QED  BY <1>7, <2>1 DEF FilesInv, FinalInv
<1>. QED  BY <1>4, <1>5, <1>6, <1>8, <1>9 DEF FilesInv

\* The secret is replaced, or the file deleted: the sessions there are are revoked.
LEMMA ReplacedKeepsFiles ==
  ASSUME FilesInv, TokensInv,
         \/ /\ made < MaxSecrets /\ made' = made + 1 /\ cookieFile' = made + 1
            /\ final' = Undisturbed
         \/ made' = made /\ cookieFile' = Missing /\ final' = FALSE,
         revoked' = tokens, mine' = Orphaned, at' \in [Thread -> Places],
         \A t \in Thread : at'[t] = at[t] \/ (at'[t] \notin Busy),
         UNCHANGED <<keyFile, loaded>>
  PROVE  FilesInv' /\ \A token \in tokens : Lasting(token)'
<1>1. made \in 0..MaxSecrets /\ MaxSecrets \in Nat /\ made' \in 0..MaxSecrets /\ made <= made'
  BY Secrets DEF FilesInv, FilesTypes
<1>2. \A t \in Thread : mine'[t] = mine[t] \/ mine'[t] = NoSecret
  BY DEF Orphaned
<1>3. \A t \in Thread : at'[t] \in {"makeKey", "fillKey"} => at'[t] = at[t] /\ mine'[t] = mine[t]
  BY DEF Orphaned, Busy
<1>4. FilesTypes'
  <2>1. mine' \in [Thread -> 0..MaxSecrets]
    BY <1>1 DEF Orphaned, FilesInv, FilesTypes, NoSecret
  <2>. QED  BY <1>1, <2>1 DEF FilesInv, FilesTypes
<1>5. KeyInv'
  BY <1>3 DEF FilesInv, KeyInv, Whole
<1>6. SecretInv'
  <2>1. ASSUME NEW t \in Thread, mine'[t] # NoSecret
        PROVE  mine'[t] \in 1..made' /\ mine'[t] # cookieFile'
    <3>1. mine'[t] = mine[t] /\ mine[t] \in 1..made
      BY <1>2, <2>1 DEF FilesInv, SecretInv
    <3>. QED  BY <1>1, <3>1, Secrets
  <2>2. \A t, u \in Thread : mine'[t] # NoSecret /\ mine'[t] = mine'[u] => t = u
    BY <1>2 DEF FilesInv, SecretInv
  <2>. QED  BY <2>1, <2>2 DEF SecretInv
<1>7. ASSUME NEW token \in tokens PROVE Lasting(token)'
  <2>1. Lasting(token)
    BY DEF TokensInv
  <2>2. token.secret \in {Torn} \cup 1..made' /\ token.secret # cookieFile'
    BY <1>1, <2>1, Secrets DEF Lasting
  <2>. QED  BY <1>2, <2>1, <2>2 DEF Lasting
<1>8. FinalInv'
  <2>1. Writers' \subseteq Writers
    BY DEF Writers, Busy
  <2>2. made + 1 \in 1..(made + 1)
    BY <1>1
  <2>. QED  BY <2>1, <2>2 DEF FinalInv, Undisturbed
<1>. QED  BY <1>4, <1>5, <1>6, <1>7, <1>8 DEF FilesInv

LEMMA WritesKeepFiles ==
  ASSUME FilesInv, TokensInv, NEW t \in Thread, FileWrites(t)
  PROVE  FilesInv' /\ \A token \in tokens : Lasting(token)'
<1>1. /\ made \in 0..MaxSecrets /\ mine \in [Thread -> 0..MaxSecrets] /\ at \in [Thread -> Places]
      /\ MaxSecrets \in Nat
  BY Secrets DEF FilesInv, FilesTypes
<1>2. \A place \in Places : Go(t, place) =>
        at' \in [Thread -> Places] /\ \A u \in Thread : at'[u] = IF u = t THEN place ELSE at[u]
  BY <1>1 DEF Go
<1>3. ASSUME NEW place \in Places \ Busy, Go(t, place), UNCHANGED <<cookieFile, keyFile, made, revoked, final, loaded>>,
             mine' = mine \/ mine' = [mine EXCEPT ![t] = NoSecret]
      PROVE  Calm
  BY <1>1, <1>2, <1>3 DEF Calm, Busy, NoSecret
<1>4. CASE Look(t) /\ UNCHANGED revocation
  <2>1. at[t] = "look" /\ UNCHANGED <<cookieFile, keyFile, revoked, final, loaded>>
    BY <1>4 DEF Look, revocation
  <2>2. CASE Go(t, "read") /\ UNCHANGED <<made, mine>>
    BY <1>3, <2>1, <2>2, CalmKeepsFiles DEF Places, Busy
  <2>3. CASE cookieFile = Missing /\ Generate(t) /\ Go(t, "open")
    BY <2>1, <2>3, DrawsKeepFiles DEF Busy
  <2>. QED  BY <1>4, <2>2, <2>3 DEF Look
<1>5. CASE FindKey(t) /\ UNCHANGED revocation
  <2>1. at[t] = "findKey" /\ UNCHANGED <<cookieFile, keyFile, revoked, final, loaded>>
    BY <1>5 DEF FindKey, revocation
  <2>2. CASE Go(t, "loadKey") /\ UNCHANGED <<made, mine>>
    BY <1>3, <2>1, <2>2, CalmKeepsFiles DEF Places, Busy
  <2>3. CASE Generate(t) /\ Go(t, "makeKey")
    BY <2>1, <2>3, DrawsKeepFiles DEF Busy
  <2>. QED  BY <1>5, <2>2, <2>3 DEF FindKey
<1>6. CASE Revoke(t)
  <2>1. at' \in [Thread -> Places] /\ \A u \in Thread : at'[u] = at[u] \/ at'[u] \notin Busy
    BY <1>2, <1>6 DEF Revoke, Rotate, Places, Busy
  <2>. QED  BY <1>6, <2>1, ReplacedKeepsFiles DEF Revoke, Rotate
<1>7. CASE Open(t) /\ UNCHANGED revocation
  <2>1. cookieFile' = Torn /\ at[t] = "open" /\ Go(t, "fill") /\ UNCHANGED <<keyFile, made, mine, revoked, final, loaded>>
    BY <1>7 DEF Open, revocation
  <2>2. at' \in [Thread -> Places] /\ \A u \in Thread : at'[u] = IF u = t THEN "fill" ELSE at[u]
    BY <1>2, <2>1 DEF Places
  <2>3. FilesTypes' /\ KeyInv'
    BY <2>1, <2>2 DEF FilesInv, FilesTypes, KeyInv, Whole
  <2>4. SecretInv'
    <3>1. Torn \notin 1..MaxSecrets /\ 1..made \subseteq 1..MaxSecrets
      BY <1>1, Secrets
    <3>. QED  BY <2>1, <3>1 DEF FilesInv, SecretInv
  <2>5. t \in Writers
    BY <2>1 DEF Writers
  <2>6. \A token \in tokens : Lasting(token)'
    BY <2>1, <2>5 DEF TokensInv, Lasting
  <2>7. FinalInv'
    BY <2>1, <2>5 DEF FilesInv, FinalInv
  <2>. QED  BY <2>3, <2>4, <2>6, <2>7 DEF FilesInv
<1>8. CASE Fill(t) /\ UNCHANGED revocation
  <2>1. at[t] = "fill" /\ UNCHANGED <<keyFile, made, revoked, final, loaded>>
        /\ cookieFile' = (IF mine[t] = NoSecret THEN cookieFile ELSE mine[t])
        /\ mine' = [mine EXCEPT ![t] = NoSecret]
    BY <1>8 DEF Fill, revocation
  <2>2. at' \in [Thread -> Places] /\ (at'[t] \notin Busy) /\ \A u \in Thread \ {t} : at'[u] = at[u]
    BY <1>2, <1>8 DEF Fill, Places, Busy
  <2>3. \A u \in Thread : mine'[u] = IF u = t THEN NoSecret ELSE mine[u]
    BY <1>1, <2>1
  <2>4. FilesTypes'
    <3>1. cookieFile' \in {Missing, Torn} \cup 1..made
      BY <2>1 DEF FilesInv, FilesTypes, SecretInv
    <3>2. mine' \in [Thread -> 0..MaxSecrets]
      BY <1>1, <2>1 DEF NoSecret
    <3>. QED  BY <2>1, <2>2, <3>1, <3>2 DEF FilesInv, FilesTypes
  <2>5. KeyInv'
    BY <2>1, <2>2, <2>3 DEF FilesInv, KeyInv, Whole, Busy
  <2>6. SecretInv'
    BY <2>1, <2>3 DEF FilesInv, SecretInv
  <2>7. t \in Writers
    BY <2>1 DEF Writers
  <2>8. \A token \in tokens : Lasting(token)'
    BY <2>1, <2>3, <2>7 DEF TokensInv, Lasting
  <2>9. FinalInv'
    BY <2>1, <2>7 DEF FilesInv, FinalInv
  <2>. QED  BY <2>4, <2>5, <2>6, <2>8, <2>9 DEF FilesInv
<1>. DEFINE KeyOnly == /\ UNCHANGED <<cookieFile, made, revoked, final>>
                       /\ keyFile' \in Contents /\ at' \in [Thread -> Places]
                       /\ mine' \in [Thread -> 0..MaxSecrets]
                       /\ \A u \in Thread : mine'[u] \in {mine[u], NoSecret}
                       /\ Writers' = Writers
<1>9. ASSUME KeyOnly, KeyInv' PROVE FilesInv' /\ \A token \in tokens : Lasting(token)'
  <2>1. FilesTypes'
    BY <1>9 DEF FilesInv, FilesTypes
  <2>2. SecretInv'
    BY <1>9 DEF FilesInv, SecretInv
  <2>3. \A token \in tokens : Lasting(token)'
    BY <1>9 DEF TokensInv, Lasting
  <2>4. FinalInv'
    BY <1>9 DEF FilesInv, FinalInv
  <2>. QED  BY <1>9, <2>1, <2>2, <2>3, <2>4 DEF FilesInv
<1>10. CASE MakeKey(t) /\ UNCHANGED revocation
  <2>1. at[t] = "makeKey" /\ UNCHANGED <<cookieFile, made, revoked, final, loaded>>
    BY <1>10 DEF MakeKey, revocation
  <2>2. CASE keyFile = Missing /\ keyFile' = Torn /\ Go(t, "fillKey") /\ UNCHANGED mine
    <3>1. \A u \in Thread : at'[u] = IF u = t THEN "fillKey" ELSE at[u]
      BY <1>2, <2>2 DEF Places
    <3>2. KeyOnly
      BY <1>1, <1>2, <2>1, <2>2, <3>1 DEF Contents, Places, Writers
    <3>3. loaded = {} /\ \A u \in Thread : at[u] # "fillKey"
      BY <2>2, Secrets DEF FilesInv, KeyInv, Whole
    <3>4. KeyInv'
      BY <2>1, <2>2, <3>1, <3>3 DEF FilesInv, KeyInv
    <3>. QED  BY <1>9, <3>2, <3>4
  <2>3. CASE Go(t, "findKey") /\ mine' = [mine EXCEPT ![t] = NoSecret] /\ UNCHANGED keyFile
    BY <1>3, <2>1, <2>3, CalmKeepsFiles DEF Places, Busy
  <2>. QED  BY <1>10, <2>2, <2>3 DEF MakeKey
<1>11. CASE (FillKey(t) \/ FillKeyFails(t)) /\ UNCHANGED revocation
  <2>1. /\ at[t] = "fillKey" /\ UNCHANGED <<cookieFile, made, revoked, final, loaded>>
        /\ keyFile' \in {mine[t], Missing} /\ mine' = [mine EXCEPT ![t] = NoSecret]
        /\ Go(t, "findKey") \/ Go(t, "idle")
    BY <1>11 DEF FillKey, FillKeyFails, revocation
  <2>2. \A u \in Thread \ {t} : at'[u] = at[u] /\ mine'[u] = mine[u]
    BY <1>1, <1>2, <2>1 DEF Places
  <2>3. at' \in [Thread -> Places] /\ at'[t] \in {"findKey", "idle"} /\ mine'[t] = NoSecret
    BY <1>1, <1>2, <2>1 DEF Places
  <2>4. loaded = {} /\ \A u \in Thread \ {t} : at[u] # "fillKey"
    BY <2>1, Secrets DEF FilesInv, KeyInv, Whole
  <2>5. KeyOnly
    <3>1. mine[t] \in 1..MaxSecrets
      BY <1>1, <2>1 DEF FilesInv, KeyInv, NoSecret
    <3>2. Writers' = Writers
      BY <2>1, <2>2, <2>3 DEF Writers
    <3>3. mine' \in [Thread -> 0..MaxSecrets] /\ \A u \in Thread : mine'[u] \in {mine[u], NoSecret}
      BY <1>1, <2>1, <2>2, <2>3 DEF NoSecret
    <3>. QED  BY <2>1, <2>3, <3>1, <3>2, <3>3 DEF Contents
  <2>6. KeyInv'
    BY <2>1, <2>2, <2>3, <2>4 DEF FilesInv, KeyInv
  <2>. QED  BY <1>9, <2>5, <2>6
<1>12. CASE LoadKey(t) /\ UNCHANGED revocation
  <2>1. /\ loaded' = (IF Whole(keyFile) THEN loaded \cup {keyFile} ELSE loaded) /\ Go(t, "idle")
        /\ UNCHANGED <<cookieFile, keyFile, made, mine, revoked, final>> /\ at[t] = "loadKey"
    BY <1>12 DEF LoadKey, revocation
  <2>2. at' \in [Thread -> Places] /\ \A u \in Thread : at'[u] = IF u = t THEN "idle" ELSE at[u]
    BY <1>2, <2>1 DEF Places
  <2>3. KeyOnly
    BY <1>1, <2>1, <2>2 DEF FilesInv, FilesTypes, Writers
  <2>4. KeyInv'
    BY <2>1, <2>2 DEF FilesInv, KeyInv, Whole
  <2>. QED  BY <1>9, <2>3, <2>4
<1>. QED
  BY <1>4, <1>5, <1>6, <1>7, <1>8, <1>10, <1>11, <1>12 DEF FileWrites

-----------------------------------------------------------------------------
(* The requests.                                                            *)

\* What a thread was asked fits where it is, and only a process without an
\* issuer has a sign-in of the operator's under way.
RequestFits(t) ==
  /\ at[t] \in {"allow", "verify", "exchange", "succeeded"} => job[t].task \in {"login", "callback"}
  /\ at[t] = "exchange" => job[t].task = "callback"
  /\ job[t].task = "callback" => job[t].who \in Person
  /\ job[t].task = "login" => ~sso[P(t)]
  /\ job[t].task = "issue" /\ job[t].subject = Operator => ~sso[P(t)]

RequestsInv ==
  /\ job = [t \in Thread |-> job[t]] /\ sso \in [Proc -> BOOLEAN]
  /\ since = [p \in Proc |-> since[p]] /\ now \in Nat
  /\ \A t \in Thread : RequestFits(t)

PastInv == (\A token \in tokens : token.issued \in 0..now) /\ OperatorEndsUnderSso

\* Every step is one of the files', or writes none.
FileShape == Calm \/ (\E t \in Thread : FileWrites(t)) \/ OwnerDeletes

LEMMA GoesCalmly ==
  ASSUME FilesInv, UNCHANGED <<files, revocation>>, NEW t \in Thread, NEW place \in Places \ Busy, Go(t, place)
  PROVE  Calm
  BY DEF FilesInv, FilesTypes, files, revocation, Calm, Go, Busy, NoSecret

LEMMA PlacesOfSteps ==
  ASSUME NEW t \in Thread, Step(t), RequestFits(t)
  PROVE  /\ UNCHANGED <<files, revocation>>
         /\ \E place \in Places \ Busy : Go(t, place)
<1>1. CASE Ask(t)
  BY <1>1 DEF Ask, First, Places, Busy
<1>2. CASE Succeeded(t)
  BY <1>2 DEF Succeeded, Places, Busy
<1>3. CASE Allow(t)
  BY <1>3 DEF Allow, Places, Busy
<1>4. CASE Verify(t) \/ Failed(t) \/ Exchange(t)
  BY <1>4 DEF Verify, Failed, Exchange, Places, Busy
<1>5. CASE ReadFails(t) \/ Issue(t) \/ Session(t) \/ Mint(t) \/ Parse(t)
  BY <1>5 DEF ReadFails, Issue, Session, Mint, Parse, Places, Busy
<1>. QED  BY <1>1, <1>2, <1>3, <1>4, <1>5 DEF Step

LEMMA ShapeOfNext == ASSUME FilesInv, RequestsInv, [Next]_vars PROVE FileShape
<1>0. /\ mine \in [Thread -> 0..MaxSecrets] /\ at \in [Thread -> Places]
      /\ MaxSecrets \in Nat
  BY Secrets DEF FilesInv, FilesTypes
<1>1. CASE UNCHANGED vars \/ Tick
  <2>1. UNCHANGED <<cookieFile, keyFile, made, revoked, final, loaded, mine, at>>
    BY <1>1 DEF Tick, vars, files, revocation
  <2>. QED  BY <1>0, <2>1 DEF Calm, FileShape
<1>2. ASSUME NEW t \in Thread, Step(t) PROVE FileShape
  BY <1>2, PlacesOfSteps, GoesCalmly DEF RequestsInv, FileShape
<1>3. ASSUME NEW t \in Thread, FileStep(t) PROVE FileShape
  <2>1. CASE FillFails(t) /\ UNCHANGED revocation
    BY <1>0, <2>1 DEF FillFails, revocation, Go, Calm, Busy, Places, NoSecret, FileShape
  <2>. QED  BY <1>3, <2>1 DEF FileStep, FileWrites, FileShape
<1>4. CASE Deleted
  BY <1>4 DEF Deleted, OwnerDeletes, FileShape
<1>5. ASSUME NEW p \in Proc, Restart(p) PROVE FileShape
  <2>1. /\ UNCHANGED <<cookieFile, keyFile, made, revoked, final, loaded>>
        /\ at' = [t \in Thread |-> IF P(t) = p THEN "idle" ELSE at[t]]
        /\ mine' = [t \in Thread |-> IF P(t) = p THEN NoSecret ELSE mine[t]]
    BY <1>5 DEF Restart, revocation
  <2>. QED  BY <1>0, <2>1 DEF Calm, Busy, Places, NoSecret, FileShape
<1>. QED  BY <1>1, <1>2, <1>3, <1>4, <1>5 DEF Next

LEMMA OwnerKeepsFiles ==
  ASSUME FilesInv, TokensInv, OwnerDeletes
  PROVE  FilesInv' /\ \A token \in tokens : Lasting(token)'
<1>1. revoked' = tokens /\ final' = FALSE
  BY DEF OwnerDeletes
<1>2. UNCHANGED <<keyFile, made, at, loaded>> /\ cookieFile' = Missing /\ mine' = Orphaned
  BY DEF OwnerDeletes, HostDeletes
<1>3. at' \in [Thread -> Places] /\ \A t \in Thread : at'[t] = at[t] \/ at'[t] \notin Busy
  BY <1>2 DEF FilesInv, FilesTypes
<1>. QED  BY <1>1, <1>2, <1>3, ReplacedKeepsFiles

LEMMA StepFiles == ASSUME FilesInv, TokensInv, RequestsInv, [Next]_vars
                   PROVE  FilesInv' /\ \A token \in tokens : Lasting(token)'
  BY ShapeOfNext, CalmKeepsFiles, WritesKeepFiles, OwnerKeepsFiles DEF FileShape

LEMMA TokensOfNext ==
  ASSUME [Next]_vars PROVE tokens' = tokens \/ \E t \in Thread : Issue(t)
<1>1. ASSUME NEW t \in Thread, Step(t) PROVE tokens' = tokens \/ Issue(t)
  BY <1>1 DEF Step, Ask, Succeeded, Allow, Verify, Failed, Exchange, ReadFails, Session, Mint, Parse
<1>2. ASSUME NEW t \in Thread, FileStep(t) PROVE tokens' = tokens
  BY <1>2 DEF FileStep
<1>3. ASSUME NEW p \in Proc, Restart(p) PROVE tokens' = tokens
  BY <1>3 DEF Restart
<1>. QED  BY <1>1, <1>2, <1>3 DEF Next, Deleted, Tick, vars

LEMMA StepTokens ==
  ASSUME FilesInv, TokensInv, RevokedInv, RequestsInv, [Next]_vars PROVE TokensInv'
<1>1. \A token \in tokens : Lasting(token)'
  BY StepFiles
<1>2. CASE tokens' = tokens
  BY <1>1, <1>2 DEF TokensInv
<1>3. ASSUME NEW t \in Thread, Issue(t) PROVE TokensInv'
  <2>. DEFINE token == [subject |-> job[t].subject, issued |-> now, secret |-> cookieFile,
                        settled |-> Undisturbed]
  <2>0. tokens' = tokens \cup {token} /\ token.secret = cookieFile /\ token.settled = Undisturbed
    BY <1>3 DEF Issue
  <2>. HIDE DEF token
  <2>1. PICK new : tokens' = tokens \cup {new} /\ new.secret = cookieFile /\ new.settled = Undisturbed
    BY <2>0
  <2>2. cookieFile # Missing /\ at[t] = "read"
      /\ UNCHANGED <<cookieFile, made, mine, revoked, final>> /\ Go(t, "idle")
    BY <1>3 DEF Issue, Holds, files, revocation
  <2>3. Writers' \subseteq Writers
    BY <2>2 DEF Writers, Go, FilesInv, FilesTypes
  <2>4. CASE new \in tokens
    BY <1>1, <2>1, <2>4 DEF TokensInv
  <2>5. CASE new \notin tokens
    <3>1. new \notin revoked /\ new.secret \in {Torn} \cup 1..made
      BY <2>1, <2>2, <2>5 DEF RevokedInv, FilesInv, FilesTypes
    <3>2. \A u \in Thread : mine[u] # NoSecret => mine[u] # new.secret
      BY <2>1 DEF FilesInv, SecretInv
    <3>3. Lasting(new)'
      BY <2>1, <2>2, <2>3, <3>1, <3>2 DEF Lasting, Undisturbed
    <3>. QED  BY <1>1, <2>1, <3>3 DEF TokensInv
  <2>. QED  BY <2>4, <2>5
<1>. QED  BY <1>2, <1>3, TokensOfNext

\* Whom a revocation reaches are the sessions handed out by then.
LEMMA StepRevoked == ASSUME RevokedInv, [Next]_vars PROVE RevokedInv'
<1>1. tokens \subseteq tokens'
  BY TokensOfNext DEF Issue
<1>2. (revoked' = revoked \/ revoked' = tokens) /\ final' \in {final, Undisturbed, FALSE}
  <2>1. ASSUME NEW t \in Thread, Step(t) PROVE UNCHANGED <<revoked, final>>
    BY <2>1 DEF Step, Ask, Succeeded, Allow, Verify, Failed, Exchange, ReadFails, Issue, Session,
       Mint, Parse, revocation
  <2>2. ASSUME NEW t \in Thread, FileStep(t)
        PROVE  (revoked' = revoked \/ revoked' = tokens) /\ final' \in {final, Undisturbed}
    BY <2>2 DEF FileStep, Revoke, revocation
  <2>3. ASSUME NEW p \in Proc, Restart(p) PROVE UNCHANGED <<revoked, final>>
    BY <2>3 DEF Restart, revocation
  <2>. QED  BY <2>1, <2>2, <2>3 DEF Next, Deleted, Tick, vars, revocation
<1>. QED  BY <1>1, <1>2 DEF RevokedInv, Undisturbed

\* A request that is answered is forgotten; what it asked stays otherwise.
LEMMA KeptFits ==
  ASSUME RequestsInv, NEW t \in Thread, NEW place, Go(t, place), Kept(t), UNCHANGED sso,
         FilesInv,
         place \in {"allow", "verify", "exchange", "succeeded"} =>
           job[t].task \in {"login", "callback"},
         place = "exchange" => job[t].task = "callback"
  PROVE  /\ job' = [u \in Thread |-> job'[u]]
         /\ \A u \in Thread : RequestFits(u)'
<1>1. \A u \in Thread : at'[u] = IF u = t THEN place ELSE at[u]
  BY DEF Go, FilesInv, FilesTypes
<1>2. \A u \in Thread : job'[u] = IF u = t /\ place = "idle" THEN Idle ELSE job[u]
  <2>1. job' = [job EXCEPT ![t] = IF at'[t] = "idle" THEN Idle ELSE job[t]]
    BY DEF Kept
  <2>2. DOMAIN job = Thread
    BY DEF RequestsInv
  <2>. QED  BY <1>1, <2>1, <2>2
<1>3. job' = [u \in Thread |-> job'[u]]
  BY DEF Kept, RequestsInv
<1>4. ASSUME NEW u \in Thread PROVE RequestFits(u)'
  <2>1. RequestFits(u)
    BY DEF RequestsInv
  <2>. QED  BY <1>1, <1>2, <2>1 DEF RequestFits, Idle, P
<1>. QED  BY <1>3, <1>4

LEMMA AskedOf ==
  ASSUME RequestsInv, NEW t \in Thread, NEW j, job' = [job EXCEPT ![t] = j]
  PROVE  /\ job' = [u \in Thread |-> job'[u]]
         /\ \A u \in Thread : job'[u] = IF u = t THEN j ELSE job[u]
<1>1. DOMAIN job = Thread
  BY DEF RequestsInv
<1>. QED  BY <1>1

LEMMA StepRequests == ASSUME FilesInv, RequestsInv, [Next]_vars PROVE RequestsInv'
<1>1. /\ DOMAIN job = Thread /\ sso \in [Proc -> BOOLEAN] /\ DOMAIN since = Proc /\ now \in Nat
      /\ at \in [Thread -> Places]
      /\ \A t \in Thread : RequestFits(t)
  BY DEF RequestsInv, FilesInv, FilesTypes
<1>2. CASE UNCHANGED vars \/ Tick \/ Deleted
  <2>1. UNCHANGED <<at, job, sso, since>> /\ now' \in Nat
    BY <1>1, <1>2 DEF vars, Tick, Deleted, desk, HostDeletes
  <2>. QED  BY <2>1 DEF RequestsInv, RequestFits
<1>3. ASSUME NEW t \in Thread, Step(t) \/ FileStep(t) PROVE RequestsInv'
  <2>1. UNCHANGED <<sso, since, now>>
    BY <1>3 DEF Step, FileStep, desk, Ask, Succeeded, Allow, Verify, Failed, Exchange, ReadFails, Issue,
                Session, Mint, Parse
  <2>. SUFFICES job' = [u \in Thread |-> job'[u]] /\ \A u \in Thread : RequestFits(u)'
    BY <1>1, <2>1 DEF RequestsInv
  <2>2. CASE Ask(t)
    <3>1. PICK j \in Jobs(t) : /\ job' = [job EXCEPT ![t] = j] /\ Go(t, First(t, j))
                               /\ j.task = "login" => ~sso[P(t)]
      BY <2>2 DEF Ask
    <3>2. /\ j.task \in {"login", "check", "revoke", "redirect", "sign", "callback"}
          /\ j.task = "callback" => j.who \in Person
      BY DEF Jobs
    <3>3. First(t, j) \in {"allow", "findKey", "look"}
          /\ (First(t, j) = "allow" => j.task \in {"login", "callback"})
      BY DEF First
    <3>4. \A u \in Thread : job'[u] = IF u = t THEN j ELSE job[u]
      BY <3>1, AskedOf
    <3>5. PICK place : place = First(t, j)
      OBVIOUS
    <3>6. \A u \in Thread : at'[u] = IF u = t THEN place ELSE at[u]
      BY <1>1, <3>1, <3>5 DEF Go
    <3>7. ASSUME NEW u \in Thread PROVE RequestFits(u)'
      BY <1>1, <2>1, <3>1, <3>2, <3>3, <3>4, <3>5, <3>6 DEF RequestFits, P
    <3>. QED  BY <3>1, <3>7, AskedOf
  <2>3. CASE Succeeded(t)
    <3>1. /\ job' = [job EXCEPT ![t] = [task |-> "issue", subject |-> Subject(t)]] /\ Go(t, "look")
          /\ job[t].task \in {"login", "callback"}
      BY <1>1, <2>3 DEF Succeeded, RequestFits
    <3>2. Subject(t) = Operator => ~sso[P(t)]
      <4>1. job[t].task = "callback" => job[t].who.sub # Operator
        BY <1>1, LoginAssumption DEF RequestFits
      <4>2. job[t].task = "login" => ~sso[P(t)]
        BY <1>1 DEF RequestFits
      <4>. QED  BY <3>1, <4>1, <4>2 DEF Subject
    <3>3. PICK j : j = [task |-> "issue", subject |-> Subject(t)]
      OBVIOUS
    <3>4. j.task = "issue" /\ (j.subject = Operator => ~sso[P(t)])
      BY <3>2, <3>3
    <3>5. \A u \in Thread : job'[u] = IF u = t THEN j ELSE job[u]
      BY <3>1, <3>3, AskedOf
    <3>6. \A u \in Thread : at'[u] = IF u = t THEN "look" ELSE at[u]
      BY <1>1, <3>1 DEF Go
    <3>7. ASSUME NEW u \in Thread PROVE RequestFits(u)'
      BY <1>1, <2>1, <3>4, <3>5, <3>6 DEF RequestFits, P
    <3>. QED  BY <3>1, <3>7, AskedOf
  <2>4. CASE Allow(t) /\ Kept(t)
    <3>1. at[t] = "allow"
      BY <2>4 DEF Allow
    <3>2. PICK place \in {"idle", "verify", "failed", "look"} : Go(t, place)
      BY <2>4 DEF Allow
    <3>. QED  BY <1>1, <2>1, <2>4, <3>1, <3>2, KeptFits DEF RequestFits
  <2>5. CASE (Verify(t) \/ Failed(t) \/ Exchange(t)) /\ Kept(t)
    <3>1. PICK place \in {"idle", "failed", "succeeded"} : Go(t, place)
      BY <2>5 DEF Verify, Failed, Exchange
    <3>2. place = "succeeded" => at[t] \in {"verify", "exchange"}
      BY <1>1, <2>5, <3>1 DEF Verify, Failed, Exchange, Go
    <3>. QED  BY <1>1, <2>1, <2>5, <3>1, <3>2, KeptFits DEF RequestFits
  <2>6. CASE (ReadFails(t) \/ Issue(t) \/ Session(t) \/ Mint(t) \/ Parse(t)) /\ Kept(t)
    <3>1. PICK place \in {"idle", "rotate", "failed", "exchange"} : Go(t, place)
      BY <2>6 DEF ReadFails, Issue, Session, Mint, Parse
    <3>2. place = "exchange" => job[t].task = "callback"
      BY <1>1, <2>6, <3>1 DEF ReadFails, Issue, Session, Mint, Parse, Go
    <3>. QED  BY <1>1, <2>1, <2>6, <3>1, <3>2, KeptFits
  <2>7. CASE FileStep(t)
    <3>1. Kept(t)
      BY <2>7 DEF FileStep
    <3>2. PICK place \in {"idle", "read", "open", "fill", "loadKey", "makeKey", "findKey", "fillKey"} : Go(t, place)
      BY <2>7 DEF FileStep, Revoke, Look, Open, Fill, Rotate, FindKey, MakeKey, FillKey, LoadKey, FillFails, FillKeyFails
    <3>. QED  BY <1>1, <2>1, <3>1, <3>2, KeptFits
  <2>. QED  BY <1>3, <2>2, <2>3, <2>4, <2>5, <2>6, <2>7 DEF Step
<1>4. ASSUME NEW p \in Proc, Restart(p) PROVE RequestsInv'
  <2>1. /\ sso' = [sso EXCEPT ![p] = TRUE] /\ now' = now
        /\ since' = [since EXCEPT ![p] = IF sso[p] THEN @ ELSE now]
        /\ at' = [t \in Thread |-> IF P(t) = p THEN "idle" ELSE at[t]]
        /\ job' = [t \in Thread |-> IF P(t) = p THEN Idle ELSE job[t]]
    BY <1>4 DEF Restart
  <2>2. ASSUME NEW t \in Thread PROVE RequestFits(t)'
    <3>1. RequestFits(t) /\ P(t) \in Proc
      BY LoginAssumption DEF RequestsInv, P
    <3>. QED  BY <1>1, <2>1, <3>1 DEF RequestFits, Idle, P
  <2>. QED  BY <1>1, <2>1, <2>2 DEF RequestsInv
<1>. QED  BY <1>2, <1>3, <1>4 DEF Next

LEMMA StepPast == ASSUME FilesInv, RequestsInv, PastInv, [Next]_vars PROVE PastInv'
<1>1. /\ DOMAIN since = Proc /\ sso \in [Proc -> BOOLEAN] /\ now \in Nat
      /\ \A t \in Thread : RequestFits(t) /\ P(t) \in Proc
      /\ \A token \in tokens : token.issued \in 0..now
  BY LoginAssumption DEF RequestsInv, PastInv, P
<1>2. ASSUME UNCHANGED <<sso, since, tokens>>, now' \in {now, now + 1} PROVE PastInv'
  BY <1>1, <1>2 DEF PastInv, OperatorEndsUnderSso
<1>3. ASSUME NEW t \in Thread, Issue(t) PROVE PastInv'
  <2>. DEFINE token == [subject |-> job[t].subject, issued |-> now, secret |-> cookieFile,
                        settled |-> Undisturbed]
  <2>1. tokens' = tokens \cup {token} /\ token.issued = now /\ token.subject = job[t].subject
    BY <1>3 DEF Issue
  <2>. HIDE DEF token
  <2>2. PICK new : tokens' = tokens \cup {new} /\ new.issued = now /\ new.subject = job[t].subject
    BY <2>1
  <2>3. UNCHANGED <<sso, since, now>> /\ job[t].task = "issue"
    BY <1>3 DEF Issue, desk
  <2>4. \A k \in tokens' : k.issued \in 0..now'
    BY <1>1, <2>2, <2>3
  <2>5. new.subject = Operator => ~sso[P(t)] /\ P(t) \in Proc
    BY <1>1, <2>2, <2>3 DEF RequestFits
  <2>. QED  BY <2>2, <2>3, <2>4, <2>5 DEF PastInv, OperatorEndsUnderSso
<1>4. ASSUME NEW p \in Proc, Restart(p) PROVE PastInv'
  <2>1. /\ sso' = [sso EXCEPT ![p] = TRUE] /\ now' = now /\ tokens' = tokens
        /\ since' = [since EXCEPT ![p] = IF sso[p] THEN since[p] ELSE now]
    BY <1>4 DEF Restart
  <2>2. CASE sso[p]
    <3>1. sso' = sso /\ \A q \in Proc : since'[q] = since[q]
      BY <1>1, <2>1, <2>2
    <3>. QED  BY <2>1, <3>1 DEF PastInv, OperatorEndsUnderSso
  <2>3. CASE ~sso[p]
    <3>1. since'[p] = now
      BY <1>1, <2>1, <2>3
    <3>. QED  BY <1>1, <2>1, <3>1 DEF PastInv, OperatorEndsUnderSso
  <2>. QED  BY <2>2, <2>3
<1>5. ASSUME NEW t \in Thread, Step(t) PROVE Issue(t) \/ UNCHANGED <<sso, since, tokens, now>>
  BY <1>5 DEF Step, desk, Ask, Succeeded, Allow, Verify, Failed, Exchange, ReadFails, Session, Mint, Parse
<1>6. ASSUME NEW t \in Thread, FileStep(t) PROVE UNCHANGED <<sso, since, tokens, now>>
  BY <1>6 DEF FileStep, desk
<1>7. CASE UNCHANGED vars \/ Tick \/ Deleted
  BY <1>2, <1>7 DEF vars, Tick, Deleted, desk
<1>. QED  BY <1>2, <1>3, <1>4, <1>5, <1>6, <1>7 DEF Next

-----------------------------------------------------------------------------
LoginInv == FilesInv /\ TokensInv /\ RevokedInv /\ RequestsInv /\ PastInv

LEMMA InitLogin == Init => LoginInv
<1>. SUFFICES ASSUME Init PROVE LoginInv
  OBVIOUS
<1>1. site \in Sites /\ site.cookie \in {Missing, 1} /\ site.sso \in BOOLEAN
  BY LoginAssumption DEF Init
<1>2. FilesTypes
  <2>1. made \in 0..MaxSecrets /\ cookieFile \in {Missing, Torn} \cup 1..made
    <3>1. MaxSecrets \in Nat /\ 1 \in 0..MaxSecrets /\ 0 \in 0..MaxSecrets /\ Missing # 1
      BY FilesAssumption
    <3>2. CASE site.cookie = Missing
      <4>1. cookieFile = Missing /\ made = 0
        BY <3>2 DEF Init, FilesInit
      <4>. QED  BY <3>1, <4>1
    <3>3. CASE site.cookie = 1
      <4>1. cookieFile = 1 /\ made = 1
        BY <3>1, <3>3 DEF Init, FilesInit
      <4>. QED  BY <3>1, <4>1
    <3>. QED  BY <1>1, <3>2, <3>3
  <2>2. mine \in [Thread -> 0..MaxSecrets] /\ at \in [Thread -> Places] /\ keyFile \in Contents
    BY FilesAssumption DEF Init, FilesInit, NoSecret, Places, Contents
  <2>. QED  BY <2>1, <2>2 DEF FilesTypes
<1>3. KeyInv /\ SecretInv /\ FinalInv
  BY DEF Init, FilesInit, KeyInv, SecretInv, FinalInv
<1>4. TokensInv /\ RevokedInv /\ PastInv
  BY DEF Init, TokensInv, RevokedInv, PastInv, OperatorEndsUnderSso
<1>5. RequestsInv
  <2>1. job = [t \in Thread |-> Idle] /\ sso = [p \in Proc |-> site.sso] /\ since = [p \in Proc |-> Start]
        /\ now = Start /\ at = [t \in Thread |-> "idle"]
    BY DEF Init
  <2>2. Start \in Nat
    BY LimitsAreSet DEF Start
  <2>. QED  BY <1>1, <2>1, <2>2 DEF RequestsInv, RequestFits, Idle
<1>. QED  BY <1>2, <1>3, <1>4, <1>5 DEF LoginInv, FilesInv

LEMMA LoginHolds == Spec => []LoginInv
<1>1. LoginInv /\ [Next]_vars => LoginInv'
  BY StepFiles, StepTokens, StepRevoked, StepRequests, StepPast DEF LoginInv
<1>. QED  BY <1>1, InitLogin, PTL DEF Spec

\* Threads that come away with a signing key come away with the one on the
\* volume (OneSigningKey): ensure_custody_signing_key creates it under O_EXCL
\* and loads nothing that is not whole.
THEOREM OneKeyForAll == Spec => []OneSigningKey
<1>1. LoginInv => OneSigningKey
  BY DEF LoginInv, FilesInv, KeyInv, OneSigningKey
<1>. QED  BY <1>1, LoginHolds, PTL

\* A session signed while nobody was writing a first secret is honoured until
\* somebody revokes; no session from before a revocation is honoured again, but
\* one signed with the empty secret, and that one only while the file is empty
\* once more and only if somebody was about to write when it was revoked or the
\* owner deleted the file; and no operator's session is issued once every process
\* has an issuer (SessionsLastAsPromised): ensure_cookie_secret,
\* rotate_cookie_secret, login and oidc_callback, however their steps interleave
\* and whatever restarts.
THEOREM SessionsLast == Spec => []SessionsLastAsPromised
<1>1. LoginInv => SettledSessionsHold
  BY DEF LoginInv, TokensInv, Lasting, SettledSessionsHold
<1>2. LoginInv => RevokedStaysRevoked
  <2>. SUFFICES ASSUME LoginInv, NEW token \in revoked, token.secret = cookieFile
                PROVE  token.secret = Torn /\ ~final
    BY DEF RevokedStaysRevoked
  <2>1. token.secret = Torn
    BY DEF LoginInv, RevokedInv, TokensInv, Lasting
  <2>2. cookieFile \notin 1..made
    BY <2>1, Secrets DEF LoginInv, FilesInv, FilesTypes
  <2>. QED  BY <2>1, <2>2 DEF LoginInv, FilesInv, FinalInv
<1>3. LoginInv => OperatorEndsUnderSso
  BY DEF LoginInv, PastInv
<1>4. LoginInv => SessionsLastAsPromised
  BY <1>1, <1>2, <1>3 DEF SessionsLastAsPromised
<1>. QED  BY <1>4, LoginHolds, PTL

-----------------------------------------------------------------------------
(* The throttle.                                                            *)

\* A set of naturals has a least one.
LEMMA LeastOf ==
  ASSUME NEW T \in SUBSET Nat, T # {}
  PROVE  Min(T) \in T /\ \A i \in T : Min(T) <= i
<1>. DEFINE R == OpToRel(<, Nat)
<1>1. IsWellFoundedOn(R, Nat)
  BY NatLessThanWellFounded
<1>2. \A x \in Nat, y \in Nat : y < x => <<y, x>> \in R
  BY DEF OpToRel
<1>. HIDE DEF R
<1>3. PICK x \in T : \A y \in T : ~(<<y, x>> \in R)
  BY <1>1, WFMin
<1>4. ASSUME NEW y \in T PROVE x <= y
  <2>1. x \in Nat /\ y \in Nat /\ ~(<<y, x>> \in R)
    BY <1>3
  <2>2. ~(y < x)
    BY <1>2, <2>1
  <2>. QED  BY <2>1, <2>2
<1>. QED  BY <1>3, <1>4 DEF Min

Ordered(s) == \A i, j \in 1..Len(s) : i <= j => s[i] <= s[j]

\* q is s without some of its oldest, none of which counts any more.
Trims(s, q, time) ==
  \E drop \in 0..Len(s) :
    /\ q \in Seq(Nat) /\ Len(q) = Len(s) - drop
    /\ \A i \in 1..Len(q) : q[i] = s[i + drop]
    /\ \A i \in 1..drop : ~Counts(time, s[i])

LEMMA TrimsNone == ASSUME NEW s \in Seq(Nat), NEW time \in Nat PROVE Trims(s, s, time)
<1>1. 0 \in 0..Len(s) /\ Len(s) \in Nat
  OBVIOUS
<1>. QED  BY <1>1 DEF Trims

LEMMA TrimsTwice ==
  ASSUME NEW s \in Seq(Nat), NEW q, NEW r, NEW time \in Nat, Trims(s, q, time), Trims(q, r, time)
  PROVE  Trims(s, r, time)
<1>1. PICK d \in 0..Len(s) :
        /\ q \in Seq(Nat) /\ Len(q) = Len(s) - d
        /\ \A i \in 1..Len(q) : q[i] = s[i + d]
        /\ \A i \in 1..d : ~Counts(time, s[i])
  BY DEF Trims
<1>2. PICK e \in 0..Len(q) :
        /\ r \in Seq(Nat) /\ Len(r) = Len(q) - e
        /\ \A i \in 1..Len(r) : r[i] = q[i + e]
        /\ \A i \in 1..e : ~Counts(time, q[i])
  BY DEF Trims
<1>3. d + e \in 0..Len(s) /\ Len(r) = Len(s) - (d + e) /\ Len(s) \in Nat
  BY <1>1, <1>2
<1>4. \A i \in 1..Len(r) : r[i] = s[i + (d + e)]
  <2>. TAKE i \in 1..Len(r)
  <2>1. i + e \in 1..Len(q) /\ (i + e) + d = i + (d + e)
    BY <1>1, <1>2, <1>3
  <2>. QED  BY <1>1, <1>2, <2>1
<1>5. \A i \in 1..(d + e) : ~Counts(time, s[i])
  <2>. TAKE i \in 1..(d + e)
  <2>1. CASE i <= d
    BY <1>1, <2>1
  <2>2. CASE i > d
    <3>1. i - d \in 1..e /\ i - d \in 1..Len(q) /\ (i - d) + d = i
      BY <1>1, <1>2, <2>2
    <3>. QED  BY <1>1, <1>2, <3>1
  <2>. QED  BY <1>1, <2>1, <2>2
<1>. QED  BY <1>2, <1>3, <1>4, <1>5 DEF Trims

\* Pruning trims, and what it leaves counts.
LEMMA PrunedTrims ==
  ASSUME NEW s \in Seq(Nat), Ordered(s), NEW time \in Nat
  PROVE  /\ Trims(s, Pruned(s, time), time)
         /\ \A i \in 1..Len(Pruned(s, time)) : Counts(time, Pruned(s, time)[i])
<1>. DEFINE live == {i \in 1..Len(s) : Counts(time, s[i])}
            q == Pruned(s, time)
<1>0. Len(s) \in Nat /\ \A i \in 1..Len(s) : s[i] \in Nat
  OBVIOUS
<1>1. CASE live = {}
  <2>1. q = << >>
    BY <1>1 DEF Pruned
  <2>2. q \in Seq(Nat) /\ Len(q) = 0
    BY <2>1
  <2>. HIDE DEF q
  <2>. QED  BY <1>0, <1>1, <2>2 DEF Trims, q
<1>2. CASE live # {}
  <2>. DEFINE m == Min(live)
  <2>1. m \in live /\ \A i \in live : m <= i
    <3>1. live \in SUBSET Nat
      OBVIOUS
    <3>. HIDE DEF live
    <3>. QED  BY <1>2, <3>1, LeastOf
  <2>2. q = SubSeq(s, m, Len(s))
    BY <1>2 DEF Pruned
  <2>. HIDE DEF m
  <2>3. m \in 1..Len(s) /\ Counts(time, s[m]) /\ \A i \in 1..(m - 1) : ~Counts(time, s[i])
    BY <1>0, <2>1
  <2>4. q \in Seq(Nat) /\ Len(q) = Len(s) - (m - 1) /\ \A i \in 1..Len(q) : q[i] = s[i + (m - 1)]
    <3>1. Len(q) = Len(s) - m + 1 /\ \A i \in 1..(Len(s) - m + 1) : q[i] = s[m + i - 1]
      BY <1>0, <2>2, <2>3
    <3>2. q \in Seq(Nat)
      BY <1>0, <2>2, <2>3
    <3>. HIDE DEF q
    <3>3. \A i \in 1..Len(q) : q[i] = s[i + (m - 1)]
      <4>. TAKE i \in 1..Len(q)
      <4>1. i + (m - 1) = m + i - 1 /\ i \in 1..(Len(s) - m + 1)
        BY <1>0, <2>3, <3>1
      <4>. QED  BY <3>1, <4>1
    <3>. QED  BY <1>0, <2>3, <3>1, <3>2, <3>3
  <2>. HIDE DEF q, live
  <2>5. Trims(s, q, time)
    <3>1. m - 1 \in 0..Len(s)
      BY <1>0, <2>3
    <3>. QED  BY <2>3, <2>4, <3>1 DEF Trims
  <2>6. \A i \in 1..Len(q) : Counts(time, q[i])
    <3>. TAKE i \in 1..Len(q)
    <3>1. i + (m - 1) \in 1..Len(s) /\ m <= i + (m - 1)
      BY <1>0, <2>3, <2>4
    <3>2. s[m] <= s[i + (m - 1)]
      BY <2>3, <3>1 DEF Ordered
    <3>3. q[i] \in Nat /\ q[i] = s[i + (m - 1)] /\ s[m] \in Nat
      BY <1>0, <2>3, <2>4, <3>1
    <3>. QED  BY <2>3, <3>2, <3>3, LimitsAreSet DEF Counts
  <2>. QED  BY <2>5, <2>6 DEF q
<1>. QED  BY <1>1, <1>2

\* What the throttle keeps of one peer: the failures in the order they came,
\* and a lockout that any full set of them has started.
PeerInv(wins, until, time) ==
  /\ wins \in Seq(Nat) /\ Ordered(wins)
  /\ \A i \in 1..Len(wins) : wins[i] \in Start..time
  /\ until = Never \/ until \in Start..(time + Lockout)
  /\ Len(wins) >= MaxFailures => until # Never
  /\ until > time /\ wins # << >> =>
       /\ until <= wins[Len(wins)] + Lockout
       /\ Len(wins) >= MaxFailures => until = wins[Len(wins)] + Lockout

Cold(wins, until, swept) ==
  /\ \A i \in 1..Len(wins) : wins[i] + Window >= swept
  /\ until # Never => until > swept

\* The time takes failures out of the window, and a lockout that is over takes
\* all of them with it.
Ages(wins, until, q, u, time) ==
  \/ Trims(wins, q, time) /\ u = until
  \/ until # Never /\ until <= time /\ q = << >> /\ u = Never

LEMMA Limits ==
  /\ Start \in Nat /\ Start > Window /\ Window \in Nat /\ Window > 0
  /\ Lockout \in Nat /\ Lockout > 0 /\ MaxFailures \in Nat /\ MaxFailures > 0 /\ Never = 0
BY LimitsAreSet DEF Start, Never

LEMMA AgesKeeps ==
  ASSUME NEW time \in Nat, NEW wins, NEW until, NEW q, NEW u, PeerInv(wins, until, time),
         Ages(wins, until, q, u, time)
  PROVE  /\ PeerInv(q, u, time)
         /\ \A swept \in Nat : Cold(wins, until, swept) => Cold(q, u, swept)
<1>0. /\ wins \in Seq(Nat) /\ Len(wins) \in Nat
      /\ until \in Nat
  BY Limits DEF PeerInv
<1>1. CASE until # Never /\ until <= time /\ q = << >> /\ u = Never
  <2>1. q \in Seq(Nat) /\ Len(q) = 0
    BY <1>1
  <2>. QED  BY <1>1, <2>1, Limits DEF PeerInv, Cold, Ordered
<1>2. CASE Trims(wins, q, time) /\ u = until
  <2>1. PICK drop \in 0..Len(wins) :
          /\ q \in Seq(Nat) /\ Len(q) = Len(wins) - drop
          /\ \A i \in 1..Len(q) : q[i] = wins[i + drop]
    BY <1>2 DEF Trims
  <2>2. \A i \in 1..Len(q) : i + drop \in 1..Len(wins)
    <3>1. Len(wins) \in Nat /\ drop \in Nat /\ drop <= Len(wins)
      BY <1>0
    <3>2. Len(q) = Len(wins) - drop
      BY <2>1
    <3>. SUFFICES ASSUME NEW i \in 1..Len(q) PROVE i + drop \in 1..Len(wins)
      OBVIOUS
    <3>3. i \in Nat /\ 1 <= i /\ i <= Len(wins) - drop
      BY <3>1, <3>2
    <3>. QED  BY <3>1, <3>3
  <2>3. Ordered(q)
    <3>1. ASSUME NEW i \in 1..Len(q), NEW j \in 1..Len(q), i <= j PROVE q[i] <= q[j]
      <4>1. i + drop <= j + drop /\ i + drop \in 1..Len(wins) /\ j + drop \in 1..Len(wins)
        BY <1>0, <2>1, <2>2, <3>1
      <4>2. q[i] = wins[i + drop] /\ q[j] = wins[j + drop]
        BY <2>1
      <4>. QED  BY <4>1, <4>2 DEF PeerInv, Ordered
    <3>. QED  BY <3>1 DEF Ordered
  <2>4. q # << >> => wins # << >> /\ q[Len(q)] = wins[Len(wins)]
    <3>. SUFFICES ASSUME q # << >> PROVE wins # << >> /\ q[Len(q)] = wins[Len(wins)]
      OBVIOUS
    <3>1. Len(q) \in 1..Len(q)
      BY <2>1
    <3>2. Len(q) + drop = Len(wins)
      BY <1>0, <2>1
    <3>3. q[Len(q)] = wins[Len(q) + drop] /\ Len(q) + drop \in 1..Len(wins)
      BY <2>1, <2>2, <3>1
    <3>. QED  BY <3>2, <3>3, <1>0
  <2>5. \A i \in 1..Len(q) : q[i] \in Start..time
    BY <2>1, <2>2 DEF PeerInv
  <2>6. Len(q) <= Len(wins)
    BY <1>0, <2>1
  <2>7. \A swept \in Nat : Cold(wins, until, swept) => Cold(q, u, swept)
    BY <1>2, <2>1, <2>2 DEF Cold
  <2>8. until > time /\ q # << >> =>
         /\ until <= q[Len(q)] + Lockout
         /\ Len(q) >= MaxFailures => until = q[Len(q)] + Lockout
    <3>1. Len(q) >= MaxFailures => Len(wins) >= MaxFailures
      BY <1>0, <2>1, <2>6, Limits
    <3>. QED  BY <2>4, <3>1 DEF PeerInv
  <2>9. Len(q) >= MaxFailures => until # Never
    <3>1. Len(q) >= MaxFailures => Len(wins) >= MaxFailures
      BY <1>0, <2>1, <2>6, Limits
    <3>. QED  BY <3>1 DEF PeerInv
  <2>. QED  BY <1>2, <2>1, <2>3, <2>5, <2>7, <2>8, <2>9 DEF PeerInv
<1>. QED  BY <1>1, <1>2 DEF Ages

LEMMA LaterPeer ==
  ASSUME NEW time \in Nat, NEW wins, NEW until, PeerInv(wins, until, time)
  PROVE  PeerInv(wins, until, time + 1)
<1>1. until = Never \/ until \in Start..(time + 1 + Lockout)
  BY Limits DEF PeerInv
<1>2. \A i \in 1..Len(wins) : wins[i] \in Start..(time + 1)
  BY Limits DEF PeerInv
<1>3. until > time + 1 => until > time
  BY Limits DEF PeerInv
<1>. QED  BY <1>1, <1>2, <1>3 DEF PeerInv

LEMMA FailurePeer ==
  ASSUME NEW time \in Nat, Start <= time, NEW wins, NEW until, PeerInv(wins, until, time),
         NEW q, q = Append(wins, time),
         NEW u, u = IF Len(q) >= MaxFailures THEN time + Lockout ELSE until
  PROVE  /\ PeerInv(q, u, time)
         /\ \A swept \in 0..time : Cold(wins, until, swept) => Cold(q, u, swept)
<1>1. /\ wins \in Seq(Nat) /\ Len(wins) \in Nat /\ Start \in Nat /\ Lockout \in Nat /\ Lockout > 0
      /\ until \in Nat /\ until <= time + Lockout
  BY Limits DEF PeerInv
<1>2. /\ q \in Seq(Nat) /\ Len(q) = Len(wins) + 1 /\ q[Len(wins) + 1] = time
      /\ \A i \in 1..Len(wins) : q[i] = wins[i]
  BY <1>1
<1>3. \A i \in 1..Len(q) : i \in 1..Len(wins) \/ i = Len(wins) + 1
  BY <1>1, <1>2
<1>4. \A i \in 1..Len(q) : q[i] \in Start..time
  BY <1>1, <1>2, <1>3 DEF PeerInv
<1>5. Ordered(q)
  <2>1. ASSUME NEW i \in 1..Len(q), NEW j \in 1..Len(q), i <= j PROVE q[i] <= q[j]
    <3>1. CASE j = Len(wins) + 1
      BY <1>1, <1>2, <1>4, <3>1
    <3>2. CASE j # Len(wins) + 1
      <4>1. j \in 1..Len(wins) /\ i \in 1..Len(wins)
        BY <1>1, <1>2, <1>3, <2>1, <3>2
      <4>. QED  BY <1>2, <2>1, <4>1 DEF PeerInv, Ordered
    <3>. QED  BY <3>1, <3>2
  <2>. QED  BY <2>1 DEF Ordered
<1>6. u \in Nat /\ (u = Never \/ u \in Start..(time + Lockout)) /\ (Len(q) >= MaxFailures => u # Never)
  BY <1>1, Limits DEF PeerInv
<1>7. /\ u <= q[Len(q)] + Lockout
      /\ Len(q) >= MaxFailures => u = q[Len(q)] + Lockout
  BY <1>1, <1>2
<1>8. ASSUME NEW swept \in 0..time, Cold(wins, until, swept) PROVE Cold(q, u, swept)
  <2>1. \A i \in 1..Len(q) : q[i] + Window >= swept
    <3>. TAKE i \in 1..Len(q)
    <3>1. time + Window >= swept
      BY Limits
    <3>. QED  BY <1>2, <1>3, <1>8, <3>1 DEF Cold
  <2>2. u # Never => u > swept
    <3>1. time + Lockout > swept
      BY <1>1
    <3>. QED  BY <1>8, <3>1 DEF Cold
  <2>. QED  BY <2>1, <2>2 DEF Cold
<1>. QED  BY <1>2, <1>4, <1>5, <1>6, <1>7, <1>8 DEF PeerInv

Throttles == [failures : [Peer -> Seq(Nat)], locked : [Peer -> Nat], swept : Nat]

ThrottleOK(th, time) ==
  /\ th \in Throttles /\ th.swept <= time
  /\ \A k \in Peer : /\ PeerInv(th.failures[k], th.locked[k], time)
                     /\ Cold(th.failures[k], th.locked[k], th.swept)

AgesAt(th, s, k, time) == Ages(th.failures[k], th.locked[k], s.failures[k], s.locked[k], time)

LEMMA AgesNone ==
  ASSUME NEW time \in Nat, NEW th \in Throttles, NEW s, NEW k \in Peer,
         s.failures[k] = th.failures[k], s.locked[k] = th.locked[k]
  PROVE  AgesAt(th, s, k, time)
<1>1. th.failures[k] \in Seq(Nat)
  BY DEF Throttles
<1>. QED  BY <1>1, TrimsNone DEF AgesAt, Ages

LEMMA AgesTwice ==
  ASSUME NEW time \in Nat, NEW wins \in Seq(Nat), NEW until, NEW q, NEW u, NEW r, NEW v,
         Ages(wins, until, q, u, time), Ages(q, u, r, v, time)
  PROVE  Ages(wins, until, r, v, time)
<1>1. CASE Trims(wins, q, time) /\ u = until /\ Trims(q, r, time) /\ v = u
  BY <1>1, TrimsTwice DEF Ages
<1>2. CASE Trims(wins, q, time) /\ u = until /\ u # Never /\ u <= time /\ r = << >> /\ v = Never
  BY <1>2 DEF Ages
<1>3. CASE until # Never /\ until <= time /\ q = << >> /\ u = Never
  <2>1. Trims(q, r, time) /\ v = u
    BY <1>3 DEF Ages
  <2>2. r = << >>
    <3>1. r \in Seq(Nat) /\ Len(r) = 0
      BY <1>3, <2>1 DEF Trims
    <3>. QED  BY <3>1
  <2>. QED  BY <1>3, <2>1, <2>2 DEF Ages
<1>. QED  BY <1>1, <1>2, <1>3 DEF Ages

\* What ages everywhere, and forgets no later than it sweeps, stays right.
LEMMA AgesRight ==
  ASSUME NEW time \in Nat, NEW th, ThrottleOK(th, time), NEW s \in Throttles,
         s.swept = th.swept, \A k \in Peer : AgesAt(th, s, k, time)
  PROVE  ThrottleOK(s, time)
<1>. th.swept \in Nat
  BY DEF ThrottleOK, Throttles
<1>1. ASSUME NEW k \in Peer
      PROVE  PeerInv(s.failures[k], s.locked[k], time) /\ Cold(s.failures[k], s.locked[k], s.swept)
  <2>1. PeerInv(th.failures[k], th.locked[k], time) /\ Cold(th.failures[k], th.locked[k], th.swept)
    BY DEF ThrottleOK
  <2>. QED  BY <2>1, AgesKeeps DEF AgesAt
<1>. QED  BY <1>1 DEF ThrottleOK

LEMMA SweepAges ==
  ASSUME NEW time \in Nat, NEW th, ThrottleOK(th, time), NEW s, s = Sweep(th, time)
  PROVE  ThrottleOK(s, time) /\ \A k \in Peer : AgesAt(th, s, k, time)
<1>0. /\ th \in Throttles /\ th.failures \in [Peer -> Seq(Nat)] /\ th.locked \in [Peer -> Nat]
      /\ th.swept \in Nat /\ th.swept <= time
  BY DEF ThrottleOK, Throttles
<1>1. CASE th.swept + Window > time
  <2>1. s = th
    BY <1>1 DEF Sweep
  <2>. QED  BY <1>0, <2>1, AgesNone
<1>2. CASE ~(th.swept + Window > time)
  <2>1. /\ s.swept = time
        /\ s.failures = [k \in Peer |-> IF Spent(th, k, time) THEN << >>
                                        ELSE Pruned(th.failures[k], time)]
        /\ s.locked = [k \in Peer |-> IF Spent(th, k, time) THEN Never ELSE th.locked[k]]
        /\ s = [failures |-> s.failures, locked |-> s.locked, swept |-> s.swept]
    BY <1>2 DEF Sweep
  <2>2. ASSUME NEW k \in Peer
        PROVE  /\ s.failures[k] \in Seq(Nat) /\ s.locked[k] \in Nat
               /\ AgesAt(th, s, k, time) /\ PeerInv(s.failures[k], s.locked[k], time)
               /\ Cold(s.failures[k], s.locked[k], time)
    <3>0. PeerInv(th.failures[k], th.locked[k], time) /\ th.failures[k] \in Seq(Nat)
          /\ th.locked[k] \in Nat /\ Ordered(th.failures[k])
      BY <1>0 DEF ThrottleOK, PeerInv
    <3>1. CASE Spent(th, k, time)
      <4>1. s.failures[k] = << >> /\ s.locked[k] = Never
        BY <2>1, <3>1
      <4>2. AgesAt(th, s, k, time)
        BY <3>1, <4>1 DEF Spent, Ages, AgesAt
      <4>3. s.failures[k] \in Seq(Nat) /\ Len(s.failures[k]) = 0
        BY <4>1
      <4>. QED  BY <3>0, <4>1, <4>2, <4>3, AgesKeeps, Limits DEF AgesAt, Cold
    <3>2. CASE ~Spent(th, k, time)
      <4>1. s.failures[k] = Pruned(th.failures[k], time) /\ s.locked[k] = th.locked[k]
        BY <2>1, <3>2
      <4>2. Trims(th.failures[k], s.failures[k], time)
            /\ \A i \in 1..Len(s.failures[k]) : Counts(time, s.failures[k][i])
        BY <3>0, <4>1, PrunedTrims
      <4>3. AgesAt(th, s, k, time)
        BY <4>1, <4>2 DEF Ages, AgesAt
      <4>4. s.failures[k] \in Seq(Nat)
        BY <4>2 DEF Trims
      <4>5. Cold(s.failures[k], s.locked[k], time)
        BY <3>0, <3>2, <4>1, <4>2 DEF Cold, Counts, Spent
      <4>6. PeerInv(s.failures[k], s.locked[k], time)
        BY <3>0, <4>3, AgesKeeps DEF AgesAt
      <4>. QED  BY <3>0, <4>1, <4>3, <4>4, <4>5, <4>6
    <3>. QED  BY <3>1, <3>2
  <2>3. s \in Throttles
    <3>1. s.failures \in [Peer -> Seq(Nat)]
      <4>1. DOMAIN s.failures = Peer /\ s.failures = [k \in Peer |-> s.failures[k]]
        BY <2>1
      <4>. QED  BY <2>2, <4>1
    <3>2. s.locked \in [Peer -> Nat]
      <4>1. DOMAIN s.locked = Peer /\ s.locked = [k \in Peer |-> s.locked[k]]
        BY <2>1
      <4>. QED  BY <2>2, <4>1
    <3>. QED  BY <2>1, <3>1, <3>2 DEF Throttles
  <2>. QED  BY <2>1, <2>2, <2>3 DEF ThrottleOK
<1>. QED  BY <1>1, <1>2

LEMMA ForgivenIs ==
  ASSUME NEW th \in Throttles, NEW k \in Peer, NEW s, s = Forgiven(th, k)
  PROVE  /\ s \in Throttles /\ s.swept = th.swept
         /\ s.failures[k] = << >> /\ s.locked[k] = Never
         /\ \A j \in Peer \ {k} : s.failures[j] = th.failures[j] /\ s.locked[j] = th.locked[j]
<1>1. << >> \in Seq(Nat) /\ Never \in Nat
  BY Limits
<1>2. s = [failures |-> [th.failures EXCEPT ![k] = << >>],
           locked |-> [th.locked EXCEPT ![k] = Never], swept |-> th.swept]
  BY DEF Forgiven, Throttles
<1>3. th.failures \in [Peer -> Seq(Nat)] /\ th.locked \in [Peer -> Nat] /\ th.swept \in Nat
  BY DEF Throttles
<1>4. /\ s.failures = [th.failures EXCEPT ![k] = << >>]
      /\ s.locked = [th.locked EXCEPT ![k] = Never] /\ s.swept = th.swept
  BY <1>2
<1>5. s.failures \in [Peer -> Seq(Nat)] /\ s.locked \in [Peer -> Nat]
  BY <1>1, <1>3, <1>4
<1>6. s \in Throttles
  BY <1>2, <1>3, <1>4, <1>5 DEF Throttles
<1>. QED  BY <1>3, <1>4, <1>6

LEMMA ForgivenRight ==
  ASSUME NEW time \in Nat, NEW th, ThrottleOK(th, time), NEW k \in Peer,
         NEW s, s = Forgiven(th, k)
  PROVE  ThrottleOK(s, time)
<1>1. th \in Throttles /\ th.swept <= time
  BY DEF ThrottleOK
<1>2. /\ s \in Throttles /\ s.swept = th.swept
      /\ s.failures[k] = << >> /\ s.locked[k] = Never
      /\ \A j \in Peer \ {k} : s.failures[j] = th.failures[j] /\ s.locked[j] = th.locked[j]
  BY <1>1, ForgivenIs
<1>3. PeerInv(<< >>, Never, time) /\ Cold(<< >>, Never, s.swept)
  <2>1. << >> \in Seq(Nat) /\ Len(<< >>) = 0
    OBVIOUS
  <2>. QED  BY <2>1, Limits DEF PeerInv, Cold, Ordered
<1>. QED  BY <1>1, <1>2, <1>3 DEF ThrottleOK

LEMMA UntouchedRight == ASSUME NEW time \in Nat PROVE ThrottleOK(Untouched, time)
<1>1. << >> \in Seq(Nat) /\ Len(<< >>) = 0
  OBVIOUS
<1>2. Untouched \in Throttles /\ Untouched.swept = 0
  BY <1>1, Limits DEF Untouched, Throttles
<1>3. \A k \in Peer : Untouched.failures[k] = << >> /\ Untouched.locked[k] = Never
  BY DEF Untouched
<1>4. PeerInv(<< >>, Never, time) /\ Cold(<< >>, Never, 0)
  BY <1>1, Limits DEF PeerInv, Cold, Ordered
<1>. QED  BY <1>2, <1>3, <1>4 DEF ThrottleOK

\* The throttle only ages when it is asked.  It lets through where there is no
\* lockout and room for a failure; it never has to start a lockout late.
LEMMA AllowAges ==
  ASSUME NEW time \in Nat, NEW th, ThrottleOK(th, time), NEW k \in Peer,
         NEW s, s = AfterAllow(th, k, time)
  PROVE  /\ ThrottleOK(s, time) /\ \A j \in Peer : AgesAt(th, s, j, time)
         /\ Allows(th, k, time) => s.locked[k] = Never /\ Len(s.failures[k]) < MaxFailures
<1>1. PICK m : m = Sweep(th, time)
  OBVIOUS
<1>2. ThrottleOK(m, time) /\ \A j \in Peer : AgesAt(th, m, j, time)
  BY <1>1, SweepAges
<1>3. /\ m \in Throttles /\ m.failures \in [Peer -> Seq(Nat)] /\ m.locked \in [Peer -> Nat]
      /\ PeerInv(m.failures[k], m.locked[k], time) /\ m.swept \in Nat
  BY <1>2 DEF ThrottleOK, Throttles
<1>4. CASE LockedOut(m, k, time)
  <2>1. s = m
    BY <1>1, <1>4 DEF AfterAllow
  <2>2. ~Allows(th, k, time)
    BY <1>4, <2>1 DEF Allows
  <2>. QED  BY <1>2, <2>1, <2>2
<1>5. CASE ~LockedOut(m, k, time)
  <2>1. PICK t : t = IF Spent(m, k, time) THEN Forgiven(m, k)
                     ELSE [m EXCEPT !.failures[k] = Pruned(@, time)]
    OBVIOUS
  <2>2. /\ t \in Throttles /\ t.swept = m.swept /\ t.locked[k] = Never
        /\ \A j \in Peer : AgesAt(m, t, j, time)
    <3>1. CASE Spent(m, k, time)
      <4>1. /\ t \in Throttles /\ t.swept = m.swept
            /\ t.failures[k] = << >> /\ t.locked[k] = Never
            /\ \A j \in Peer \ {k} : t.failures[j] = m.failures[j] /\ t.locked[j] = m.locked[j]
        BY <1>3, <2>1, <3>1, ForgivenIs
      <4>2. AgesAt(m, t, k, time)
        BY <3>1, <4>1 DEF Spent, AgesAt, Ages
      <4>. QED  BY <1>3, <4>1, <4>2, AgesNone
    <3>2. CASE ~Spent(m, k, time)
      <4>1. PICK q : q = Pruned(m.failures[k], time)
        OBVIOUS
      <4>2. Trims(m.failures[k], q, time) /\ q \in Seq(Nat)
        <5>1. m.failures[k] \in Seq(Nat) /\ Ordered(m.failures[k])
          BY <1>3 DEF PeerInv
        <5>2. Trims(m.failures[k], q, time)
          BY <4>1, <5>1, PrunedTrims
        <5>. QED  BY <5>2 DEF Trims
      <4>3. t = [failures |-> [m.failures EXCEPT ![k] = q], locked |-> m.locked, swept |-> m.swept]
        BY <1>3, <2>1, <3>2, <4>1 DEF Throttles
      <4>4. /\ t.failures = [m.failures EXCEPT ![k] = q] /\ t.locked = m.locked
            /\ t.swept = m.swept
        BY <4>3
      <4>5. t.failures \in [Peer -> Seq(Nat)] /\ t \in Throttles
        BY <1>3, <4>2, <4>3, <4>4 DEF Throttles
      <4>6. m.locked[k] = Never
        BY <1>3, <1>5, <3>2, Limits DEF LockedOut, Spent
      <4>7. AgesAt(m, t, k, time)
        BY <1>3, <4>2, <4>4 DEF AgesAt, Ages
      <4>. QED  BY <1>3, <4>4, <4>5, <4>6, <4>7, AgesNone
    <3>. QED  BY <3>1, <3>2
  <2>3. ThrottleOK(t, time)
    BY <1>2, <2>2, AgesRight
  <2>4. Len(t.failures[k]) < MaxFailures
    <3>1. t.failures[k] \in Seq(Nat)
      BY <2>2 DEF Throttles
    <3>. QED  BY <2>2, <2>3, <3>1, Limits DEF ThrottleOK, PeerInv
  <2>5. s = t
    <3>1. ~(Len(t.failures[k]) >= MaxFailures)
      BY <2>2, <2>3 DEF ThrottleOK, PeerInv
    <3>2. s = IF Len(t.failures[k]) >= MaxFailures
              THEN [t EXCEPT !.locked[k] = time + Lockout] ELSE t
      BY <1>1, <1>5, <2>1 DEF AfterAllow
    <3>. QED  BY <3>1, <3>2
  <2>6. ASSUME NEW j \in Peer PROVE AgesAt(th, s, j, time)
    <3>1. th.failures[j] \in Seq(Nat)
      BY DEF ThrottleOK, Throttles
    <3>. QED  BY <1>2, <2>2, <2>5, <3>1, AgesTwice DEF AgesAt
  <2>. QED  BY <2>2, <2>3, <2>4, <2>5, <2>6
<1>. QED  BY <1>4, <1>5

\* What was there has aged; a failure follows it.
Records(wins, until, times, u, time) ==
  \E q, v : /\ Ages(wins, until, q, v, time) /\ q \in Seq(Nat) /\ times = Append(q, time)
           /\ u = IF Len(times) >= MaxFailures THEN time + Lockout ELSE v

\* A failure is recorded after what was there, and completes a lockout's set.
LEMMA FailureRecords ==
  ASSUME NEW time \in Nat, Start <= time, NEW th, ThrottleOK(th, time), NEW k \in Peer,
         NEW s, s = AfterFailure(th, k, time)
  PROVE  /\ ThrottleOK(s, time) /\ \A j \in Peer \ {k} : AgesAt(th, s, j, time)
         /\ Records(th.failures[k], th.locked[k], s.failures[k], s.locked[k], time)
<1>1. PICK m : m = Sweep(th, time)
  OBVIOUS
<1>2. ThrottleOK(m, time) /\ \A j \in Peer : AgesAt(th, m, j, time)
  BY <1>1, SweepAges
<1>3. /\ m \in Throttles /\ m.failures \in [Peer -> Seq(Nat)] /\ m.locked \in [Peer -> Nat]
      /\ PeerInv(m.failures[k], m.locked[k], time) /\ m.swept \in 0..time
      /\ Cold(m.failures[k], m.locked[k], m.swept) /\ th.failures[k] \in Seq(Nat)
  BY <1>2 DEF ThrottleOK, Throttles
<1>4. PICK q : q = Pruned(m.failures[k], time)
  OBVIOUS
<1>5. Ages(m.failures[k], m.locked[k], q, m.locked[k], time) /\ q \in Seq(Nat)
  BY <1>3, <1>4, PrunedTrims DEF PeerInv, Trims, Ages
<1>6. PICK times : times = Append(q, time)
  OBVIOUS
<1>7. PICK u : u = IF Len(times) >= MaxFailures THEN time + Lockout ELSE m.locked[k]
  OBVIOUS
<1>8. PeerInv(times, u, time) /\ Cold(times, u, m.swept)
  <2>1. PeerInv(q, m.locked[k], time) /\ Cold(q, m.locked[k], m.swept)
    BY <1>3, <1>5, AgesKeeps
  <2>2. PeerInv(times, u, time) /\ \A swept \in 0..time : Cold(q, m.locked[k], swept) => Cold(times, u, swept)
    BY <1>6, <1>7, <2>1, FailurePeer
  <2>. QED  BY <1>3, <2>1, <2>2
<1>9. s = [failures |-> [m.failures EXCEPT ![k] = times],
           locked |-> [m.locked EXCEPT ![k] = u], swept |-> m.swept]
  <2>1. s = [m EXCEPT !.failures[k] = times,
                      !.locked[k] = IF Len(times) >= MaxFailures THEN time + Lockout ELSE @]
    BY <1>1, <1>4, <1>6 DEF AfterFailure
  <2>. QED  BY <1>3, <1>7, <2>1 DEF Throttles
<1>10. /\ s.failures = [m.failures EXCEPT ![k] = times] /\ s.locked = [m.locked EXCEPT ![k] = u]
       /\ s.swept = m.swept
  BY <1>9
<1>11. times \in Seq(Nat) /\ u \in Nat
  BY <1>5, <1>6, <1>8, Limits DEF PeerInv
<1>12. s.failures \in [Peer -> Seq(Nat)] /\ s.locked \in [Peer -> Nat] /\ s \in Throttles
  BY <1>3, <1>9, <1>10, <1>11 DEF Throttles
<1>13. s.failures[k] = times /\ s.locked[k] = u
       /\ \A j \in Peer \ {k} : s.failures[j] = m.failures[j] /\ s.locked[j] = m.locked[j]
  BY <1>3, <1>10
<1>14. ThrottleOK(s, time)
  BY <1>2, <1>8, <1>10, <1>12, <1>13 DEF ThrottleOK
<1>15. \A j \in Peer \ {k} : AgesAt(th, s, j, time)
  BY <1>2, <1>13 DEF AgesAt
<1>16. Ages(th.failures[k], th.locked[k], q, m.locked[k], time)
  BY <1>2, <1>3, <1>5, AgesTwice DEF AgesAt
<1>17. Records(th.failures[k], th.locked[k], s.failures[k], s.locked[k], time)
  BY <1>5, <1>6, <1>7, <1>13, <1>16 DEF Records
<1>. QED  BY <1>14, <1>15, <1>17

-----------------------------------------------------------------------------
(* The throttles of the processes.                                          *)

ThrottleInv ==
  /\ site \in Sites /\ now \in Start..(Start + site.clock)
  /\ throttle = [p \in Proc |-> throttle[p]]
  /\ \A p \in Proc : ThrottleOK(throttle[p], now)

\* A step keeps every throttle, or hands one of them an answer or a verdict.
ThrottleStep ==
  \/ throttle' = throttle
  \/ \E t \in Thread : Allow(t) \/ Failed(t) \/ Succeeded(t)
  \/ \E p \in Proc : throttle' = [throttle EXCEPT ![p] = Untouched]

LEMMA ThrottleOfNext ==
  ASSUME [Next]_vars
  PROVE  /\ ThrottleStep /\ site' = site
         /\ now' = now \/ (Tick /\ now' = now + 1 /\ throttle' = throttle)
<1>1. ASSUME NEW t \in Thread, Step(t)
      PROVE  /\ throttle' = throttle \/ Allow(t) \/ Failed(t) \/ Succeeded(t)
             /\ UNCHANGED <<site, now>>
  BY <1>1 DEF Step, desk, Ask, Succeeded, Allow, Verify, Failed, Exchange, ReadFails, Issue, Session,
              Mint, Parse
<1>2. ASSUME NEW t \in Thread, FileStep(t) PROVE UNCHANGED <<throttle, site, now>>
  BY <1>2 DEF FileStep, desk
<1>3. ASSUME NEW p \in Proc, Restart(p)
      PROVE  throttle' = [throttle EXCEPT ![p] = Untouched] /\ UNCHANGED <<site, now>>
  BY <1>3 DEF Restart
<1>4. Deleted => UNCHANGED <<throttle, site, now>>
  BY DEF Deleted, desk
<1>5. Tick => UNCHANGED <<throttle, site>> /\ now' = now + 1
  BY DEF Tick
<1>6. UNCHANGED vars => UNCHANGED <<throttle, site, now>>
  BY DEF vars
<1>. QED  BY <1>1, <1>2, <1>3, <1>4, <1>5, <1>6 DEF Next, ThrottleStep

LEMMA LaterThrottle ==
  ASSUME NEW time \in Nat, NEW th, ThrottleOK(th, time) PROVE ThrottleOK(th, time + 1)
<1>1. th \in Throttles /\ th.swept <= time + 1
  BY DEF ThrottleOK, Throttles
<1>. QED  BY <1>1, LaterPeer DEF ThrottleOK

LEMMA OneThrottle ==
  ASSUME ThrottleInv, NEW p \in Proc, NEW th, throttle' = [throttle EXCEPT ![p] = th],
         ThrottleOK(th, now), UNCHANGED <<site, now>>
  PROVE  ThrottleInv'
<1>1. DOMAIN throttle = Proc
  BY DEF ThrottleInv
<1>2. \A q \in Proc : throttle'[q] = IF q = p THEN th ELSE throttle[q]
  BY <1>1
<1>3. throttle' = [q \in Proc |-> throttle'[q]]
  BY <1>1
<1>. QED  BY <1>2, <1>3 DEF ThrottleInv

LEMMA Owners == \A t \in Thread : P(t) \in Proc /\ K(t) \in Peer
  BY LoginAssumption DEF P, K

LEMMA StepThrottle == ASSUME ThrottleInv, [Next]_vars PROVE ThrottleInv'
<1>1. /\ now \in Nat /\ Start <= now /\ Start \in Nat /\ DOMAIN throttle = Proc
      /\ \A p \in Proc : ThrottleOK(throttle[p], now)
  <2>1. site.clock \in Nat
    BY LoginAssumption DEF ThrottleInv
  <2>. QED  BY <2>1, Limits DEF ThrottleInv
<1>2. CASE throttle' = throttle
  <2>1. CASE now' = now
    BY <1>2, <2>1, ThrottleOfNext DEF ThrottleInv
  <2>2. CASE now' = now + 1 /\ Tick
    <3>1. now' \in Start..(Start + site.clock)
      <4>1. site.clock \in Nat /\ now < Start + site.clock
        BY <2>2, LoginAssumption DEF ThrottleInv, Tick
      <4>. QED  BY <1>1, <2>2, <4>1
    <3>2. \A p \in Proc : ThrottleOK(throttle[p], now + 1)
      BY <1>1, LaterThrottle
    <3>. QED  BY <1>2, <2>2, <3>1, <3>2, ThrottleOfNext DEF ThrottleInv
  <2>. QED  BY <2>1, <2>2, ThrottleOfNext
<1>3. ASSUME NEW t \in Thread, Allow(t) PROVE ThrottleInv'
  <2>1. PICK th : th = AfterAllow(throttle[P(t)], K(t), now)
    OBVIOUS
  <2>2. throttle' = [throttle EXCEPT ![P(t)] = th] /\ UNCHANGED <<site, now>>
    BY <1>3, <2>1 DEF Allow, desk
  <2>3. ThrottleOK(th, now)
    BY <1>1, <2>1, Owners, AllowAges
  <2>. QED  BY <2>2, <2>3, Owners, OneThrottle
<1>4. ASSUME NEW t \in Thread, Failed(t) PROVE ThrottleInv'
  <2>1. PICK th : th = AfterFailure(throttle[P(t)], K(t), now)
    OBVIOUS
  <2>2. throttle' = [throttle EXCEPT ![P(t)] = th] /\ UNCHANGED <<site, now>>
    BY <1>4, <2>1 DEF Failed, desk
  <2>3. ThrottleOK(th, now)
    BY <1>1, <2>1, Owners, FailureRecords
  <2>. QED  BY <2>2, <2>3, Owners, OneThrottle
<1>5. ASSUME NEW t \in Thread, Succeeded(t) PROVE ThrottleInv'
  <2>1. PICK th : th = Forgiven(throttle[P(t)], K(t))
    OBVIOUS
  <2>2. throttle' = [throttle EXCEPT ![P(t)] = th] /\ UNCHANGED <<site, now>>
    BY <1>5, <2>1 DEF Succeeded, desk
  <2>3. ThrottleOK(th, now)
    BY <1>1, <2>1, Owners, ForgivenRight
  <2>. QED  BY <2>2, <2>3, Owners, OneThrottle
<1>6. ASSUME NEW p \in Proc, throttle' = [throttle EXCEPT ![p] = Untouched] PROVE ThrottleInv'
  <2>1. CASE now' = now
    BY <1>1, <1>6, <2>1, ThrottleOfNext, OneThrottle, UntouchedRight
  <2>. QED  BY <1>2, <2>1, ThrottleOfNext
<1>. QED  BY <1>2, <1>3, <1>4, <1>5, <1>6, ThrottleOfNext DEF ThrottleStep

LEMMA ThrottleHolds == Spec => []ThrottleInv
<1>1. Init => ThrottleInv
  <2>. SUFFICES ASSUME Init PROVE ThrottleInv
    OBVIOUS
  <2>1. site \in Sites /\ site.clock \in Nat /\ now = Start /\ throttle = [p \in Proc |-> Untouched]
    BY LoginAssumption DEF Init
  <2>2. Start \in Start..(Start + site.clock) /\ Start \in Nat
    BY <2>1, Limits
  <2>3. \A p \in Proc : throttle[p] = Untouched
    BY <2>1
  <2>. QED  BY <2>1, <2>2, <2>3, UntouchedRight DEF ThrottleInv
<1>. QED  BY <1>1, StepThrottle, PTL DEF Spec

\* The throttle locks out whoever used up the failures, for as long as it says
\* and no longer, and keeps nothing of a peer that stays away
\* (LockoutsAreExact): allow, record_failure, record_success and _sweep of
\* LoginThrottle, in any order and at any times.
THEOREM LockoutsStayExact == Spec => []LockoutsAreExact
<1>. SUFFICES ThrottleInv => LockoutsAreExact
  BY ThrottleHolds, PTL
<1>. SUFFICES ASSUME ThrottleInv, NEW p \in Proc, NEW k \in Peer
              PROVE  LET th == throttle[p]
                         wins == th.failures[k]
                     IN  PeerInv(wins, th.locked[k], now) /\ Cold(wins, th.locked[k], th.swept)
  BY DEF LockoutsAreExact, FailuresAreLocked, LockoutsEnd, ColdPeersAreForgotten, PeerInv, Cold
<1>. QED  BY DEF ThrottleInv, ThrottleOK

-----------------------------------------------------------------------------
(* Types.                                                                   *)

BoundsInv ==
  /\ tries \in [Thread -> 0..KeyTries]
  /\ asks \in 0..site.asks /\ restarts \in 0..MaxRestarts /\ site \in Sites
  /\ \A token \in tokens : token.secret \in Contents

LEMMA StepBounds == ASSUME FilesInv, BoundsInv, [Next]_vars PROVE BoundsInv'
<1>1. /\ site.asks \in Nat /\ MaxRestarts \in Nat /\ cookieFile \in Contents
  BY LoginAssumption, Secrets DEF BoundsInv, FilesInv, FilesTypes, Contents
<1>2. ASSUME UNCHANGED <<tries, asks, restarts, site, tokens>> PROVE BoundsInv'
  BY <1>2 DEF BoundsInv
<1>3. ASSUME NEW t \in Thread, Ask(t) PROVE BoundsInv'
  <2>1. asks < site.asks /\ asks' = asks + 1 /\ UNCHANGED <<tries, restarts, site, tokens>>
    BY <1>3 DEF Ask, files
  <2>. QED  BY <1>1, <2>1 DEF BoundsInv
<1>4. ASSUME NEW t \in Thread, Issue(t) PROVE BoundsInv'
  <2>1. UNCHANGED <<tries, asks, restarts, site>>
    BY <1>4 DEF Issue, files, desk
  <2>2. \A token \in tokens' : token \in tokens \/ token.secret = cookieFile
    BY <1>4 DEF Issue
  <2>. QED  BY <1>1, <2>1, <2>2 DEF BoundsInv
<1>5. ASSUME NEW t \in Thread, Step(t) PROVE BoundsInv'
  <2>1. Ask(t) \/ Issue(t) \/ UNCHANGED <<tries, asks, restarts, site, tokens>>
    BY <1>5 DEF Step, desk, files, Succeeded, Allow, Verify, Failed, Exchange, ReadFails, Session,
                Mint, Parse
  <2>. QED  BY <1>2, <1>3, <1>4, <2>1
<1>6. ASSUME NEW t \in Thread, FileStep(t) PROVE BoundsInv'
  <2>1. UNCHANGED <<asks, restarts, site, tokens>>
    BY <1>6 DEF FileStep, desk
  <2>2. \/ tries' = tries \/ tries' = [tries EXCEPT ![t] = 0]
        \/ tries[t] < KeyTries /\ tries' = [tries EXCEPT ![t] = tries[t] + 1]
    BY <1>6 DEF FileStep, Revoke, Look, Open, Fill, Rotate, FindKey, MakeKey, FillKey, LoadKey, FillFails,
                FillKeyFails
  <2>3. tries' \in [Thread -> 0..KeyTries]
    BY <2>2 DEF BoundsInv, KeyTries
  <2>. QED  BY <2>1, <2>3 DEF BoundsInv
<1>7. ASSUME NEW p \in Proc, Restart(p) PROVE BoundsInv'
  <2>1. /\ UNCHANGED <<asks, site, tokens>> /\ restarts < MaxRestarts /\ restarts' = restarts + 1
        /\ tries' = [t \in Thread |-> IF P(t) = p THEN 0 ELSE tries[t]]
    BY <1>7 DEF Restart
  <2>. QED  BY <1>1, <2>1 DEF BoundsInv, KeyTries
<1>8. CASE UNCHANGED vars \/ Tick \/ Deleted
  BY <1>2, <1>8 DEF vars, files, revocation, Tick, Deleted, desk, HostDeletes
<1>. QED  BY <1>5, <1>6, <1>7, <1>8 DEF Next

LEMMA BoundsHold == Spec => []BoundsInv
<1>1. Init => BoundsInv
  <2>. SUFFICES ASSUME Init PROVE BoundsInv
    OBVIOUS
  <2>1. site \in Sites /\ site.asks \in Nat /\ MaxRestarts \in Nat
    BY LoginAssumption DEF Init
  <2>. QED  BY <2>1 DEF Init, FilesInit, BoundsInv, KeyTries
<1>2. LoginInv /\ BoundsInv /\ [Next]_vars => BoundsInv'
  BY StepBounds DEF LoginInv
<1>. QED  BY <1>1, <1>2, LoginHolds, PTL DEF Spec

\* Every variable keeps its type (TypeOK): threads, throttles, files, tokens
\* and bounds.
THEOREM TypesAreRight == Spec => []TypeOK
<1>. SUFFICES ASSUME LoginInv, BoundsInv, ThrottleInv PROVE TypeOK
  BY LoginHolds, BoundsHold, ThrottleHolds, PTL
<1>1. FilesTypeOK
  <2>1. made \in 0..MaxSecrets /\ MaxSecrets \in Nat
    BY Secrets DEF LoginInv, FilesInv, FilesTypes
  <2>2. cookieFile \in Contents
    BY <2>1 DEF LoginInv, FilesInv, FilesTypes, Contents
  <2>3. loaded \subseteq 1..MaxSecrets
    BY DEF LoginInv, FilesInv, KeyInv, Whole
  <2>. QED  BY <2>1, <2>2, <2>3 DEF LoginInv, FilesInv, FilesTypes, BoundsInv, FilesTypeOK
<1>2. \A p \in Proc, k \in Peer :
        /\ throttle[p].locked[k] \in {Never} \cup Start..(now + Lockout)
        /\ \A i \in 1..Len(throttle[p].failures[k]) : throttle[p].failures[k][i] \in Start..now
  BY DEF ThrottleInv, ThrottleOK, PeerInv
<1>3. \A token \in tokens : token.issued <= now /\ token.secret \in Contents \ {Missing}
  <2>1. \A token \in tokens : token.secret \in {Torn} \cup 1..made /\ token.secret \in Contents
    BY DEF LoginInv, TokensInv, Lasting, BoundsInv
  <2>2. Missing \notin {Torn} \cup 1..made
    BY Secrets DEF LoginInv, FilesInv, FilesTypes
  <2>. QED  BY <2>1, <2>2 DEF LoginInv, RequestsInv, PastInv
<1>4. revoked \subseteq tokens /\ final \in BOOLEAN
  BY DEF LoginInv, RevokedInv
<1>. QED  BY <1>1, <1>2, <1>3, <1>4 DEF LoginInv, FilesInv, FilesTypes, BoundsInv, ThrottleInv, TypeOK

-----------------------------------------------------------------------------
(* When requests were let through.                                          *)

\* A request that was let through keeps its time until it is answered or
\* succeeds.
RequestTimes ==
  /\ passed \in [Thread -> Nat]
  /\ \A t \in Thread :
       /\ passed[t] = Never \/ passed[t] \in Start..now
       /\ at[t] \in {"idle", "allow"} => passed[t] = Never
       /\ t \notin site.threads => at[t] = "idle"
       /\ job[t].task \in {"login", "callback"} /\ at[t] \notin {"idle", "allow"} =>
            passed[t] # Never

GuessTimes ==
  /\ guesses = [p \in Proc |-> [k \in Peer |-> guesses[p][k]]]
  /\ \A p \in Proc, k \in Peer :
       /\ guesses[p][k] \in Seq(Nat)
       /\ \A i \in 1..Len(guesses[p][k]) : guesses[p][k][i] \in Start..now

PassedInv == RequestTimes /\ GuessTimes

\* The steps of a thread: the request, the right credential, and those after
\* which an answered request is forgotten.
Served(t) ==
  /\ Kept(t) /\ at[t] # "idle" /\ UNCHANGED <<site, now>>
  /\ \E place \in Places \ {"allow"} : Go(t, place)

LEMMA StepsOfThreads ==
  ASSUME NEW t \in Thread, Step(t) \/ FileStep(t) PROVE Ask(t) \/ Succeeded(t) \/ Served(t)
<1>1. CASE FileStep(t)
  <2>1. at[t] # "idle"
    BY <1>1 DEF FileStep, Revoke, Look, Open, Fill, Rotate, FindKey, MakeKey, FillKey, LoadKey, FillFails, FillKeyFails
  <2>2. \E place \in Places \ {"allow"} : Go(t, place)
    BY <1>1 DEF FileStep, Revoke, Look, Open, Fill, Rotate, FindKey, MakeKey, FillKey, LoadKey, FillFails,
                FillKeyFails, Places
  <2>. QED  BY <1>1, <2>1, <2>2 DEF FileStep, desk, Served
<1>2. CASE (Allow(t) \/ Verify(t) \/ Failed(t) \/ Exchange(t)) /\ Kept(t)
  <2>1. at[t] # "idle" /\ UNCHANGED <<site, now>>
    BY <1>2 DEF Allow, Verify, Failed, Exchange, desk
  <2>2. \E place \in Places \ {"allow"} : Go(t, place)
    BY <1>2 DEF Allow, Verify, Failed, Exchange, Places
  <2>. QED  BY <1>2, <2>1, <2>2 DEF Served
<1>3. CASE (ReadFails(t) \/ Issue(t) \/ Session(t) \/ Mint(t) \/ Parse(t)) /\ Kept(t)
  <2>1. at[t] # "idle" /\ UNCHANGED <<site, now>>
    BY <1>3 DEF ReadFails, Issue, Session, Mint, Parse, Holds, desk
  <2>2. \E place \in Places \ {"allow"} : Go(t, place)
    BY <1>3 DEF ReadFails, Issue, Session, Mint, Parse, Places
  <2>. QED  BY <1>3, <2>1, <2>2 DEF Served
<1>. QED  BY <1>1, <1>2, <1>3 DEF Step

\* What a step does to the guesses.
LEMMA GuessesOfSteps ==
  ASSUME NEW t \in Thread, Step(t) \/ FileStep(t), RequestFits(t)
  PROVE  \/ UNCHANGED guesses
         \/ Succeeded(t)
         \/ /\ Guess(t) /\ Served(t) /\ Go(t, "failed") /\ UNCHANGED throttle
            /\ at[t] \in {"verify", "exchange", "read"} /\ job[t].task \in {"login", "callback"}
<1>1. CASE Verify(t) \/ Exchange(t) \/ Parse(t)
  <2>1. \/ UNCHANGED guesses
        \/ Guess(t) /\ Go(t, "failed") /\ UNCHANGED throttle
           /\ at[t] \in {"verify", "exchange", "read"} /\ job[t].task \in {"login", "callback"}
    BY <1>1 DEF Verify, Exchange, Parse, Holds, RequestFits
  <2>2. at[t] \notin {"idle", "succeeded"}
    BY <1>1 DEF Verify, Exchange, Parse, Holds
  <2>3. Served(t)
    BY <2>2, StepsOfThreads DEF Ask, Succeeded
  <2>. QED  BY <2>1, <2>3
<1>2. CASE FileStep(t)
  BY <1>2 DEF FileStep
<1>3. CASE Ask(t) \/ Succeeded(t) \/ Allow(t) \/ Failed(t) \/ ReadFails(t) \/ Issue(t) \/ Session(t) \/ Mint(t)
  BY <1>3 DEF Ask, Allow, Failed, ReadFails, Issue, Session, Mint
<1>. QED  BY <1>1, <1>2, <1>3 DEF Step

\* A served request keeps its time, gets one, or is forgotten.
LEMMA ServedTimes ==
  ASSUME FilesInv, RequestsInv, RequestTimes, NEW t \in Thread, Served(t)
  PROVE  /\ \A u \in Thread \ {t} : passed'[u] = passed[u] /\ at'[u] = at[u] /\ job'[u] = job[u]
         /\ passed'[t] = IF at'[t] = "idle" THEN Never ELSE IF at[t] = "allow" THEN now ELSE passed[t]
         /\ job'[t] = IF at'[t] = "idle" THEN Idle ELSE job[t]
         /\ at'[t] # "allow" /\ at[t] # "idle" /\ UNCHANGED <<site, now>>
         /\ passed' = [u \in Thread |-> passed'[u]]
<1>1. DOMAIN passed = Thread /\ DOMAIN job = Thread /\ DOMAIN at = Thread
  BY DEF FilesInv, FilesTypes, RequestsInv, RequestTimes
<1>2. PICK place \in Places \ {"allow"} : Go(t, place)
  BY DEF Served
<1>3. at'[t] = place /\ \A u \in Thread \ {t} : at'[u] = at[u]
  BY <1>1, <1>2 DEF Go
<1>4. PICK x : x = IF at'[t] = "idle" THEN Never ELSE IF at[t] = "allow" THEN now ELSE passed[t]
  OBVIOUS
<1>5. passed' = [passed EXCEPT ![t] = x]
  BY <1>4 DEF Served, Kept
<1>6. PICK j : j = IF at'[t] = "idle" THEN Idle ELSE job[t]
  OBVIOUS
<1>7. job' = [job EXCEPT ![t] = j]
  BY <1>6 DEF Served, Kept
<1>. QED  BY <1>1, <1>3, <1>4, <1>5, <1>6, <1>7 DEF Served

LEMMA StepRequestTimes ==
  ASSUME FilesInv, RequestsInv, ThrottleInv, RequestTimes, [Next]_vars PROVE RequestTimes'
<1>1. /\ now \in Nat /\ Start <= now /\ Start \in Nat /\ Start # Never /\ Never \in Nat
      /\ DOMAIN at = Thread /\ DOMAIN passed = Thread
  <2>1. site.clock \in Nat
    BY LoginAssumption DEF ThrottleInv
  <2>. QED  BY <2>1, Limits DEF ThrottleInv, FilesInv, FilesTypes, RequestTimes
<1>2. CASE UNCHANGED vars \/ Tick \/ Deleted
  <2>1. UNCHANGED <<passed, at, site, job>> /\ now' \in {now, now + 1}
    BY <1>2 DEF vars, Tick, Deleted, desk, HostDeletes
  <2>2. \A x \in Start..now : x \in Start..now'
    BY <1>1, <2>1
  <2>. QED  BY <2>1, <2>2 DEF RequestTimes
<1>3. ASSUME NEW t \in Thread, Served(t) PROVE RequestTimes'
  <2>1. passed'[t] \in Nat /\ (passed'[t] = Never \/ passed'[t] \in Start..now)
    BY <1>1, <1>3, ServedTimes DEF RequestTimes
  <2>2. passed' \in [Thread -> Nat]
    BY <1>3, <2>1, ServedTimes DEF RequestTimes
  <2>3. at[t] \notin {"idle"} /\ t \in site.threads /\ at'[t] # "allow"
    BY <1>3, ServedTimes DEF RequestTimes
  <2>4. (at'[t] = "idle" => passed'[t] = Never)
        /\ (job'[t].task \in {"login", "callback"} /\ at'[t] # "idle" => passed'[t] # Never)
    <3>1. now # Never
      BY <1>1, Limits
    <3>2. at'[t] # "idle" => job'[t] = job[t] /\ passed'[t] = IF at[t] = "allow" THEN now ELSE passed[t]
      BY <1>3, ServedTimes
    <3>. QED  BY <1>3, <2>3, <3>1, <3>2, ServedTimes DEF RequestTimes
  <2>5. /\ UNCHANGED <<site, now>>
        /\ \A u \in Thread \ {t} : passed'[u] = passed[u] /\ at'[u] = at[u] /\ job'[u] = job[u]
    BY <1>3, ServedTimes
  <2>6. ASSUME NEW u \in Thread
        PROVE  /\ passed'[u] = Never \/ passed'[u] \in Start..now
               /\ at'[u] \in {"idle", "allow"} => passed'[u] = Never
               /\ u \notin site.threads => at'[u] = "idle"
               /\ job'[u].task \in {"login", "callback"} /\ at'[u] \notin {"idle", "allow"} =>
                    passed'[u] # Never
    <3>1. CASE u = t
      BY <2>1, <2>3, <2>4, <3>1
    <3>2. CASE u # t
      BY <2>5, <3>2 DEF RequestTimes
    <3>. QED  BY <3>1, <3>2
  <2>. QED  BY <2>2, <2>5, <2>6 DEF RequestTimes
<1>4. ASSUME NEW t \in Thread, Ask(t) PROVE RequestTimes'
  <2>1. PICK j \in Jobs(t) : job' = [job EXCEPT ![t] = j] /\ Go(t, First(t, j))
    BY <1>4 DEF Ask
  <2>2. \A u \in Thread : job'[u] = IF u = t THEN j ELSE job[u]
    BY <2>1, AskedOf
  <2>3. PICK place : place = First(t, j)
    OBVIOUS
  <2>4. \A u \in Thread : at'[u] = IF u = t THEN place ELSE at[u]
    BY <1>1, <2>1, <2>3 DEF Go
  <2>5. j.task \in {"login", "callback"} => place = "allow"
    BY <2>3 DEF First
  <2>6. at[t] = "idle" /\ t \in site.threads /\ UNCHANGED <<passed, site, now>>
    BY <1>4 DEF Ask
  <2>. QED  BY <2>2, <2>4, <2>5, <2>6 DEF RequestTimes
<1>5. ASSUME NEW t \in Thread, Succeeded(t) PROVE RequestTimes'
  <2>1. /\ at[t] = "succeeded" /\ Go(t, "look") /\ passed' = [passed EXCEPT ![t] = Never]
        /\ UNCHANGED <<site, now>>
    BY <1>5 DEF Succeeded, desk
  <2>2. PICK j : j = [task |-> "issue", subject |-> Subject(t)]
    OBVIOUS
  <2>3. job' = [job EXCEPT ![t] = j] /\ j.task = "issue"
    BY <1>5, <2>2 DEF Succeeded
  <2>4. \A u \in Thread : job'[u] = IF u = t THEN j ELSE job[u]
    BY <2>3, AskedOf
  <2>5. \A u \in Thread : at'[u] = IF u = t THEN "look" ELSE at[u]
    BY <1>1, <2>1 DEF Go
  <2>6. passed' \in [Thread -> Nat] /\ \A u \in Thread : passed'[u] = IF u = t THEN Never ELSE passed[u]
    BY <1>1, <2>1 DEF RequestTimes
  <2>. QED  BY <2>1, <2>3, <2>4, <2>5, <2>6 DEF RequestTimes
<1>6. ASSUME NEW p \in Proc, Restart(p) PROVE RequestTimes'
  <2>1. /\ at' = [t \in Thread |-> IF P(t) = p THEN "idle" ELSE at[t]]
        /\ job' = [t \in Thread |-> IF P(t) = p THEN Idle ELSE job[t]]
        /\ passed' = [t \in Thread |-> IF P(t) = p THEN Never ELSE passed[t]]
        /\ UNCHANGED <<site, now>>
    BY <1>6 DEF Restart
  <2>. QED  BY <1>1, <2>1 DEF RequestTimes
<1>. QED  BY <1>2, <1>3, <1>4, <1>5, <1>6, StepsOfThreads DEF Next

LEMMA StepGuessTimes ==
  ASSUME RequestsInv, ThrottleInv, PassedInv, [Next]_vars PROVE GuessTimes'
<1>1. now \in Nat /\ Start \in Nat
  <2>1. site.clock \in Nat
    BY LoginAssumption DEF ThrottleInv
  <2>. QED  BY <2>1, Limits DEF ThrottleInv
<1>2. ASSUME UNCHANGED guesses PROVE GuessTimes'
  <2>1. \A x \in Start..now : x \in Start..now'
    BY <1>1, ThrottleOfNext
  <2>. QED  BY <1>2, <2>1 DEF PassedInv, GuessTimes
<1>3. ASSUME NEW p \in Proc, guesses' = [guesses EXCEPT ![p] = [k \in Peer |-> << >>]], now' = now
      PROVE  GuessTimes'
  <2>1. DOMAIN guesses = Proc
    BY DEF PassedInv, GuessTimes
  <2>2. \A q \in Proc, k \in Peer : guesses'[q][k] = IF q = p THEN << >> ELSE guesses[q][k]
    BY <1>3, <2>1
  <2>3. guesses' = [q \in Proc |-> [k \in Peer |-> guesses'[q][k]]]
    <3>1. \A q \in Proc : guesses'[q] = [k \in Peer |-> guesses'[q][k]]
      BY <1>3, <2>1 DEF PassedInv, GuessTimes
    <3>. QED  BY <1>3, <2>1, <3>1
  <2>4. << >> \in Seq(Nat) /\ Len(<< >>) = 0
    OBVIOUS
  <2>. QED  BY <1>3, <2>2, <2>3, <2>4 DEF PassedInv, GuessTimes
<1>4. ASSUME NEW p \in Proc, NEW k \in Peer, NEW s, guesses' = [guesses EXCEPT ![p][k] = s],
             s \in Seq(Nat), \A i \in 1..Len(s) : s[i] \in Start..now, now' = now
      PROVE  GuessTimes'
  <2>1. DOMAIN guesses = Proc /\ DOMAIN guesses[p] = Peer
    BY DEF PassedInv, GuessTimes
  <2>2. \A q \in Proc, j \in Peer : guesses'[q][j] = IF q = p /\ j = k THEN s ELSE guesses[q][j]
    BY <1>4, <2>1
  <2>3. guesses' = [q \in Proc |-> [j \in Peer |-> guesses'[q][j]]]
    <3>1. \A q \in Proc : guesses'[q] = [j \in Peer |-> guesses'[q][j]]
      BY <1>4, <2>1 DEF PassedInv, GuessTimes
    <3>. QED  BY <1>4, <2>1, <3>1
  <2>. QED  BY <1>4, <2>2, <2>3 DEF PassedInv, GuessTimes
<1>5. ASSUME NEW t \in Thread, Step(t) \/ FileStep(t) PROVE GuessTimes'
  <2>1. CASE Succeeded(t)
    <3>1. PICK s : s = << >>
      OBVIOUS
    <3>2. guesses' = [guesses EXCEPT ![P(t)][K(t)] = s] /\ now' = now
      BY <2>1, <3>1 DEF Succeeded, desk
    <3>3. s \in Seq(Nat) /\ Len(s) = 0 /\ \A i \in 1..Len(s) : s[i] \in Start..now
      BY <3>1
    <3>. QED  BY <1>4, <3>2, <3>3, Owners
  <2>2. CASE Guess(t) /\ Served(t) /\ at[t] \in {"verify", "exchange", "read"} /\ job[t].task \in {"login", "callback"}
    <3>1. PICK s : s = Append(guesses[P(t)][K(t)], passed[t])
      OBVIOUS
    <3>2. guesses' = [guesses EXCEPT ![P(t)][K(t)] = s] /\ now' = now
      BY <2>2, <3>1 DEF Guess, Served
    <3>3. passed[t] \in Start..now /\ passed[t] \in Nat
      BY <2>2 DEF PassedInv, RequestTimes
    <3>4. guesses[P(t)][K(t)] \in Seq(Nat) /\ \A i \in 1..Len(guesses[P(t)][K(t)]) : guesses[P(t)][K(t)][i] \in Start..now
      BY Owners DEF PassedInv, GuessTimes
    <3>5. s \in Seq(Nat) /\ \A i \in 1..Len(s) : s[i] \in Start..now
      BY <3>1, <3>3, <3>4
    <3>. QED  BY <1>4, <3>2, <3>5, Owners
  <2>. QED  BY <1>2, <1>5, <2>1, <2>2, GuessesOfSteps DEF RequestsInv
<1>6. ASSUME NEW p \in Proc, Restart(p) PROVE GuessTimes'
  BY <1>3, <1>6 DEF Restart
<1>7. CASE UNCHANGED vars \/ Tick \/ Deleted
  BY <1>2, <1>7 DEF vars, Tick, Deleted
<1>. QED  BY <1>5, <1>6, <1>7 DEF Next

-----------------------------------------------------------------------------
(* Guesses.                                                                 *)

\* Once a lockout is set, every request let through before it is as old as the
\* lockout's last failure.
Spaced(p, k) ==
  throttle[p].locked[k] # Never =>
    /\ \A i \in 1..Len(guesses[p][k]) : guesses[p][k][i] + Lockout <= throttle[p].locked[k]
    /\ \A t \in Crew(p, k) : passed[t] # Never => passed[t] + Lockout <= throttle[p].locked[k]

\* Of what was let through in a stretch: the guesses, the requests that may
\* still guess, and those whose failure is yet to be recorded.
Guessed(p, k, a) == {i \in 1..Len(guesses[p][k]) : guesses[p][k][i] \in Stretch(a)}
Trying(p, k, a) == {t \in Crew(p, k) : at[t] # "failed" /\ passed[t] \in Stretch(a)}
Failing(p, k, a) == {t \in Crew(p, k) : at[t] = "failed" /\ passed[t] \in Stretch(a)}

\* The last failures recorded are as many as the guesses that are not failing.
Backed(wins, c, f, a) ==
  \E n \in 0..Len(wins) :
    /\ \A i \in 1..Len(wins) : i > Len(wins) - n => wins[i] >= a
    /\ c <= n + f

\* While a stretch lasts, its guesses are on record or failing; at any time its
\* guesses and the requests at it are fewer than the limit and the threads.
CapInv(p, k) ==
  /\ Spaced(p, k)
  /\ \A a \in Nat : Start <= a =>
       /\ now \in Stretch(a) =>
            Backed(throttle[p].failures[k], Cardinality(Guessed(p, k, a)),
                   Cardinality(Failing(p, k, a)), a)
       /\ Cardinality(Guessed(p, k, a)) + Cardinality(Trying(p, k, a))
            < MaxFailures + Cardinality(Crew(p, k))

LEMMA BackedAges ==
  ASSUME NEW time \in Nat, NEW a \in Nat, time \in Stretch(a), NEW wins \in Seq(Nat),
         NEW until, NEW q, NEW u, Ages(wins, until, q, u, time),
         NEW c \in Nat, NEW f \in Nat, Backed(wins, c, f, a), NEW e \in Nat, f <= e,
         until # Never /\ until <= time => c = 0
  PROVE  Backed(q, c, e, a)
<1>1. CASE until # Never /\ until <= time /\ q = << >>
  <2>1. 0 \in 0..Len(q) /\ Len(q) = 0 /\ c <= 0 + e
    BY <1>1
  <2>. QED  BY <2>1 DEF Backed
<1>2. CASE Trims(wins, q, time)
  <2>1. PICK drop \in 0..Len(wins) :
          /\ q \in Seq(Nat) /\ Len(q) = Len(wins) - drop
          /\ \A i \in 1..Len(q) : q[i] = wins[i + drop]
          /\ \A i \in 1..drop : ~Counts(time, wins[i])
    BY <1>2 DEF Trims
  <2>2. PICK n \in 0..Len(wins) :
          /\ \A i \in 1..Len(wins) : i > Len(wins) - n => wins[i] >= a
          /\ c <= n + f
    BY DEF Backed
  <2>3. Len(wins) \in Nat /\ \A i \in 1..Len(wins) : wins[i] \in Nat
    OBVIOUS
  <2>4. n <= Len(q)
    <3>. SUFFICES ASSUME n > Len(wins) - drop PROVE FALSE
      BY <2>1, <2>2, <2>3
    <3>1. drop \in 1..Len(wins) /\ drop > Len(wins) - n /\ drop \in 1..drop
      BY <2>1, <2>2, <2>3
    <3>2. wins[drop] >= a /\ wins[drop] \in Nat /\ ~(wins[drop] + Window >= time)
      BY <2>1, <2>2, <2>3, <3>1 DEF Counts
    <3>3. time <= a + Window
      BY DEF Stretch
    <3>. QED  BY <3>2, <3>3, Limits
  <2>5. \A i \in 1..Len(q) : i > Len(q) - n => q[i] >= a
    <3>. SUFFICES ASSUME NEW i \in 1..Len(q), i > Len(q) - n PROVE q[i] >= a
      OBVIOUS
    <3>1. i + drop \in 1..Len(wins) /\ i + drop > Len(wins) - n
      BY <2>1, <2>2, <2>3
    <3>. QED  BY <2>1, <2>2, <3>1
  <2>6. n \in 0..Len(q) /\ c <= n + e
    BY <2>1, <2>2, <2>3, <2>4
  <2>. QED  BY <2>5, <2>6 DEF Backed
<1>. QED  BY <1>1, <1>2 DEF Ages

LEMMA BackedFailure ==
  ASSUME NEW time \in Nat, NEW a \in Nat, a <= time, NEW wins \in Seq(Nat),
         NEW q, q = Append(wins, time),
         NEW c \in Nat, NEW f \in Nat, Backed(wins, c, f, a), NEW e \in Nat, f <= e + 1
  PROVE  Backed(q, c, e, a)
<1>1. PICK n \in 0..Len(wins) :
        /\ \A i \in 1..Len(wins) : i > Len(wins) - n => wins[i] >= a
        /\ c <= n + f
  BY DEF Backed
<1>2. /\ Len(wins) \in Nat /\ Len(q) = Len(wins) + 1 /\ q[Len(wins) + 1] = time
      /\ \A i \in 1..Len(wins) : q[i] = wins[i]
  OBVIOUS
<1>3. n + 1 \in 0..Len(q) /\ c <= (n + 1) + e
  BY <1>1, <1>2
<1>4. \A i \in 1..Len(q) : i > Len(q) - (n + 1) => q[i] >= a
  <2>. SUFFICES ASSUME NEW i \in 1..Len(q), i > Len(q) - (n + 1) PROVE q[i] >= a
    OBVIOUS
  <2>1. CASE i = Len(wins) + 1
    BY <1>2, <2>1
  <2>2. CASE i # Len(wins) + 1
    <3>1. i \in 1..Len(wins) /\ i > Len(wins) - n
      BY <1>1, <1>2, <2>2
    <3>. QED  BY <1>1, <1>2, <3>1
  <2>. QED  BY <2>1, <2>2
<1>. QED  BY <1>3, <1>4 DEF Backed

LEMMA Sizes ==
  ASSUME ThrottleInv, PassedInv, NEW p \in Proc, NEW k \in Peer
  PROVE  /\ IsFiniteSet(Crew(p, k)) /\ Cardinality(Crew(p, k)) \in Nat
         /\ \A a \in Nat :
              /\ IsFiniteSet(Guessed(p, k, a)) /\ Cardinality(Guessed(p, k, a)) \in Nat
              /\ IsFiniteSet(Trying(p, k, a)) /\ Cardinality(Trying(p, k, a)) \in Nat
              /\ IsFiniteSet(Failing(p, k, a)) /\ Cardinality(Failing(p, k, a)) \in Nat
              /\ Trying(p, k, a) \subseteq Crew(p, k) /\ Failing(p, k, a) \subseteq Crew(p, k)
              /\ Trying(p, k, a) \cap Failing(p, k, a) = {}
<1>1. IsFiniteSet(site.threads) /\ Crew(p, k) \subseteq site.threads
  BY LoginAssumption DEF ThrottleInv, Crew
<1>2. IsFiniteSet(Crew(p, k))
  BY <1>1, FS_Subset
<1>3. ASSUME NEW a \in Nat
      PROVE  /\ Trying(p, k, a) \subseteq Crew(p, k) /\ Failing(p, k, a) \subseteq Crew(p, k)
             /\ Trying(p, k, a) \cap Failing(p, k, a) = {}
             /\ Guessed(p, k, a) \subseteq 1..Len(guesses[p][k])
  BY DEF Trying, Failing, Guessed
<1>4. IsFiniteSet(1..Len(guesses[p][k]))
  <2>1. Len(guesses[p][k]) \in Nat
    BY DEF PassedInv, GuessTimes
  <2>. QED  BY <2>1, FS_Interval
<1>. QED  BY <1>2, <1>3, <1>4, FS_Subset, FS_CardinalityType

LEMMA Moments ==
  ASSUME ThrottleInv
  PROVE  /\ now \in Nat /\ Start \in Nat /\ Start <= now /\ Start > 0 /\ Never = 0
         /\ Lockout \in Nat /\ MaxFailures \in Nat /\ MaxFailures > 0
         /\ \A p \in Proc, k \in Peer : /\ throttle[p].failures[k] \in Seq(Nat)
                                        /\ throttle[p].locked[k] \in Nat
                                        /\ ThrottleOK(throttle[p], now)
         /\ \A a \in Nat : Start <= a => Never \notin Stretch(a)
<1>1. site.clock \in Nat
  BY LoginAssumption DEF ThrottleInv
<1>. QED  BY <1>1, Limits DEF ThrottleInv, ThrottleOK, Throttles, Stretch

\* A lockout that is over is older than any stretch that is not.
LEMMA OverLockCap ==
  ASSUME ThrottleInv, NEW p \in Proc, NEW k \in Peer, CapInv(p, k),
         NEW a \in Nat, now \in Stretch(a),
         throttle[p].locked[k] # Never, throttle[p].locked[k] <= now
  PROVE  Cardinality(Guessed(p, k, a)) = 0
<1>1. ASSUME NEW i \in Guessed(p, k, a) PROVE FALSE
  <2>1. guesses[p][k][i] + Lockout <= throttle[p].locked[k] /\ guesses[p][k][i] \in Stretch(a)
    BY <1>1 DEF CapInv, Spaced, Guessed
  <2>2. guesses[p][k][i] \in Nat /\ a <= guesses[p][k][i] /\ now < a + Lockout
    BY <2>1 DEF Stretch
  <2>. QED  BY <2>1, <2>2, Moments
<1>. QED  BY <1>1, FS_EmptySet

\* A step that records nothing and lets nobody through.
LEMMA QuietCap ==
  ASSUME ThrottleInv, PassedInv, NEW p \in Proc, NEW k \in Peer, CapInv(p, k),
         UNCHANGED <<site, now>>, guesses'[p][k] = guesses[p][k],
         AgesAt(throttle[p], throttle'[p], k, now),
         \A t \in Crew(p, k) :
           /\ passed'[t] \in {passed[t], Never}
           /\ at'[t] = "failed" => at[t] = "failed"
           /\ at[t] = "failed" => at'[t] = "failed" /\ passed'[t] = passed[t]
  PROVE  CapInv(p, k)'
<1>0. /\ now \in Nat /\ Start \in Nat /\ Start > 0 /\ Never = 0 /\ Lockout \in Nat /\ MaxFailures \in Nat
      /\ throttle[p].failures[k] \in Seq(Nat)
  BY Moments
<1>1. Crew(p, k)' = Crew(p, k)
  BY DEF Crew
<1>2. Spaced(p, k)'
  <2>1. throttle'[p].locked[k] \in {throttle[p].locked[k], Never}
    BY DEF AgesAt, Ages
  <2>. QED  BY <1>1, <2>1 DEF CapInv, Spaced
<1>3. ASSUME NEW a \in Nat, Start <= a
      PROVE  /\ now' \in Stretch(a) =>
                  Backed(throttle[p].failures[k], Cardinality(Guessed(p, k, a)),
                         Cardinality(Failing(p, k, a)), a)'
             /\ (Cardinality(Guessed(p, k, a)) + Cardinality(Trying(p, k, a))
                  < MaxFailures + Cardinality(Crew(p, k)))'
  <2>1. Never \notin Stretch(a)
    BY <1>0, <1>3 DEF Stretch
  <2>2. Guessed(p, k, a)' = Guessed(p, k, a)
    BY DEF Guessed
  <2>3. Failing(p, k, a)' = Failing(p, k, a) /\ Trying(p, k, a)' \subseteq Trying(p, k, a)
    BY <1>1, <2>1 DEF Failing, Trying
  <2>4. Cardinality(Trying(p, k, a)') <= Cardinality(Trying(p, k, a)) /\ Cardinality(Trying(p, k, a)') \in Nat
    BY <2>3, Sizes, FS_Subset, FS_CardinalityType
  <2>5. Cardinality(Guessed(p, k, a)) + Cardinality(Trying(p, k, a)) < MaxFailures + Cardinality(Crew(p, k))
    BY <1>3 DEF CapInv
  <2>6. ASSUME now \in Stretch(a)
        PROVE  Backed(throttle'[p].failures[k], Cardinality(Guessed(p, k, a)), Cardinality(Failing(p, k, a)), a)
    <3>2. throttle[p].locked[k] # Never /\ throttle[p].locked[k] <= now => Cardinality(Guessed(p, k, a)) = 0
      BY <2>6, OverLockCap
    <3>3. Backed(throttle[p].failures[k], Cardinality(Guessed(p, k, a)), Cardinality(Failing(p, k, a)), a)
      BY <1>3, <2>6 DEF CapInv
    <3>4. PICK c \in Nat, f \in Nat : c = Cardinality(Guessed(p, k, a)) /\ f = Cardinality(Failing(p, k, a))
      BY Sizes
    <3>. QED  BY <1>0, <2>6, <3>2, <3>3, <3>4, BackedAges DEF AgesAt
  <2>7. now' \in Stretch(a) =>
          Backed(throttle[p].failures[k], Cardinality(Guessed(p, k, a)), Cardinality(Failing(p, k, a)), a)'
    BY <2>2, <2>3, <2>6 DEF Backed
  <2>8. Cardinality(Guessed(p, k, a)') + Cardinality(Trying(p, k, a)') < MaxFailures + Cardinality(Crew(p, k)')
    <3>1. Cardinality(Guessed(p, k, a)) \in Nat /\ Cardinality(Trying(p, k, a)) \in Nat
          /\ Cardinality(Crew(p, k)) \in Nat
      BY Sizes
    <3>. QED  BY <1>0, <1>1, <2>2, <2>4, <2>5, <3>1
  <2>. QED  BY <2>7, <2>8
<1>. QED  BY <1>2, <1>3 DEF CapInv

\* Whatever is let through, and whatever fails, there is room for it: the
\* threads bound what is under way, the recorded failures what came before.
LEMMA LetThroughCap ==
  ASSUME ThrottleInv, PassedInv, NEW p \in Proc, NEW k \in Peer, CapInv(p, k),
         UNCHANGED <<site, now>>, guesses'[p][k] = guesses[p][k],
         AgesAt(throttle[p], throttle'[p], k, now), throttle'[p].locked[k] = Never,
         Len(throttle'[p].failures[k]) < MaxFailures, throttle'[p].failures[k] \in Seq(Nat),
         NEW t \in Crew(p, k), at[t] # "failed", passed[t] = Never, passed'[t] = now,
         \A u \in Crew(p, k) \ {t} : passed'[u] = passed[u] /\ at'[u] = at[u]
  PROVE  CapInv(p, k)'
<1>1. Crew(p, k)' = Crew(p, k)
  BY DEF Crew
<1>2. Spaced(p, k)'
  BY DEF Spaced
<1>3. ASSUME NEW a \in Nat, Start <= a
      PROVE  /\ now' \in Stretch(a) =>
                  Backed(throttle[p].failures[k], Cardinality(Guessed(p, k, a)),
                         Cardinality(Failing(p, k, a)), a)'
             /\ (Cardinality(Guessed(p, k, a)) + Cardinality(Trying(p, k, a))
                  < MaxFailures + Cardinality(Crew(p, k)))'
  <2>1. t \notin Failing(p, k, a) /\ t \notin Trying(p, k, a)
    BY <1>3, Moments DEF Failing, Trying
  <2>2. Guessed(p, k, a)' = Guessed(p, k, a)
    BY DEF Guessed
  <2>3. PICK c \in Nat, f \in Nat, r \in Nat, w \in Nat :
          /\ c = Cardinality(Guessed(p, k, a)) /\ f = Cardinality(Failing(p, k, a))
          /\ r = Cardinality(Trying(p, k, a)) /\ w = Cardinality(Crew(p, k))
    BY Sizes
  <2>4. c + r < MaxFailures + w
    BY <1>3, <2>3 DEF CapInv
  <2>5. /\ IsFiniteSet(Failing(p, k, a)') /\ Cardinality(Failing(p, k, a)') \in Nat
        /\ f <= Cardinality(Failing(p, k, a)')
    <3>1. Failing(p, k, a)' \subseteq Crew(p, k) /\ Failing(p, k, a) \subseteq Failing(p, k, a)'
      BY <1>1, <2>1 DEF Failing
    <3>. QED  BY <2>3, <3>1, Sizes, FS_Subset, FS_CardinalityType
  <2>6. CASE now \notin Stretch(a)
    <3>1. Trying(p, k, a)' = Trying(p, k, a)
      BY <1>1, <2>1, <2>6 DEF Trying
    <3>. QED  BY <1>1, <2>2, <2>3, <2>4, <2>6, <3>1
  <2>7. CASE now \in Stretch(a)
    <3>1. Backed(throttle[p].failures[k], c, f, a)
      BY <1>3, <2>3, <2>7 DEF CapInv
    <3>2. throttle[p].locked[k] # Never /\ throttle[p].locked[k] <= now => c = 0
      BY <2>3, <2>7, OverLockCap
    <3>3. ASSUME NEW e \in Nat, f <= e PROVE Backed(throttle'[p].failures[k], c, e, a)
      <4>1. /\ Ages(throttle[p].failures[k], throttle[p].locked[k], throttle'[p].failures[k],
                    throttle'[p].locked[k], now)
            /\ now \in Nat /\ throttle[p].failures[k] \in Seq(Nat)
        BY Moments DEF AgesAt
      <4>. QED  BY <2>3, <2>7, <3>1, <3>2, <3>3, <4>1, BackedAges
    <3>4. c <= (MaxFailures - 1) + f
      <4>1. PICK n \in 0..Len(throttle'[p].failures[k]) : c <= n + f
        BY <2>3, <3>3 DEF Backed
      <4>2. Len(throttle'[p].failures[k]) \in Nat
        OBVIOUS
      <4>3. c \in Nat /\ f \in Nat /\ MaxFailures \in Nat
        BY <2>3, Limits
      <4>. QED  BY <4>1, <4>2, <4>3
    <3>5. f + r + 1 <= w
      <4>. DEFINE F == Failing(p, k, a)
                  T == Trying(p, k, a)
      <4>1. IsFiniteSet(F) /\ IsFiniteSet(T) /\ F \cap T = {} /\ F \cup T \subseteq Crew(p, k)
            /\ IsFiniteSet(Crew(p, k)) /\ t \notin F \cup T
        BY <2>1, Sizes
      <4>. HIDE DEF F, T
      <4>2. IsFiniteSet(F \cup T) /\ Cardinality(F \cup T) = Cardinality(F) + Cardinality(T)
        <5>1. Cardinality(F \cap T) = 0 /\ Cardinality(F) \in Nat /\ Cardinality(T) \in Nat
          BY <4>1, FS_EmptySet, FS_CardinalityType
        <5>2. /\ IsFiniteSet(F \cup T)
              /\ Cardinality(F \cup T) = Cardinality(F) + Cardinality(T) - Cardinality(F \cap T)
          BY <4>1, FS_Union
        <5>. QED  BY <5>1, <5>2
      <4>3. Cardinality((F \cup T) \cup {t}) = Cardinality(F \cup T) + 1
        BY <4>1, <4>2, FS_AddElement
      <4>4. (F \cup T) \cup {t} \subseteq Crew(p, k)
        BY <4>1
      <4>5. Cardinality((F \cup T) \cup {t}) <= w
        BY <2>3, <4>1, <4>4, FS_Subset
      <4>6. Cardinality(F) = f /\ Cardinality(T) = r
        BY <2>3 DEF F, T
      <4>. QED  BY <4>2, <4>3, <4>5, <4>6
    <3>6. Cardinality(Trying(p, k, a)') \in Nat /\ Cardinality(Trying(p, k, a)') <= r + 1
      <4>1. Trying(p, k, a)' \subseteq Trying(p, k, a) \cup {t}
        BY <1>1 DEF Trying
      <4>2. IsFiniteSet(Trying(p, k, a) \cup {t}) /\ Cardinality(Trying(p, k, a) \cup {t}) = r + 1
        BY <2>1, <2>3, Sizes, FS_AddElement
      <4>. QED  BY <4>1, <4>2, FS_Subset, FS_CardinalityType
    <3>7. c + Cardinality(Trying(p, k, a)') < MaxFailures + w
      <4>1. MaxFailures \in Nat
        BY Moments
      <4>2. PICK v \in Nat : v = Cardinality(Trying(p, k, a)') /\ v <= r + 1
        BY <3>6
      <4>3. c + v < MaxFailures + w
        <5>1. c \in Nat /\ f \in Nat /\ r \in Nat /\ w \in Nat /\ v \in Nat
          BY <2>3, <4>2
        <5>2. c <= (MaxFailures - 1) + f /\ f + r + 1 <= w /\ v <= r + 1
          BY <3>4, <3>5, <4>2
        <5>. QED  BY <4>1, <5>1, <5>2
      <4>. QED  BY <4>2, <4>3
    <3>8. Backed(throttle'[p].failures[k], c, Cardinality(Failing(p, k, a)'), a)
      BY <2>5, <3>3
    <3>9. Cardinality(Guessed(p, k, a)') + Cardinality(Trying(p, k, a)') < MaxFailures + Cardinality(Crew(p, k)')
      BY <1>1, <2>2, <2>3, <3>7
    <3>10. Backed(throttle[p].failures[k], Cardinality(Guessed(p, k, a)), Cardinality(Failing(p, k, a)), a)'
      BY <2>2, <2>3, <3>8 DEF Backed
    <3>. QED  BY <3>9, <3>10
  <2>. QED  BY <2>6, <2>7
<1>. QED  BY <1>2, <1>3 DEF CapInv

LEMMA GuessCap ==
  ASSUME ThrottleInv, PassedInv, NEW p \in Proc, NEW k \in Peer, CapInv(p, k),
         UNCHANGED <<site, now, throttle>>,
         NEW t \in Crew(p, k), at[t] # "failed", at'[t] = "failed", passed'[t] = passed[t],
         passed[t] # Never, guesses'[p][k] = Append(guesses[p][k], passed[t]),
         \A u \in Crew(p, k) \ {t} : passed'[u] = passed[u] /\ at'[u] = at[u]
  PROVE  CapInv(p, k)'
<1>1. Crew(p, k)' = Crew(p, k)
  BY DEF Crew
<1>2. PICK g \in Seq(Nat), h \in {guesses'[p][k]} : g = guesses[p][k] /\ h = guesses'[p][k] /\ h = Append(g, passed[t])
  BY DEF PassedInv, GuessTimes
<1>3. /\ Len(g) \in Nat /\ Len(h) = Len(g) + 1 /\ h[Len(g) + 1] = passed[t]
      /\ \A i \in 1..Len(g) : h[i] = g[i]
  <2>1. t \in Thread
    BY LoginAssumption DEF Crew, ThrottleInv
  <2>2. passed[t] \in Nat
    BY <2>1 DEF PassedInv, RequestTimes
  <2>. QED  BY <1>2, <2>2
<1>4. Spaced(p, k)'
  <2>1. ASSUME throttle[p].locked[k] # Never, NEW i \in 1..Len(h) PROVE h[i] + Lockout <= throttle[p].locked[k]
    <3>1. CASE i \in 1..Len(g)
      BY <1>2, <1>3, <2>1, <3>1 DEF CapInv, Spaced
    <3>2. CASE i = Len(g) + 1
      BY <1>3, <2>1, <3>2 DEF CapInv, Spaced
    <3>. QED  BY <1>3, <3>1, <3>2
  <2>2. \A u \in Crew(p, k) : passed'[u] = passed[u]
    OBVIOUS
  <2>. QED  BY <1>1, <1>2, <2>1, <2>2 DEF CapInv, Spaced
<1>5. ASSUME NEW a \in Nat, Start <= a
      PROVE  /\ now' \in Stretch(a) =>
                  Backed(throttle[p].failures[k], Cardinality(Guessed(p, k, a)),
                         Cardinality(Failing(p, k, a)), a)'
             /\ (Cardinality(Guessed(p, k, a)) + Cardinality(Trying(p, k, a))
                  < MaxFailures + Cardinality(Crew(p, k)))'
  <2>1. PICK c \in Nat, f \in Nat, r \in Nat, w \in Nat :
          /\ c = Cardinality(Guessed(p, k, a)) /\ f = Cardinality(Failing(p, k, a))
          /\ r = Cardinality(Trying(p, k, a)) /\ w = Cardinality(Crew(p, k))
    BY Sizes
  <2>2. /\ c + r < MaxFailures + w
        /\ now \in Stretch(a) => Backed(throttle[p].failures[k], c, f, a)
    BY <1>5, <2>1 DEF CapInv
  <2>3. PICK d \in Nat, e \in Nat, s \in Nat :
          /\ d = Cardinality(Guessed(p, k, a)') /\ e = Cardinality(Failing(p, k, a)')
          /\ s = Cardinality(Trying(p, k, a)')
          /\ d + s = c + r /\ d + f = c + e
    <3>1. CASE passed[t] \notin Stretch(a)
      <4>1. Guessed(p, k, a)' = Guessed(p, k, a)
        BY <1>2, <1>3, <3>1 DEF Guessed
      <4>2. Failing(p, k, a)' = Failing(p, k, a) /\ Trying(p, k, a)' = Trying(p, k, a)
        BY <1>1, <3>1 DEF Failing, Trying
      <4>. QED  BY <2>1, <4>1, <4>2
    <3>2. CASE passed[t] \in Stretch(a)
      <4>1. Guessed(p, k, a)' = Guessed(p, k, a) \cup {Len(g) + 1} /\ Len(g) + 1 \notin Guessed(p, k, a)
        BY <1>2, <1>3, <3>2 DEF Guessed
      <4>2. Failing(p, k, a)' = Failing(p, k, a) \cup {t} /\ t \notin Failing(p, k, a)
        BY <1>1, <3>2 DEF Failing
      <4>3. Trying(p, k, a)' = Trying(p, k, a) \ {t} /\ t \in Trying(p, k, a)
        BY <1>1, <3>2 DEF Trying
      <4>4. Cardinality(Guessed(p, k, a)') = c + 1
        <5>1. IsFiniteSet(Guessed(p, k, a))
          BY Sizes
        <5>2. Cardinality(Guessed(p, k, a) \cup {Len(g) + 1}) = c + 1
          BY <2>1, <4>1, <5>1, FS_AddElement
        <5>. QED  BY <4>1, <5>2
      <4>5. Cardinality(Failing(p, k, a)') = f + 1
        BY <2>1, <4>2, Sizes, FS_AddElement
      <4>6. Cardinality(Trying(p, k, a)') = r - 1 /\ r - 1 \in Nat
        <5>1. Cardinality(Trying(p, k, a) \ {t}) = r - 1
          BY <2>1, <4>3, Sizes, FS_RemoveElement
        <5>2. IsFiniteSet(Trying(p, k, a) \ {t})
          BY Sizes, FS_Subset
        <5>3. Cardinality(Trying(p, k, a) \ {t}) \in Nat
          BY <5>2, FS_CardinalityType
        <5>4. Cardinality(Trying(p, k, a)') = Cardinality(Trying(p, k, a) \ {t})
          BY <4>3
        <5>. QED  BY <5>1, <5>3, <5>4
      <4>7. /\ c + 1 \in Nat /\ f + 1 \in Nat
            /\ (c + 1) + (r - 1) = c + r /\ (c + 1) + f = c + (f + 1)
        <5>1. c \in Nat /\ f \in Nat /\ r \in Nat
          BY <2>1
        <5>. QED  BY <5>1
      <4>. QED  BY <4>4, <4>5, <4>6, <4>7, Zenon
    <3>. QED  BY <3>1, <3>2
  <2>4. d + s < MaxFailures + w
    BY <2>2, <2>3
  <2>5. now \in Stretch(a) => Backed(throttle[p].failures[k], d, e, a)
    <3>. SUFFICES ASSUME now \in Stretch(a) PROVE Backed(throttle[p].failures[k], d, e, a)
      OBVIOUS
    <3>1. PICK n \in 0..Len(throttle[p].failures[k]) :
            /\ \A i \in 1..Len(throttle[p].failures[k]) :
                 i > Len(throttle[p].failures[k]) - n => throttle[p].failures[k][i] >= a
            /\ c <= n + f
      BY <2>2 DEF Backed
    <3>2. Len(throttle[p].failures[k]) \in Nat
      BY Moments
    <3>3. d <= n + e
      <4>1. c \in Nat /\ d \in Nat /\ e \in Nat /\ f \in Nat /\ n \in Nat
        BY <2>1, <2>3, <3>1, <3>2
      <4>2. c <= n + f /\ d + f = c + e
        BY <2>3, <3>1
      <4>. QED  BY <4>1, <4>2
    <3>. QED  BY <3>1, <3>3 DEF Backed
  <2>6. (Cardinality(Guessed(p, k, a)) + Cardinality(Trying(p, k, a)) < MaxFailures + Cardinality(Crew(p, k)))'
    BY <1>1, <2>1, <2>3, <2>4
  <2>7. now' \in Stretch(a) =>
          Backed(throttle[p].failures[k], Cardinality(Guessed(p, k, a)), Cardinality(Failing(p, k, a)), a)'
    BY <2>3, <2>5 DEF Backed
  <2>. QED  BY <2>6, <2>7
<1>. QED  BY <1>4, <1>5 DEF CapInv

LEMMA FailureCap ==
  ASSUME ThrottleInv, PassedInv, NEW p \in Proc, NEW k \in Peer, CapInv(p, k),
         UNCHANGED <<site, now>>, guesses'[p][k] = guesses[p][k],
         throttle'[p] = AfterFailure(throttle[p], k, now),
         NEW t \in Crew(p, k), at[t] = "failed", at'[t] # "failed", passed'[t] = Never,
         \A u \in Crew(p, k) \ {t} : passed'[u] = passed[u] /\ at'[u] = at[u]
  PROVE  CapInv(p, k)'
<1>1. Crew(p, k)' = Crew(p, k)
  BY DEF Crew
<1>2. PICK q, u : /\ Ages(throttle[p].failures[k], throttle[p].locked[k], q, u, now)
                  /\ q \in Seq(Nat) /\ throttle'[p].failures[k] = Append(q, now)
                  /\ throttle'[p].locked[k] = IF Len(throttle'[p].failures[k]) >= MaxFailures
                                              THEN now + Lockout ELSE u
  <2>1. now \in Nat /\ Start <= now /\ ThrottleOK(throttle[p], now)
    BY Moments
  <2>2. Records(throttle[p].failures[k], throttle[p].locked[k], throttle'[p].failures[k],
                throttle'[p].locked[k], now)
    BY <2>1, FailureRecords
  <2>. QED  BY <2>2 DEF Records
<1>3. t \in Thread /\ \A v \in Crew(p, k) : v \in Thread
  BY LoginAssumption DEF Crew, ThrottleInv
<1>4. Spaced(p, k)'
  <2>1. \A x \in Nat : x <= now => x + Lockout <= now + Lockout
    BY Moments
  <2>2. /\ \A i \in 1..Len(guesses[p][k]) : guesses[p][k][i] \in Nat /\ guesses[p][k][i] <= now
        /\ \A v \in Crew(p, k) : passed[v] \in Nat /\ (passed[v] # Never => passed[v] <= now)
    BY <1>3, Moments DEF PassedInv, GuessTimes, RequestTimes
  <2>3. u \in {throttle[p].locked[k], Never}
    BY <1>2 DEF Ages
  <2>4. CASE throttle'[p].locked[k] = now + Lockout
    BY <1>1, <2>1, <2>2, <2>4 DEF Spaced
  <2>5. CASE throttle'[p].locked[k] = u
    BY <1>1, <2>3, <2>5 DEF CapInv, Spaced
  <2>. QED  BY <1>2, <2>4, <2>5
<1>5. ASSUME NEW a \in Nat, Start <= a
      PROVE  /\ now' \in Stretch(a) =>
                  Backed(throttle[p].failures[k], Cardinality(Guessed(p, k, a)),
                         Cardinality(Failing(p, k, a)), a)'
             /\ (Cardinality(Guessed(p, k, a)) + Cardinality(Trying(p, k, a))
                  < MaxFailures + Cardinality(Crew(p, k)))'
  <2>1. Never \notin Stretch(a)
    BY <1>5, Moments
  <2>2. PICK c \in Nat, f \in Nat, r \in Nat, w \in Nat :
          /\ c = Cardinality(Guessed(p, k, a)) /\ f = Cardinality(Failing(p, k, a))
          /\ r = Cardinality(Trying(p, k, a)) /\ w = Cardinality(Crew(p, k))
    BY Sizes
  <2>3. Guessed(p, k, a)' = Guessed(p, k, a)
    BY DEF Guessed
  <2>4. Trying(p, k, a)' = Trying(p, k, a)
    BY <1>1, <2>1 DEF Trying
  <2>5. Failing(p, k, a)' = Failing(p, k, a) \ {t}
    BY <1>1, <2>1 DEF Failing
  <2>6. (Cardinality(Guessed(p, k, a)) + Cardinality(Trying(p, k, a)) < MaxFailures + Cardinality(Crew(p, k)))'
    BY <1>1, <1>5, <2>3, <2>4 DEF CapInv
  <2>7. PICK e \in Nat : e = Cardinality(Failing(p, k, a)') /\ f <= e + 1
    <3>1. IsFiniteSet(Failing(p, k, a)) /\ IsFiniteSet(Failing(p, k, a) \ {t})
      BY Sizes, FS_Subset
    <3>2. Cardinality(Failing(p, k, a) \ {t}) = IF t \in Failing(p, k, a) THEN f - 1 ELSE f
      BY <2>2, <3>1, FS_RemoveElement
    <3>3. PICK e \in Nat : e = Cardinality(Failing(p, k, a) \ {t})
      BY <3>1, FS_CardinalityType
    <3>4. f <= e + 1
      <4>1. f \in Nat /\ e \in Nat
        BY <2>2, <3>3
      <4>2. e = f - 1 \/ e = f
        BY <3>2, <3>3
      <4>. QED  BY <4>1, <4>2
    <3>. QED  BY <2>5, <3>3, <3>4
  <2>8. ASSUME now \in Stretch(a) PROVE Backed(throttle'[p].failures[k], c, e, a)
    <3>1. Backed(throttle[p].failures[k], c, f, a)
      BY <1>5, <2>2, <2>8 DEF CapInv
    <3>2. throttle[p].locked[k] # Never /\ throttle[p].locked[k] <= now => c = 0
      BY <1>5, <2>2, <2>8, OverLockCap
    <3>3. Backed(q, c, f, a)
      <4>1. f <= f
        BY <2>2
      <4>. QED  BY <1>2, <2>8, <3>1, <3>2, <4>1, Moments, BackedAges
    <3>4. a <= now
      BY <2>8 DEF Stretch
    <3>5. now \in Nat /\ q \in Seq(Nat) /\ c \in Nat /\ f \in Nat /\ e \in Nat /\ f <= e + 1
      BY <1>2, <2>2, <2>7, Moments
    <3>6. PICK s : s = Append(q, now)
      OBVIOUS
    <3>7. Backed(s, c, e, a)
      BY <3>3, <3>4, <3>5, <3>6, BackedFailure
    <3>. QED  BY <1>2, <3>6, <3>7
  <2>9. now' \in Stretch(a) =>
          Backed(throttle[p].failures[k], Cardinality(Guessed(p, k, a)), Cardinality(Failing(p, k, a)), a)'
    BY <2>2, <2>3, <2>7, <2>8 DEF Backed
  <2>. QED  BY <2>6, <2>9
<1>. QED  BY <1>4, <1>5 DEF CapInv

\* The right credential, or a new process: nothing is held against the peer.
LEMMA ClearedCap ==
  ASSUME ThrottleInv, PassedInv, NEW p \in Proc, NEW k \in Peer, site' = site,
         guesses'[p][k] = << >>, throttle'[p].locked[k] = Never,
         throttle'[p].failures[k] = << >>
  PROVE  CapInv(p, k)'
<1>1. Crew(p, k)' = Crew(p, k)
  BY DEF Crew
<1>2. Spaced(p, k)'
  BY DEF Spaced
<1>3. ASSUME NEW a \in Nat, Start <= a
      PROVE  /\ now' \in Stretch(a) =>
                  Backed(throttle[p].failures[k], Cardinality(Guessed(p, k, a)),
                         Cardinality(Failing(p, k, a)), a)'
             /\ (Cardinality(Guessed(p, k, a)) + Cardinality(Trying(p, k, a))
                  < MaxFailures + Cardinality(Crew(p, k)))'
  <2>1. Guessed(p, k, a)' = {}
    <3>1. PICK g : g = guesses'[p][k] /\ Len(g) = 0
      OBVIOUS
    <3>. QED  BY <3>1 DEF Guessed
  <2>2. Cardinality(Guessed(p, k, a)') = 0
    BY <2>1, FS_EmptySet
  <2>3. Trying(p, k, a)' \subseteq Crew(p, k) /\ Failing(p, k, a)' \subseteq Crew(p, k)
    BY <1>1 DEF Trying, Failing
  <2>4. PICK f \in Nat, r \in Nat, w \in Nat :
          /\ f = Cardinality(Failing(p, k, a)') /\ r = Cardinality(Trying(p, k, a)')
          /\ w = Cardinality(Crew(p, k)) /\ r <= w
    BY <2>3, Sizes, FS_Subset, FS_CardinalityType
  <2>5. 0 + r < MaxFailures + w
    <3>1. r \in Nat /\ w \in Nat /\ r <= w /\ MaxFailures \in Nat /\ MaxFailures > 0
      BY <2>4, Limits
    <3>. QED  BY <3>1
  <2>6. Backed(throttle'[p].failures[k], 0, f, a)
    <3>1. PICK q : q = throttle'[p].failures[k] /\ Len(q) = 0
      OBVIOUS
    <3>2. 0 \in 0..Len(q) /\ 0 <= 0 + f
      BY <2>4, <3>1
    <3>. QED  BY <3>1, <3>2 DEF Backed
  <2>7. (Cardinality(Guessed(p, k, a)) + Cardinality(Trying(p, k, a)) < MaxFailures + Cardinality(Crew(p, k)))'
    BY <1>1, <2>2, <2>4, <2>5
  <2>8. Backed(throttle[p].failures[k], Cardinality(Guessed(p, k, a)), Cardinality(Failing(p, k, a)), a)'
    BY <2>2, <2>4, <2>6 DEF Backed
  <2>. QED  BY <2>7, <2>8
<1>. QED  BY <1>2, <1>3 DEF CapInv

LEMMA LaterCap ==
  ASSUME ThrottleInv, PassedInv, NEW p \in Proc, NEW k \in Peer, CapInv(p, k), now' = now + 1,
         UNCHANGED <<site, throttle, guesses, passed, at>>
  PROVE  CapInv(p, k)'
<1>1. Crew(p, k)' = Crew(p, k) /\ Spaced(p, k)'
  BY DEF CapInv, Crew, Spaced
<1>2. ASSUME NEW a \in Nat, Start <= a
      PROVE  /\ now' \in Stretch(a) =>
                  Backed(throttle[p].failures[k], Cardinality(Guessed(p, k, a)),
                         Cardinality(Failing(p, k, a)), a)'
             /\ (Cardinality(Guessed(p, k, a)) + Cardinality(Trying(p, k, a))
                  < MaxFailures + Cardinality(Crew(p, k)))'
  <2>1. Guessed(p, k, a)' = Guessed(p, k, a) /\ Trying(p, k, a)' = Trying(p, k, a)
        /\ Failing(p, k, a)' = Failing(p, k, a)
    BY <1>1 DEF Guessed, Trying, Failing
  <2>2. ASSUME now + 1 \in Stretch(a)
        PROVE  Backed(throttle[p].failures[k], Cardinality(Guessed(p, k, a)), Cardinality(Failing(p, k, a)), a)
    <3>1. CASE a <= now
      <4>1. now \in Stretch(a)
        BY <2>2, <3>1, Moments, Limits DEF Stretch
      <4>. QED  BY <1>2, <4>1 DEF CapInv
    <3>2. CASE a > now
      <4>1. ASSUME NEW i \in Guessed(p, k, a) PROVE FALSE
        <5>1. guesses[p][k][i] \in Start..now /\ a <= guesses[p][k][i]
          BY <4>1 DEF Guessed, Stretch, PassedInv, GuessTimes
        <5>. QED  BY <3>2, <5>1, Moments
      <4>2. Cardinality(Guessed(p, k, a)) = 0
        BY <4>1, FS_EmptySet
      <4>3. PICK f \in Nat, n \in Nat : f = Cardinality(Failing(p, k, a)) /\ n = Len(throttle[p].failures[k])
        <5>1. Cardinality(Failing(p, k, a)) \in Nat /\ throttle[p].failures[k] \in Seq(Nat)
          BY Sizes, Moments
        <5>. QED  BY <5>1
      <4>4. 0 \in 0..n /\ 0 <= 0 + f /\ \A i \in 1..n : ~(i > n - 0)
        BY <4>3
      <4>. QED  BY <4>2, <4>3, <4>4 DEF Backed
    <3>. QED  BY <3>1, <3>2, Moments
  <2>3. (Cardinality(Guessed(p, k, a)) + Cardinality(Trying(p, k, a)) < MaxFailures + Cardinality(Crew(p, k)))'
    BY <1>1, <1>2, <2>1 DEF CapInv
  <2>4. now' \in Stretch(a) =>
          Backed(throttle[p].failures[k], Cardinality(Guessed(p, k, a)), Cardinality(Failing(p, k, a)), a)'
    BY <2>1, <2>2 DEF Backed
  <2>. QED  BY <2>3, <2>4
<1>. QED  BY <1>1, <1>2 DEF CapInv

\* The steps of a thread, told apart by what they do to its peer's account.
LEMMA AccountsOfSteps ==
  ASSUME NEW t \in Thread, Step(t) \/ FileStep(t), RequestFits(t)
  PROVE  \/ Ask(t)
         \/ Succeeded(t)
         \/ Allow(t) /\ Served(t)
         \/ Failed(t) /\ Served(t)
         \/ /\ Guess(t) /\ Served(t) /\ Go(t, "failed") /\ UNCHANGED throttle
            /\ at[t] \in {"verify", "exchange", "read"} /\ job[t].task \in {"login", "callback"}
         \/ /\ Served(t) /\ UNCHANGED <<throttle, guesses>> /\ at[t] \notin {"allow", "failed"}
            /\ \E place \in Places \ {"failed"} : Go(t, place)
<1>1. Ask(t) \/ Succeeded(t) \/ Served(t)
  BY StepsOfThreads
<1>2. CASE Verify(t) \/ Exchange(t) \/ Parse(t)
  <2>1. at[t] \in {"verify", "exchange", "read"} /\ UNCHANGED throttle /\ Served(t)
    BY <1>1, <1>2 DEF Verify, Exchange, Parse, Holds, Ask, Succeeded
  <2>2. \/ UNCHANGED guesses /\ \E place \in Places \ {"failed"} : Go(t, place)
        \/ Guess(t) /\ Go(t, "failed") /\ job[t].task \in {"login", "callback"}
    BY <1>2 DEF Verify, Exchange, Parse, Holds, Places, RequestFits
  <2>. QED  BY <2>1, <2>2
<1>3. CASE FileStep(t) /\ ~Ask(t) /\ ~Succeeded(t)
  <2>1. UNCHANGED <<throttle, guesses>> /\ at[t] \notin {"allow", "failed"}
    BY <1>3 DEF FileStep, Revoke, Look, Open, Fill, Rotate, FindKey, MakeKey, FillKey, LoadKey, FillFails,
                FillKeyFails
  <2>2. \E place \in Places \ {"failed"} : Go(t, place)
    BY <1>3 DEF FileStep, Revoke, Look, Open, Fill, Rotate, FindKey, MakeKey, FillKey, LoadKey, FillFails,
                FillKeyFails, Places
  <2>. QED  BY <1>1, <1>3, <2>1, <2>2
<1>4. CASE ReadFails(t) \/ Issue(t) \/ Session(t) \/ Mint(t)
  <2>1. UNCHANGED <<throttle, guesses>> /\ at[t] \notin {"idle", "succeeded", "allow", "failed"}
    BY <1>4 DEF ReadFails, Issue, Session, Mint, Holds
  <2>2. \E place \in Places \ {"failed"} : Go(t, place)
    BY <1>4 DEF ReadFails, Issue, Session, Mint, Places
  <2>3. Served(t)
    BY <1>1, <2>1 DEF Ask, Succeeded
  <2>. QED  BY <2>1, <2>2, <2>3
<1>5. CASE Allow(t) \/ Failed(t)
  <2>1. at[t] \in {"allow", "failed"}
    BY <1>5 DEF Allow, Failed
  <2>. QED  BY <1>1, <1>5, <2>1 DEF Ask, Succeeded
<1>. QED  BY <1>2, <1>3, <1>4, <1>5 DEF Step

\* A step of a thread leaves the other peers' accounts as they are, but for
\* what the time takes out of them.
LEMMA OtherCap ==
  ASSUME ThrottleInv, PassedInv, FilesInv, NEW t \in Thread, NEW p \in Proc, NEW k \in Peer,
         CapInv(p, k), t \notin Crew(p, k), UNCHANGED <<site, now>>,
         guesses'[p][k] = guesses[p][k], AgesAt(throttle[p], throttle'[p], k, now),
         \A u \in Thread \ {t} : passed'[u] = passed[u] /\ at'[u] = at[u]
  PROVE  CapInv(p, k)'
<1>1. \A u \in Crew(p, k) : u \in Thread \ {t}
  BY LoginAssumption DEF Crew, ThrottleInv
<1>. QED  BY <1>1, QuietCap

CapsInv == \A p \in Proc, k \in Peer : CapInv(p, k)

LEMMA ThreadsOfStep ==
  ASSUME FilesInv, RequestsInv, PassedInv, NEW t \in Thread, Ask(t) \/ Succeeded(t) \/ Served(t)
  PROVE  UNCHANGED <<site, now>> /\ \A u \in Thread \ {t} : passed'[u] = passed[u] /\ at'[u] = at[u]
<1>1. DOMAIN passed = Thread /\ DOMAIN at = Thread
  BY DEF FilesInv, FilesTypes, PassedInv, RequestTimes
<1>2. CASE Ask(t)
  <2>1. PICK place : Go(t, place)
    BY <1>2 DEF Ask
  <2>. QED  BY <1>1, <1>2, <2>1 DEF Ask, Go
<1>3. CASE Succeeded(t)
  BY <1>1, <1>3 DEF Succeeded, Go, desk
<1>4. CASE Served(t)
  BY <1>4, ServedTimes DEF PassedInv
<1>. QED  BY <1>2, <1>3, <1>4

LEMMA CrewOf ==
  ASSUME NEW t \in Thread, NEW p \in Proc, NEW k \in Peer, t \in site.threads
  PROVE  t \in Crew(p, k) <=> p = P(t) /\ k = K(t)
  BY DEF Crew

LEMMA SameThrottle ==
  ASSUME ThrottleInv, NEW p \in Proc, NEW k \in Peer, throttle'[p] = throttle[p]
  PROVE  AgesAt(throttle[p], throttle'[p], k, now)
<1>1. now \in Nat /\ throttle[p] \in Throttles
  BY Moments DEF ThrottleOK
<1>. QED  BY <1>1, AgesNone

LEMMA StepCaps ==
  ASSUME FilesInv, RequestsInv, ThrottleInv, PassedInv, CapsInv,
         NEW t \in Thread, Step(t) \/ FileStep(t)
  PROVE  CapsInv'
<1>. SUFFICES ASSUME NEW p \in Proc, NEW k \in Peer PROVE CapInv(p, k)'
  BY DEF CapsInv
<1>1. /\ CapInv(p, k) /\ RequestFits(t)
      /\ DOMAIN throttle = Proc /\ DOMAIN at = Thread /\ DOMAIN passed = Thread
      /\ DOMAIN guesses = Proc /\ DOMAIN guesses[P(t)] = Peer
      /\ P(t) \in Proc /\ K(t) \in Peer
  BY Owners DEF CapsInv, RequestsInv, ThrottleInv, FilesInv, FilesTypes, PassedInv, RequestTimes, GuessTimes
<1>2. UNCHANGED <<site, now>> /\ \A u \in Thread \ {t} : passed'[u] = passed[u] /\ at'[u] = at[u]
  BY StepsOfThreads, ThreadsOfStep
<1>3. t \in site.threads
  <2>1. at[t] # "idle" \/ t \in site.threads
    BY StepsOfThreads DEF Ask, Succeeded, Served
  <2>. QED  BY <2>1 DEF PassedInv, RequestTimes
<1>4. \A u \in Crew(p, k) : u \in Thread
  BY LoginAssumption DEF Crew, ThrottleInv
<1>5. ASSUME throttle' = throttle, guesses' = guesses, t \in Crew(p, k),
             passed'[t] \in {passed[t], Never}, at[t] # "failed", at'[t] # "failed"
      PROVE  CapInv(p, k)'
  BY <1>1, <1>2, <1>4, <1>5, SameThrottle, QuietCap
<1>6. CASE Ask(t)
  <2>1. throttle' = throttle /\ guesses' = guesses /\ passed' = passed /\ at[t] = "idle"
    BY <1>6 DEF Ask
  <2>2. at'[t] # "failed"
    <3>1. PICK j : Go(t, First(t, j)) /\ First(t, j) \in {"allow", "findKey", "look"}
      BY <1>6 DEF Ask, First
    <3>. QED  BY <1>1, <3>1 DEF Go
  <2>3. CASE t \notin Crew(p, k)
    BY <1>1, <1>2, <2>1, <2>3, SameThrottle, OtherCap
  <2>. QED  BY <1>5, <2>1, <2>2, <2>3
<1>7. CASE Succeeded(t)
  <2>1. PICK th : th = Forgiven(throttle[P(t)], K(t))
    OBVIOUS
  <2>2. /\ throttle' = [throttle EXCEPT ![P(t)] = th]
        /\ guesses' = [guesses EXCEPT ![P(t)][K(t)] = << >>]
    BY <1>7, <2>1 DEF Succeeded
  <2>3. throttle[P(t)] \in Throttles /\ now \in Nat
    BY <1>1, Moments DEF ThrottleOK
  <2>4. /\ th.failures[K(t)] = << >> /\ th.locked[K(t)] = Never
        /\ \A j \in Peer \ {K(t)} : /\ th.failures[j] = throttle[P(t)].failures[j]
                                    /\ th.locked[j] = throttle[P(t)].locked[j]
    BY <1>1, <2>1, <2>3, ForgivenIs
  <2>5. \A q \in Proc : throttle'[q] = IF q = P(t) THEN th ELSE throttle[q]
    BY <1>1, <2>2
  <2>6. CASE p = P(t) /\ k = K(t)
    <3>1. guesses'[p][k] = << >>
      BY <1>1, <2>2, <2>6
    <3>. QED  BY <1>2, <2>4, <2>5, <2>6, <3>1, ClearedCap
  <2>7. CASE ~(p = P(t) /\ k = K(t))
    <3>1. t \notin Crew(p, k)
      BY <1>3, <2>7, CrewOf
    <3>2. guesses'[p][k] = guesses[p][k]
      BY <1>1, <2>2, <2>7
    <3>3. AgesAt(throttle[p], throttle'[p], k, now)
      BY <2>3, <2>4, <2>5, <2>7, SameThrottle, AgesNone
    <3>. QED  BY <1>1, <1>2, <3>1, <3>2, <3>3, OtherCap
  <2>. QED  BY <2>6, <2>7
<1>8. CASE Allow(t) /\ Served(t)
  <2>1. PICK th : th = AfterAllow(throttle[P(t)], K(t), now)
    OBVIOUS
  <2>2. throttle' = [throttle EXCEPT ![P(t)] = th] /\ guesses' = guesses /\ at[t] = "allow"
    BY <1>8, <2>1 DEF Allow
  <2>3. ThrottleOK(throttle[P(t)], now) /\ now \in Nat
    BY <1>1, Moments
  <2>4. /\ ThrottleOK(th, now) /\ \A j \in Peer : AgesAt(throttle[P(t)], th, j, now)
        /\ Allows(throttle[P(t)], K(t), now) =>
             th.locked[K(t)] = Never /\ Len(th.failures[K(t)]) < MaxFailures
    BY <1>1, <2>1, <2>3, AllowAges
  <2>5. \A q \in Proc : throttle'[q] = IF q = P(t) THEN th ELSE throttle[q]
    BY <1>1, <2>2
  <2>6. AgesAt(throttle[p], throttle'[p], k, now)
    BY <2>4, <2>5, SameThrottle
  <2>7. CASE t \notin Crew(p, k)
    BY <1>1, <1>2, <2>2, <2>6, <2>7, OtherCap
  <2>8. CASE t \in Crew(p, k)
    <3>1. p = P(t) /\ k = K(t)
      BY <1>3, <2>8, CrewOf
    <3>2. passed[t] = Never
      BY <2>2 DEF PassedInv, RequestTimes
    <3>3. CASE Allows(throttle[P(t)], K(t), now)
      <4>1. PICK place \in {"verify", "failed", "look"} : Go(t, place)
        BY <1>8, <3>3 DEF Allow
      <4>2. at'[t] # "idle"
        BY <1>1, <4>1 DEF Go
      <4>3. passed'[t] = now
        BY <1>8, <2>2, <4>2, ServedTimes DEF PassedInv
      <4>4. throttle'[p].failures[k] \in Seq(Nat)
        BY <2>4, <2>5, <3>1 DEF ThrottleOK, Throttles
      <4>5. throttle'[p].locked[k] = Never /\ Len(throttle'[p].failures[k]) < MaxFailures
        BY <2>4, <2>5, <3>1, <3>3
      <4>6. \A u \in Crew(p, k) \ {t} : passed'[u] = passed[u] /\ at'[u] = at[u]
        BY <1>2, <1>4
      <4>7. at[t] # "failed" /\ guesses'[p][k] = guesses[p][k]
        BY <2>2
      <4>. QED  BY <1>1, <1>2, <2>6, <2>8, <3>2, <4>3, <4>4, <4>5, <4>6, <4>7, LetThroughCap
    <3>4. CASE ~Allows(throttle[P(t)], K(t), now)
      <4>1. at'[t] = "idle"
        <5>1. Go(t, "idle")
          BY <1>8, <3>4 DEF Allow
        <5>. QED  BY <1>1, <5>1 DEF Go
      <4>2. passed'[t] = Never
        BY <1>8, <4>1, ServedTimes DEF PassedInv
      <4>. QED  BY <1>1, <1>2, <1>4, <2>2, <2>6, <4>1, <4>2, QuietCap
    <3>. QED  BY <3>3, <3>4
  <2>. QED  BY <2>7, <2>8
<1>9. CASE Failed(t) /\ Served(t)
  <2>1. PICK th : th = AfterFailure(throttle[P(t)], K(t), now)
    OBVIOUS
  <2>2. throttle' = [throttle EXCEPT ![P(t)] = th] /\ guesses' = guesses /\ at[t] = "failed" /\ Go(t, "idle")
    BY <1>9, <2>1 DEF Failed
  <2>3. ThrottleOK(throttle[P(t)], now) /\ now \in Nat /\ Start <= now
    BY <1>1, Moments
  <2>4. \A j \in Peer \ {K(t)} : AgesAt(throttle[P(t)], th, j, now)
    BY <1>1, <2>1, <2>3, FailureRecords
  <2>5. \A q \in Proc : throttle'[q] = IF q = P(t) THEN th ELSE throttle[q]
    BY <1>1, <2>2
  <2>6. at'[t] = "idle" /\ passed'[t] = Never
    <3>1. at'[t] = "idle"
      BY <1>1, <2>2 DEF Go
    <3>. QED  BY <1>9, <3>1, ServedTimes DEF PassedInv
  <2>7. CASE p = P(t) /\ k = K(t)
    <3>1. t \in Crew(p, k) /\ throttle'[p] = AfterFailure(throttle[p], k, now)
      BY <1>3, <2>1, <2>5, <2>7, CrewOf
    <3>2. \A u \in Crew(p, k) \ {t} : passed'[u] = passed[u] /\ at'[u] = at[u]
      BY <1>2, <1>4
    <3>3. at'[t] # "failed" /\ at[t] = "failed" /\ guesses'[p][k] = guesses[p][k]
      BY <2>2, <2>6
    <3>. QED  BY <1>1, <1>2, <2>6, <3>1, <3>2, <3>3, FailureCap
  <2>8. CASE ~(p = P(t) /\ k = K(t))
    <3>1. t \notin Crew(p, k)
      BY <1>3, <2>8, CrewOf
    <3>2. AgesAt(throttle[p], throttle'[p], k, now)
      BY <2>4, <2>5, <2>8, SameThrottle
    <3>. QED  BY <1>1, <1>2, <2>2, <3>1, <3>2, OtherCap
  <2>. QED  BY <2>7, <2>8
<1>10. CASE /\ Guess(t) /\ Served(t) /\ Go(t, "failed") /\ UNCHANGED throttle
            /\ at[t] \in {"verify", "exchange", "read"} /\ job[t].task \in {"login", "callback"}
  <2>1. PICK s : s = Append(guesses[P(t)][K(t)], passed[t])
    OBVIOUS
  <2>2. guesses' = [guesses EXCEPT ![P(t)][K(t)] = s]
    BY <1>10, <2>1 DEF Guess
  <2>3. at'[t] = "failed" /\ passed'[t] = passed[t] /\ at[t] # "failed" /\ passed[t] # Never
    <3>1. at'[t] = "failed"
      BY <1>1, <1>10 DEF Go
    <3>2. passed'[t] = passed[t]
      BY <1>10, <3>1, ServedTimes DEF PassedInv
    <3>. QED  BY <1>10, <3>1, <3>2 DEF PassedInv, RequestTimes
  <2>4. CASE p = P(t) /\ k = K(t)
    <3>1. t \in Crew(p, k)
      BY <1>3, <2>4, CrewOf
    <3>2. guesses'[p][k] = Append(guesses[p][k], passed[t])
      BY <1>1, <2>1, <2>2, <2>4
    <3>3. \A u \in Crew(p, k) \ {t} : passed'[u] = passed[u] /\ at'[u] = at[u]
      BY <1>2, <1>4
    <3>. QED  BY <1>1, <1>2, <1>10, <2>3, <3>1, <3>2, <3>3, GuessCap
  <2>5. CASE ~(p = P(t) /\ k = K(t))
    <3>1. t \notin Crew(p, k)
      BY <1>3, <2>5, CrewOf
    <3>2. guesses'[p][k] = guesses[p][k]
      BY <1>1, <2>2, <2>5
    <3>. QED  BY <1>1, <1>2, <1>10, <3>1, <3>2, SameThrottle, OtherCap
  <2>. QED  BY <2>4, <2>5
<1>11. CASE /\ Served(t) /\ UNCHANGED <<throttle, guesses>> /\ at[t] \notin {"allow", "failed"}
            /\ \E place \in Places \ {"failed"} : Go(t, place)
  <2>1. passed'[t] \in {passed[t], Never}
    BY <1>11, ServedTimes DEF PassedInv
  <2>2. at'[t] # "failed"
    BY <1>1, <1>11 DEF Go
  <2>3. CASE t \notin Crew(p, k)
    BY <1>1, <1>2, <1>11, <2>3, SameThrottle, OtherCap
  <2>. QED  BY <1>5, <1>11, <2>1, <2>2, <2>3
<1>. QED  BY <1>1, <1>6, <1>7, <1>8, <1>9, <1>10, <1>11, AccountsOfSteps

LEMMA NextCaps ==
  ASSUME FilesInv, RequestsInv, ThrottleInv, PassedInv, CapsInv, [Next]_vars PROVE CapsInv'
<1>1. CASE UNCHANGED vars \/ Deleted
  <2>1. UNCHANGED <<site, now, throttle, guesses, passed, at>>
    BY <1>1 DEF vars, Deleted, desk, HostDeletes
  <2>. SUFFICES ASSUME NEW p \in Proc, NEW k \in Peer PROVE CapInv(p, k)'
    BY DEF CapsInv
  <2>2. CapInv(p, k) /\ AgesAt(throttle[p], throttle'[p], k, now)
    BY <2>1, SameThrottle DEF CapsInv
  <2>. QED  BY <2>1, <2>2, QuietCap
<1>2. CASE Tick
  <2>1. now' = now + 1 /\ UNCHANGED <<site, throttle, guesses, passed, at>>
    BY <1>2 DEF Tick
  <2>. QED  BY <2>1, LaterCap DEF CapsInv
<1>3. ASSUME NEW p \in Proc, Restart(p) PROVE CapsInv'
  <2>1. /\ at' = [t \in Thread |-> IF P(t) = p THEN "idle" ELSE at[t]]
        /\ passed' = [t \in Thread |-> IF P(t) = p THEN Never ELSE passed[t]]
        /\ throttle' = [throttle EXCEPT ![p] = Untouched]
        /\ guesses' = [guesses EXCEPT ![p] = [k \in Peer |-> << >>]]
        /\ UNCHANGED <<site, now>>
    BY <1>3 DEF Restart
  <2>2. DOMAIN throttle = Proc /\ DOMAIN guesses = Proc
    BY DEF ThrottleInv, PassedInv, GuessTimes
  <2>. SUFFICES ASSUME NEW q \in Proc, NEW k \in Peer PROVE CapInv(q, k)'
    BY DEF CapsInv
  <2>3. CASE q = p
    <3>1. guesses'[q][k] = << >> /\ throttle'[q] = Untouched
      BY <2>1, <2>2, <2>3
    <3>2. Untouched.failures[k] = << >> /\ Untouched.locked[k] = Never
      BY DEF Untouched
    <3>. QED  BY <2>1, <3>1, <3>2, ClearedCap
  <2>4. CASE q # p
    <3>1. guesses'[q][k] = guesses[q][k] /\ throttle'[q] = throttle[q]
      BY <2>1, <2>2, <2>4
    <3>2. \A t \in Crew(q, k) : t \in Thread /\ P(t) # p
      BY <2>4, LoginAssumption DEF Crew, ThrottleInv
    <3>3. \A t \in Crew(q, k) : passed'[t] = passed[t] /\ at'[t] = at[t]
      BY <2>1, <3>2
    <3>4. CapInv(q, k) /\ AgesAt(throttle[q], throttle'[q], k, now)
      BY <3>1, SameThrottle DEF CapsInv
    <3>. QED  BY <2>1, <3>1, <3>3, <3>4, QuietCap
  <2>. QED  BY <2>3, <2>4
<1>. QED  BY <1>1, <1>2, <1>3, StepCaps DEF Next

LEMMA InitCaps == Init => PassedInv /\ CapsInv
<1>. SUFFICES ASSUME Init PROVE PassedInv /\ CapsInv
  OBVIOUS
<1>1. /\ site \in Sites /\ at = [t \in Thread |-> "idle"] /\ job = [t \in Thread |-> Idle]
      /\ passed = [t \in Thread |-> Never] /\ throttle = [p \in Proc |-> Untouched]
      /\ guesses = [p \in Proc |-> [k \in Peer |-> << >>]]
  BY DEF Init
<1>2. << >> \in Seq(Nat) /\ Len(<< >>) = 0 /\ Never \in Nat
  BY Limits
<1>3. PassedInv
  <2>1. RequestTimes
    BY <1>1, <1>2 DEF RequestTimes, Idle
  <2>2. GuessTimes
    BY <1>1, <1>2 DEF GuessTimes
  <2>. QED  BY <2>1, <2>2 DEF PassedInv
<1>4. ASSUME NEW p \in Proc, NEW k \in Peer PROVE CapInv(p, k)
  <2>1. /\ guesses[p][k] = << >> /\ throttle[p].locked[k] = Never
        /\ throttle[p].failures[k] = << >>
    BY <1>1 DEF Untouched
  <2>2. Spaced(p, k)
    BY <2>1 DEF Spaced
  <2>3. ASSUME NEW a \in Nat, Start <= a
        PROVE  /\ Backed(throttle[p].failures[k], Cardinality(Guessed(p, k, a)),
                         Cardinality(Failing(p, k, a)), a)
               /\ Cardinality(Guessed(p, k, a)) + Cardinality(Trying(p, k, a))
                    < MaxFailures + Cardinality(Crew(p, k))
    <3>1. Never \notin Stretch(a)
      BY <2>3, Limits DEF Stretch
    <3>2. \A t \in Crew(p, k) : t \in Thread
      BY <1>1, LoginAssumption DEF Crew
    <3>3. Guessed(p, k, a) = {}
      BY <1>2, <2>1 DEF Guessed
    <3>4. Trying(p, k, a) = {} /\ Failing(p, k, a) = {}
      BY <1>1, <3>1, <3>2 DEF Trying, Failing
    <3>5. Cardinality({}) = 0
      BY FS_EmptySet
    <3>6. Cardinality(Crew(p, k)) \in Nat
      <4>1. IsFiniteSet(site.threads) /\ Crew(p, k) \subseteq site.threads
        BY <1>1, LoginAssumption DEF Crew
      <4>. QED  BY <4>1, FS_Subset, FS_CardinalityType
    <3>7. 0 + 0 < MaxFailures + Cardinality(Crew(p, k))
      BY <3>6, Limits
    <3>8. Backed(throttle[p].failures[k], 0, 0, a)
      <4>1. PICK q : q = throttle[p].failures[k] /\ Len(q) = 0
        BY <1>2, <2>1
      <4>2. 0 \in 0..Len(q) /\ 0 <= 0 + 0
        BY <4>1
      <4>. QED  BY <4>1, <4>2 DEF Backed
    <3>. QED  BY <3>3, <3>4, <3>5, <3>7, <3>8
  <2>. QED  BY <2>2, <2>3 DEF CapInv
<1>. QED  BY <1>3, <1>4 DEF CapsInv

LEMMA CapsHold == Spec => [](LoginInv /\ ThrottleInv /\ PassedInv /\ CapsInv)
<1>1. LoginInv /\ ThrottleInv /\ PassedInv /\ CapsInv /\ [Next]_vars => PassedInv' /\ CapsInv'
  BY StepRequestTimes, StepGuessTimes, NextCaps DEF LoginInv, PassedInv
<1>. QED  BY <1>1, InitCaps, LoginHolds, ThrottleHolds, PTL DEF Spec

\* Guessing is capped (GuessesAreCapped): of the requests one peer has let
\* through in a stretch of the window that no lockout ends, no more than the
\* limit and the threads beyond the first present a wrong credential, whatever
\* the threads do between allow() and record_failure().
THEOREM GuessesStayCapped == Spec => []GuessesAreCapped
<1>. SUFFICES LoginInv /\ ThrottleInv /\ PassedInv /\ CapsInv => GuessesAreCapped
  BY CapsHold, PTL
<1>. SUFFICES ASSUME ThrottleInv, PassedInv, CapsInv, NEW p \in Proc, NEW k \in Peer,
                     NEW i \in 1..Len(guesses[p][k])
              PROVE  Cardinality(Guessed(p, k, guesses[p][k][i]))
                       <= MaxFailures + Cardinality(Crew(p, k)) - 1
  BY DEF GuessesAreCapped, Guessed
<1>1. PICK a : a = guesses[p][k][i]
  OBVIOUS
<1>2. a \in Nat /\ Start <= a
  BY <1>1, Moments DEF PassedInv, GuessTimes
<1>3. PICK c \in Nat, r \in Nat, w \in Nat :
        /\ c = Cardinality(Guessed(p, k, a)) /\ r = Cardinality(Trying(p, k, a))
        /\ w = Cardinality(Crew(p, k))
  BY <1>2, Sizes
<1>4. c + r < MaxFailures + w
  BY <1>2, <1>3 DEF CapsInv, CapInv
<1>5. c <= MaxFailures + w - 1
  <2>1. c \in Nat /\ r \in Nat /\ w \in Nat /\ MaxFailures \in Nat
    BY <1>3, Limits
  <2>. QED  BY <1>4, <2>1
<1>. QED  BY <1>1, <1>3, <1>5
=============================================================================
