------------------------------ MODULE LoginGuard ------------------------------
(***************************************************************************)
(* Signing in, being signed in and being signed out: the routes login,     *)
(* oidc_login, oidc_callback and revoke_sessions of service/app/main.py    *)
(* with the session and state tokens they issue and check.  A request is a *)
(* thread of one server process; the throttle is the process's own, the    *)
(* files are everybody's.  Between the throttle's answer and the recorded  *)
(* verdict, and between looking for the secret and reading it, other       *)
(* threads run.                                                            *)
(***************************************************************************)
EXTENDS LoginThrottle, AuthFiles

CONSTANTS Proc,          \* server processes
          ProcOf,        \* the process a thread belongs to
          PeerOf,        \* the peer address its requests come from
          Person,        \* who the identity provider may answer for, with claims
          Invited,       \* the allowlist of subjects and mail addresses
          Ttl,           \* seconds a session token, or a sign-in's state, lasts
          Sites,         \* the deployments: what is there, what is asked of whom,
                         \* and the bounds on the clock and on the requests
          MaxRestarts    \* bound: restarts of a process

VARIABLES site,          \* the deployment
          now,           \* the clock of time.time()
          throttle,      \* each process's LoginThrottle
          sso,           \* whether a process was started with an issuer
          since,         \* when it last was
          job,           \* what each thread was asked; once the credential is
                         \* good, to issue a session for its subject
          tokens,        \* session tokens handed out
          states,        \* sign-in states handed out
          revoked,       \* history: the sessions handed out before the last revocation
          final,         \* history: nobody was about to write a secret at that time
          passed,        \* history: when the throttle let a thread's request through
          guesses,       \* history: when those that presented wrong credentials, since
                         \* a right one, had been let through
          asks, restarts

revocation == <<revoked, final>>
vars == <<files, at, site, now, throttle, sso, since, job, tokens, states,
          revocation, passed, guesses, asks, restarts>>
desk == <<now, sso, since, asks, restarts, site>>

Operator == "operator"

ASSUME LoginAssumption ==
  /\ ProcOf \in [Thread -> Proc] /\ PeerOf \in [Thread -> Peer]
  /\ MaxRestarts \in Nat
  /\ \A s \in Sites : /\ s.cookie \in {Missing, 1} /\ s.sso \in BOOLEAN
                       /\ s.clock \in Nat /\ s.asks \in Nat
                       /\ IsFiniteSet(s.threads) /\ s.threads \subseteq Thread
  \* principal_for: a subject from the provider is never the operator's.
  /\ \A person \in Person : person.sub # Operator

Start == Window + 1      \* the clock begins where the first sweep is due
Idle == [task |-> "none"]

\* A request that was answered is forgotten
Kept(t) ==
  /\ job' = [job EXCEPT ![t] = IF at'[t] = "idle" THEN Idle ELSE @]
  /\ passed' = [passed EXCEPT ![t] = IF at'[t] = "idle" THEN Never
                                     ELSE IF at[t] = "allow" THEN now ELSE @]

P(t) == ProcOf[t]
K(t) == PeerOf[t]
Fresh(token) == now <= token.issued + Ttl

\* allowed_principal and principal_for: by subject or by address, named by subject
Admitted(person) == person.sub \in Invited \/ person.mail \in Invited

Jobs(t) ==
  {j \in [task : {"login"}, right : BOOLEAN]
         \cup [task : {"check", "revoke"}, token : tokens]
         \cup [task : {"redirect", "sign"}]
         \cup [task : {"callback"}, state : states \cup {Idle},
               idp : {"answers", "refuses", "hasNoKeys"}, who : Person] :
     j.task \in site.tasks}

Places == {"idle", "allow", "verify", "failed", "succeeded", "exchange", "look",
           "open", "fill", "read", "rotate", "findKey", "makeKey", "fillKey", "loadKey"}

Init ==
  /\ site \in Sites
  /\ FilesInit(site.cookie)
  /\ at = [t \in Thread |-> "idle"]
  /\ now = Start
  /\ throttle = [p \in Proc |-> Untouched]
  /\ sso = [p \in Proc |-> site.sso] /\ since = [p \in Proc |-> Start]
  /\ job = [t \in Thread |-> Idle]
  /\ tokens = {} /\ states = {} /\ revoked = {} /\ final = TRUE
  /\ passed = [t \in Thread |-> Never]
  /\ guesses = [p \in Proc |-> [k \in Peer |-> << >>]]
  /\ asks = 0 /\ restarts = 0

-----------------------------------------------------------------------------
(* The request arrives: the refusals that come before anything else         *)

First(t, j) ==
  CASE j.task \in {"login", "callback"} -> "allow"
    [] j.task = "sign" -> "findKey"
    [] OTHER -> "look"

Ask(t) ==
  \E j \in Jobs(t) :
    /\ at[t] = "idle" /\ t \in site.threads /\ asks < site.asks
    /\ j.task = "login" => ~sso[P(t)]
    /\ j.task \in {"redirect", "callback"} => sso[P(t)]
    /\ j.task \in {"check", "revoke"} => Fresh(j.token)
    /\ job' = [job EXCEPT ![t] = j]
    /\ Go(t, First(t, j))
    /\ asks' = asks + 1
    /\ UNCHANGED <<files, revocation, site, now, throttle, sso, since, tokens, states,
                   passed, guesses, restarts>>

-----------------------------------------------------------------------------
(* The throttle and the verdict                                             *)

Allow(t) ==
  /\ at[t] = "allow"
  /\ throttle' = [throttle EXCEPT ![P(t)] = AfterAllow(@, K(t), now)]
  /\ \/ ~Allows(throttle[P(t)], K(t), now) /\ Go(t, "idle")
     \/ /\ Allows(throttle[P(t)], K(t), now)
        /\ \/ job[t].task = "login" /\ Go(t, "verify")
           \/ /\ job[t].task = "callback"
              /\ Go(t, IF job[t].state = Idle THEN "failed" ELSE "look")
  /\ UNCHANGED <<files, revocation, desk, tokens, states, guesses>>

Guess(t) == guesses' = [guesses EXCEPT ![P(t)][K(t)] = Append(@, passed[t])]

\* verify_password: slow on purpose, and under no lock
Verify(t) ==
  /\ at[t] = "verify"
  /\ \/ job[t].right /\ Go(t, "succeeded") /\ UNCHANGED guesses
     \/ ~job[t].right /\ Go(t, "failed") /\ Guess(t)
  /\ UNCHANGED <<files, revocation, desk, throttle, tokens, states>>

Failed(t) ==
  /\ at[t] = "failed"
  /\ throttle' = [throttle EXCEPT ![P(t)] = AfterFailure(@, K(t), now)]
  /\ Go(t, "idle")
  /\ UNCHANGED <<files, revocation, desk, tokens, states, guesses>>

Subject(t) == IF job[t].task = "login" THEN Operator ELSE job[t].who.sub

Succeeded(t) ==
  /\ at[t] = "succeeded"
  /\ throttle' = [throttle EXCEPT ![P(t)] = Forgiven(@, K(t))]
  /\ guesses' = [guesses EXCEPT ![P(t)][K(t)] = << >>]
  /\ job' = [job EXCEPT ![t] = [task |-> "issue", subject |-> Subject(t)]]
  /\ passed' = [passed EXCEPT ![t] = Never]
  /\ Go(t, "look")
  /\ UNCHANGED <<files, revocation, desk, tokens, states>>

\* The code is exchanged and the claims are validated.  Keys that cannot be
\* fetched raise outside the handler's except: no failure is recorded
Exchange(t) ==
  /\ at[t] = "exchange"
  /\ \/ job[t].idp = "hasNoKeys" /\ Go(t, "idle") /\ UNCHANGED guesses
     \/ /\ job[t].idp = "answers" /\ Admitted(job[t].who)
        /\ Go(t, "succeeded") /\ UNCHANGED guesses
     \/ /\ job[t].idp = "refuses" \/ (job[t].idp = "answers" /\ ~Admitted(job[t].who))
        /\ Go(t, "failed") /\ Guess(t)
  /\ UNCHANGED <<files, revocation, desk, throttle, tokens, states>>

-----------------------------------------------------------------------------
(* The secret is read, for one of five purposes                             *)

Undisturbed == Writers = {}

\* Mutant: a file that is not there reads as an empty secret
HoldsAnyway(t) == at[t] = "read"

Holds(t) == /\ at[t] = "read" /\ cookieFile # Missing

\* The file went between the look and the read: the request fails
ReadFails(t) ==
  /\ at[t] = "read" /\ cookieFile = Missing
  /\ Go(t, "idle")
  /\ UNCHANGED <<files, revocation, desk, throttle, tokens, states, guesses>>

\* issue_session
Issue(t) ==
  /\ Holds(t) /\ job[t].task = "issue"
  /\ tokens' = tokens \cup
       {[subject |-> job[t].subject, issued |-> now, secret |-> cookieFile,
         settled |-> Undisturbed]}
  /\ Go(t, "idle")
  /\ UNCHANGED <<files, revocation, desk, throttle, states, guesses>>

\* session_subject; a revocation goes on only for the operator
Session(t) ==
  /\ Holds(t) /\ job[t].task \in {"check", "revoke"}
  /\ Go(t, IF /\ job[t].task = "revoke"
              /\ job[t].token.secret = cookieFile /\ job[t].token.subject = Operator
           THEN "rotate" ELSE "idle")
  /\ UNCHANGED <<files, revocation, desk, throttle, tokens, states, guesses>>

\* make_state, and the parse_state that takes the nonce out of it again
Mint(t) ==
  /\ Holds(t) /\ job[t].task = "redirect"
  /\ states' = states \cup {[issued |-> now, secret |-> cookieFile]}
  /\ Go(t, "idle")
  /\ UNCHANGED <<files, revocation, desk, throttle, tokens, guesses>>

\* parse_state of the callback
Parse(t) ==
  /\ Holds(t) /\ job[t].task = "callback"
  /\ \/ /\ job[t].state.secret = cookieFile /\ Fresh(job[t].state)
        /\ Go(t, "exchange") /\ UNCHANGED guesses
     \/ /\ job[t].state.secret # cookieFile \/ ~Fresh(job[t].state)
        /\ Go(t, "failed") /\ Guess(t)
  /\ UNCHANGED <<files, revocation, desk, throttle, tokens, states>>

-----------------------------------------------------------------------------
(* The files, the clock, and the processes                                  *)

Step(t) ==
  \/ Ask(t) \/ Succeeded(t)
  \/ /\ \/ Allow(t) \/ Verify(t) \/ Failed(t) \/ Exchange(t)
        \/ ReadFails(t) \/ Issue(t) \/ Session(t) \/ Mint(t) \/ Parse(t)
     /\ Kept(t)

Revoke(t) == Rotate(t) /\ revoked' = tokens /\ final' = Undisturbed

FileStep(t) ==
  /\ \/ Revoke(t)
     \/ /\ \/ Look(t) \/ Open(t) \/ Fill(t)
           \/ FindKey(t) \/ MakeKey(t) \/ FillKey(t) \/ LoadKey(t)
           \/ site.faults /\ (FillFails(t) \/ FillKeyFails(t))
        /\ UNCHANGED revocation
  /\ Kept(t)
  /\ UNCHANGED <<desk, throttle, tokens, states, guesses>>

Deleted ==
  /\ site.deletes /\ tokens # {}
  /\ HostDeletes
  /\ revoked' = tokens /\ final' = FALSE
  /\ UNCHANGED <<desk, job, throttle, tokens, states, passed, guesses>>

Tick ==
  /\ now < Start + site.clock
  /\ now' = now + 1
  /\ UNCHANGED <<files, revocation, at, site, throttle, sso, since, job, tokens, states,
                 passed, guesses, asks, restarts>>

\* A process starts again, perhaps with an issuer configured: its threads and
\* its throttle are gone, a file it had open stays as it is
Restart(p) ==
  LET ours == {t \in Thread : P(t) = p} IN
  /\ restarts < MaxRestarts /\ site.faults
  /\ restarts' = restarts + 1
  /\ at' = [t \in Thread |-> IF t \in ours THEN "idle" ELSE at[t]]
  /\ mine' = [t \in Thread |-> IF t \in ours THEN NoSecret ELSE mine[t]]
  /\ tries' = [t \in Thread |-> IF t \in ours THEN 0 ELSE tries[t]]
  /\ throttle' = [throttle EXCEPT ![p] = Untouched]
  /\ passed' = [t \in Thread |-> IF t \in ours THEN Never ELSE passed[t]]
  /\ guesses' = [guesses EXCEPT ![p] = [k \in Peer |-> << >>]]
  /\ sso' = [sso EXCEPT ![p] = TRUE]
  /\ since' = [since EXCEPT ![p] = IF sso[p] THEN @ ELSE now]
  /\ job' = [t \in Thread |-> IF t \in ours THEN Idle ELSE job[t]]
  /\ UNCHANGED <<cookieFile, keyFile, made, loaded, site, now, tokens, states,
                 revocation, asks>>

Next ==
  \/ \E t \in Thread : Step(t) \/ FileStep(t)
  \/ Deleted \/ Tick
  \/ \E p \in Proc : Restart(p)

Spec == Init /\ [][Next]_vars

-----------------------------------------------------------------------------
(* Properties                                                               *)

\* Every variable keeps its type: one type invariant for the module.
TypeOK ==
  /\ FilesTypeOK
  /\ at \in [Thread -> Places] /\ now \in Start..(Start + site.clock)
  /\ \A p \in Proc, k \in Peer :
       /\ throttle[p].locked[k] \in {Never} \cup Start..(now + Lockout)
       /\ \A i \in 1..Len(throttle[p].failures[k]) : throttle[p].failures[k][i] \in Start..now
  /\ \A token \in tokens : token.issued <= now /\ token.secret \in Contents \ {Missing}
  /\ revoked \subseteq tokens /\ final \in BOOLEAN
  /\ asks \in 0..site.asks /\ restarts \in 0..MaxRestarts

\* Guessing is rate-capped, not only slowed: of the requests from one peer let
\* through in a stretch of time no longer than the window and shorter than the
\* lockout, since the last right credential, no more present a wrong credential
\* than the limit, and those that were at it before the limit was reached.  The
\* throttle is asked before the slow check and told after it.
Stretch(start) == {time \in Nat : /\ start <= time /\ time <= start + Window
                                  /\ time < start + Lockout}

Crew(p, k) == {t \in site.threads : P(t) = p /\ K(t) = k}

GuessesAreCapped ==
  \A p \in Proc, k \in Peer :
    LET g == guesses[p][k] IN
    \A i \in 1..Len(g) :
      Cardinality({j \in 1..Len(g) : g[j] \in Stretch(g[i])})
        <= MaxFailures + Cardinality(Crew(p, k)) - 1

\* A full set of failures is behind a lockout, however sweeps and expiries
\* fall: the branch of allow() that would start a lockout late is never taken.
FailuresAreLocked ==
  \A p \in Proc, k \in Peer :
    Len(throttle[p].failures[k]) >= MaxFailures => throttle[p].locked[k] # Never

\* A lockout ends: no later than the lockout's time after the last failure
\* recorded, exactly then if the failures still in the window are a full set,
\* and asking while locked out does not prolong it.
LockoutsEnd ==
  \A p \in Proc, k \in Peer :
    LET wins == throttle[p].failures[k]
    IN  throttle[p].locked[k] > now /\ wins # << >> =>
          /\ throttle[p].locked[k] <= wins[Len(wins)] + Lockout
          /\ Len(wins) >= MaxFailures =>
               throttle[p].locked[k] = wins[Len(wins)] + Lockout

\* What one failure leaves behind does not stay for ever: after any call, no
\* failure and no lockout is older than the last sweep allowed, for the peers
\* that never come back as well.
ColdPeersAreForgotten ==
  \A p \in Proc, k \in Peer :
    LET th == throttle[p] IN
    /\ \A i \in 1..Len(th.failures[k]) : th.failures[k][i] + Window >= th.swept
    /\ th.locked[k] # Never => th.locked[k] > th.swept

\* The throttle locks out whoever used up the failures, for as long as it says
\* and no longer, and keeps nothing of a peer that stays away.
LockoutsAreExact == FailuresAreLocked /\ LockoutsEnd /\ ColdPeersAreForgotten

\* A session signed while nobody was writing a first secret is honoured until
\* it expires or somebody revokes: no late first write takes it back.
SettledSessionsHold ==
  \A token \in tokens :
    token.settled => token \in revoked \/ token.secret = cookieFile

\* No session handed out before a revocation is honoured again, whatever was
\* under way, but for one: a session signed with the empty secret of a file that
\* was created and not yet written is good again while the file is empty once
\* more, because a thread that had found no file before the revocation, or finds
\* none after the host's owner deleted it, truncates what is there.  A revocation
\* while nobody is about to write is final for that session too.
RevokedStaysRevoked ==
  \A token \in revoked : token.secret = cookieFile => token.secret = Torn /\ ~final

\* Once every process has an issuer, the operator's last cookies end with
\* their lifetime: no thread of the old regime signs a later one.
OperatorEndsUnderSso ==
  (\A p \in Proc : sso[p]) =>
    \A token \in tokens :
      token.subject = Operator => \E p \in Proc : token.issued <= since[p]

\* A session lasts until its lifetime, a revocation or the switch to an issuer
\* ends it, and not beyond, with the exceptions the two parts name.
SessionsLastAsPromised == SettledSessionsHold /\ RevokedStaysRevoked /\ OperatorEndsUnderSso

\* Threads of all processes that come away with a signing key come away with
\* the same one, and it is the one on the volume: no packet is signed by a
\* key another's creation replaced.
OneSigningKey == loaded \subseteq {keyFile}

==============================================================================
