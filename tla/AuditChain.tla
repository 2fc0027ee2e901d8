----------------------------- MODULE AuditChain -----------------------------
(***************************************************************************)
(* append_event (service/app/audit.py): the per-matter hash chain, written *)
(* by the request and pool threads of every API process.  Three layers     *)
(* order the writers: a lock per matter inside a process, SQLite's write   *)
(* lock (BEGIN IMMEDIATE, db.py) across processes, and the unique          *)
(* (matter_id, seq) constraint with a savepoint and a bounded retry.       *)
(*                                                                         *)
(* A thread's request opens a transaction with its permission check, then  *)
(* either stages rows that append_event commits with the event, or commits *)
(* them first (grant, revoke), and may append again right afterwards       *)
(* (create_release, job_bundle), its transaction then not open yet.        *)
(***************************************************************************)
EXTENDS Integers, Sequences, FiniteSets

CONSTANTS
  Matter,
  Proc,          \* API processes sharing the database
  Slot,          \* threads of each process
  Serializable,  \* TRUE: SQLite (BEGIN IMMEDIATE), FALSE: Postgres
  Attempts,      \* _APPEND_ATTEMPTS
  MaxCall,       \* bound on the appends of each thread
  MaxCrash       \* bound on process deaths

ASSUME ChainAssumption ==
  /\ IsFiniteSet(Proc)
  /\ Serializable \in BOOLEAN
  /\ Attempts \in Nat \ {0}
  /\ MaxCall \in Nat
  /\ MaxCrash \in Nat

Thread == [proc : Proc, slot : Slot]
NoThread == [proc |-> "none"]

\* An event is the call that appends it: which thread, and its how-manieth.
Event == Thread \X (1 .. MaxCall)

(***************************************************************************)
(* event_hash is injective: a digest is the tuple of what it commits to.   *)
(***************************************************************************)
GENESIS == <<>>
EventHash(prev, seq, event) == <<prev, seq, event>>

Unread == [seq |-> 0, prev |-> GENESIS]

VARIABLES
  rows,     \* committed AuditEvent rows of each matter
  records,  \* calls whose own rows (documents, grants, ...) are committed
  lock,     \* holder of each process's lock for each matter
  tx,       \* holder of SQLite's write lock
  pc,       \* where each thread stands
  matter,   \* the matter of each thread's request
  call,     \* how many appends each thread has begun
  staged,   \* threads with rows staged in their session
  early,    \* calls that committed their rows before the append
  tries,    \* collisions of a thread's current call
  last,     \* seq and prev_hash a thread goes by
  crashes

session == <<matter, call, staged, early, tries, last>>
vars == <<rows, records, lock, tx, pc, session, crashes>>

Init ==
  /\ rows = [m \in Matter |-> {}]
  /\ records = {}
  /\ lock = [p \in Proc |-> [m \in Matter |-> NoThread]]
  /\ tx = NoThread
  /\ pc = [t \in Thread |-> "idle"]
  /\ matter \in [Thread -> Matter]
  /\ call = [t \in Thread |-> 0]
  /\ staged = {}
  /\ early = {}
  /\ tries = [t \in Thread |-> 0]
  /\ last = [t \in Thread |-> Unread]
  /\ crashes = 0

This(t) == <<t, call[t]>>
Chain(t) == rows[matter[t]]

Go(t, label) == pc' = [pc EXCEPT ![t] = label]

\* BEGIN IMMEDIATE: no other thread's transaction may be open.
Free(t) == Serializable => tx \in {NoThread, t}
Hold(t) == tx' = IF Serializable THEN t ELSE NoThread
Rollback(t) == tx' = IF tx = t THEN NoThread ELSE tx

Acquire(t) == lock' = [lock EXCEPT ![t.proc][matter[t]] = t]

\* Mutant: the lock is not left when append_event raises or returns.
UnlockNever(t) == lock' = lock

Unlock(t) == lock' = [lock EXCEPT ![t.proc][matter[t]] = NoThread]

----------------------------------------------------------------------------
(***************************************************************************)
(* The caller: permission check, then its own rows.                        *)
(***************************************************************************)
BeginRequest(t) ==
  /\ pc[t] = "idle" /\ call[t] < MaxCall /\ Free(t)
  /\ call' = [call EXCEPT ![t] = @ + 1]
  /\ \E m \in Matter : matter' = [matter EXCEPT ![t] = m]
  /\ Hold(t) /\ Go(t, "open")
  /\ UNCHANGED <<rows, records, lock, staged, early, tries, last,
                 crashes>>

StageRows(t) ==
  /\ pc[t] = "open"
  /\ staged' = staged \cup {t}
  /\ Go(t, "call")
  /\ UNCHANGED <<rows, records, lock, tx, matter, call, early, tries, last,
                 crashes>>

\* grant and revoke commit before put_acl and delete_acl append.
CommitRows(t) ==
  /\ pc[t] = "open"
  /\ records' = records \cup {This(t)}
  /\ early' = early \cup {This(t)}
  /\ Rollback(t) /\ Go(t, "call")
  /\ UNCHANGED <<rows, lock, matter, call, staged, tries, last, crashes>>

\* The handler appends once more, with rows staged and no transaction open.
CallAgain(t) ==
  /\ pc[t] = "returned" /\ call[t] < MaxCall
  /\ call' = [call EXCEPT ![t] = @ + 1]
  /\ staged' = staged \cup {t}
  /\ Go(t, "call")
  /\ UNCHANGED <<rows, records, lock, tx, matter, early, tries, last,
                 crashes>>

\* The locals of append_event are gone with the request of these threads.
Forget(ts) ==
  /\ tries' = [t \in Thread |-> IF t \in ts THEN 0 ELSE tries[t]]
  /\ last' = [t \in Thread |-> IF t \in ts THEN Unread ELSE last[t]]

EndRequest(t) ==
  /\ pc[t] \in {"returned", "exhausted", "busy"}
  /\ Forget({t}) /\ Go(t, "idle")
  /\ UNCHANGED <<rows, records, lock, tx, matter, call, staged, early, crashes>>

----------------------------------------------------------------------------
(***************************************************************************)
(* append_event.                                                           *)
(***************************************************************************)
LockFree(t) == lock[t.proc][matter[t]] = NoThread

TakeLock(t) ==
  /\ pc[t] = "call" /\ LockFree(t)
  /\ Acquire(t)
  /\ tries' = [tries EXCEPT ![t] = 0]
  /\ Go(t, "locked")
  /\ UNCHANGED <<rows, records, tx, matter, call, staged, early, last, crashes>>

\* max(seq) of the matter, and the hash of that row.
Tip(t) ==
  IF Chain(t) = {} THEN {Unread}
  ELSE {[seq |-> r.seq + 1, prev |-> r.hash] :
          r \in {q \in Chain(t) : \A o \in Chain(t) : o.seq <= q.seq}}

ReadTip(t) ==
  /\ pc[t] = "locked" /\ Free(t)
  /\ \E tip \in Tip(t) : last' = [last EXCEPT ![t] = tip]
  /\ Hold(t) /\ Go(t, "read")
  /\ UNCHANGED <<rows, records, lock, matter, call, staged, early, tries,
                 crashes>>

NewRow(t) ==
  [seq |-> last[t].seq, prev |-> last[t].prev, event |-> This(t),
   hash |-> EventHash(last[t].prev, last[t].seq, This(t))]

\* Mutant: no unique (matter_id, seq) constraint.
TakenNever(t) == FALSE

\* The unique (matter_id, seq) constraint.
Taken(t) == \E r \in Chain(t) : r.seq = last[t].seq

\* Inside the SAVEPOINT, s.commit() commits the outermost transaction: the
\* event and whatever the caller staged.
Insert(t) ==
  /\ pc[t] = "read" /\ ~Taken(t)
  /\ rows' = [rows EXCEPT ![matter[t]] = @ \cup {NewRow(t)}]
  /\ records' = IF t \in staged THEN records \cup {This(t)} ELSE records
  /\ staged' = staged \ {t}
  /\ Unlock(t) /\ Rollback(t) /\ Go(t, "returned")
  /\ UNCHANGED <<matter, call, early, tries, last, crashes>>

\* Mutant: the retry rolls the whole session back, not its savepoint.
KeptAfterCollisionNone(t) == staged \ {t}

KeptAfterCollision(t) == staged

Collide(t) ==
  /\ pc[t] = "read" /\ Taken(t)
  /\ tries[t] + 1 < Attempts
  /\ tries' = [tries EXCEPT ![t] = @ + 1]
  /\ staged' = KeptAfterCollision(t)
  /\ Go(t, "locked")
  /\ UNCHANGED <<rows, records, lock, tx, matter, call, early, last,
                 crashes>>

\* append_event raises: the lock is left, the session closed, and what it
\* had staged is gone.
Raise(t, label) ==
  /\ staged' = staged \ {t}
  /\ Unlock(t) /\ Rollback(t) /\ Go(t, label)
  /\ UNCHANGED <<rows, records, matter, call, early, last, crashes>>

Exhaust(t) ==
  /\ pc[t] = "read" /\ Taken(t)
  /\ tries[t] + 1 = Attempts
  /\ tries' = [tries EXCEPT ![t] = @ + 1]
  /\ Raise(t, "exhausted")

\* busy_timeout: five seconds without SQLite's write lock.
BusyTimeout(t) ==
  /\ pc[t] = "locked" /\ ~Free(t)
  /\ tries' = tries
  /\ Raise(t, "busy")

----------------------------------------------------------------------------
\* A process dies: its locks and transactions are gone.
Crash(p) ==
  /\ crashes < MaxCrash
  /\ crashes' = crashes + 1
  /\ lock' = [lock EXCEPT ![p] = [m \in Matter |-> NoThread]]
  /\ tx' = IF tx.proc = p THEN NoThread ELSE tx
  /\ pc' = [t \in Thread |-> IF t.proc = p THEN "idle" ELSE pc[t]]
  /\ staged' = {t \in staged : t.proc # p}
  /\ Forget({t \in Thread : t.proc = p})
  /\ UNCHANGED <<rows, records, matter, call, early>>

Request(t) ==
  \/ StageRows(t) \/ CommitRows(t) \/ EndRequest(t)

AppendStep(t) ==
  \/ TakeLock(t) \/ ReadTip(t) \/ Insert(t) \/ Collide(t) \/ Exhaust(t)
  \/ BusyTimeout(t)

Next ==
  \/ \E t \in Thread :
       BeginRequest(t) \/ Request(t) \/ CallAgain(t) \/ AppendStep(t)
  \/ \E p \in Proc : Crash(p)

Spec == Init /\ [][Next]_vars

\* A thread that is inside a request keeps running; nobody has to send one.
Fairness == \A t \in Thread : WF_vars(Request(t)) /\ WF_vars(AppendStep(t))

FairSpec == Spec /\ Fairness

----------------------------------------------------------------------------
(***************************************************************************)
(* verify_chain sorts the rows by seq and walks them: the place of each row,  *)
(* the link to the row before it, and its hash.                            *)
(***************************************************************************)
VerifyChain(evs) ==
  \A ev \in evs :
    LET before == {q \in evs \ {ev} : q.seq <= ev.seq}
    IN  /\ ev.seq = Cardinality(before)
        /\ IF ev.seq = 0 THEN ev.prev = GENESIS
           ELSE \E q \in before : q.seq = ev.seq - 1 /\ ev.prev = q.hash
        /\ ev.hash = EventHash(ev.prev, ev.seq, ev.event)

TypeOK ==
  /\ DOMAIN rows = Matter
  /\ \A m \in Matter :
       /\ IsFiniteSet(rows[m])
       /\ \A r \in rows[m] : r.seq \in Nat /\ r.event \in Event
  /\ records \in SUBSET Event
  /\ early \in SUBSET records
  /\ lock \in [Proc -> [Matter -> Thread \cup {NoThread}]]
  /\ tx \in Thread \cup {NoThread}
  /\ pc \in [Thread -> {"idle", "open", "call", "locked", "read", "returned",
                        "exhausted", "busy"}]
  /\ matter \in [Thread -> Matter]
  /\ call \in [Thread -> 0 .. MaxCall]
  /\ staged \in SUBSET Thread
  /\ tries \in [Thread -> 0 .. Attempts]
  /\ DOMAIN last = Thread /\ \A t \in Thread : last[t].seq \in Nat
  /\ crashes \in 0 .. MaxCrash

(***************************************************************************)
(* Properties.                                                             *)
(***************************************************************************)
\* Whoever races, retries or dies, the committed rows of a matter pass
\* verify_chain: seq is gapless and every row commits to its predecessor.
ChainVerifies == \A m \in Matter : VerifyChain(rows[m])

Events == UNION {{r.event : r \in rows[m]} : m \in Matter}

\* The rows a caller stages before append_event are committed exactly when its
\* event is: a collision's savepoint neither drops them nor publishes them.
RowsWithEvent == records \ early = Events \ early

\* No append collides on SQLite, where the write lock covers the read, nor
\* inside a single process, where the matter's lock does.
CollidesAcrossProcesses ==
  Serializable \/ Cardinality(Proc) = 1 => \A t \in Thread : tries[t] = 0

\* The events in seq order.
Entries(evs) ==
  [i \in {r.seq + 1 : r \in evs} |-> (CHOOSE r \in evs : r.seq + 1 = i).event]

\* The chain implements the append-only log: every call of append_event that
\* commits adds its event once, at the end of its matter's log.
Log == INSTANCE AuditLog WITH log <- [m \in Matter |-> Entries(rows[m])]
IsLog == Log!Spec

\* Every append_event call returns or raises.
AppendEnds ==
  \A t \in Thread : pc[t] = "call" ~> pc[t] \notin {"call", "locked", "read"}
=============================================================================
