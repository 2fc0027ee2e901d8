------------------------- MODULE AuditChain_proofs --------------------------
(***************************************************************************)
(* What append_event guarantees for any matters, processes and threads,    *)
(* on either database, with any number of calls and process deaths.        *)
(***************************************************************************)
EXTENDS AuditChain, FiniteSetTheorems, TLAPS

LEMMA ThreadIsSomebody ==
  \A t \in Thread : t # NoThread /\ t.proc \in Proc
BY DEF Thread, NoThread

LEMMA SameThread ==
  \A t, u \in Thread : t.proc = u.proc /\ t.slot = u.slot => t = u
BY DEF Thread

(***************************************************************************)
(* Types.  A thread inside a request is in one of its calls, which is what *)
(* makes its event one of Event.                                           *)
(***************************************************************************)
InACall == \A t \in Thread : pc[t] # "idle" => call[t] > 0

TypeInv == TypeOK /\ InACall

LEMMA SuccessorOf == \A n \in Nat : n + 1 # 0 /\ (n + 1) - 1 = n
OBVIOUS

LEMMA TypeInit == Init => TypeInv
BY ChainAssumption, FS_EmptySet DEF Init, TypeInv, TypeOK, InACall, Unread

LEMMA ThisIsEvent ==
  ASSUME TypeInv, NEW t \in Thread, pc[t] # "idle"
  PROVE  This(t) \in Event
BY ChainAssumption DEF TypeInv, TypeOK, InACall, This, Event

LEMMA TypeRequest ==
  ASSUME TypeInv, NEW t \in Thread, BeginRequest(t) \/ Request(t) \/ CallAgain(t)
  PROVE  TypeInv'
<1>. USE ChainAssumption DEF TypeInv
<1>1. CASE BeginRequest(t)
  <2>1. call' \in [Thread -> 0 .. MaxCall] /\ InACall'
    BY <1>1 DEF TypeOK, BeginRequest, Go, InACall
  <2>2. matter' \in [Thread -> Matter] /\ tx' \in Thread \cup {NoThread}
    BY <1>1 DEF TypeOK, BeginRequest, Hold
  <2>. QED
    BY <1>1, <2>1, <2>2 DEF TypeOK, BeginRequest, Go
<1>2. CASE StageRows(t)
  BY <1>2 DEF TypeOK, InACall, StageRows, Go
<1>3. CASE CommitRows(t)
  <2>1. This(t) \in Event
    BY <1>3, ThisIsEvent DEF CommitRows
  <2>. QED
    BY <1>3, <2>1 DEF TypeOK, InACall, CommitRows, Go, Rollback
<1>4. CASE EndRequest(t)
  <2>1. /\ tries' \in [Thread -> 0 .. Attempts]
        /\ DOMAIN last' = Thread /\ \A u \in Thread : last'[u].seq \in Nat
    BY <1>4 DEF TypeOK, EndRequest, Forget, Unread
  <2>. QED
    BY <1>4, <2>1 DEF TypeOK, InACall, EndRequest, Go
<1>5. CASE CallAgain(t)
  <2>1. call' \in [Thread -> 0 .. MaxCall] /\ InACall'
    BY <1>5 DEF TypeOK, InACall, CallAgain, Go
  <2>. QED
    BY <1>5, <2>1 DEF TypeOK, CallAgain, Go
<1>. QED  BY <1>1, <1>2, <1>3, <1>4, <1>5 DEF Request

LEMMA TypeAppend ==
  ASSUME TypeInv, NEW t \in Thread, AppendStep(t)
  PROVE  TypeInv'
<1>. USE ChainAssumption DEF TypeInv
<1>0. t.proc \in Proc /\ matter[t] \in Matter
  BY ThreadIsSomebody DEF TypeOK
<1>1. CASE TakeLock(t)
  <2>1. Cardinality(Chain(t)) \in Nat
    BY <1>0, FS_CardinalityType DEF TypeOK, Chain
  <2>2. lock' \in [Proc -> [Matter -> Thread \cup {NoThread}]]
    BY <1>0, <1>1 DEF TypeOK, TakeLock, Acquire
  <2>. QED
    BY <1>1, <2>1, <2>2 DEF TypeOK, InACall, TakeLock, Go
<1>2. CASE ReadTip(t)
  <2>1. PICK tip \in Tip(t) : last' = [last EXCEPT ![t] = tip]
    BY <1>2 DEF ReadTip
  <2>2. tip.seq \in Nat
    BY <1>0, <2>1 DEF Tip, TypeOK, Chain, Unread
  <2>3. DOMAIN last' = Thread /\ \A u \in Thread : last'[u].seq \in Nat
    BY <2>1, <2>2 DEF TypeOK
  <2>. QED
    BY <1>2, <2>3 DEF TypeOK, InACall, ReadTip, Go, Hold
<1>3. CASE Insert(t)
  <2>1. This(t) \in Event
    BY <1>3, ThisIsEvent DEF Insert
  <2>2. \A m \in Matter :
          /\ IsFiniteSet(rows'[m])
          /\ \A r \in rows'[m] : r.seq \in Nat /\ r.event \in Event
    <3>. SUFFICES ASSUME NEW m \in Matter
         PROVE /\ IsFiniteSet(rows'[m])
               /\ \A r \in rows'[m] : r.seq \in Nat /\ r.event \in Event
      OBVIOUS
    <3>1. rows'[m] = IF m = matter[t] THEN rows[m] \cup {NewRow(t)} ELSE rows[m]
      BY <1>3 DEF Insert, TypeOK
    <3>2. NewRow(t).seq \in Nat /\ NewRow(t).event \in Event
      BY <2>1 DEF NewRow, TypeOK
    <3>3. IsFiniteSet(rows[m] \cup {NewRow(t)})
      BY FS_AddElement DEF TypeOK
    <3>. QED  BY <3>1, <3>2, <3>3 DEF TypeOK
  <2>3. records' \in SUBSET Event /\ early' \in SUBSET records'
    BY <1>3, <2>1 DEF Insert, TypeOK
  <2>4. lock' \in [Proc -> [Matter -> Thread \cup {NoThread}]]
    BY <1>0, <1>3 DEF TypeOK, Insert, Unlock
  <2>. QED
    BY <1>3, <2>2, <2>3, <2>4 DEF TypeOK, InACall, Insert, Go, Rollback
<1>4. CASE Collide(t)
  <2>1. tries' \in [Thread -> 0 .. Attempts]
    BY <1>4 DEF Collide, TypeOK
  <2>. QED
    BY <1>4, <2>1 DEF TypeOK, InACall, Collide, KeptAfterCollision, Go
<1>5. ASSUME NEW label \in {"exhausted", "busy"}, Raise(t, label),
             tries' \in [Thread -> 0 .. Attempts], pc[t] # "idle"
      PROVE  TypeInv'
  <2>1. lock' \in [Proc -> [Matter -> Thread \cup {NoThread}]]
    BY <1>0, <1>5 DEF TypeOK, Raise, Unlock
  <2>. QED
    BY <1>5, <2>1 DEF TypeOK, InACall, Raise, Go, Rollback
<1>6. CASE Exhaust(t)
  <2>1. tries' \in [Thread -> 0 .. Attempts]
    BY <1>6 DEF Exhaust, TypeOK
  <2>. QED  BY <1>5, <1>6, <2>1 DEF Exhaust
<1>7. CASE BusyTimeout(t)
  BY <1>5, <1>7 DEF BusyTimeout, TypeOK
<1>. QED  BY <1>1, <1>2, <1>3, <1>4, <1>6, <1>7 DEF AppendStep

LEMMA TypeCrash ==
  ASSUME TypeInv, NEW p \in Proc, Crash(p)
  PROVE  TypeInv'
<1>. USE ChainAssumption DEF TypeInv
<1>1. /\ tries' \in [Thread -> 0 .. Attempts]
      /\ DOMAIN last' = Thread /\ \A u \in Thread : last'[u].seq \in Nat
  BY DEF TypeOK, Crash, Forget, Unread
<1>2. /\ pc' \in [Thread -> {"idle", "open", "call", "locked", "read",
                              "returned", "exhausted", "busy"}]
      /\ InACall'
  BY DEF TypeOK, InACall, Crash
<1>. QED
  BY <1>1, <1>2 DEF TypeOK, Crash

LEMMA TypeStep == TypeInv /\ [Next]_vars => TypeInv'
<1>. SUFFICES ASSUME TypeInv, [Next]_vars PROVE TypeInv'
  OBVIOUS
<1>1. CASE UNCHANGED vars
  BY <1>1 DEF vars, session, TypeInv, TypeOK, InACall
<1>. QED
  BY <1>1, TypeRequest, TypeAppend, TypeCrash DEF Next

\* Every variable keeps its type.
THEOREM TypeCorrect == Spec => []TypeOK
<1>1. TypeInv => TypeOK
  BY DEF TypeInv
<1>. QED  BY <1>1, TypeInit, TypeStep, PTL DEF Spec

LEMMA TypeAlways == Spec => []TypeInv
BY TypeInit, TypeStep, PTL DEF Spec

----------------------------------------------------------------------------
(***************************************************************************)
(* Who holds what: a thread between its read and its commit holds its      *)
(* process's lock of the matter and, on SQLite, the database.              *)
(***************************************************************************)
Inside(t) == pc[t] \in {"locked", "read"}

HasLock == \A t \in Thread : Inside(t) => lock[t.proc][matter[t]] = t

HasTx ==
  Serializable => \A t \in Thread : pc[t] \in {"open", "read"} => tx = t

HoldInv == HasLock /\ HasTx

LEMMA HoldInit == Init => HoldInv
BY DEF Init, HoldInv, HasLock, HasTx, Inside

LEMMA HoldRequest ==
  ASSUME TypeInv, HoldInv, NEW t \in Thread,
         BeginRequest(t) \/ Request(t) \/ CallAgain(t)
  PROVE  HoldInv'
<1>. USE ThreadIsSomebody DEF TypeInv, TypeOK, HoldInv, HasLock, HasTx, Inside
<1>1. CASE BeginRequest(t)
  BY <1>1 DEF BeginRequest, Free, Hold, Go
<1>2. CASE StageRows(t)
  BY <1>2 DEF StageRows, Go
<1>3. CASE CommitRows(t)
  BY <1>3 DEF CommitRows, Rollback, Go
<1>4. CASE EndRequest(t)
  BY <1>4 DEF EndRequest, Go
<1>5. CASE CallAgain(t)
  BY <1>5 DEF CallAgain, Go
<1>. QED  BY <1>1, <1>2, <1>3, <1>4, <1>5 DEF Request

\* Leaving the lock takes nobody else's.
LEMMA UnlockSpares ==
  ASSUME TypeInv, HoldInv, NEW t \in Thread, Inside(t), Unlock(t),
         NEW u \in Thread, u # t, Inside(u)
  PROVE  lock'[u.proc][matter[u]] = u
BY ThreadIsSomebody DEF TypeInv, TypeOK, HoldInv, HasLock, Unlock

LEMMA HoldAppend ==
  ASSUME TypeInv, HoldInv, NEW t \in Thread, AppendStep(t)
  PROVE  HoldInv'
<1>1. CASE TakeLock(t)
  BY <1>1, ThreadIsSomebody
  DEF TypeInv, TypeOK, HoldInv, HasLock, HasTx, Inside, TakeLock, LockFree, Acquire, Go
<1>2. CASE ReadTip(t)
  BY <1>2, ThreadIsSomebody
  DEF TypeInv, TypeOK, HoldInv, HasLock, HasTx, Inside, ReadTip, Free, Hold, Go
<1>3. ASSUME Inside(t), Unlock(t), Rollback(t), UNCHANGED matter,
             NEW label \in {"returned", "exhausted", "busy"}, Go(t, label)
      PROVE  HoldInv'
  <2>1. \A u \in Thread : Inside(u)' => u # t /\ Inside(u)
    BY <1>3 DEF TypeInv, TypeOK, Inside, Go
  <2>2. HasLock'
    BY <1>3, <2>1, UnlockSpares DEF HasLock
  <2>3. HasTx'
    BY <1>3 DEF TypeInv, TypeOK, HoldInv, HasTx, Rollback, Go
  <2>. QED  BY <2>2, <2>3 DEF HoldInv
<1>4. CASE Insert(t)
  BY <1>3, <1>4 DEF Insert, Inside
<1>5. CASE Collide(t)
  BY <1>5, ThreadIsSomebody
  DEF TypeInv, TypeOK, HoldInv, HasLock, HasTx, Inside, Collide, Go
<1>6. CASE Exhaust(t)
  BY <1>3, <1>6 DEF Exhaust, Raise, Inside
<1>7. CASE BusyTimeout(t)
  BY <1>3, <1>7 DEF BusyTimeout, Raise, Inside
<1>. QED  BY <1>1, <1>2, <1>4, <1>5, <1>6, <1>7 DEF AppendStep

LEMMA HoldCrash ==
  ASSUME TypeInv, HoldInv, NEW p \in Proc, Crash(p)
  PROVE  HoldInv'
<1>1. \A t \in Thread : pc'[t] # "idle" => t.proc # p /\ pc'[t] = pc[t]
  BY DEF TypeInv, TypeOK, Crash
<1>2. HasLock'
  BY <1>1, ThreadIsSomebody DEF TypeInv, TypeOK, HoldInv, HasLock, Inside, Crash
<1>3. HasTx'
  BY <1>1 DEF HoldInv, HasTx, Crash
<1>. QED  BY <1>2, <1>3 DEF HoldInv

LEMMA HoldStep == TypeInv /\ HoldInv /\ [Next]_vars => HoldInv'
<1>. SUFFICES ASSUME TypeInv, HoldInv, [Next]_vars PROVE HoldInv'
  OBVIOUS
<1>1. CASE UNCHANGED vars
  BY <1>1 DEF vars, session, HoldInv, HasLock, HasTx, Inside
<1>. QED
  BY <1>1, HoldRequest, HoldAppend, HoldCrash DEF Next

LEMMA HoldAlways == Spec => []HoldInv
BY TypeAlways, HoldInit, HoldStep, PTL DEF Spec

----------------------------------------------------------------------------
(***************************************************************************)
(* The chain.  Rows are numbered 0 .. n-1, once each, and every row and    *)
(* every tip a thread goes by commits to a row before it.  A tip may be    *)
(* stale: then its number is taken, and nothing is inserted.               *)
(***************************************************************************)
LinksTo(evs, seq, prev) ==
  IF seq = 0 THEN prev = GENESIS
  ELSE \E q \in evs : q.seq = seq - 1 /\ prev = q.hash

Numbered(evs) ==
  /\ {r.seq : r \in evs} = 0 .. Cardinality(evs) - 1
  /\ \A q, r \in evs : q.seq = r.seq => q = r

Linked(evs) ==
  \A r \in evs :
    LinksTo(evs, r.seq, r.prev) /\ r.hash = EventHash(r.prev, r.seq, r.event)

ChainInv ==
  /\ \A m \in Matter : Numbered(rows[m]) /\ Linked(rows[m])
  /\ \A t \in Thread : pc[t] = "read"
                         => LinksTo(Chain(t), last[t].seq, last[t].prev)

\* What thread t is about to insert fits: the next number, the last hash.
LEMMA InsertFits ==
  ASSUME TypeInv, ChainInv, NEW t \in Thread, pc[t] = "read", ~Taken(t)
  PROVE  LET evs == Chain(t) \cup {NewRow(t)}
         IN  /\ last[t].seq = Cardinality(Chain(t))
             /\ Cardinality(evs) = Cardinality(Chain(t)) + 1
             /\ Numbered(evs) /\ Linked(evs)
<1>. DEFINE evs == Chain(t) \cup {NewRow(t)}
            n == Cardinality(Chain(t))
<1>1. /\ IsFiniteSet(Chain(t)) /\ n \in Nat /\ last[t].seq \in Nat
      /\ \A r \in Chain(t) : r.seq \in Nat
      /\ Numbered(Chain(t)) /\ Linked(Chain(t))
      /\ LinksTo(Chain(t), last[t].seq, last[t].prev)
  BY FS_CardinalityType DEF TypeInv, TypeOK, ChainInv, Chain
<1>2. \A i : i \in 0 .. n - 1 <=> \E r \in Chain(t) : r.seq = i
  BY <1>1 DEF Numbered
<1>3. last[t].seq \notin 0 .. n - 1
  BY <1>2 DEF Taken
<1>4. last[t].seq = n
  <2>1. CASE last[t].seq = 0
    BY <1>1, <1>3, <2>1
  <2>2. CASE last[t].seq # 0
    <3>1. last[t].seq - 1 \in 0 .. n - 1
      BY <1>1, <1>2, <2>2 DEF LinksTo
    <3>. QED  BY <1>1, <1>3, <3>1
  <2>. QED  BY <2>1, <2>2
<1>5. NewRow(t).seq = n /\ NewRow(t) \notin Chain(t)
  BY <1>1, <1>2, <1>3, <1>4 DEF NewRow
<1>6. Cardinality(evs) = n + 1
  BY <1>1, <1>5, FS_AddElement
<1>7. Numbered(evs)
  <2>1. {r.seq : r \in evs} = {r.seq : r \in Chain(t)} \cup {n}
    BY <1>5
  <2>2. {r.seq : r \in evs} = 0 .. Cardinality(evs) - 1
    BY <1>1, <1>6, <2>1 DEF Numbered
  <2>3. \A q, r \in evs : q.seq = r.seq => q = r
    BY <1>1, <1>2, <1>5 DEF Numbered
  <2>. QED  BY <2>2, <2>3 DEF Numbered
<1>8. Linked(evs)
  <2>1. \A seq, prev : LinksTo(Chain(t), seq, prev) => LinksTo(evs, seq, prev)
    BY DEF LinksTo
  <2>2. /\ LinksTo(evs, NewRow(t).seq, NewRow(t).prev)
        /\ NewRow(t).hash = EventHash(NewRow(t).prev, NewRow(t).seq, NewRow(t).event)
    BY <1>1, <2>1 DEF NewRow
  <2>. QED  BY <1>1, <2>1, <2>2 DEF Linked
<1>. QED  BY <1>4, <1>6, <1>7, <1>8

LEMMA ChainInit == Init => ChainInv
<1>. SUFFICES ASSUME Init PROVE ChainInv
  OBVIOUS
<1>1. Cardinality({}) = 0
  BY FS_EmptySet
<1>. QED
  BY <1>1 DEF Init, ChainInv, Numbered, Linked

\* A step that adds no row keeps the chain, if the tips read are tips.
LEMMA ChainKept ==
  ASSUME ChainInv, UNCHANGED rows,
         \A u \in Thread : pc'[u] = "read" =>
           \/ pc[u] = "read" /\ matter'[u] = matter[u] /\ last'[u] = last[u]
           \/ LinksTo(rows[matter'[u]], last'[u].seq, last'[u].prev)
  PROVE  ChainInv'
BY DEF ChainInv, Chain

LEMMA ChainAppend ==
  ASSUME TypeInv, ChainInv, NEW t \in Thread, AppendStep(t)
  PROVE  ChainInv'
<1>. USE DEF TypeInv, TypeOK
<1>1. CASE TakeLock(t)
  BY <1>1, ChainKept DEF TakeLock, Go
<1>2. CASE ReadTip(t)
  <2>1. PICK tip \in Tip(t) : last' = [last EXCEPT ![t] = tip]
    BY <1>2 DEF ReadTip
  <2>2. LinksTo(Chain(t), tip.seq, tip.prev)
    <3>1. CASE Chain(t) = {}
      BY <2>1, <3>1 DEF Tip, Unread, LinksTo
    <3>2. CASE Chain(t) # {}
      <4>1. PICK r \in Chain(t) : tip = [seq |-> r.seq + 1, prev |-> r.hash]
        BY <2>1, <3>2 DEF Tip
      <4>2. r.seq \in Nat
        BY DEF InACall, Chain
      <4>3. tip.seq = r.seq + 1 /\ tip.prev = r.hash
        BY <4>1
      <4>4. tip.seq # 0 /\ r.seq = tip.seq - 1
        <5>1. r.seq + 1 # 0 /\ (r.seq + 1) - 1 = r.seq
          BY <4>2, SuccessorOf
        <5>. QED  BY <4>3, <5>1, Zenon
      <4>. QED  BY <4>3, <4>4 DEF LinksTo
    <3>. QED  BY <3>1, <3>2
  <2>3. \A u \in Thread : last'[u] = IF u = t THEN tip ELSE last[u]
    BY <2>1
  <2>4. \A u \in Thread : pc'[u] = "read" /\ u # t => pc[u] = "read"
    BY <1>2 DEF ReadTip, Go
  <2>5. UNCHANGED <<rows, matter>>
    BY <1>2 DEF ReadTip
  <2>6. LinksTo(rows[matter'[t]], last'[t].seq, last'[t].prev)
    BY <2>2, <2>3, <2>5 DEF Chain
  <2>. QED
    BY <2>3, <2>4, <2>5, <2>6, ChainKept
<1>3. CASE Insert(t)
  <2>1. \A m \in Matter :
          rows'[m] = IF m = matter[t] THEN Chain(t) \cup {NewRow(t)} ELSE rows[m]
    BY <1>3 DEF Insert, Chain
  <2>2. \A m \in Matter : Numbered(rows'[m]) /\ Linked(rows'[m])
    BY <1>3, <2>1, InsertFits DEF Insert, ChainInv
  <2>3. \A u \in Thread : pc'[u] = "read" =>
          LinksTo(rows'[matter'[u]], last'[u].seq, last'[u].prev)
    <3>. SUFFICES ASSUME NEW u \in Thread, pc'[u] = "read"
         PROVE  LinksTo(rows'[matter'[u]], last'[u].seq, last'[u].prev)
      OBVIOUS
    <3>1. /\ pc[u] = "read" /\ matter'[u] = matter[u] /\ last'[u] = last[u]
          /\ rows[matter[u]] \subseteq rows'[matter[u]]
      BY <1>3, <2>1 DEF Insert, Go, Chain
    <3>2. LinksTo(rows[matter[u]], last[u].seq, last[u].prev)
      BY <3>1 DEF ChainInv, Chain
    <3>. QED  BY <3>1, <3>2 DEF LinksTo
  <2>. QED  BY <2>2, <2>3 DEF ChainInv, Chain
<1>4. CASE Collide(t)
  BY <1>4, ChainKept DEF Collide, Go
<1>5. CASE Exhaust(t)
  BY <1>5, ChainKept DEF Exhaust, Raise, Go
<1>6. CASE BusyTimeout(t)
  BY <1>6, ChainKept DEF BusyTimeout, Raise, Go
<1>. QED  BY <1>1, <1>2, <1>3, <1>4, <1>5, <1>6 DEF AppendStep

LEMMA ChainStep == TypeInv /\ ChainInv /\ [Next]_vars => ChainInv'
<1>. SUFFICES ASSUME TypeInv, ChainInv, [Next]_vars PROVE ChainInv'
  OBVIOUS
<1>. USE DEF TypeInv, TypeOK
<1>1. CASE UNCHANGED vars
  BY <1>1, ChainKept DEF vars, session
<1>2. ASSUME NEW t \in Thread, BeginRequest(t) \/ Request(t) \/ CallAgain(t)
      PROVE  ChainInv'
  <2>1. CASE BeginRequest(t)
    BY <2>1, ChainKept DEF BeginRequest, Go
  <2>2. CASE StageRows(t)
    BY <2>2, ChainKept DEF StageRows, Go
  <2>3. CASE CommitRows(t)
    BY <2>3, ChainKept DEF CommitRows, Go
  <2>4. CASE EndRequest(t)
    BY <2>4, ChainKept DEF EndRequest, Forget, Go
  <2>5. CASE CallAgain(t)
    BY <2>5, ChainKept DEF CallAgain, Go
  <2>. QED  BY <1>2, <2>1, <2>2, <2>3, <2>4, <2>5 DEF Request
<1>3. ASSUME NEW p \in Proc, Crash(p)
      PROVE  ChainInv'
  BY <1>3, ChainKept DEF Crash, Forget
<1>. QED
  BY <1>1, <1>2, <1>3, ChainAppend DEF Next

LEMMA ChainAlways == Spec => []ChainInv
BY TypeAlways, ChainInit, ChainStep, PTL DEF Spec

\* In a numbered chain as many rows stand before a row as its number says.
LEMMA PlaceIsNumber ==
  ASSUME NEW evs, IsFiniteSet(evs), Numbered(evs),
         \A r \in evs : r.seq \in Nat, NEW ev \in evs
  PROVE  Cardinality({q \in evs \ {ev} : q.seq <= ev.seq}) = ev.seq
<1>. DEFINE before == {q \in evs \ {ev} : q.seq <= ev.seq}
            places == 0 .. ev.seq - 1
            f == [q \in before |-> q.seq]
<1>1. \A q \in before : q.seq \in places
  BY DEF Numbered
<1>2. f \in Injection(before, places)
  BY <1>1 DEF Injection, Numbered, IsInjective
<1>3. f \in Surjection(before, places)
  <2>1. f \in [before -> places]
    BY <1>1
  <2>2. ASSUME NEW i \in places
        PROVE  \E q \in before : f[q] = i
    <3>1. i \in 0 .. Cardinality(evs) - 1
      <4>1. ev.seq \in 0 .. Cardinality(evs) - 1
        BY DEF Numbered
      <4>2. Cardinality(evs) \in Nat
        BY FS_CardinalityType
      <4>. QED  BY <4>1, <4>2
    <3>2. PICK q \in evs : q.seq = i
      BY <3>1 DEF Numbered
    <3>. QED  BY <3>2
  <2>. QED  BY <2>1, <2>2 DEF Surjection
<1>4. IsFiniteSet(places) /\ Cardinality(places) = ev.seq
  BY FS_Interval
<1>5. Cardinality(before) = Cardinality(places)
  BY <1>2, <1>3, <1>4, FS_Injection
<1>. QED  BY <1>4, <1>5

\* At any moment, whoever races, retries or dies, the committed rows of every
\* matter pass verify_chain.
THEOREM ChainAlwaysVerifies == Spec => []ChainVerifies
<1>1. TypeInv /\ ChainInv => ChainVerifies
  <2>. SUFFICES ASSUME TypeInv, ChainInv, NEW m \in Matter, NEW ev \in rows[m]
       PROVE  LET before == {q \in rows[m] \ {ev} : q.seq <= ev.seq}
              IN  /\ ev.seq = Cardinality(before)
                  /\ IF ev.seq = 0 THEN ev.prev = GENESIS
                     ELSE \E q \in before : q.seq = ev.seq - 1 /\ ev.prev = q.hash
                  /\ ev.hash = EventHash(ev.prev, ev.seq, ev.event)
    BY DEF ChainVerifies, VerifyChain
  <2>1. /\ IsFiniteSet(rows[m]) /\ Numbered(rows[m]) /\ Linked(rows[m])
        /\ \A r \in rows[m] : r.seq \in Nat
    BY DEF TypeInv, TypeOK, ChainInv
  <2>2. Cardinality({q \in rows[m] \ {ev} : q.seq <= ev.seq}) = ev.seq
    BY <2>1, PlaceIsNumber
  <2>3. LinksTo(rows[m], ev.seq, ev.prev) /\ ev.hash = EventHash(ev.prev, ev.seq, ev.event)
    BY <2>1 DEF Linked
  <2>. QED  BY <2>1, <2>2, <2>3 DEF LinksTo
<1>. QED  BY <1>1, TypeAlways, ChainAlways, PTL

----------------------------------------------------------------------------
(***************************************************************************)
(* No collision where something serializes the read with the insert: then  *)
(* the tip a thread goes by is still the tip.                              *)
(***************************************************************************)
Serialized == Serializable \/ Cardinality(Proc) = 1

TipInv ==
  Serialized =>
    \A t \in Thread : tries[t] = 0 /\ (pc[t] = "read" => ~Taken(t))

\* Two threads between read and commit on one matter, serialized, are one.
LEMMA OneReader ==
  ASSUME TypeInv, HoldInv, Serialized,
         NEW t \in Thread, NEW u \in Thread,
         pc[t] = "read", pc[u] = "read", matter[t] = matter[u]
  PROVE  t = u
<1>1. CASE Serializable
  BY <1>1 DEF HoldInv, HasTx
<1>2. CASE Cardinality(Proc) = 1
  <2>1. PICK p : Proc = {p}
    BY <1>2, ChainAssumption, FS_Singleton
  <2>2. t.proc = p /\ u.proc = p
    BY <2>1, ThreadIsSomebody
  <2>. QED  BY <2>2 DEF HoldInv, HasLock, Inside
<1>. QED  BY <1>1, <1>2 DEF Serialized

\* The number after the largest is not taken.
LEMMA TipIsFree ==
  ASSUME TypeInv, NEW t \in Thread, NEW tip \in Tip(t)
  PROVE  \A r \in Chain(t) : r.seq # tip.seq
<1>1. \A r \in Chain(t) : r.seq \in Nat
  BY DEF TypeInv, TypeOK, Chain
<1>2. CASE Chain(t) = {}
  BY <1>2
<1>3. CASE Chain(t) # {}
  <2>1. PICK q \in Chain(t) :
          /\ \A o \in Chain(t) : o.seq <= q.seq
          /\ tip = [seq |-> q.seq + 1, prev |-> q.hash]
    BY <1>3 DEF Tip
  <2>. QED  BY <1>1, <2>1
<1>. QED  BY <1>2, <1>3

\* A step that adds no row and counts no collision keeps TipInv.
LEMMA TipKept ==
  ASSUME TipInv, UNCHANGED rows,
         \A u \in Thread :
           /\ tries'[u] \in {0, tries[u]}
           /\ pc'[u] = "read" =>
                pc[u] = "read" /\ matter'[u] = matter[u] /\ last'[u] = last[u]
  PROVE  TipInv'
BY DEF TipInv, Serialized, Taken, Chain

LEMMA TipAppend ==
  ASSUME TypeInv, HoldInv, TipInv, NEW t \in Thread, AppendStep(t)
  PROVE  TipInv'
<1>. USE DEF TypeInv, TypeOK
<1>1. CASE TakeLock(t)
  BY <1>1, TipKept DEF TakeLock, Go
<1>2. CASE ReadTip(t)
  <2>1. PICK tip \in Tip(t) : last' = [last EXCEPT ![t] = tip]
    BY <1>2 DEF ReadTip
  <2>2. UNCHANGED <<rows, matter, tries>>
    BY <1>2 DEF ReadTip
  <2>3. ~Taken(t)'
    BY <2>1, <2>2, TipIsFree DEF Taken, Chain
  <2>4. \A u \in Thread : u # t /\ pc'[u] = "read" => pc[u] = "read" /\ last'[u] = last[u]
    BY <1>2, <2>1 DEF ReadTip, Go
  <2>. QED
    BY <2>2, <2>3, <2>4 DEF TipInv, Serialized, Taken, Chain
<1>3. CASE Insert(t)
  <2>. SUFFICES ASSUME Serialized, NEW u \in Thread
       PROVE  tries'[u] = 0 /\ (pc'[u] = "read" => ~Taken(u)')
    BY DEF TipInv, Serialized
  <2>1. tries'[u] = 0
    BY <1>3 DEF Insert, TipInv
  <2>2. ASSUME pc'[u] = "read" PROVE ~Taken(u)'
    <3>1. u # t /\ pc[u] = "read" /\ matter'[u] = matter[u] /\ last'[u] = last[u]
      BY <1>3, <2>2 DEF Insert, Go
    <3>2. matter[u] # matter[t]
      BY <1>3, <3>1, OneReader DEF Insert
    <3>3. rows'[matter[u]] = rows[matter[u]]
      BY <1>3, <3>2 DEF Insert
    <3>. QED  BY <3>1, <3>3 DEF TipInv, Taken, Chain
  <2>. QED  BY <2>1, <2>2
<1>4. CASE Collide(t) \/ Exhaust(t)
  <2>1. ~Serialized
    BY <1>4 DEF Collide, Exhaust, TipInv
  <2>. QED  BY <2>1 DEF TipInv, Serialized
<1>5. CASE BusyTimeout(t)
  BY <1>5, TipKept DEF BusyTimeout, Raise, Go
<1>. QED  BY <1>1, <1>2, <1>3, <1>4, <1>5 DEF AppendStep

LEMMA TipStep == TypeInv /\ HoldInv /\ TipInv /\ [Next]_vars => TipInv'
<1>. SUFFICES ASSUME TypeInv, HoldInv, TipInv, [Next]_vars PROVE TipInv'
  OBVIOUS
<1>. USE DEF TypeInv, TypeOK
<1>1. CASE UNCHANGED vars
  BY <1>1, TipKept DEF vars, session
<1>2. ASSUME NEW t \in Thread, BeginRequest(t) \/ Request(t) \/ CallAgain(t)
      PROVE  TipInv'
  <2>1. CASE BeginRequest(t)
    BY <2>1, TipKept DEF BeginRequest, Go
  <2>2. CASE StageRows(t)
    BY <2>2, TipKept DEF StageRows, Go
  <2>3. CASE CommitRows(t)
    BY <2>3, TipKept DEF CommitRows, Go
  <2>4. CASE EndRequest(t)
    BY <2>4, TipKept DEF EndRequest, Forget, Go
  <2>5. CASE CallAgain(t)
    BY <2>5, TipKept DEF CallAgain, Go
  <2>. QED  BY <1>2, <2>1, <2>2, <2>3, <2>4, <2>5 DEF Request
<1>3. ASSUME NEW p \in Proc, Crash(p)
      PROVE  TipInv'
  BY <1>3, TipKept DEF Crash, Forget
<1>. QED
  BY <1>1, <1>2, <1>3, TipAppend DEF Next

\* On SQLite, and in a single process, no append ever collides: the retry is
\* for several processes on Postgres.
THEOREM NoCollisionWhenSerialized == Spec => []CollidesAcrossProcesses
<1>1. Init => TipInv
  BY DEF Init, TipInv
<1>2. TipInv => CollidesAcrossProcesses
  BY DEF TipInv, Serialized, CollidesAcrossProcesses
<1>. QED  BY <1>1, <1>2, TipStep, TypeAlways, HoldAlways, PTL DEF Spec

----------------------------------------------------------------------------
(***************************************************************************)
(* What is committed belongs to a call begun; the current call of a thread *)
(* has its event only once it returned.                                    *)
(***************************************************************************)
Begun(e) == e[2] <= call[e[1]]
Current(e) == e[2] = call[e[1]]
Past(t) == pc[t] \in {"returned", "idle"}

EventInv ==
  \A e \in Events : Begun(e) /\ (Current(e) => Past(e[1]))

RecordInv ==
  \A e \in records \ early : Begun(e) /\ (Current(e) => Past(e[1]))

EarlyInv ==
  \A e \in early : Begun(e) /\ (Current(e) => pc[e[1]] # "open")

StagedInv ==
  \A t \in Thread :
    /\ t \in staged => pc[t] \in {"call", "locked", "read"}
    /\ pc[t] \in {"call", "locked", "read"} /\ t \notin staged
         => This(t) \in early
    /\ t \in staged => This(t) \notin early

CallInv == EventInv /\ RecordInv /\ EarlyInv /\ StagedInv /\ RowsWithEvent

LEMMA CallInit == Init => CallInv
BY DEF Init, CallInv, EventInv, RecordInv, EarlyInv, StagedInv, RowsWithEvent, Events

LEMMA ThisParts ==
  ASSUME NEW t \in Thread
  PROVE  This(t)[1] = t /\ This(t)[2] = call[t]
BY DEF This

LEMMA EventParts ==
  ASSUME TypeInv, NEW e \in Events \cup records
  PROVE  e[1] \in Thread /\ e[2] \in Nat /\ e = <<e[1], e[2]>>
<1>1. e \in Event
  BY DEF Events, TypeInv, TypeOK
<1>. QED  BY <1>1 DEF Event

\* Steps that commit nothing.
LEMMA CallKept ==
  ASSUME TypeInv, CallInv, UNCHANGED <<rows, records, early>>,
         \A u \in Thread :
           /\ call'[u] \in Nat
           /\ \/ call'[u] = call[u] /\ (Past(u) => Past(u)')
                 /\ (pc'[u] = "open" => pc[u] = "open")
              \/ call'[u] > call[u],
         StagedInv'
  PROVE  CallInv'
<1>1. Events' = Events
  BY DEF Events
<1>2. call \in [Thread -> Nat]
  BY ChainAssumption DEF TypeInv, TypeOK
<1>3. \A e \in Events \cup records :
        /\ e[1] \in Thread
        /\ Begun(e) => Begun(e)'
        /\ Begun(e) /\ Current(e)' => Current(e)
        /\ Begun(e) /\ Current(e)' => (Past(e[1]) => Past(e[1])')
        /\ Begun(e) /\ Current(e)' => (pc'[e[1]] = "open" => pc[e[1]] = "open")
  BY <1>2, EventParts DEF Begun, Current
<1>4. early \subseteq records
  BY DEF TypeInv, TypeOK
<1>5. EventInv'
  BY <1>1, <1>3 DEF CallInv, EventInv
<1>6. RecordInv'
  BY <1>3 DEF CallInv, RecordInv
<1>7. EarlyInv'
  BY <1>3, <1>4 DEF CallInv, EarlyInv
<1>8. RowsWithEvent'
  BY <1>1 DEF CallInv, RowsWithEvent
<1>. QED  BY <1>5, <1>6, <1>7, <1>8 DEF CallInv

LEMMA CallRequest ==
  ASSUME TypeInv, CallInv, NEW t \in Thread,
         BeginRequest(t) \/ Request(t) \/ CallAgain(t)
  PROVE  CallInv'
<1>0. call \in [Thread -> Nat] /\ DOMAIN pc = Thread
  BY ChainAssumption DEF TypeInv, TypeOK
<1>e. \A e \in early : e[1] \in Thread /\ e[2] \in Nat /\ e = <<e[1], e[2]>>
  BY EventParts DEF TypeInv, TypeOK
<1>1. CASE BeginRequest(t)
  <2>1. StagedInv'
    BY <1>0, <1>1 DEF BeginRequest, Go, CallInv, StagedInv, This
  <2>. QED
    BY <1>0, <1>1, <2>1, CallKept DEF BeginRequest, Go, Past
<1>2. CASE StageRows(t)
  <2>1. This(t) \notin early
    BY <1>2, ThisParts DEF StageRows, CallInv, EarlyInv, Current
  <2>2. StagedInv'
    BY <1>0, <1>2, <2>1 DEF StageRows, Go, CallInv, StagedInv, This
  <2>. QED
    BY <1>0, <1>2, <2>2, CallKept DEF StageRows, Go, Past
<1>3. CASE CommitRows(t)
  <2>. DEFINE e0 == This(t)
  <2>0. /\ e0[1] = t /\ e0[2] = call[t] /\ call[t] \in Nat
        /\ records' = records \cup {e0} /\ early' = early \cup {e0}
        /\ UNCHANGED <<rows, call, staged>> /\ pc[t] = "open"
        /\ \A u \in Thread : pc'[u] = IF u = t THEN "call" ELSE pc[u]
    BY <1>0, <1>3, ThisParts DEF CommitRows, Go
  <2>1. e0 \notin Events /\ e0 \notin records \ early
    BY <2>0 DEF CallInv, EventInv, RecordInv, Current, Past
  <2>2. Events' = Events
    BY <2>0 DEF Events
  <2>3. RowsWithEvent'
    BY <2>0, <2>1, <2>2 DEF CallInv, RowsWithEvent
  <2>4. EventInv'
    BY <2>0, <2>2, EventParts DEF CallInv, EventInv, Begun, Current, Past
  <2>5. RecordInv'
    BY <2>0, EventParts DEF CallInv, RecordInv, Begun, Current, Past
  <2>6. EarlyInv'
    BY <1>e, <2>0 DEF CallInv, EarlyInv, Begun, Current
  <2>7. StagedInv'
    BY <1>0, <2>0 DEF CallInv, StagedInv, This
  <2>. QED  BY <2>3, <2>4, <2>5, <2>6, <2>7 DEF CallInv
<1>4. CASE EndRequest(t)
  <2>1. StagedInv'
    BY <1>0, <1>4 DEF EndRequest, Go, CallInv, StagedInv, This
  <2>. QED
    BY <1>0, <1>4, <2>1, CallKept DEF EndRequest, Go, Past
<1>5. CASE CallAgain(t)
  <2>1. <<t, call[t] + 1>> \notin early
    BY <1>0 DEF CallInv, EarlyInv, Begun
  <2>2. StagedInv'
    BY <1>0, <1>5, <2>1 DEF CallAgain, Go, CallInv, StagedInv, This
  <2>. QED
    BY <1>0, <1>5, <2>2, CallKept DEF CallAgain, Go, Past
<1>. QED  BY <1>1, <1>2, <1>3, <1>4, <1>5 DEF Request

\* The events after an insert.
LEMMA EventsAfterInsert ==
  ASSUME TypeInv, NEW t \in Thread, Insert(t)
  PROVE  Events' = Events \cup {This(t)}
<1>1. \A m \in Matter :
        rows'[m] = IF m = matter[t] THEN rows[m] \cup {NewRow(t)} ELSE rows[m]
  BY DEF TypeInv, TypeOK, Insert
<1>2. matter[t] \in Matter /\ NewRow(t).event = This(t)
  BY DEF TypeInv, TypeOK, NewRow
<1>3. \A e : e \in Events <=> \E m \in Matter : \E r \in rows[m] : r.event = e
  BY DEF Events
<1>4. \A e : e \in Events' <=> \E m \in Matter : \E r \in rows'[m] : r.event = e
  BY DEF Events
<1>5. \A e \in Events' : e \in Events \cup {This(t)}
  <2>. SUFFICES ASSUME NEW m \in Matter, NEW r \in rows'[m]
       PROVE  r.event \in Events \cup {This(t)}
    BY <1>4
  <2>1. r \in rows[m] \/ r = NewRow(t)
    BY <1>1
  <2>. QED  BY <1>2, <1>3, <2>1
<1>6. \A e \in Events : e \in Events'
  <2>. SUFFICES ASSUME NEW m \in Matter, NEW r \in rows[m] PROVE r.event \in Events'
    BY <1>3
  <2>1. r \in rows'[m]
    BY <1>1
  <2>. QED  BY <1>4, <2>1
<1>7. This(t) \in Events'
  <2>1. NewRow(t) \in rows'[matter[t]]
    BY <1>1, <1>2
  <2>. QED  BY <1>2, <1>4, <2>1
<1>. QED  BY <1>5, <1>6, <1>7

LEMMA CallAppend ==
  ASSUME TypeInv, CallInv, NEW t \in Thread, AppendStep(t)
  PROVE  CallInv'
<1>0. call \in [Thread -> Nat] /\ DOMAIN pc = Thread
  BY ChainAssumption DEF TypeInv, TypeOK
<1>e. \A e \in early : e[1] \in Thread /\ e[2] \in Nat /\ e = <<e[1], e[2]>>
  BY EventParts DEF TypeInv, TypeOK
<1>1. CASE TakeLock(t)
  <2>1. StagedInv'
    BY <1>0, <1>1 DEF TakeLock, Go, CallInv, StagedInv, This
  <2>. QED
    BY <1>0, <1>1, <2>1, CallKept DEF TakeLock, Go, Past
<1>2. CASE ReadTip(t)
  <2>1. StagedInv'
    BY <1>0, <1>2 DEF ReadTip, Go, CallInv, StagedInv, This
  <2>. QED
    BY <1>0, <1>2, <2>1, CallKept DEF ReadTip, Go, Past
<1>3. CASE Insert(t)
  <2>. DEFINE e0 == This(t)
  <2>0. /\ e0[1] = t /\ e0[2] = call[t] /\ call[t] \in Nat
        /\ records' = IF t \in staged THEN records \cup {e0} ELSE records
        /\ UNCHANGED <<early, call>> /\ staged' = staged \ {t} /\ pc[t] = "read"
        /\ \A u \in Thread : pc'[u] = IF u = t THEN "returned" ELSE pc[u]
    BY <1>0, <1>3, ThisParts DEF Insert, Go
  <2>1. Events' = Events \cup {e0}
    BY <1>3, EventsAfterInsert
  <2>2. t \in staged <=> e0 \notin early
    BY <2>0 DEF CallInv, StagedInv
  <2>3. RowsWithEvent'
    BY <2>0, <2>1, <2>2 DEF CallInv, RowsWithEvent
  <2>4. EventInv'
    BY <2>0, <2>1, EventParts DEF CallInv, EventInv, Begun, Current, Past
  <2>5. RecordInv'
    BY <2>0, EventParts DEF CallInv, RecordInv, Begun, Current, Past
  <2>6. EarlyInv'
    BY <1>e, <2>0 DEF CallInv, EarlyInv, Begun, Current
  <2>7. StagedInv'
    BY <1>0, <2>0 DEF CallInv, StagedInv, This
  <2>. QED  BY <2>3, <2>4, <2>5, <2>6, <2>7 DEF CallInv
<1>4. CASE Collide(t)
  <2>1. StagedInv'
    BY <1>0, <1>4 DEF Collide, KeptAfterCollision, Go, CallInv, StagedInv, This
  <2>. QED
    BY <1>0, <1>4, <2>1, CallKept DEF Collide, Go, Past
<1>5. ASSUME NEW label \in {"exhausted", "busy"}, Raise(t, label), Inside(t)
      PROVE  CallInv'
  <2>1. StagedInv'
    BY <1>0, <1>5 DEF Raise, Go, CallInv, StagedInv, This
  <2>. QED
    BY <1>0, <1>5, <2>1, CallKept DEF Raise, Inside, Go, Past
<1>6. CASE Exhaust(t) \/ BusyTimeout(t)
  BY <1>5, <1>6 DEF Exhaust, BusyTimeout, Inside
<1>. QED  BY <1>1, <1>2, <1>3, <1>4, <1>6 DEF AppendStep

LEMMA CallStep == TypeInv /\ CallInv /\ [Next]_vars => CallInv'
<1>. SUFFICES ASSUME TypeInv, CallInv, [Next]_vars PROVE CallInv'
  OBVIOUS
<1>0. call \in [Thread -> Nat]
  BY ChainAssumption DEF TypeInv, TypeOK
<1>1. CASE UNCHANGED vars
  BY <1>1 DEF vars, session, CallInv, EventInv, RecordInv, EarlyInv, StagedInv,
              RowsWithEvent, Events, Begun, Current, Past, This
<1>2. ASSUME NEW p \in Proc, Crash(p)
      PROVE  CallInv'
  <2>1. \A u \in Thread : pc'[u] = IF u.proc = p THEN "idle" ELSE pc[u]
    BY <1>2 DEF Crash
  <2>2. StagedInv'
    BY <1>2, <2>1 DEF Crash, CallInv, StagedInv, This
  <2>. QED
    BY <1>0, <1>2, <2>1, <2>2, CallKept DEF Crash, Past
<1>. QED
  BY <1>1, <1>2, CallRequest, CallAppend DEF Next

LEMMA CallAlways == Spec => []CallInv
BY TypeAlways, CallInit, CallStep, PTL DEF Spec

\* The rows a caller stages are committed exactly when its event is.
THEOREM RowsCommitWithEvent == Spec => []RowsWithEvent
<1>1. CallInv => RowsWithEvent
  BY DEF CallInv
<1>. QED  BY <1>1, CallAlways, PTL

----------------------------------------------------------------------------
(***************************************************************************)
(* The refinement: an insert records its call's event, every other step    *)
(* leaves the log alone.                                                   *)
(***************************************************************************)
Evs(es) ==
  /\ IsFiniteSet(es) /\ Numbered(es)
  /\ \A r \in es : r.seq \in Nat

LEMMA EntriesOf ==
  ASSUME NEW evs, Evs(evs)
  PROVE  /\ DOMAIN Entries(evs) = 1 .. Cardinality(evs)
         /\ \A r \in evs : Entries(evs)[r.seq + 1] = r.event
         /\ \A i \in 1 .. Cardinality(evs) : \E r \in evs : r.seq + 1 = i
<1>1. Cardinality(evs) \in Nat
  BY FS_CardinalityType DEF Evs
<1>2. \A i \in 1 .. Cardinality(evs) : \E r \in evs : r.seq + 1 = i
  <2>. SUFFICES ASSUME NEW i \in 1 .. Cardinality(evs)
       PROVE  \E r \in evs : r.seq + 1 = i
    OBVIOUS
  <2>1. i - 1 \in 0 .. Cardinality(evs) - 1
    BY <1>1
  <2>2. PICK r \in evs : r.seq = i - 1
    BY <2>1 DEF Evs, Numbered
  <2>. QED  BY <2>2
<1>3. \A r \in evs : r.seq + 1 \in 1 .. Cardinality(evs)
  <2>. SUFFICES ASSUME NEW r \in evs PROVE r.seq + 1 \in 1 .. Cardinality(evs)
    OBVIOUS
  <2>1. r.seq \in 0 .. Cardinality(evs) - 1
    BY DEF Evs, Numbered
  <2>. QED  BY <1>1, <2>1
<1>4. {r.seq + 1 : r \in evs} = 1 .. Cardinality(evs)
  BY <1>2, <1>3
<1>5. \A r \in evs : (CHOOSE q \in evs : q.seq + 1 = r.seq + 1) = r
  <2>. SUFFICES ASSUME NEW r \in evs
       PROVE  (CHOOSE q \in evs : q.seq + 1 = r.seq + 1) = r
    OBVIOUS
  <2>1. \A q \in evs : q.seq + 1 = r.seq + 1 => q = r
    BY DEF Evs, Numbered
  <2>. QED  BY <2>1
<1>. QED  BY <1>2, <1>3, <1>4, <1>5 DEF Entries

LEMMA EntriesOfNone == Entries({}) = <<>>
BY DEF Entries

LEMMA EntriesAppend ==
  ASSUME NEW evs, Evs(evs), NEW row, row \notin evs,
         row.seq = Cardinality(evs), Evs(evs \cup {row})
  PROVE  Entries(evs \cup {row}) = Append(Entries(evs), row.event)
<1>. DEFINE more == evs \cup {row}
            n == Cardinality(evs)
<1>1. n \in Nat /\ Cardinality(more) = n + 1
  BY FS_CardinalityType, FS_AddElement DEF Evs
<1>2. /\ DOMAIN Entries(more) = 1 .. n + 1
      /\ DOMAIN Entries(evs) = 1 .. n
  BY <1>1, EntriesOf
<1>3. Entries(more)[n + 1] = row.event
  BY EntriesOf
<1>4. \A i \in 1 .. n : Entries(more)[i] = Entries(evs)[i]
  <2>. SUFFICES ASSUME NEW i \in 1 .. n PROVE Entries(more)[i] = Entries(evs)[i]
    OBVIOUS
  <2>1. PICK r \in evs : r.seq + 1 = i
    BY EntriesOf
  <2>2. Entries(evs)[i] = r.event
    BY <2>1, EntriesOf
  <2>3. Entries(more)[i] = r.event
    BY <2>1, EntriesOf
  <2>. QED  BY <2>2, <2>3
<1>5. /\ Entries(evs) = [i \in 1 .. n |-> Entries(evs)[i]]
      /\ Entries(more) = [i \in 1 .. n + 1 |-> Entries(more)[i]]
  BY <1>2 DEF Entries
<1>6. Len(Entries(evs)) = n
  BY <1>1, <1>2, <1>5
<1>7. Append(Entries(evs), row.event) =
        [i \in 1 .. n + 1 |-> IF i = n + 1 THEN row.event ELSE Entries(evs)[i]]
  BY <1>1, <1>2, <1>5, <1>6
<1>8. \A i \in 1 .. n + 1 :
        Entries(more)[i] = IF i = n + 1 THEN row.event ELSE Entries(evs)[i]
  <2>. SUFFICES ASSUME NEW i \in 1 .. n + 1
       PROVE  Entries(more)[i] = IF i = n + 1 THEN row.event ELSE Entries(evs)[i]
    OBVIOUS
  <2>1. CASE i = n + 1
    BY <1>3, <2>1
  <2>2. CASE i # n + 1
    <3>1. i \in 1 .. n
      BY <1>1, <2>2
    <3>. QED  BY <1>4, <2>2, <3>1
  <2>. QED  BY <2>1, <2>2
<1>9. Entries(more) =
        [i \in 1 .. n + 1 |-> IF i = n + 1 THEN row.event ELSE Entries(evs)[i]]
  <2>. DEFINE L == Entries(more)
  <2>1. L = [i \in 1 .. n + 1 |-> L[i]]
    BY <1>5
  <2>2. \A i \in 1 .. n + 1 : L[i] = IF i = n + 1 THEN row.event ELSE Entries(evs)[i]
    BY <1>8
  <2>. HIDE DEF L
  <2>3. L = [i \in 1 .. n + 1 |-> IF i = n + 1 THEN row.event ELSE Entries(evs)[i]]
    BY <2>1, <2>2
  <2>. QED  BY <2>3 DEF L
<1>. QED  BY <1>7, <1>9

LEMMA ChainIsEvs ==
  ASSUME TypeInv, ChainInv, NEW m \in Matter
  PROVE  Evs(rows[m])
BY DEF TypeInv, TypeOK, ChainInv, Evs

\* The log records exactly the events of the chains.
LEMMA RecordedIsEvents ==
  ASSUME TypeInv, ChainInv
  PROVE  Log!Recorded = Events
<1>. DEFINE lg == [m \in Matter |-> Entries(rows[m])]
<1>1. \A m \in Matter : Log!Range(lg[m]) = {r.event : r \in rows[m]}
  <2>. SUFFICES ASSUME NEW m \in Matter
       PROVE  Log!Range(Entries(rows[m])) = {r.event : r \in rows[m]}
    OBVIOUS
  <2>1. /\ DOMAIN Entries(rows[m]) = 1 .. Cardinality(rows[m])
        /\ \A r \in rows[m] : Entries(rows[m])[r.seq + 1] = r.event
        /\ \A i \in 1 .. Cardinality(rows[m]) : \E r \in rows[m] : r.seq + 1 = i
    BY ChainIsEvs, EntriesOf
  <2>2. \A r \in rows[m] : r.seq + 1 \in 1 .. Cardinality(rows[m])
    <3>1. \A r \in rows[m] : r.seq \in 0 .. Cardinality(rows[m]) - 1
      BY ChainIsEvs DEF Evs, Numbered
    <3>2. Cardinality(rows[m]) \in Nat
      BY ChainIsEvs, FS_CardinalityType DEF Evs
    <3>. QED  BY <3>1, <3>2
  <2>. QED  BY <2>1, <2>2 DEF Log!Range
<1>2. {Log!Range(lg[m]) : m \in Matter} = {{r.event : r \in rows[m]} : m \in Matter}
  <2>. DEFINE F(m) == Log!Range(lg[m])
              G(m) == {r.event : r \in rows[m]}
  <2>1. \A m \in Matter : F(m) = G(m)
    BY <1>1
  <2>. HIDE DEF F, G
  <2>2. {F(m) : m \in Matter} = {G(m) : m \in Matter}
    BY <2>1
  <2>. QED  BY <2>2 DEF F, G
<1>. QED
  BY <1>2 DEF Log!Recorded, Events

LEMMA LogInit == Init => Log!Init
BY EntriesOfNone DEF Init, Log!Init

LEMMA LogInsert ==
  ASSUME TypeInv, ChainInv, CallInv, NEW t \in Thread, Insert(t), TypeInv', ChainInv'
  PROVE  Log!Next
<1>. DEFINE e0 == This(t)
            lg == [m \in Matter |-> Entries(rows[m])]
<1>1. matter[t] \in Matter /\ e0 \in Event
  BY ThisIsEvent DEF Insert, TypeInv, TypeOK
<1>2. e0 \notin Log!Recorded
  <2>1. e0 \notin Events
    BY ThisParts DEF Insert, CallInv, EventInv, Current, Past
  <2>. QED  BY <2>1, RecordedIsEvents
<1>3. \A m \in Matter :
        rows'[m] = IF m = matter[t] THEN rows[m] \cup {NewRow(t)} ELSE rows[m]
  BY DEF TypeInv, TypeOK, Insert
<1>4. Entries(rows'[matter[t]]) = Append(Entries(rows[matter[t]]), e0)
  <2>1. NewRow(t).event = e0 /\ NewRow(t).seq = last[t].seq
    BY DEF NewRow
  <2>2. NewRow(t).seq = Cardinality(rows[matter[t]])
    BY <2>1, InsertFits DEF Insert, Chain
  <2>3. NewRow(t) \notin rows[matter[t]]
    BY <2>1 DEF Insert, Taken, Chain
  <2>4. Evs(rows[matter[t]]) /\ Evs(rows'[matter[t]])
    <3>1. Evs(rows[matter[t]])
      BY <1>1, ChainIsEvs
    <3>2. /\ IsFiniteSet(rows'[matter[t]])
          /\ \A r \in rows'[matter[t]] : r.seq \in Nat
      BY <1>1 DEF TypeInv, TypeOK
    <3>3. Numbered(rows'[matter[t]])
      BY <1>1, <1>3, InsertFits DEF Insert, Chain
    <3>. QED  BY <3>1, <3>2, <3>3 DEF Evs
  <2>5. rows'[matter[t]] = rows[matter[t]] \cup {NewRow(t)}
    BY <1>1, <1>3
  <2>6. Entries(rows[matter[t]] \cup {NewRow(t)})
          = Append(Entries(rows[matter[t]]), NewRow(t).event)
    BY <2>2, <2>3, <2>4, <2>5, EntriesAppend, Zenon
  <2>. QED
    BY <2>1, <2>5, <2>6
<1>5. [m \in Matter |-> Entries(rows'[m])] = [lg EXCEPT ![matter[t]] = Append(@, e0)]
  BY <1>1, <1>3, <1>4
<1>. QED
  BY <1>1, <1>2, <1>5 DEF Log!Next, Log!Record

LEMMA LogStep ==
  TypeInv /\ TypeInv' /\ ChainInv /\ ChainInv' /\ CallInv /\ [Next]_vars
    => [Log!Next]_([m \in Matter |-> Entries(rows[m])])
<1>. SUFFICES ASSUME TypeInv, TypeInv', ChainInv, ChainInv', CallInv, [Next]_vars
     PROVE  Log!Next \/ UNCHANGED rows
  OBVIOUS
<1>1. CASE \E t \in Thread : Insert(t)
  BY <1>1, LogInsert
<1>2. CASE ~ \E t \in Thread : Insert(t)
  BY <1>2 DEF Next, Request, AppendStep, BeginRequest, StageRows, CommitRows,
              EndRequest, CallAgain, TakeLock, ReadTip, Collide, Exhaust,
              BusyTimeout, Raise, Crash, vars
<1>. QED  BY <1>1, <1>2

\* The chain is an append-only log of the calls that committed, each once.
THEOREM ChainImplementsLog == Spec => IsLog
BY LogInit, LogStep, TypeAlways, ChainAlways, CallAlways, PTL
DEF Spec, IsLog, Log!Spec
=============================================================================
