---------------------------- MODULE LoginThrottle ----------------------------
(***************************************************************************)
(* The sliding-window guard of the sign-in routes, class LoginThrottle of  *)
(* service/app/security.py, as operators on one instance's state.  Every   *)
(* method of the class runs under the instance's lock and is one operator; *)
(* a state is a record:                                                    *)
(*   failures   for each peer address, the times of its recorded failures  *)
(*   locked     for each peer, the time its lockout ends; Never if none    *)
(*   swept      the time of the last full sweep                            *)
(***************************************************************************)
EXTENDS Naturals, Sequences, FiniteSetsExt

CONSTANTS Peer,          \* peer addresses
          MaxFailures,   \* failures in a window that lock a peer out
          Window,        \* seconds a failure counts for
          Lockout        \* seconds a lockout lasts

ASSUME LimitsAreSet == /\ MaxFailures \in Nat \ {0}
                       /\ Window \in Nat \ {0}
                       /\ Lockout \in Nat \ {0}

Never == 0       \* no lockout; the clock never reads it

Untouched == [failures |-> [k \in Peer |-> << >>], locked |-> [k \in Peer |-> Never],
              swept |-> 0]

Counts(now, at) == at + Window >= now

\* deque.popleft while the oldest is outside the window
Pruned(times, now) ==
  LET live == {i \in 1..Len(times) : Counts(now, times[i])}
  IN  IF live = {} THEN << >> ELSE SubSeq(times, Min(live), Len(times))

Spent(th, k, now) == th.locked[k] # Never /\ th.locked[k] <= now

\* Mutant: a sweep that empties every peer's failures, live ones too
SweepEvictsAll(th, now) ==
  IF th.swept + Window > now THEN th
  ELSE [failures |-> [k \in Peer |-> << >>],
        locked |-> [k \in Peer |-> IF Spent(th, k, now) THEN Never ELSE th.locked[k]],
        swept |-> now]

\* Mutant: a sweep that looks at the lockouts only
SweepLocksOnly(th, now) ==
  IF th.swept + Window > now THEN th
  ELSE LET gone == {k \in Peer : Spent(th, k, now)}
       IN  [failures |-> [k \in Peer |-> IF k \in gone THEN << >> ELSE th.failures[k]],
            locked |-> [k \in Peer |-> IF k \in gone THEN Never ELSE th.locked[k]],
            swept |-> now]

Sweep(th, now) ==
  IF th.swept + Window > now THEN th
  ELSE LET gone == {k \in Peer : Spent(th, k, now)}
       IN  [failures |-> [k \in Peer |-> IF k \in gone THEN << >>
                                         ELSE Pruned(th.failures[k], now)],
            locked |-> [k \in Peer |-> IF k \in gone THEN Never ELSE th.locked[k]],
            swept |-> now]

Forgiven(th, k) == [th EXCEPT !.failures[k] = << >>, !.locked[k] = Never]

LockedOut(th, k, now) == th.locked[k] # Never /\ now < th.locked[k]

\* What allow() leaves behind, and its answer
AfterAllow(th, k, now) ==
  LET s == Sweep(th, now)
      t == IF Spent(s, k, now) THEN Forgiven(s, k)
           ELSE [s EXCEPT !.failures[k] = Pruned(@, now)]
  IN  IF LockedOut(s, k, now) THEN s
      ELSE IF Len(t.failures[k]) >= MaxFailures
           THEN [t EXCEPT !.locked[k] = now + Lockout]
           ELSE t

Allows(th, k, now) == ~LockedOut(AfterAllow(th, k, now), k, now)

AfterFailure(th, k, now) ==
  LET s == Sweep(th, now)
      times == Append(Pruned(s.failures[k], now), now)
  IN  [s EXCEPT !.failures[k] = times,
                !.locked[k] = IF Len(times) >= MaxFailures THEN now + Lockout ELSE @]

==============================================================================
