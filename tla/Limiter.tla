------------------------------ MODULE Limiter -------------------------------
(***************************************************************************)
(* AuthManager's login rate limiter: per account name, the failures since  *)
(* the last success and the end of the lock they caused.  Time is counted  *)
(* in ticks; lock[u] is what is left until locked_until.  The failure      *)
(* counter saturates at MaxFailures: the code only ever compares it with   *)
(* that limit.                                                             *)
(***************************************************************************)
EXTENDS Integers

CONSTANTS
  User,          \* account names that pass is_valid_username
  MaxFailures,   \* MAX_FAILURES
  LockTicks      \* LOCKOUT_DURATION

ASSUME LimiterAssumption ==
  MaxFailures \in Nat \ {0} /\ LockTicks \in Nat \ {0}

VARIABLES
  failures,      \* RateLimitEntry.failures (0: no entry)
  lock,          \* ticks until RateLimitEntry.locked_until (0: not locked)
  judged,        \* history: wrong guesses judged in this period.  A period
                 \* starts when the entry is cleared or a lock runs out
  allow          \* history: wrong guesses this period needs for a lock

limiter == <<failures, lock, judged, allow>>

LimiterTypeOK ==
  /\ failures \in [User -> 0..MaxFailures]
  /\ lock \in [User -> 0..LockTicks]
  /\ judged \in [User -> Nat]
  /\ allow \in [User -> {1, MaxFailures}]

LimiterInit ==
  /\ failures = [u \in User |-> 0]
  /\ lock = [u \in User |-> 0]
  /\ judged = [u \in User |-> 0]
  /\ allow = [u \in User |-> MaxFailures]

\* check_rate_limit returns RateLimited.
Locked(u) == lock[u] > 0

\* Mutant: the count is compared before it is raised.
RecordFailureLate(u) ==
  /\ failures' = [failures EXCEPT ![u] = IF @ < MaxFailures THEN @ + 1 ELSE @]
  /\ lock' = [lock EXCEPT ![u] = IF failures[u] = MaxFailures
                                 THEN LockTicks ELSE @]
  /\ judged' = [judged EXCEPT ![u] = @ + 1]
  /\ UNCHANGED allow

\* record_failure: from the limit on, every failure starts the lock anew.
RecordFailure(u) ==
  /\ failures' = [failures EXCEPT ![u] = IF @ < MaxFailures THEN @ + 1 ELSE @]
  /\ lock' = [lock EXCEPT ![u] = IF failures'[u] = MaxFailures
                                 THEN LockTicks ELSE @]
  /\ judged' = [judged EXCEPT ![u] = @ + 1]
  /\ UNCHANGED allow

\* clear_rate_limit: the entry goes, and with it a lock set meanwhile.
ClearRateLimit(u) ==
  /\ failures' = [failures EXCEPT ![u] = 0]
  /\ lock' = [lock EXCEPT ![u] = 0]
  /\ judged' = [judged EXCEPT ![u] = 0]
  /\ allow' = [allow EXCEPT ![u] = MaxFailures]

\* Time passes.  A lock that runs out leaves the failures where they are.
TickLocks ==
  LET ends == {u \in User : lock[u] = 1}
  IN  /\ \E u \in User : lock[u] > 0
      /\ lock' = [u \in User |-> IF lock[u] > 0 THEN lock[u] - 1 ELSE 0]
      /\ judged' = [u \in User |-> IF u \in ends THEN 0 ELSE judged[u]]
      /\ allow' = [u \in User |-> IF u \in ends THEN 1 ELSE allow[u]]
      /\ UNCHANGED failures

=============================================================================
