----------------------------- MODULE BdCommand -----------------------------
(***************************************************************************)
(* One bd command of BDCLIStore: runBdOnce under bdInvocationTimeout, the  *)
(* retry loop of runBd on collisions with the embedded database's          *)
(* exclusive lock, and the error classes of runBdMapped.  The lock is held *)
(* by another bd process until the moment release.  Times are in           *)
(* milliseconds from the start of the call.                                *)
(*                                                                         *)
(* The parent context is context.Background at every call, so the          *)
(* cancellation branches cannot be taken.                                  *)
(***************************************************************************)
EXTENDS Naturals

CONSTANTS
  InvocationTimeout,   \* bdInvocationTimeout
  LockRetryBudget,     \* bdLockRetryBudget
  InitialDelay,        \* bdLockRetryInitialDelay
  Durations,           \* how long an invocation that is not killed may take
  Releases             \* when the other process may release the lock

ASSUME BdAssumption ==
  /\ {InvocationTimeout, LockRetryBudget, InitialDelay} \subseteq Nat
  /\ Durations \subseteq 0..(InvocationTimeout - 1)
  /\ Releases \subseteq Nat

Stderr == {"lock", "no issue found", "issue already exists", "would create a cycle", "other"}

VARIABLES
  bdNow, release,
  delay, slept,
  slowest,             \* the longest invocation so far
  stderr,              \* of the last invocation
  bdPc,
  result               \* {} for success, or what errors.Is finds in the error

bdVars == <<bdNow, release, delay, slept, slowest, stderr, bdPc, result>>

\* mapBdError
MapBdError(text) ==
  CASE text = "no issue found" -> {"ErrNotFound"}
    [] text = "issue already exists" -> {"ErrTaskExists"}
    [] text = "would create a cycle" -> {"ErrCycle"}
    [] OTHER -> {}

BdTypeOK ==
  /\ {bdNow, release, delay, slept, slowest} \subseteq Nat
  /\ stderr \in Stderr \cup {""}
  /\ bdPc \in {"invoke", "retry", "done"}
  /\ result \subseteq {"ErrStoreUnavailable", "ErrNotFound", "ErrTaskExists", "ErrCycle", "exit"}

BdInit ==
  /\ bdNow = 0
  /\ release \in Releases
  /\ delay = InitialDelay
  /\ slept = 0
  /\ slowest = 0
  /\ stderr = ""
  /\ bdPc = "invoke"
  /\ result = {}

Elapse(d) ==
  /\ bdNow' = bdNow + d
  /\ slowest' = IF d > slowest THEN d ELSE slowest
  /\ UNCHANGED <<release, delay, slept>>

\* bd finds the database locked and says so.
Collides ==
  /\ bdPc = "invoke"
  /\ bdNow < release
  /\ \E d \in Durations : Elapse(d)
  /\ stderr' = "lock"
  /\ bdPc' = "retry"
  /\ result' = {"exit"}

\* bd runs to its end, or cannot be started at all.
Completes ==
  /\ bdPc = "invoke"
  /\ bdNow >= release
  /\ \E d \in Durations : Elapse(d)
  /\ \/ stderr' = "" /\ result' = {}
     \/ \E text \in Stderr \ {"lock"} :
          stderr' = text /\ result' = {"exit"} \cup MapBdError(text)
     \/ stderr' = "" /\ result' = {"ErrStoreUnavailable"}
  /\ bdPc' = "done"

\* bd hangs and is killed; only the text it has written by then is known.
Hangs ==
  /\ bdPc = "invoke"
  /\ Elapse(InvocationTimeout)
  /\ \E text \in Stderr \cup {""} :
       /\ stderr' = text
       /\ bdPc' = IF text = "lock" THEN "retry" ELSE "done"
       /\ result' = {"ErrStoreUnavailable"} \cup MapBdError(text)

Half == LockRetryBudget \div 2

DeadlinePassedWithoutDelay == bdNow > LockRetryBudget

DeadlineHalved == bdNow + delay > Half

\* time.Now().Add(delay).After(deadline)
DeadlinePassed == bdNow + delay > LockRetryBudget

GiveUp ==
  /\ bdPc = "retry"
  /\ DeadlinePassed
  /\ bdPc' = "done"
  /\ UNCHANGED <<bdNow, release, delay, slept, slowest, stderr, result>>

\* The sleep, then the doubling.
Sleep ==
  /\ bdPc = "retry"
  /\ ~DeadlinePassed
  /\ bdNow' = bdNow + delay
  /\ slept' = slept + delay
  /\ delay' = IF 2 * delay > Half THEN Half ELSE 2 * delay
  /\ bdPc' = "invoke"
  /\ UNCHANGED <<release, slowest, stderr, result>>

Done == bdPc = "done" /\ UNCHANGED bdVars

BdNext == Collides \/ Completes \/ Hangs \/ GiveUp \/ Sleep \/ Done

BdSpec == BdInit /\ [][BdNext]_bdVars

-----------------------------------------------------------------------------
(* Properties *)

\* A bd command holds the dispatch loop for at most the retry budget and one
\* invocation timeout, however the lock and the invocations behave: runBd fixes
\* its deadline before the first invocation.  (The comment on bdLockRetryBudget
\* has a worst case of N timeouts and the sleeps; see BudgetIsSleep.)
WallBounded == bdNow <= LockRetryBudget + InvocationTimeout

\* A lock held for up to a quarter of the budget (the 500 ms of the comment on
\* bdLockRetryBudget) never fails a command whose invocations are as quick: the
\* doubling leaves enough attempts.
OutlastsHold ==
  (bdPc = "done" /\ stderr = "lock" /\ 4 * slowest <= LockRetryBudget)
    => 4 * release > LockRetryBudget

\* What the comment on bdLockRetryBudget says: the budget is one of sleep, not of
\* wall time, so a command gives a lock up only when the next sleep exceeds it.
BudgetIsSleep ==
  (bdPc = "done" /\ stderr = "lock") => slept + delay > LockRetryBudget
=============================================================================
