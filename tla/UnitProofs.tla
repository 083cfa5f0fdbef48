----------------------------- MODULE UnitProofs -----------------------------
(***************************************************************************)
(* Safety of the parts that share no state with the dispatch loop: a bd    *)
(* command with its retries, the circuit breaker of the watchdog, the      *)
(* pull-request gate, and the telemetry side channel.  Each section states *)
(* the inductive invariant of one component and what follows from it.      *)
(***************************************************************************)
EXTENDS BdCommand, CircuitBreaker, Gate, Telemetry, FiniteSetTheorems, WellFoundedInduction, TLAPS

-----------------------------------------------------------------------------
(* A bd command *)

\* An invocation starts within the budget, and is over one timeout later.
BdTimesInv ==
  /\ {bdNow, release, delay, slept, slowest} \subseteq Nat
  /\ bdPc \in {"invoke", "retry", "done"}
  /\ bdPc = "invoke" => bdNow <= LockRetryBudget
  /\ bdNow <= LockRetryBudget + InvocationTimeout

LEMMA BdConstants ==
  /\ InvocationTimeout \in Nat /\ LockRetryBudget \in Nat /\ InitialDelay \in Nat
  /\ \A d \in Durations : d \in Nat /\ d <= InvocationTimeout
  /\ Half \in Nat
  /\ 2 * Half <= LockRetryBudget
  BY BdAssumption DEF Half

\* What an invocation does to the times, whichever way it ends.
LEMMA InvocationStep ==
  ASSUME Collides \/ Completes \/ Hangs
  PROVE  /\ bdPc = "invoke"
         /\ bdPc' \in {"retry", "done"}
         /\ UNCHANGED <<release, delay, slept>>
         /\ \E d \in Durations \cup {InvocationTimeout} :
              bdNow' = bdNow + d /\ slowest' = IF d > slowest THEN d ELSE slowest
  <1>1. bdPc = "invoke" /\ bdPc' \in {"retry", "done"}
    BY Zenon DEF Collides, Completes, Hangs
  <1>2. \E d \in Durations \cup {InvocationTimeout} : Elapse(d)
    BY Zenon DEF Collides, Completes, Hangs
  <1>3. QED
    BY <1>1, <1>2 DEF Elapse

LEMMA BdTimesStep == BdTimesInv /\ [BdNext]_bdVars => BdTimesInv'
  <1> SUFFICES ASSUME BdTimesInv, [BdNext]_bdVars PROVE BdTimesInv'
    OBVIOUS
  <1>1. CASE Collides \/ Completes \/ Hangs
    <2>1. PICK d \in Durations \cup {InvocationTimeout} :
            bdNow' = bdNow + d /\ slowest' = IF d > slowest THEN d ELSE slowest
      BY <1>1, InvocationStep
    <2>2. /\ bdPc = "invoke" /\ bdPc' \in {"retry", "done"}
          /\ UNCHANGED <<release, delay, slept>>
      BY <1>1, InvocationStep
    <2>3. d \in Nat /\ d <= InvocationTimeout
      BY BdConstants
    <2>4. QED
      BY <2>1, <2>2, <2>3, BdConstants DEF BdTimesInv
  <1>2. CASE GiveUp
    BY <1>2, BdConstants DEF GiveUp, BdTimesInv
  <1>3. CASE Sleep
    <2>1. bdNow + delay <= LockRetryBudget
      BY <1>3, BdConstants DEF Sleep, DeadlinePassed, BdTimesInv
    <2>2. QED
      BY <1>3, <2>1, BdConstants DEF Sleep, BdTimesInv
  <1>4. CASE UNCHANGED bdVars
    BY <1>4 DEF bdVars, BdTimesInv
  <1>5. QED
    BY <1>1, <1>2, <1>3, <1>4 DEF BdNext, Done

LEMMA BdTimesInit == BdInit => BdTimesInv
  <1> SUFFICES ASSUME BdInit PROVE BdTimesInv
    OBVIOUS
  <1>1. /\ bdNow = 0 /\ slept = 0 /\ slowest = 0 /\ delay = InitialDelay
        /\ release \in Releases /\ bdPc = "invoke"
    BY Zenon DEF BdInit
  <1>2. QED
    BY <1>1, BdConstants, BdAssumption DEF BdTimesInv

\* A bd command, retries included, returns within the lock-retry budget plus
\* one invocation timeout, for every schedule of the other lock holder: that
\* is how long one call can hold up the dispatch loop.
THEOREM CommandsReturnInTime == BdSpec => []WallBounded
  <1>1. BdTimesInv => WallBounded
    BY DEF BdTimesInv, WallBounded
  <1>2. QED
    BY <1>1, BdTimesInit, BdTimesStep, PTL DEF BdSpec

\* Why a quarter of the budget is outlasted: the delay is at most half of it
\* and an invocation at most a quarter, so the attempt before giving up began
\* after the first quarter.  A hang counts as a slow invocation.
OutlastInv ==
  /\ 2 * delay <= LockRetryBudget
  /\ bdPc = "retry" => \/ 4 * slowest > LockRetryBudget
                       \/ bdNow < release + slowest
  /\ OutlastsHold

\* The two sums of the argument.
LEMMA BeganBefore ==
  ASSUME NEW now \in Nat, NEW freed \in Nat, NEW d \in Nat, NEW slow \in Nat,
         now < freed, d <= slow
  PROVE  now + d < freed + slow
  OBVIOUS

LEMMA SlowAsTimeout ==
  ASSUME NEW slow \in Nat, NEW timeout \in Nat, NEW budget \in Nat,
         budget < 4 * timeout, slow >= timeout
  PROVE  4 * slow > budget /\ ~(4 * slow <= budget)
  OBVIOUS

LEMMA OutlastStep ==
  ASSUME LockRetryBudget < 4 * InvocationTimeout,
         BdTimesInv, BdTimesInv', OutlastInv, [BdNext]_bdVars
  PROVE  OutlastInv'
  <1>0. /\ bdNow \in Nat /\ release \in Nat /\ delay \in Nat /\ slowest \in Nat
        /\ bdNow' \in Nat /\ release' \in Nat /\ delay' \in Nat /\ slowest' \in Nat
        /\ 2 * delay <= LockRetryBudget
    BY DEF BdTimesInv, OutlastInv
  <1>1. CASE Collides
    <2>1. /\ bdNow < release /\ bdPc' = "retry"
          /\ \E d \in Durations : Elapse(d)
      BY Zenon, <1>1 DEF Collides
    <2>2. PICK d \in Durations : Elapse(d)
      BY <2>1
    <2>3. d \in Nat
      BY BdConstants
    <2>4. /\ bdNow' = bdNow + d /\ release' = release /\ delay' = delay
          /\ d <= slowest'
      <3>1. /\ bdNow' = bdNow + d /\ release' = release /\ delay' = delay
            /\ slowest' = IF d > slowest THEN d ELSE slowest
        BY <2>2 DEF Elapse
      <3>2. QED
        BY <1>0, <2>3, <3>1
    <2>5. bdNow' < release' + slowest'
      BY <1>0, <2>1, <2>3, <2>4, BeganBefore
    <2>6. QED
      BY <1>0, <2>1, <2>4, <2>5 DEF OutlastInv, OutlastsHold
  <1>2. CASE Completes
    <2>1. bdPc' = "done" /\ stderr' # "lock" /\ delay' = delay
      BY Zenon, <1>2 DEF Completes, Elapse
    <2>2. QED
      BY <1>0, <2>1 DEF OutlastInv, OutlastsHold
  <1>3. CASE Hangs
    <2>1. Elapse(InvocationTimeout) /\ delay' = delay
      BY Zenon, <1>3 DEF Hangs, Elapse
    <2>2. 4 * slowest' > LockRetryBudget /\ ~(4 * slowest' <= LockRetryBudget)
      <3>1. slowest' = IF InvocationTimeout > slowest THEN InvocationTimeout ELSE slowest
        BY <2>1 DEF Elapse
      <3>2. slowest' >= InvocationTimeout
        BY <1>0, <3>1, BdConstants
      <3>3. QED
        BY <1>0, <3>2, BdConstants, SlowAsTimeout
    <2>3. QED
      BY <1>0, <2>1, <2>2 DEF OutlastInv, OutlastsHold
  <1>4. CASE GiveUp
    <2>1. /\ bdPc = "retry" /\ bdPc' = "done" /\ bdNow + delay > LockRetryBudget
          /\ delay' = delay /\ slowest' = slowest /\ release' = release
      BY <1>4 DEF GiveUp, DeadlinePassed
    <2>2. ASSUME 4 * slowest <= LockRetryBudget PROVE 4 * release > LockRetryBudget
      <3>1. bdNow < release + slowest
        BY <1>0, <2>1, <2>2, BdConstants DEF OutlastInv
      <3>2. QED
        BY <1>0, <2>1, <2>2, <3>1, BdConstants
    <2>3. QED
      BY <1>0, <2>1, <2>2 DEF OutlastInv, OutlastsHold
  <1>5. CASE Sleep
    <2>1. bdPc' = "invoke" /\ delay' = IF 2 * delay > Half THEN Half ELSE 2 * delay
      BY <1>5 DEF Sleep
    <2>2. 2 * delay' <= LockRetryBudget
      BY <1>0, <2>1, BdConstants
    <2>3. QED
      BY <2>1, <2>2 DEF OutlastInv, OutlastsHold
  <1>6. CASE UNCHANGED bdVars
    BY <1>6 DEF bdVars, OutlastInv, OutlastsHold
  <1>7. QED
    BY <1>1, <1>2, <1>3, <1>4, <1>5, <1>6 DEF BdNext, Done

\* runBd outlasts every holder of the database lock that releases it within a
\* quarter of the budget, for every first delay of at most half the budget and
\* every invocation timeout above a quarter of it (75 ms, 5 s and 2 s in the
\* code): no lock error reaches the caller while invocations are quick.
THEOREM ShortHoldsOutlasted ==
  ASSUME 2 * InitialDelay <= LockRetryBudget, LockRetryBudget < 4 * InvocationTimeout
  PROVE  BdSpec => []OutlastsHold
  <1>1. OutlastInv => OutlastsHold
    BY DEF OutlastInv
  <1>2. BdInit => OutlastInv
    <2>1. BdInit => delay = InitialDelay /\ bdPc = "invoke"
      BY Zenon DEF BdInit
    <2>2. QED
      BY <2>1 DEF OutlastInv, OutlastsHold
  <1>3. BdTimesInv /\ BdTimesInv' /\ OutlastInv /\ [BdNext]_bdVars => OutlastInv'
    BY OutlastStep
  <1>4. QED
    BY <1>1, <1>2, <1>3, BdTimesInit, BdTimesStep, PTL DEF BdSpec

-----------------------------------------------------------------------------
(* The circuit breaker *)

Ordered(s) == \A i, j \in DOMAIN s : i <= j => s[i] <= s[j]

\* What is kept of a history of failures is its end; what was dropped has expired.
EndOf(s, r) ==
  /\ Len(s) <= Len(r)
  /\ \A i \in DOMAIN s : s[i] = r[Len(r) - Len(s) + i]
  /\ \A i \in 1..(Len(r) - Len(s)) : r[i] <= clock - Window

CbTypes ==
  /\ clock \in Nat
  /\ failures \in [Workers -> Seq(Nat)]
  /\ rapid \in [Workers -> Seq(Nat)]
  /\ tripped \in BOOLEAN

BreakerInv ==
  /\ CbTypes
  /\ \A w \in Workers :
       /\ Ordered(rapid[w])
       /\ \A i \in DOMAIN rapid[w] : rapid[w][i] <= clock
       /\ EndOf(failures[w], rapid[w])
  /\ TripsExactly

LEMMA LeastOf ==
  ASSUME NEW T \in SUBSET Nat, T # {}
  PROVE  \E k \in T : \A n \in T : k <= n
  <1>1. PICK k \in T : \A n \in T : ~ (<<n, k>> \in OpToRel(<, Nat))
    BY NatLessThanWellFounded, WFMin
  <1>2. \A n \in T : ~ (n < k)
    BY <1>1 DEF OpToRel
  <1>3. QED
    BY <1>2

\* In an ordered history the entries after the cutoff are the last ones.
LEMMA CutExists ==
  ASSUME NEW n \in Nat, NEW f \in [1..n -> Nat], NEW x \in Int,
         \A i, j \in 1..n : i <= j => f[i] <= f[j]
  PROVE  \E k \in 0..n : \A i \in 1..n : i > k <=> f[i] > x
  <1> DEFINE After(k) == \A i \in 1..n : i > k => f[i] > x
             T == {k \in 0..n : After(k)}
  <1>1. n \in T /\ T \in SUBSET Nat
    OBVIOUS
  <1>2. PICK k \in T : \A m \in T : k <= m
    BY <1>1, LeastOf
  <1>3. k \in 0..n /\ After(k) /\ \A m \in 0..n : After(m) => k <= m
    BY <1>2
  <1> HIDE DEF T
  <1>4. ASSUME NEW j \in 1..n, j <= k PROVE ~ (f[j] > x)
    <2>1. k - 1 \in 0..n /\ k \in 1..n /\ ~ (k <= k - 1)
      BY <1>3, <1>4
    <2>2. ~ After(k - 1)
      BY <1>3, <2>1
    <2>3. PICK i \in 1..n : i > k - 1 /\ ~ (f[i] > x)
      BY <2>2
    <2>4. ~ (i > k)
      BY <1>3, <2>3
    <2>5. i = k
      BY <2>1, <2>3, <2>4
    <2>6. f[j] <= f[k] /\ ~ (f[k] > x) /\ f[j] \in Nat /\ f[k] \in Nat
      BY <1>4, <2>1, <2>3, <2>5
    <2>7. QED
      BY <2>6
  <1>5. \A i \in 1..n : i > k => f[i] > x
    BY <1>3
  <1>6. \A i \in 1..n : f[i] > x => i > k
    BY <1>3, <1>4
  <1> HIDE DEF After
  <1>7. QED
    BY <1>3, <1>5, <1>6

LEMMA EmptyHistories ==
  ASSUME NEW h, h = [w \in Workers |-> <<>>]
  PROVE  h \in [Workers -> Seq(Nat)] /\ \A w \in Workers : h[w] = <<>>
  OBVIOUS

LEMMA HistoryFunction ==
  ASSUME NEW s \in Seq(Nat)
  PROVE  /\ Len(s) \in Nat /\ DOMAIN s = 1..Len(s) /\ s \in [1..Len(s) -> Nat]
         /\ \A i \in 1..Len(s) : s[i] \in Nat
  OBVIOUS

LEMMA Cutoff ==
  ASSUME clock \in Nat
  PROVE  /\ clock - Window \in Int /\ clock > clock - Window
         /\ \A x \in Nat : clock - x < Window <=> x > clock - Window
  BY BreakerAssumption

LEMMA PruneOrdered ==
  ASSUME clock \in Nat, NEW s \in Seq(Nat), Ordered(s)
  PROVE  \E k \in 0..Len(s) :
           /\ Prune(s) = SubSeq(s, k + 1, Len(s))
           /\ \A i \in 1..Len(s) : i > k <=> s[i] > clock - Window
  <1> DEFINE Cut(k) == \A i \in DOMAIN s : i > k <=> s[i] > clock - Window
             cut == CHOOSE k \in 0..Len(s) : Cut(k)
  <1>1. Len(s) \in Nat /\ DOMAIN s = 1..Len(s) /\ s \in [1..Len(s) -> Nat]
    BY HistoryFunction
  <1>2. \A i, j \in 1..Len(s) : i <= j => s[i] <= s[j]
    BY <1>1 DEF Ordered
  <1>3. \E k \in 0..Len(s) : \A i \in 1..Len(s) : i > k <=> s[i] > clock - Window
    BY <1>1, <1>2, Cutoff, CutExists
  <1>4. \E k \in 0..Len(s) : Cut(k)
    BY <1>1, <1>3
  <1>5. Prune(s) = SubSeq(s, cut + 1, Len(s))
    BY DEF Prune
  <1> HIDE DEF Cut
  <1>6. cut \in 0..Len(s) /\ Cut(cut)
    BY <1>4
  <1>7. QED
    BY <1>1, <1>5, <1>6 DEF Cut

LEMMA BreakerInit == CbInit => BreakerInv
  <1> SUFFICES ASSUME CbInit PROVE BreakerInv
    OBVIOUS
  <1>1. CbTypes /\ \A w \in Workers : rapid[w] = <<>> /\ failures[w] = <<>>
    BY EmptyHistories, Zenon DEF CbInit, CbTypes
  <1>2. TripsExactly
    BY <1>1 DEF TripsExactly, CbInit
  <1>3. \A w \in Workers : EndOf(failures[w], rapid[w])
    BY <1>1 DEF EndOf
  <1>4. QED
    BY <1>1, <1>2, <1>3 DEF BreakerInv, Ordered

\* One more failure, at the end of the history and of what is kept of it.
LEMMA AppendKeepsEnd ==
  ASSUME clock \in Nat, NEW s \in Seq(Nat), NEW r \in Seq(Nat),
         Ordered(r), \A i \in DOMAIN r : r[i] <= clock, EndOf(s, r)
  PROVE  /\ Ordered(Append(r, clock))
         /\ \A i \in DOMAIN Append(r, clock) : Append(r, clock)[i] <= clock
         /\ EndOf(Append(s, clock), Append(r, clock))
  <1> DEFINE m == Len(s)  n == Len(r)  a == Append(s, clock)  q == Append(r, clock)
  <1>1. /\ m \in Nat /\ n \in Nat /\ DOMAIN s = 1..m /\ DOMAIN r = 1..n
        /\ \A i \in 1..n : r[i] \in Nat
    BY HistoryFunction
  <1>2. /\ Len(a) = m + 1 /\ DOMAIN a = 1..(m + 1) /\ a[m + 1] = clock
        /\ \A i \in 1..m : a[i] = s[i]
    OBVIOUS
  <1>3. /\ Len(q) = n + 1 /\ DOMAIN q = 1..(n + 1) /\ q[n + 1] = clock
        /\ \A i \in 1..n : q[i] = r[i]
    OBVIOUS
  <1>4. /\ \A i, j \in 1..n : i <= j => r[i] <= r[j]
        /\ \A i \in 1..n : r[i] <= clock
        /\ m <= n
        /\ \A i \in 1..m : s[i] = r[n - m + i]
        /\ \A i \in 1..(n - m) : r[i] <= clock - Window
    BY <1>1 DEF Ordered, EndOf
  <1> HIDE DEF m, n, a, q
  <1>5. \A i \in 1..(n + 1) : q[i] <= clock
    BY <1>1, <1>3, <1>4
  <1>6. \A i, j \in 1..(n + 1) : i <= j => q[i] <= q[j]
    BY <1>1, <1>3, <1>4
  <1>7. \A i \in 1..(m + 1) : a[i] = q[(n + 1) - (m + 1) + i]
    <2> SUFFICES ASSUME NEW i \in 1..(m + 1) PROVE a[i] = q[n - m + i]
      BY <1>1
    <2>1. CASE i = m + 1
      <3>1. n - m + i = n + 1
        BY <2>1, <1>1
      <3>2. QED
        BY <2>1, <3>1, <1>2, <1>3
    <2>2. CASE i # m + 1
      <3>1. i \in 1..m /\ n - m + i \in 1..n
        BY <2>2, <1>1, <1>4
      <3>2. QED
        BY <3>1, <1>2, <1>3, <1>4
    <2>3. QED
      BY <2>1, <2>2
  <1>8. \A i \in 1..((n + 1) - (m + 1)) : q[i] <= clock - Window
    <2> SUFFICES ASSUME NEW i \in 1..(n - m) PROVE q[i] <= clock - Window
      BY <1>1
    <2>1. i \in 1..n
      BY <1>1, <1>4
    <2>2. QED
      BY <2>1, <1>3, <1>4
  <1>9. m + 1 <= n + 1
    BY <1>1, <1>4
  <1>10. Ordered(q) /\ \A i \in DOMAIN q : q[i] <= clock
    BY <1>3, <1>5, <1>6 DEF Ordered
  <1>11. EndOf(a, q)
    BY <1>2, <1>3, <1>7, <1>8, <1>9 DEF EndOf
  <1>12. QED
    BY <1>10, <1>11 DEF a, q

LEMMA Suffix ==
  ASSUME NEW a \in Seq(Nat), NEW k \in 0..Len(a), NEW p, p = SubSeq(a, k + 1, Len(a))
  PROVE  /\ p \in Seq(Nat) /\ Len(p) = Len(a) - k /\ DOMAIN p = 1..(Len(a) - k)
         /\ \A i \in 1..(Len(a) - k) : p[i] = a[k + i]
  OBVIOUS

\* Pruning leaves the end of the history that is within the window.
LEMMA PruneKeepsEnd ==
  ASSUME clock \in Nat, NEW a \in Seq(Nat), NEW q \in Seq(Nat), Ordered(q), EndOf(a, q)
  PROVE  /\ Prune(a) \in Seq(Nat) /\ Len(Prune(a)) <= Len(a)
         /\ EndOf(Prune(a), q)
         /\ \A i \in DOMAIN Prune(a) : Prune(a)[i] > clock - Window
         /\ Len(a) > 0 /\ a[Len(a)] = clock => Len(Prune(a)) > 0
  <1> DEFINE m == Len(a)  n == Len(q)  x == clock - Window  p == Prune(a)
  <1>1. /\ m \in Nat /\ n \in Nat /\ x \in Int /\ clock > x
        /\ DOMAIN a = 1..m /\ DOMAIN q = 1..n
        /\ \A i \in 1..m : a[i] \in Nat
        /\ \A i \in 1..n : q[i] \in Nat
    BY HistoryFunction, Cutoff
  <1>2. /\ m <= n
        /\ \A i \in 1..m : a[i] = q[n - m + i]
        /\ \A i \in 1..(n - m) : q[i] <= x
        /\ \A i, j \in 1..n : i <= j => q[i] <= q[j]
    BY <1>1 DEF EndOf, Ordered
  <1>3. Ordered(a)
    <2> HIDE DEF m, n, x
    <2>1. ASSUME NEW i \in 1..m, NEW j \in 1..m, i <= j PROVE a[i] <= a[j]
      <3>1. n - m + i \in 1..n /\ n - m + j \in 1..n /\ n - m + i <= n - m + j
        BY <2>1, <1>1, <1>2
      <3>2. QED
        BY <3>1, <1>2
    <2>2. QED
      BY <2>1, <1>1 DEF Ordered
  <1>4. PICK k \in 0..m :
          /\ p = SubSeq(a, k + 1, m)
          /\ \A i \in 1..m : i > k <=> a[i] > x
    BY <1>3, PruneOrdered
  <1>5. /\ p \in Seq(Nat) /\ Len(p) = m - k /\ DOMAIN p = 1..(m - k)
        /\ \A i \in 1..(m - k) : p[i] = a[k + i]
    BY <1>4, Suffix
  <1> HIDE DEF m, n, x, p
  <1>6. m - k <= m /\ m - k <= n /\ m - k \in Nat
    BY <1>1, <1>2
  <1>7. \A i \in 1..(m - k) : p[i] > x
    <2> SUFFICES ASSUME NEW i \in 1..(m - k) PROVE p[i] > x
      OBVIOUS
    <2>1. k + i \in 1..m /\ k + i > k
      BY <1>1
    <2>2. QED
      BY <2>1, <1>4, <1>5
  <1>8. \A i \in 1..(m - k) : p[i] = q[n - (m - k) + i]
    <2> SUFFICES ASSUME NEW i \in 1..(m - k) PROVE p[i] = q[n - (m - k) + i]
      OBVIOUS
    <2>1. k + i \in 1..m /\ n - m + (k + i) = n - (m - k) + i
      BY <1>1
    <2>2. QED
      BY <2>1, <1>2, <1>5
  <1>9. \A i \in 1..(n - (m - k)) : q[i] <= x
    <2> SUFFICES ASSUME NEW i \in 1..(n - (m - k)) PROVE q[i] <= x
      OBVIOUS
    <2>1. CASE i <= n - m
      BY <2>1, <1>1, <1>2
    <2>2. CASE ~ (i <= n - m)
      <3> DEFINE j == i - (n - m)
      <3>1. j \in 1..m /\ ~ (j > k) /\ n - m + j = i /\ i \in 1..n
        BY <2>2, <1>1, <1>2
      <3>2. a[j] = q[i] /\ ~ (a[j] > x)
        BY <3>1, <1>2, <1>4
      <3>3. QED
        BY <3>1, <3>2, <1>1
    <2>3. QED
      BY <2>1, <2>2
  <1>10. ASSUME m > 0, a[m] = clock PROVE m - k > 0
    <2>1. m \in 1..m /\ a[m] > x
      BY <1>10, <1>1
    <2>2. m > k
      BY <2>1, <1>4
    <2>3. QED
      BY <2>2, <1>1
  <1>11. EndOf(p, q)
    BY <1>5, <1>6, <1>8, <1>9 DEF EndOf, x, n
  <1>12. QED
    BY <1>5, <1>6, <1>7, <1>10, <1>11 DEF p, m, x

\* What one rapid failure makes of a history r and of what is kept of it, s.
Recorded(s, r, a, q) ==
  \/ a = s /\ q = r
  \/ a = Append(s, clock) /\ q = Append(r, clock)

LEMMA RecordedHistory ==
  ASSUME clock \in Nat,
         NEW s \in Seq(Nat), NEW r \in Seq(Nat), NEW a \in Seq(Nat), NEW q \in Seq(Nat),
         Ordered(r), \A i \in DOMAIN r : r[i] <= clock, EndOf(s, r), Recorded(s, r, a, q)
  PROVE  /\ Prune(a) \in Seq(Nat)
         /\ Ordered(q)
         /\ \A i \in DOMAIN q : q[i] <= clock
         /\ EndOf(Prune(a), q)
         /\ \A i \in DOMAIN Prune(a) : Prune(a)[i] > clock - Window
         /\ Len(Prune(a)) <= Len(a)
         /\ a = Append(s, clock) => Len(Prune(a)) > 0
  <1>1. Ordered(q) /\ (\A i \in DOMAIN q : q[i] <= clock) /\ EndOf(a, q)
    <2>1. CASE a = s /\ q = r
      BY <2>1
    <2>2. CASE a = Append(s, clock) /\ q = Append(r, clock)
      BY <2>2, AppendKeepsEnd
    <2>3. QED
      BY <2>1, <2>2 DEF Recorded
  <1>2. a = Append(s, clock) => Len(a) > 0 /\ a[Len(a)] = clock
    OBVIOUS
  <1>3. QED
    BY <1>1, <1>2, PruneKeepsEnd

\* CBThreshold failures within a window.
Burst(r) ==
  \E i \in DOMAIN r : /\ i + CBThreshold - 1 \in DOMAIN r
                      /\ r[i + CBThreshold - 1] - r[i] < Window

LEMMA Longer ==
  ASSUME clock \in Nat, NEW r \in Seq(Nat), NEW q, q = Append(r, clock)
  PROVE  Len(q) = Len(r) + 1 /\ q[Len(q)] = clock /\ \A i \in 1..Len(r) : q[i] = r[i]
  OBVIOUS

LEMMA RecordedBurst ==
  ASSUME clock \in Nat,
         NEW s \in Seq(Nat), NEW r \in Seq(Nat), NEW a \in Seq(Nat), NEW q \in Seq(Nat),
         Ordered(r), \A i \in DOMAIN r : r[i] <= clock, EndOf(s, r), Recorded(s, r, a, q)
  PROVE  Burst(q) <=> Burst(r) \/ Len(Prune(a)) >= CBThreshold
  <1> DEFINE p == Prune(a)  c == CBThreshold  x == clock - Window
             l == Len(p)  m == Len(r)  n == Len(q)
  <1>1. c \in Nat \ {0}
    BY BreakerAssumption
  <1>2. /\ m \in Nat /\ n \in Nat /\ DOMAIN r = 1..m /\ DOMAIN q = 1..n
        /\ \A i \in 1..m : r[i] \in Nat
        /\ \A i \in 1..n : q[i] \in Nat
    BY HistoryFunction
  <1>3. /\ p \in Seq(Nat)
        /\ \A i \in DOMAIN q : q[i] <= clock
        /\ EndOf(p, q)
        /\ \A i \in DOMAIN p : p[i] > x
    BY RecordedHistory
  <1>4. l \in Nat /\ DOMAIN p = 1..l
    BY <1>3, HistoryFunction
  <1>5. /\ l <= n
        /\ \A i \in 1..l : p[i] = q[n - l + i]
        /\ \A i \in 1..(n - l) : q[i] <= x
    BY <1>2, <1>3, <1>4 DEF EndOf
  <1>6. q = r \/ (n = m + 1 /\ q[n] = clock /\ \A i \in 1..m : q[i] = r[i])
    <2>1. CASE q = Append(r, clock)
      BY <2>1, Longer
    <2>2. QED
      BY <2>1 DEF Recorded
  <1>7. m <= n /\ \A i \in 1..m : q[i] = r[i]
    <2> HIDE DEF m, n
    <2>1. CASE q = r
      BY <2>1, <1>2 DEF m, n
    <2>2. QED
      BY <1>2, <1>6, <2>1
  <1>8. x \in Int /\ \A y \in Nat : clock - y < Window <=> y > x
    BY Cutoff
  <1>9. Window \in Nat
    BY BreakerAssumption
  <1> HIDE DEF p, c, x, l, m, n
  <1>10. ASSUME l >= c PROVE Burst(q)
    <2> DEFINE i == n - c + 1
    <2>1. i \in 1..n /\ i + c - 1 = n /\ n \in 1..n
      BY <1>1, <1>2, <1>4, <1>5, <1>10
    <2>2. l - c + 1 \in 1..l /\ n - l + (l - c + 1) = i
      BY <1>1, <1>2, <1>4, <1>5, <1>10
    <2>3. q[i] > x
      BY <2>2, <1>3, <1>4, <1>5
    <2>4. q[n] <= clock /\ q[n] \in Nat /\ q[i] \in Nat
      BY <2>1, <1>2, <1>3
    <2>5. clock - q[i] < Window
      BY <2>3, <2>4, <1>8
    <2>6. q[n] - q[i] < Window
      BY <2>4, <2>5, <1>9
    <2>7. i + CBThreshold - 1 = n
      BY <2>1 DEF c
    <2>8. QED
      BY <2>1, <2>6, <2>7, <1>2 DEF Burst
  <1>11. ASSUME Burst(r) PROVE Burst(q)
    <2>1. PICK i \in 1..m : i + CBThreshold - 1 \in 1..m /\ r[i + CBThreshold - 1] - r[i] < Window
      BY <1>2, <1>11 DEF Burst
    <2>2. i \in 1..n /\ i + CBThreshold - 1 \in 1..n
      BY <2>1, <1>2, <1>7
    <2>3. q[i + CBThreshold - 1] - q[i] < Window
      BY <2>1, <1>7
    <2>4. QED
      BY <2>2, <2>3, <1>2 DEF Burst
  <1>12. ASSUME Burst(q), ~ (l >= c) PROVE Burst(r)
    <2>1. PICK i \in 1..n : i + c - 1 \in 1..n /\ q[i + c - 1] - q[i] < Window
      BY <1>2, <1>12 DEF Burst, c
    <2>2. CASE q = r
      BY <2>2, <1>12
    <2>3. CASE n = m + 1 /\ q[n] = clock /\ \A j \in 1..m : q[j] = r[j]
      <3>1. CASE i + c - 1 = n
        <4>1. i \in 1..(n - l)
          BY <3>1, <1>1, <1>2, <1>4, <1>5, <1>12
        <4>2. q[i] <= x /\ q[i] \in Nat
          BY <4>1, <1>2, <1>5
        <4>3. clock - q[i] < Window
          BY <2>1, <2>3, <3>1
        <4>4. QED
          BY <4>2, <4>3, <1>8
      <3>2. CASE i + c - 1 # n
        <4>1. i \in 1..m /\ i + c - 1 \in 1..m
          BY <3>2, <2>1, <2>3, <1>1, <1>2
        <4>2. r[i + c - 1] - r[i] < Window
          BY <4>1, <2>1, <2>3
        <4>3. QED
          BY <4>1, <4>2, <1>2 DEF Burst, c
      <3>3. QED
        BY <3>1, <3>2
    <2>4. QED
      BY <2>2, <2>3, <1>6
  <1>13. QED
    BY <1>10, <1>11, <1>12 DEF p, c, l

LEMMA TripsOnBursts == TripsExactly <=> (tripped <=> \E w \in Workers : Burst(rapid[w]))
  BY Zenon DEF TripsExactly, Burst

LEMMA TripsOnBurstsNext == TripsExactly' <=> (tripped' <=> \E w \in Workers : Burst(rapid'[w]))
  BY Zenon DEF TripsExactly, Burst

\* A rapid failure, history by history.
LEMMA RecordStep ==
  ASSUME BreakerInv, NEW w \in Workers, NEW start \in 0..clock, RecordFailure(w, start),
         ~ UNCHANGED cbVars
  PROVE  /\ \A v \in Workers : \E a \in Seq(Nat) :
              /\ a = IF v = w THEN Append(failures[v], clock) ELSE failures[v]
              /\ failures'[v] = Prune(a)
              /\ rapid'[v] = IF v = w THEN Append(rapid[v], clock) ELSE rapid[v]
         /\ failures' = [v \in Workers |-> failures'[v]]
         /\ rapid' = [v \in Workers |-> rapid'[v]]
         /\ tripped' = (tripped \/ Reached(failures'))
         /\ clock' = clock
  <1> DEFINE added == [failures EXCEPT ![w] = Append(@, clock)]
  <1>1. CbTypes
    BY DEF BreakerInv
  <1>2. /\ failures' = [v \in Workers |-> Prune(added[v])]
        /\ rapid' = [rapid EXCEPT ![w] = Append(@, clock)]
        /\ tripped' = (tripped \/ Reached(failures'))
        /\ clock' = clock
    BY DEF RecordFailure, cbVars
  <1>3. \A v \in Workers : /\ added[v] = IF v = w THEN Append(failures[v], clock) ELSE failures[v]
                           /\ added[v] \in Seq(Nat)
    BY <1>1 DEF CbTypes
  <1>4. \A v \in Workers : rapid'[v] = IF v = w THEN Append(rapid[v], clock) ELSE rapid[v]
    BY <1>1, <1>2 DEF CbTypes
  <1>5. /\ failures' = [v \in Workers |-> failures'[v]]
        /\ rapid' = [v \in Workers |-> rapid'[v]]
    BY <1>1, <1>2 DEF CbTypes
  <1> HIDE DEF added
  <1>6. \A v \in Workers : failures'[v] = Prune(added[v])
    BY <1>2
  <1>7. QED
    BY <1>2, <1>3, <1>4, <1>5, <1>6

LEMMA LaterStillExpired ==
  ASSUME NEW now \in Nat, NEW window \in Nat, NEW r \in Seq(Nat), NEW d \in Int, d <= Len(r),
         \A i \in DOMAIN r : r[i] <= now,
         \A i \in 1..d : r[i] <= now - window
  PROVE  /\ \A i \in DOMAIN r : r[i] <= now + 1
         /\ \A i \in 1..d : r[i] <= (now + 1) - window
  <1>1. DOMAIN r = 1..Len(r) /\ Len(r) \in Nat /\ \A i \in 1..Len(r) : r[i] \in Nat
    BY HistoryFunction
  <1>2. ASSUME NEW i \in 1..Len(r) PROVE r[i] <= now + 1
    <2>1. r[i] <= now /\ r[i] \in Nat
      BY <1>1, <1>2
    <2>2. QED
      BY <2>1
  <1>3. ASSUME NEW i \in 1..d PROVE r[i] <= (now + 1) - window
    <2>1. i \in 1..Len(r)
      BY <1>1, <1>3
    <2>2. r[i] <= now - window /\ r[i] \in Nat
      BY <1>1, <1>3, <2>1
    <2>3. QED
      BY <2>2
  <1>4. QED
    BY <1>1, <1>2, <1>3

LEMMA BreakerStep == BreakerInv /\ [CbNext]_cbVars => BreakerInv'
  <1> SUFFICES ASSUME BreakerInv, [CbNext]_cbVars PROVE BreakerInv'
    OBVIOUS
  <1>1. CASE UNCHANGED cbVars
    BY <1>1 DEF cbVars, BreakerInv, CbTypes, Ordered, EndOf, TripsExactly
  <1>2. ASSUME NEW w \in Workers, NEW start \in 0..clock, RecordFailure(w, start),
               ~ UNCHANGED cbVars
        PROVE  BreakerInv'
    <2>1. /\ \A v \in Workers : \E a \in Seq(Nat) :
              /\ a = IF v = w THEN Append(failures[v], clock) ELSE failures[v]
              /\ failures'[v] = Prune(a)
              /\ rapid'[v] = IF v = w THEN Append(rapid[v], clock) ELSE rapid[v]
          /\ failures' = [v \in Workers |-> failures'[v]]
          /\ rapid' = [v \in Workers |-> rapid'[v]]
          /\ tripped' = (tripped \/ Reached(failures'))
          /\ clock' = clock
      BY <1>2, RecordStep
    <2>2. /\ clock \in Nat /\ tripped \in BOOLEAN /\ TripsExactly
          /\ \A v \in Workers : /\ failures[v] \in Seq(Nat) /\ rapid[v] \in Seq(Nat)
                                /\ Ordered(rapid[v])
                                /\ \A i \in DOMAIN rapid[v] : rapid[v][i] <= clock
                                /\ EndOf(failures[v], rapid[v])
      BY DEF BreakerInv, CbTypes
    <2>3. ASSUME NEW v \in Workers
          PROVE  /\ failures'[v] \in Seq(Nat) /\ rapid'[v] \in Seq(Nat)
                 /\ Ordered(rapid'[v])
                 /\ \A i \in DOMAIN rapid'[v] : rapid'[v][i] <= clock
                 /\ EndOf(failures'[v], rapid'[v])
                 /\ Burst(rapid'[v]) <=> Burst(rapid[v]) \/ Len(failures'[v]) >= CBThreshold
      <3>1. PICK a \in Seq(Nat) :
              /\ a = IF v = w THEN Append(failures[v], clock) ELSE failures[v]
              /\ failures'[v] = Prune(a)
              /\ rapid'[v] = IF v = w THEN Append(rapid[v], clock) ELSE rapid[v]
        BY <2>1
      <3>2. rapid'[v] \in Seq(Nat)
        BY <2>2, <3>1
      <3>3. Recorded(failures[v], rapid[v], a, rapid'[v])
        BY <3>1 DEF Recorded
      <3>4. /\ Prune(a) \in Seq(Nat) /\ Ordered(rapid'[v])
            /\ \A i \in DOMAIN rapid'[v] : rapid'[v][i] <= clock
            /\ EndOf(Prune(a), rapid'[v])
        BY <2>2, <3>2, <3>3, RecordedHistory
      <3>5. Burst(rapid'[v]) <=> Burst(rapid[v]) \/ Len(Prune(a)) >= CBThreshold
        BY <2>2, <3>2, <3>3, RecordedBurst
      <3>6. QED
        BY <3>1, <3>2, <3>4, <3>5
    <2>4. CbTypes'
      <3>1. failures' \in [Workers -> Seq(Nat)] /\ rapid' \in [Workers -> Seq(Nat)]
        BY <2>1, <2>3
      <3>2. tripped' \in BOOLEAN
        BY <2>1, <2>2
      <3>3. QED
        BY <2>1, <2>2, <3>1, <3>2 DEF CbTypes
    <2>5. TripsExactly'
      <3>1. tripped <=> \E v \in Workers : Burst(rapid[v])
        BY <2>2, TripsOnBursts
      <3>2. Reached(failures') <=> \E v \in Workers : Len(failures'[v]) >= CBThreshold
        BY DEF Reached
      <3>3. tripped' <=> \E v \in Workers : Burst(rapid'[v])
        BY Zenon, <2>1, <2>3, <3>1, <3>2
      <3>4. QED
        BY <3>3, TripsOnBurstsNext
    <2>6. QED
      BY <2>1, <2>3, <2>4, <2>5 DEF BreakerInv, Ordered, EndOf
  <1>3. ASSUME tripped, Reset PROVE BreakerInv'
    <2>1. /\ clock' = clock /\ tripped' = FALSE
          /\ failures' = [w \in Workers |-> <<>>] /\ rapid' = [w \in Workers |-> <<>>]
      BY <1>3 DEF Reset
    <2>2. TripsExactly'
      BY <2>1 DEF TripsExactly
    <2>3. CbTypes'
      BY <2>1, EmptyHistories, Zenon DEF BreakerInv, CbTypes
    <2>4. QED
      BY <2>1, <2>2, <2>3 DEF BreakerInv, Ordered, EndOf
  <1>4. ASSUME Tick PROVE BreakerInv'
    <2>1. clock \in Nat /\ clock' = clock + 1 /\ UNCHANGED <<failures, tripped, rapid>>
      BY <1>4 DEF Tick, BreakerInv, CbTypes
    <2>2. CbTypes' /\ TripsExactly'
      BY <2>1 DEF BreakerInv, CbTypes, TripsExactly
    <2>3. ASSUME NEW w \in Workers
          PROVE  /\ \A i \in DOMAIN rapid[w] : rapid[w][i] <= clock + 1
                 /\ \A i \in 1..(Len(rapid[w]) - Len(failures[w])) : rapid[w][i] <= (clock + 1) - Window
      <3>1. /\ rapid[w] \in Seq(Nat) /\ failures[w] \in Seq(Nat) /\ Window \in Nat
            /\ \A i \in DOMAIN rapid[w] : rapid[w][i] <= clock
            /\ \A i \in 1..(Len(rapid[w]) - Len(failures[w])) : rapid[w][i] <= clock - Window
        BY BreakerAssumption DEF BreakerInv, CbTypes, EndOf
      <3>2. \A m, n \in Nat : m - n \in Int /\ m - n <= m
        OBVIOUS
      <3>3. Len(rapid[w]) \in Nat /\ Len(failures[w]) \in Nat
        BY <3>1, HistoryFunction, Zenon
      <3>4. /\ Len(rapid[w]) - Len(failures[w]) \in Int
            /\ Len(rapid[w]) - Len(failures[w]) <= Len(rapid[w])
        BY <3>2, <3>3, Zenon
      <3>5. QED
        BY <2>1, <3>1, <3>4, LaterStillExpired, Zenon
    <2>4. QED
      BY <2>1, <2>2, <2>3 DEF BreakerInv, Ordered, EndOf
  <1>5. QED
    BY <1>1, <1>2, <1>3, <1>4 DEF CbNext

\* SUP-05: the breaker is up exactly when a single worker had CBThreshold rapid
\* failures within one window since the last Reset, whatever the timing: pruning
\* forgets none that counts.
THEOREM BreakerTripsExactly == CbSpec => []TripsExactly
  <1>1. BreakerInv => TripsExactly
    BY DEF BreakerInv
  <1>2. QED
    BY <1>1, BreakerInit, BreakerStep, PTL DEF CbSpec

-----------------------------------------------------------------------------
(* The circuit breaker and its abstraction *)

UpTo(n) == IF n < CBThreshold THEN n ELSE CBThreshold
Counts == [w \in Workers |-> UpTo(Len(failures[w]))]

LEMMA CountRecorded ==
  ASSUME BreakerInv, NEW w \in Workers, NEW start \in 0..clock, RecordFailure(w, start),
         ~ UNCHANGED cbVars
  PROVE  Abstract!RecordFailure(w)
  <1> DEFINE c == CBThreshold
             kept == [v \in Workers |->
                        UpTo(IF v = w THEN Len(failures'[v]) - 1 ELSE Len(failures'[v]))]
  <1>1. c \in Nat \ {0}
    BY BreakerAssumption
  <1>2. tripped' = (tripped \/ Reached(failures'))
    BY RecordStep
  <1>3. ASSUME NEW v \in Workers
        PROVE  /\ Len(failures[v]) \in Nat /\ Len(failures'[v]) \in Nat
               /\ v # w => Len(failures'[v]) <= Len(failures[v])
               /\ v = w => Len(failures'[v]) \in 1..(Len(failures[v]) + 1)
    <2>1. /\ clock \in Nat
          /\ failures[v] \in Seq(Nat) /\ rapid[v] \in Seq(Nat) /\ Ordered(rapid[v])
          /\ \A i \in DOMAIN rapid[v] : rapid[v][i] <= clock
          /\ EndOf(failures[v], rapid[v])
      BY DEF BreakerInv, CbTypes
    <2>2. PICK a \in Seq(Nat) :
            /\ a = IF v = w THEN Append(failures[v], clock) ELSE failures[v]
            /\ failures'[v] = Prune(a)
            /\ rapid'[v] = IF v = w THEN Append(rapid[v], clock) ELSE rapid[v]
      BY RecordStep
    <2>3. rapid'[v] \in Seq(Nat)
      BY <2>1, <2>2
    <2>4. Recorded(failures[v], rapid[v], a, rapid'[v])
      BY <2>2 DEF Recorded
    <2>5. /\ Prune(a) \in Seq(Nat) /\ Len(Prune(a)) <= Len(a)
          /\ a = Append(failures[v], clock) => Len(Prune(a)) > 0
      BY <2>1, <2>3, <2>4, RecordedHistory
    <2>6. /\ v # w => a = failures[v]
          /\ v = w => Len(a) = Len(failures[v]) + 1 /\ a = Append(failures[v], clock)
      BY <2>1, <2>2
    <2>7. QED
      BY <2>1, <2>2, <2>5, <2>6
  <1>4. kept \in [Workers -> 0..c]
    BY <1>1, <1>3 DEF UpTo
  <1>5. \A v \in Workers : kept[v] <= Counts[v]
    BY <1>1, <1>3 DEF UpTo, Counts
  <1>6. Counts' = [kept EXCEPT ![w] = IF @ < c THEN @ + 1 ELSE @]
    <2>1. \A v \in Workers :
            UpTo(Len(failures'[v])) = IF v # w THEN kept[v]
                                      ELSE IF kept[v] < c THEN kept[v] + 1 ELSE kept[v]
      BY <1>1, <1>3 DEF UpTo
    <2>2. Counts' = [v \in Workers |-> UpTo(Len(failures'[v]))]
      BY DEF Counts, UpTo
    <2>3. QED
      BY <2>1, <2>2
  <1>7. Reached(failures') <=> \E v \in Workers : Counts'[v] >= c
    BY <1>1, <1>3 DEF Reached, Counts, UpTo
  <1>8. /\ Counts = [v \in Workers |-> IF Len(failures[v]) < c THEN Len(failures[v]) ELSE c]
        /\ Counts' = [v \in Workers |-> IF Len(failures'[v]) < c THEN Len(failures'[v]) ELSE c]
    BY DEF Counts, UpTo
  <1> HIDE DEF kept
  <1>9. QED
    BY <1>2, <1>4, <1>5, <1>6, <1>7, <1>8 DEF Abstract!RecordFailure

\* The breaker with its timestamps implements the clock-free one that Supervision
\* composes with the dispatcher: a failure adds at most one to a worker's count,
\* counts go down only as failures expire, the flag stays up until Reset.
THEOREM TimedBreakerImplements == CbSpec => ImplementsBreaker
  <1>1. CbInit => Abstract!Init
    <2> SUFFICES ASSUME CbInit PROVE Abstract!Init
      OBVIOUS
    <2>1. tripped = FALSE /\ \A w \in Workers : Len(failures[w]) = 0
      BY DEF CbInit
    <2>2. QED
      BY <2>1, BreakerAssumption DEF Abstract!Init
  <1>2. BreakerInv /\ [CbNext]_cbVars => [Abstract!Next]_(Abstract!breaker)
    <2> SUFFICES ASSUME BreakerInv, [CbNext]_cbVars
                 PROVE  Abstract!Next \/ UNCHANGED Abstract!breaker
      OBVIOUS
    <2>1. CASE UNCHANGED <<failures, tripped>>
      BY <2>1 DEF Abstract!breaker
    <2>2. ASSUME NEW w \in Workers, NEW start \in 0..clock, RecordFailure(w, start)
          PROVE  Abstract!Next \/ UNCHANGED <<failures, tripped>>
      <3>1. CASE UNCHANGED cbVars
        BY <3>1 DEF cbVars
      <3>2. CASE ~ UNCHANGED cbVars
        BY <3>2, <2>2, CountRecorded DEF Abstract!Next
      <3>3. QED
        BY <3>1, <3>2
    <2>3. ASSUME Reset PROVE Abstract!ResetCB
      <3>1. tripped' = FALSE /\ \A w \in Workers : Len(failures'[w]) = 0
        BY <2>3 DEF Reset
      <3>2. QED
        BY <3>1, BreakerAssumption DEF Abstract!ResetCB
    <2>4. QED
      BY <2>1, <2>2, <2>3 DEF CbNext, Tick, cbVars, Abstract!Next
  <1>3. QED
    BY <1>1, <1>2, BreakerInit, BreakerStep, PTL DEF CbSpec, ImplementsBreaker, Abstract!Spec

-----------------------------------------------------------------------------
(* The pull-request gate *)

GatePcs == {"idle", "deps", "view", "create", "checks", "exited"}

\* What ties an attempt to the pull request and to the predecessors it has
\* looked at.  The last two conjuncts hold until a human re-opens one.
GateInv ==
  /\ gatePc \in GatePcs
  /\ code \in {0, 1}
  /\ had => pr
  /\ gatePc = "checks" => pr
  /\ gatePc = "create" => ~had
  /\ ExitHonest
  /\ gatePc = "exited" /\ clean /\ had /\ ~reopened => (code = 0 <=> ci = "passed")
  /\ gatePc = "exited" /\ clean /\ had /\ ~reopened => ci # "pending"
  /\ ~reopened => \A d \in Deps : dep[d] \in Settled
  /\ ~reopened /\ gatePc = "deps" => \A d \in Deps \ unchecked : ~Refuses(dep[d])
  /\ ~reopened /\ (gatePc \in {"view", "create", "checks"} \/ pr \/ inFlight) =>
       \A d \in Deps : ~Refuses(dep[d])

LEMMA GateInvInit == GateInit => GateInv
  BY Zenon DEF GateInit, GateInv, GatePcs, ExitHonest

LEMMA GateStartInv ==
  ASSUME GateInv, Start
  PROVE  GateInv'
  <1>1. /\ gatePc' = "deps" /\ unchecked' = Deps /\ had' = pr
        /\ UNCHANGED <<dep, reopened, code, pr, inFlight, ci>>
    BY Zenon DEF Start, ledger, remote
  <1>2. QED
    BY <1>1 DEF GateInv, GatePcs, ExitHonest

\* An attempt that ends on a failing call, or is killed, is not a clean one.
LEMMA GateFailsInv ==
  ASSUME GateInv, gatePc' = "exited", code' = 1,
         clean' = FALSE, event' \in {"gate_failed", "lost", event},
         pr => pr', inFlight => inFlight',
         pr' \/ inFlight' => pr \/ inFlight \/ gatePc = "create",
         UNCHANGED <<dep, reopened, had, ci>>
  PROVE  GateInv'
  BY DEF GateInv, GatePcs, ExitHonest

LEMMA GateCheckDepInv ==
  ASSUME GateInv, NEW d \in Deps, CheckDep(d)
  PROVE  GateInv'
  <1>0. UNCHANGED <<dep, reopened, pr, inFlight, ci>> /\ gatePc = "deps" /\ d \in unchecked
    BY DEF CheckDep, ledger, remote
  <1>1. CASE ~Refuses(dep[d]) /\ unchecked' = unchecked \ {d}
             /\ UNCHANGED <<gatePc, code, event, had, clean>>
    BY <1>0, <1>1 DEF GateInv, ExitHonest
  <1>2. CASE Refuses(dep[d]) /\ Exit(1, "gate_failed") /\ UNCHANGED clean
    BY <1>0, <1>2 DEF GateInv, GatePcs, ExitHonest, Exit
  <1>3. CASE Fails
    BY <1>0, <1>3, GateFailsInv DEF Fails, Exit
  <1>4. QED
    BY <1>1, <1>2, <1>3 DEF CheckDep

LEMMA GateCallsInv ==
  ASSUME GateInv, DepsPass \/ View \/ Create \/ Checks \/ Killed
  PROVE  GateInv'
  <1>1. CASE DepsPass
    BY <1>1 DEF DepsPass, ledger, remote, GateInv, GatePcs, ExitHonest
  <1>2. CASE Fails /\ gatePc \in {"view", "create", "checks"}
             /\ UNCHANGED <<dep, reopened, inFlight, ci>> /\ (pr' = pr \/ pr' = TRUE)
             /\ (gatePc = "create" \/ UNCHANGED pr)
    <2>1. /\ pr => pr'
          /\ inFlight => inFlight'
          /\ pr' \/ inFlight' => pr \/ inFlight \/ gatePc = "create"
      BY <1>2
    <2>2. /\ gatePc' = "exited" /\ code' = 1 /\ clean' = FALSE /\ event' \in {"gate_failed", "lost"}
          /\ UNCHANGED <<dep, reopened, had, ci>>
      BY <1>2 DEF Fails, Exit
    <2>3. QED
      BY <2>1, <2>2, GateFailsInv
  <1>3. CASE View
    <2>1. gatePc = "view" /\ UNCHANGED <<dep, reopened, pr, inFlight, ci>>
      BY <1>3 DEF View, ledger, remote
    <2>2. CASE gatePc' = AfterView /\ UNCHANGED <<unchecked, code, event, had, clean>>
      BY <2>1, <2>2 DEF GateInv, GatePcs, ExitHonest, AfterView
    <2>3. QED
      BY <1>2, <1>3, <2>1, <2>2 DEF View
  <1>4. CASE Create
    <2>1. gatePc = "create" /\ UNCHANGED <<dep, reopened, inFlight, ci>>
      BY <1>4 DEF Create, ledger
    <2>2. CASE /\ ~pr /\ pr' = TRUE /\ gatePc' = "checks"
               /\ UNCHANGED <<unchecked, code, event, had, clean>>
      BY <2>1, <2>2 DEF GateInv, GatePcs, ExitHonest
    <2>3. CASE pr /\ Exit(1, "gate_failed") /\ UNCHANGED <<pr, clean>>
      BY <2>1, <2>3 DEF GateInv, GatePcs, ExitHonest, Exit
    <2>4. QED
      BY <1>2, <1>4, <2>1, <2>2, <2>3 DEF Create
  <1>5. CASE Checks
    <2>1. gatePc = "checks" /\ UNCHANGED <<dep, reopened, pr, inFlight, ci>>
      BY <1>5 DEF Checks, ledger, remote
    <2>2. CASE ci = "passed" /\ Exit(0, "gate_passed") /\ UNCHANGED clean
      BY <2>1, <2>2 DEF GateInv, GatePcs, ExitHonest, Exit
    <2>3. CASE ci = "failed" /\ Exit(1, "gate_failed") /\ UNCHANGED clean
      BY <2>1, <2>3 DEF GateInv, GatePcs, ExitHonest, Exit
    <2>4. QED
      BY <1>2, <1>5, <2>1, <2>2, <2>3 DEF Checks
  <1>6. CASE Killed
    BY <1>6, GateFailsInv DEF Killed, ledger
  <1>7. QED
    BY <1>1, <1>3, <1>4, <1>5, <1>6

\* What happens around an attempt: a late create, CI, and people.
LEMMA GateEnvironmentInv ==
  ASSUME GateInv,
         \/ Lands
         \/ \E r \in {"passed", "failed"} : CIFinishes(r)
         \/ \E d \in Deps : Reopen(d) \/ \E s \in Settled : Rerun(d, s)
         \/ UNCHANGED gateVars
  PROVE  GateInv'
  <1>1. CASE Lands
    BY <1>1 DEF Lands, ledger, GateInv, ExitHonest
  <1>2. ASSUME NEW r \in {"passed", "failed"}, CIFinishes(r) PROVE GateInv'
    BY <1>2 DEF CIFinishes, ledger, GateInv, ExitHonest
  <1>3. ASSUME NEW d \in Deps, Reopen(d) PROVE GateInv'
    BY <1>3 DEF Reopen, remote, GateInv, ExitHonest
  <1>4. ASSUME NEW d \in Deps, NEW s \in Settled, Rerun(d, s) PROVE GateInv'
    BY <1>4 DEF Rerun, remote, GateInv, ExitHonest, Settled
  <1>5. CASE UNCHANGED gateVars
    BY <1>5 DEF gateVars, GateInv, ExitHonest
  <1>6. QED
    BY <1>1, <1>2, <1>3, <1>4, <1>5

LEMMA GateInvStep == GateInv /\ [GateNext]_gateVars => GateInv'
  BY GateStartInv, GateCheckDepInv, GateCallsInv, GateEnvironmentInv DEF GateNext, Over

LEMMA GateInvariance == GateSpec => []GateInv
  BY GateInvInit, GateInvStep, PTL DEF GateSpec

\* A gate that exits 0 has a pull request with passing checks and said so; an
\* exit 1 without gate_failed was a failing call or a kill.
THEOREM GateExitHonest == GateSpec => []ExitHonest
  <1>1. GateInv => ExitHonest
    BY DEF GateInv
  <1>2. QED
    BY <1>1, GateInvariance, PTL

\* BVV-GT-03: with a failed or blocked predecessor no pull request comes to
\* exist, over any number of killed, retried and late attempts.
THEOREM NoPullRequestAfterFailure == GateSpec => []NoPRAfterFailure
  <1>1. GateInv => NoPRAfterFailure
    BY DEF GateInv, NoPRAfterFailure, Refuses
  <1>2. QED
    BY <1>1, GateInvariance, PTL

\* A pull request that an earlier attempt left behind is enough: an attempt
\* that meets no failing call reports what its checks say.
THEOREM LeftoverPullRequestReused == GateSpec => []ExistingPRSuffices
  <1>1. GateInv => ExistingPRSuffices
    BY DEF GateInv, ExistingPRSuffices
  <1>2. QED
    BY <1>1, GateInvariance, PTL

-----------------------------------------------------------------------------
(* Telemetry: the lock gauge *)

Gauges == [inProgress: Int, gap: Int, lockHeld: Int, workers: Int]
Engines == {"starting", "looping", "draining", "ended", "returned", "down"}

\* The lock gauge is up exactly while the lifecycle span is open, and that is
\* from the start of the loop to the end of the lifecycle at the latest.
LockGaugeInv ==
  /\ gauge \in Gauges
  /\ engine \in Engines
  /\ gauge.lockHeld = IF lifecycle THEN 1 ELSE 0
  /\ engine \in {"starting", "returned", "down"} => ~lifecycle
  /\ engine \in {"looping", "draining"} => lifecycle
  /\ engine \in {"starting", "looping", "draining"} => lock

\* Recording an event leaves the lifecycle span and its gauge alone.
LEMMA RecordKeepsLockGauge ==
  ASSUME gauge \in Gauges, NEW e, Record(e)
  PROVE  gauge' \in Gauges /\ gauge'.lockHeld = gauge.lockHeld /\ lifecycle' = lifecycle
  <1>1. GapDelta(e[1]) \in Int
    BY DEF GapDelta
  <1>2. \/ gauge' = gauge
        \/ gauge' = [gauge EXCEPT !.inProgress = @ + 1]
        \/ gauge' = [gauge EXCEPT !.inProgress = @ - 1]
        \/ gauge' = [gauge EXCEPT !.gap = @ + GapDelta(e[1])]
    BY DEF Record, OnTaskDispatched, OnTaskTerminal
  <1>3. QED
    BY <1>1, <1>2 DEF Gauges, Record

\* The steps that touch neither the engine's state nor the gauges.
Handling ==
  \/ \E th \in Threads : EmitWrite(th)
  \/ \E t \in Tasks : \/ WatchdogFinds(t) \/ WatchdogRestarts(t) \/ Dispatch(t)
                      \/ SpawnFails(t) \/ OutcomeLost(t) \/ Retry(t) \/ HandoffOutcome(t)

LEMMA LockGaugeStep == LockGaugeInv /\ [TelNext]_telVars => LockGaugeInv'
  <1> SUFFICES ASSUME LockGaugeInv, [TelNext]_telVars PROVE LockGaugeInv'
    OBVIOUS
  <1> USE DEF truth, meters
  <1>1. CASE Handling
    <2>1. UNCHANGED <<gauge, engine, lifecycle, lock>>
      BY <1>1 DEF Handling, EmitWrite, WatchdogFinds, WatchdogRestarts, Dispatch, SpawnFails,
                  OutcomeLost, Retry, HandoffOutcome
    <2>2. QED
      BY <2>1 DEF LockGaugeInv
  <1>2. ASSUME NEW th \in Threads, EmitRecord(th) PROVE LockGaugeInv'
    <2>1. UNCHANGED <<engine, lock>> /\ Record(written[th])
      BY <1>2 DEF EmitRecord
    <2>2. QED
      BY <2>1, RecordKeepsLockGauge DEF LockGaugeInv
  <1>3. ASSUME NEW t \in Tasks, FailOrphaned(t) \/ \E s \in Terminal : Finish(t, s)
        PROVE  LockGaugeInv'
    <2>1. /\ UNCHANGED <<gauge, lifecycle, lock>>
          /\ engine \in {"looping", "draining"}
          /\ engine' \in {engine, "draining"}
      BY <1>3 DEF FailOrphaned, Finish, Terminate, LoopFree
    <2>2. QED
      BY <2>1 DEF LockGaugeInv, Engines
  <1>4. CASE EmitLifecycleStarted
    <2>0. ~lifecycle /\ lock /\ gauge \in Gauges /\ gauge.lockHeld = 0
      BY <1>4 DEF EmitLifecycleStarted, LockGaugeInv
    <2>1. CASE engine' = "looping" /\ StartLifecycle /\ UNCHANGED lock
      <3>1. gauge' \in Gauges /\ gauge'.lockHeld = 1 /\ lifecycle' = TRUE
        BY <2>0, <2>1 DEF StartLifecycle, Gauges
      <3>2. QED
        BY <2>0, <2>1, <3>1 DEF LockGaugeInv, Engines
    <2>2. CASE engine' = "down" /\ UNCHANGED meters
      BY <2>0, <2>2 DEF LockGaugeInv, Engines
    <2>3. QED
      BY <1>4, <2>1, <2>2 DEF EmitLifecycleStarted
  <1>5. CASE LoopEnds \/ SignalPath \/ Cleanup
    BY <1>5 DEF LoopEnds, SignalPath, Cleanup, LockGaugeInv, Engines
  <1>6. CASE EmitLifecycleCompleted \/ Return
    <2>1. EndLifecycle /\ engine' \in {"ended", "returned"} /\ UNCHANGED lock
      BY <1>6 DEF EmitLifecycleCompleted, Return
    <2>2. QED
      BY <2>1 DEF EndLifecycle, LockGaugeInv, Gauges, Engines
  <1>7. ASSUME NEW reopened0 \in SUBSET Tasks, Resume(reopened0) PROVE LockGaugeInv'
    <2>1. gauge' = Zero /\ lifecycle' = FALSE /\ engine' = "starting" /\ lock' = TRUE
      BY Zenon, <1>7 DEF Resume
    <2>2. QED
      BY <2>1 DEF LockGaugeInv, Zero, Gauges, Engines
  <1>8. CASE UNCHANGED telVars
    BY <1>8 DEF telVars, LockGaugeInv
  <1>9. QED
    BY <1>1, <1>2, <1>3, <1>4, <1>5, <1>6, <1>7, <1>8
    DEF TelNext, Handler, Shutdown, Stopped, Handling

\* OBS-04: an engine that has returned, on any path, signals and failing log
\* writes included, leaves no lifecycle span and no lock gauge behind, and the
\* gauge shows the lock while the loop runs, over any number of resumes.
THEOREM LockGaugeAlwaysHonest == TelSpec => []LockGaugeHonest
  <1>1. LockGaugeInv => LockGaugeHonest
    BY DEF LockGaugeInv, LockGaugeHonest
  <1>2. TelInit => LockGaugeInv
    <2>1. TelInit => engine = "starting" /\ lock = TRUE /\ lifecycle = FALSE /\ gauge = Zero
      BY Zenon DEF TelInit
    <2>2. QED
      BY <2>1 DEF LockGaugeInv, Zero, Gauges, Engines
  <1>3. QED
    BY <1>1, <1>2, LockGaugeStep, PTL DEF TelSpec

-----------------------------------------------------------------------------
(* Telemetry: the tasks in progress *)

Kinds == Terminal \cup {"dispatched", "retried", "gap", "resolved", "escalation", "handoff"}
Events == Kinds \X Tasks

Statuses == {"open", "assigned", "running"} \cup Terminal

InProgress == {t \in Tasks : status[t] = "running"}

\* Events that open or end no task span.
Neutral(e) == e[1] # "dispatched" /\ ~EndsSpan(e[1])

\* The events of a handler: one that may concern a span, then neutral ones.
HeadedBy(q, e) ==
  /\ q \in Seq(Events)
  /\ q # << >>
  /\ q[1] = e
  /\ \A i \in 2..Len(q) : Neutral(q[i])

AllNeutral(q) == q \in Seq(Events) /\ \A i \in 1..Len(q) : Neutral(q[i])

\* The spans once e is recorded.
SpansAfter(e) ==
  IF e[1] = "dispatched" THEN spans \cup {e[2]}
  ELSE IF EndsSpan(e[1]) THEN spans \ {e[2]} ELSE spans

TelEventsOK ==
  /\ status \in [Tasks -> Statuses]
  /\ monitored \subseteq Tasks
  /\ history \subseteq Tasks
  /\ spans \subseteq Tasks
  /\ out \in [Threads -> Seq(Events)]
  /\ written \in [Threads -> Events \cup {NoEvent}]
  /\ engine \in Engines
  /\ logFaults \in Nat
  /\ unreported \in BOOLEAN

\* The watchdog only reports handoffs, and only while the loop runs; outside
\* the loop nothing is pending but the resolved gaps of a resume.
QuietOutside ==
  /\ AllNeutral(out["watchdog"])
  /\ written["watchdog"] # NoEvent => Neutral(written["watchdog"])
  /\ engine \notin {"looping", "draining"} => ~Busy("watchdog") /\ sighted = {}
  /\ engine \in {"ended", "returned", "down"} => ~Busy("loop")
  /\ engine = "starting" =>
       /\ AllNeutral(out["loop"])
       /\ written["loop"] # NoEvent => Neutral(written["loop"])
       /\ spans = {}
       /\ InProgress = {}

\* Of the events a handler leaves to be emitted only the first concerns a span,
\* and recording it makes the spans those of the tasks in progress.
SpansFollow ==
  /\ written["loop"] # NoEvent =>
       /\ SpansAfter(written["loop"]) = InProgress
       /\ AllNeutral(out["loop"])
  /\ written["loop"] = NoEvent /\ out["loop"] # << >> =>
       /\ SpansAfter(out["loop"][1]) = InProgress
       /\ HeadedBy(out["loop"], out["loop"][1])
  /\ ~Busy("loop") => spans = InProgress

SpanInv ==
  /\ TelEventsOK
  /\ QuietOutside
  /\ logFaults = 0 /\ ~unreported /\ engine \in {"looping", "draining"} => SpansFollow

\* What a handler's events look like.
LEMMA OneEvent ==
  ASSUME NEW k \in Kinds, NEW t \in Tasks
  PROVE  /\ HeadedBy(<< Ev(k, t) >>, Ev(k, t))
         /\ Ev(k, t)[1] = k /\ Ev(k, t)[2] = t
  BY DEF Ev, Events, HeadedBy

LEMMA EventsExist == \A e \in Events : e # NoEvent
  BY DEF Events, NoEvent

LEMMA ConcatFacts ==
  ASSUME NEW S, NEW p \in Seq(S), NEW q \in Seq(S)
  PROVE  /\ p \o q \in Seq(S)
         /\ Len(p \o q) = Len(p) + Len(q)
         /\ \A i \in 1..Len(p) : (p \o q)[i] = p[i]
         /\ \A i \in (Len(p) + 1)..(Len(p) + Len(q)) :
              i - Len(p) \in 1..Len(q) /\ (p \o q)[i] = q[i - Len(p)]
  BY SMT

LEMMA HeadedByConcat ==
  ASSUME NEW p, NEW q, NEW e, HeadedBy(p, e), AllNeutral(q)
  PROVE  HeadedBy(p \o q, e)
  <1>1. p \in Seq(Events) /\ q \in Seq(Events) /\ Len(p) \in Nat /\ Len(q) \in Nat /\ Len(p) >= 1
    BY DEF HeadedBy, AllNeutral
  <1>2. p \o q \in Seq(Events) /\ Len(p \o q) = Len(p) + Len(q) /\ (p \o q)[1] = p[1]
    BY <1>1, ConcatFacts
  <1>3. ASSUME NEW i \in 2..Len(p \o q) PROVE Neutral((p \o q)[i])
    <2>1. CASE i \in 1..Len(p)
      <3>1. (p \o q)[i] = p[i] /\ i \in 2..Len(p)
        BY <1>1, <1>2, <1>3, <2>1, ConcatFacts
      <3>2. QED
        BY <3>1 DEF HeadedBy
    <2>2. CASE i \in (Len(p) + 1)..(Len(p) + Len(q))
      <3>1. i - Len(p) \in 1..Len(q) /\ (p \o q)[i] = q[i - Len(p)]
        BY <1>1, <2>2, ConcatFacts
      <3>2. QED
        BY <3>1 DEF AllNeutral
    <2>3. QED
      BY <1>1, <1>2, <1>3, <2>1, <2>2
  <1>4. p \o q # << >>
    <2>1. Len(p \o q) >= 1
      BY <1>1, <1>2
    <2>2. QED
      BY <2>1
  <1>5. QED
    BY <1>2, <1>3, <1>4 DEF HeadedBy

LEMMA TerminalEvents ==
  ASSUME NEW t \in Tasks, NEW s \in Terminal, NEW gap, NEW abort, NEW q,
         q = << Ev(s, t) >> \o (IF gap THEN << Ev("gap", t) >> ELSE << >>)
               \o (IF abort THEN << Ev("escalation", t) >> ELSE << >>)
  PROVE  HeadedBy(q, Ev(s, t))
  <1> DEFINE a == << Ev(s, t) >>
             b == IF gap THEN << Ev("gap", t) >> ELSE << >>
             c == IF abort THEN << Ev("escalation", t) >> ELSE << >>
  <1>1. /\ Ev(s, t) \in Events
        /\ Ev("gap", t) \in Events /\ Neutral(Ev("gap", t))
        /\ Ev("escalation", t) \in Events /\ Neutral(Ev("escalation", t))
    BY DEF Ev, Events, Kinds, Neutral, EndsSpan, Terminal
  <1>2. \A e \in Events : Neutral(e) => AllNeutral(<< e >>)
    BY DEF AllNeutral
  <1>3. AllNeutral(<< >>)
    BY DEF AllNeutral
  <1>4. AllNeutral(b) /\ AllNeutral(c)
    BY <1>1, <1>2, <1>3
  <1>5. HeadedBy(a, Ev(s, t))
    BY <1>1 DEF HeadedBy
  <1> HIDE DEF a, b, c
  <1>6. q = (a \o b) \o c
    BY DEF a, b, c
  <1>7. QED
    BY <1>4, <1>5, <1>6, HeadedByConcat

LEMMA TailNeutral ==
  ASSUME NEW q
  PROVE  /\ AllNeutral(q) /\ q # << >> => AllNeutral(Tail(q)) /\ Neutral(Head(q)) /\ Head(q) \in Events
         /\ \A e : HeadedBy(q, e) => AllNeutral(Tail(q)) /\ Head(q) = e /\ Head(q) \in Events
  <1>1. ASSUME q \in Seq(Events), q # << >>
        PROVE  /\ Head(q) = q[1] /\ q[1] \in Events
               /\ Tail(q) \in Seq(Events)
               /\ 1 \in 1..Len(q)
               /\ \A i \in 1..Len(Tail(q)) : i + 1 \in 2..Len(q) /\ Tail(q)[i] = q[i + 1]
    BY <1>1, SMT
  <1>2. ASSUME AllNeutral(q), q # << >>
        PROVE  AllNeutral(Tail(q)) /\ Neutral(Head(q)) /\ Head(q) \in Events
    <2>1. q \in Seq(Events) /\ Len(q) \in Nat
      BY <1>2 DEF AllNeutral
    <2>2. \A i \in 2..Len(q) : i \in 1..Len(q)
      BY <2>1
    <2>3. QED
      BY <1>1, <1>2, <2>1, <2>2 DEF AllNeutral
  <1>3. ASSUME NEW e, HeadedBy(q, e)
        PROVE  AllNeutral(Tail(q)) /\ Head(q) = e /\ Head(q) \in Events
    BY <1>1, <1>3 DEF HeadedBy, AllNeutral
  <1>4. QED
    BY <1>2, <1>3

\* A handler of the dispatch loop: it leaves its events to be emitted, the
\* first of which turns the spans into those of the tasks now in progress.
LEMMA HandlerSpans ==
  ASSUME SpanInv, LoopFree, NEW q, NEW e, HeadedBy(q, e), Emits("loop", q),
         status' \in [Tasks -> Statuses],
         monitored' \subseteq Tasks, engine' \in {engine, "draining"},
         unreported' \in BOOLEAN, unreported => unreported',
         spans = InProgress => unreported' \/ SpansAfter(e) = InProgress',
         UNCHANGED <<spans, written, history, logFaults, sighted>>
  PROVE  SpanInv'
  <1>1. /\ engine \in {"looping", "draining"} /\ engine' \in {"looping", "draining"}
        /\ out["loop"] = << >> /\ written["loop"] = NoEvent
    BY DEF LoopFree, Busy
  <1>2. out \in [Threads -> Seq(Events)] /\ "loop" \in Threads /\ "watchdog" \in Threads
    BY DEF SpanInv, TelEventsOK, Threads
  <1>3. out'["loop"] = q /\ out'["watchdog"] = out["watchdog"] /\ out' \in [Threads -> Seq(Events)]
    BY <1>2 DEF Emits, HeadedBy
  <1>4. TelEventsOK'
    BY <1>1, <1>3 DEF SpanInv, TelEventsOK, Engines
  <1>5. QuietOutside'
    BY <1>1, <1>3 DEF SpanInv, QuietOutside, Busy
  <1>6. ASSUME logFaults' = 0, ~unreported' PROVE SpansFollow'
    <2>1. spans = InProgress
      BY <1>1, <1>6 DEF SpanInv, SpansFollow, Busy
    <2>2. q # << >> /\ q[1] = e /\ SpansAfter(e)' = SpansAfter(e)
      BY DEF HeadedBy, SpansAfter
    <2>3. SpansAfter(e)' = InProgress' /\ HeadedBy(q, q[1]) /\ SpansAfter(q[1])' = InProgress'
      BY <1>6, <2>1, <2>2
    <2>4. written'["loop"] = NoEvent /\ Busy("loop")'
      BY <1>1, <1>3, <2>2 DEF Busy
    <2>5. HeadedBy(out["loop"], out["loop"][1])' /\ SpansAfter(out["loop"][1])' = InProgress'
      BY <1>3, <2>3 DEF HeadedBy, SpansAfter, Neutral, EndsSpan
    <2>6. QED
      BY <2>4, <2>5 DEF SpansFollow
  <1>7. QED
    BY <1>4, <1>5, <1>6 DEF SpanInv

\* The handlers that write one task and emit one event.
LEMMA DispatchSpans ==
  ASSUME SpanInv, NEW t \in Tasks,
         Dispatch(t) \/ SpawnFails(t) \/ Retry(t) \/ HandoffOutcome(t)
  PROVE  SpanInv'
  <1>0. status \in [Tasks -> Statuses] /\ monitored \subseteq Tasks /\ unreported \in BOOLEAN
    BY DEF SpanInv, TelEventsOK
  <1>1. \E kind \in Kinds : \E new \in Statuses :
          /\ LoopFree /\ Emits("loop", << Ev(kind, t) >>)
          /\ status' = [status EXCEPT ![t] = new]
          /\ monitored' \subseteq monitored \cup {t}
          /\ UNCHANGED <<engine, spans, written, history, logFaults, sighted>>
          /\ unreported' \in BOOLEAN
          /\ unreported => unreported'
          /\ \/ unreported'
             \/ kind = "dispatched" /\ new = "running"
             \/ EndsSpan(kind) /\ kind # "dispatched" /\ new # "running"
             \/ kind = "handoff" /\ new = "running" /\ status[t] = "running"
    <2>1. CASE Dispatch(t)
      <3>1. "dispatched" \in Kinds /\ "running" \in Statuses
        BY DEF Kinds, Statuses
      <3>2. QED
        BY <1>0, <2>1, <3>1 DEF Dispatch, meters
    <2>2. CASE Retry(t)
      <3>1. "retried" \in Kinds /\ "open" \in Statuses /\ EndsSpan("retried")
        BY DEF Kinds, Statuses, EndsSpan
      <3>2. QED
        BY <1>0, <2>2, <3>1 DEF Retry, meters
    <2>3. CASE HandoffOutcome(t)
      <3>1. "handoff" \in Kinds /\ "running" \in Statuses
        BY DEF Kinds, Statuses
      <3>2. QED
        BY <1>0, <2>3, <3>1 DEF HandoffOutcome, RestartSession, meters
    <2>4. CASE SpawnFails(t)
      <3>1. PICK s \in {"failed", "assigned", "running"} :
              /\ status' = [status EXCEPT ![t] = s]
              /\ unreported' = (unreported \/ s = "running")
        BY <2>4 DEF SpawnFails
      <3>2. "failed" \in Kinds /\ s \in Statuses /\ EndsSpan("failed")
        BY DEF Kinds, Statuses, EndsSpan, Terminal
      <3>3. /\ LoopFree /\ Emits("loop", << Ev("failed", t) >>)
            /\ UNCHANGED <<monitored, engine, spans, written, history, logFaults, sighted>>
        BY <2>4 DEF SpawnFails, meters
      <3>4. unreported' \in BOOLEAN /\ (unreported => unreported') /\ (unreported' \/ s # "running")
        BY <1>0, <3>1
      <3>5. monitored' \subseteq monitored \cup {t}
        BY <3>3
      <3>6. QED
        BY <3>1, <3>2, <3>3, <3>4, <3>5
    <2>5. QED
      BY <2>1, <2>2, <2>3, <2>4
  <1>2. PICK kind \in Kinds, new \in Statuses :
          /\ LoopFree /\ Emits("loop", << Ev(kind, t) >>)
          /\ status' = [status EXCEPT ![t] = new]
          /\ monitored' \subseteq monitored \cup {t}
          /\ UNCHANGED <<engine, spans, written, history, logFaults, sighted>>
          /\ unreported' \in BOOLEAN
          /\ unreported => unreported'
          /\ \/ unreported'
             \/ kind = "dispatched" /\ new = "running"
             \/ EndsSpan(kind) /\ kind # "dispatched" /\ new # "running"
             \/ kind = "handoff" /\ new = "running" /\ status[t] = "running"
    BY <1>1
  <1>3. ~EndsSpan("handoff")
    BY DEF EndsSpan, Terminal
  <1>4. InProgress' = IF new = "running" THEN InProgress \cup {t} ELSE InProgress \ {t}
    BY <1>0, <1>2 DEF InProgress
  <1>5. status[t] = "running" => t \in InProgress
    BY DEF InProgress
  <1>6. ASSUME spans = InProgress, ~unreported' PROVE SpansAfter(Ev(kind, t)) = InProgress'
    <2>1. Ev(kind, t)[1] = kind /\ Ev(kind, t)[2] = t
      BY OneEvent
    <2>2. CASE kind = "dispatched" /\ new = "running"
      BY <1>4, <1>6, <2>1, <2>2 DEF SpansAfter
    <2>3. CASE EndsSpan(kind) /\ kind # "dispatched" /\ new # "running"
      BY <1>4, <1>6, <2>1, <2>3 DEF SpansAfter
    <2>4. CASE kind = "handoff" /\ new = "running" /\ status[t] = "running"
      <3>1. InProgress' = InProgress
        BY <1>4, <1>5, <2>4
      <3>2. QED
        BY <1>3, <1>6, <2>1, <2>4, <3>1 DEF SpansAfter
    <2>5. QED
      BY <1>2, <1>6, <2>2, <2>3, <2>4
  <1>7. status' \in [Tasks -> Statuses] /\ monitored' \subseteq Tasks
    BY <1>0, <1>2
  <1>8. HeadedBy(<< Ev(kind, t) >>, Ev(kind, t))
    BY OneEvent
  <1>9. QED
    BY <1>2, <1>6, <1>7, <1>8, HandlerSpans

\* terminateAndRelease ends the span of its task; the open tasks an abort
\* blocks have none.
LEMMA TerminateSpans ==
  ASSUME SpanInv, NEW t \in Tasks, FailOrphaned(t) \/ \E s \in Terminal : Finish(t, s)
  PROVE  SpanInv'
  <1>1. PICK s \in Terminal : Terminate(t, s)
    BY DEF FailOrphaned, Finish, Terminal
  <1>2. /\ LoopFree /\ monitored' \subseteq monitored
        /\ UNCHANGED <<spans, written, history, logFaults, sighted, unreported>>
    BY DEF FailOrphaned, Finish, meters
  <1> DEFINE gap == s # "completed"
             abort == gap /\ gaps + 1 >= Tolerance
             open == IF abort THEN {u \in Tasks \ {t} : status[u] = "open"} ELSE {}
             q == << Ev(s, t) >> \o (IF gap THEN << Ev("gap", t) >> ELSE << >>)
                    \o (IF abort THEN << Ev("escalation", t) >> ELSE << >>)
  <1>3. /\ engine' \in {engine, "draining"}
        /\ Emits("loop", q)
    BY <1>1 DEF Terminate
  <1>a. PICK aborted \in SUBSET open :
          status' = [u \in Tasks |-> IF u = t THEN s ELSE IF u \in aborted THEN "blocked" ELSE status[u]]
    BY <1>1 DEF Terminate
  <1>4. HeadedBy(q, Ev(s, t))
    BY TerminalEvents
  <1>5. \A u \in aborted : status[u] = "open"
    OBVIOUS
  <1> HIDE DEF q, open, abort, gap
  <1>6. status \in [Tasks -> Statuses] /\ monitored \subseteq Tasks /\ unreported \in BOOLEAN
    BY DEF SpanInv, TelEventsOK
  <1>7. status' \in [Tasks -> Statuses] /\ monitored' \subseteq Tasks
    BY <1>2, <1>a, <1>6 DEF Terminal, Statuses
  <1>8. InProgress' = InProgress \ {t}
    BY <1>a, <1>5, <1>6 DEF InProgress, Terminal
  <1>9. s \in Kinds /\ EndsSpan(s) /\ s # "dispatched"
    BY DEF Kinds, EndsSpan, Terminal
  <1>10. spans = InProgress => SpansAfter(Ev(s, t)) = InProgress'
    BY <1>8, <1>9, OneEvent DEF SpansAfter
  <1>11. QED
    BY <1>2, <1>3, <1>4, <1>6, <1>7, <1>10, HandlerSpans

LEMMA RecordSpans ==
  ASSUME NEW e, Record(e)
  PROVE  spans' = SpansAfter(e)
  <1>1. CASE e[1] = "dispatched"
    <2>1. ~EndsSpan(e[1])
      BY <1>1 DEF EndsSpan, Terminal
    <2>2. OnTaskDispatched(e[2])
      BY <1>1, <2>1 DEF Record
    <2>3. QED
      BY <1>1, <2>2 DEF OnTaskDispatched, SpansAfter
  <1>2. CASE e[1] # "dispatched" /\ EndsSpan(e[1])
    <2>1. OnTaskTerminal(e[2])
      BY <1>2 DEF Record
    <2>2. QED
      BY <1>2, <2>1 DEF OnTaskTerminal, SpansAfter
  <1>3. CASE Neutral(e)
    BY <1>3 DEF Record, SpansAfter, Neutral
  <1>4. QED
    BY <1>1, <1>2, <1>3 DEF Neutral

\* The write of Emit moves the next event on; a write that fails loses it.
LEMMA EmitWriteSpans ==
  ASSUME SpanInv, NEW th \in Threads, EmitWrite(th)
  PROVE  SpanInv'
  <1>0. /\ out \in [Threads -> Seq(Events)] /\ written \in [Threads -> Events \cup {NoEvent}]
        /\ "loop" \in Threads /\ "watchdog" \in Threads /\ th \in {"loop", "watchdog"}
        /\ logFaults \in Nat
    BY DEF SpanInv, TelEventsOK, Threads
  <1>1. /\ out[th] # << >> /\ written[th] = NoEvent
        /\ out' = [out EXCEPT ![th] = Tail(out[th])]
        /\ UNCHANGED <<status, monitored, spans, engine, sighted, unreported>>
        /\ \/ written' = [written EXCEPT ![th] = Head(out[th])] /\ UNCHANGED logFaults
           \/ logFaults' = logFaults + 1 /\ UNCHANGED written
    BY DEF EmitWrite, truth, meters
  <1>2. Head(out[th]) \in Events /\ Tail(out[th]) \in Seq(Events) /\ Head(out[th]) = out[th][1]
    <2>1. out[th] \in Seq(Events)
      BY <1>0
    <2>2. QED
      BY <1>1, <2>1
  <1>3. history' \subseteq Tasks
    <2>1. Head(out[th])[2] \in Tasks
      BY <1>2 DEF Events
    <2>2. QED
      BY <2>1 DEF EmitWrite, SpanInv, TelEventsOK
  <1>4. TelEventsOK'
    <2>1. out' \in [Threads -> Seq(Events)]
      BY <1>0, <1>1, <1>2
    <2>2. written' \in [Threads -> Events \cup {NoEvent}]
      BY <1>0, <1>1, <1>2
    <2>3. logFaults' \in Nat
      BY <1>0, <1>1
    <2>4. QED
      BY <1>1, <1>3, <2>1, <2>2, <2>3 DEF SpanInv, TelEventsOK
  <1>5. InProgress' = InProgress
    BY <1>1 DEF InProgress
  <1>6. /\ out'[th] = Tail(out[th])
        /\ written'[th] \in {NoEvent, Head(out[th])}
        /\ \A x \in Threads \ {th} : out'[x] = out[x] /\ written'[x] = written[x]
    BY <1>0, <1>1
  <1>7. QuietOutside'
    <2>1. AllNeutral(out[th]) => AllNeutral(Tail(out[th])) /\ Neutral(Head(out[th]))
      BY <1>1, TailNeutral
    <2>2. Busy(th)
      BY <1>1 DEF Busy
    <2>3. CASE th = "watchdog"
      <3>1. AllNeutral(out["watchdog"])'
        BY <1>6, <2>1, <2>3 DEF SpanInv, QuietOutside, AllNeutral, Neutral, EndsSpan
      <3>2. (written["watchdog"] # NoEvent => Neutral(written["watchdog"]))'
        BY <1>6, <2>1, <2>3 DEF SpanInv, QuietOutside, Neutral, EndsSpan
      <3>3. out'["loop"] = out["loop"] /\ written'["loop"] = written["loop"]
        BY <1>0, <1>6, <2>3
      <3>4. QED
        BY <1>1, <1>5, <2>2, <2>3, <3>1, <3>2, <3>3
        DEF SpanInv, QuietOutside, Busy, AllNeutral, Neutral, EndsSpan
    <2>4. CASE th = "loop"
      <3>1. engine = "starting" =>
              AllNeutral(out["loop"])' /\ (written["loop"] # NoEvent => Neutral(written["loop"]))'
        BY <1>6, <2>1, <2>4 DEF SpanInv, QuietOutside, AllNeutral, Neutral, EndsSpan
      <3>2. out'["watchdog"] = out["watchdog"] /\ written'["watchdog"] = written["watchdog"]
        BY <1>0, <1>6, <2>4
      <3>3. QED
        BY <1>1, <1>5, <2>2, <2>4, <3>1, <3>2
        DEF SpanInv, QuietOutside, Busy, AllNeutral, Neutral, EndsSpan
    <2>5. QED
      BY <1>0, <2>3, <2>4
  <1>8. ASSUME logFaults' = 0, ~unreported', engine' \in {"looping", "draining"} PROVE SpansFollow'
    <2>1. /\ written' = [written EXCEPT ![th] = Head(out[th])]
          /\ SpansFollow
      BY <1>0, <1>1, <1>8 DEF SpanInv
    <2>2. CASE th = "loop"
      <3>1. SpansAfter(out["loop"][1]) = InProgress /\ HeadedBy(out["loop"], out["loop"][1])
        BY <1>1, <2>1, <2>2 DEF SpansFollow
      <3>2. written'["loop"] = out["loop"][1] /\ out'["loop"] = Tail(out["loop"])
        BY <1>0, <1>2, <1>6, <2>1, <2>2
      <3>3. AllNeutral(Tail(out["loop"]))
        BY <3>1, TailNeutral
      <3>4. written'["loop"] # NoEvent
        BY <1>2, <2>2, <3>2, EventsExist
      <3>5. SpansAfter(written["loop"])' = InProgress'
        BY <1>1, <1>5, <3>1, <3>2 DEF SpansAfter, EndsSpan
      <3>6. AllNeutral(out["loop"])'
        BY <3>2, <3>3 DEF AllNeutral, Neutral, EndsSpan
      <3>7. QED
        BY <3>4, <3>5, <3>6 DEF SpansFollow, Busy
    <2>3. CASE th = "watchdog"
      <3>1. out'["loop"] = out["loop"] /\ written'["loop"] = written["loop"]
        BY <1>0, <1>6, <2>3
      <3>2. QED
        BY <1>1, <1>5, <2>1, <3>1
        DEF SpansFollow, SpansAfter, Busy, HeadedBy, AllNeutral, Neutral, EndsSpan
    <2>4. QED
      BY <1>0, <2>2, <2>3
  <1>9. QED
    BY <1>4, <1>7, <1>8 DEF SpanInv

\* The telemetry call applies the event that was written.
LEMMA EmitRecordSpans ==
  ASSUME SpanInv, NEW th \in Threads, EmitRecord(th)
  PROVE  SpanInv'
  <1>0. /\ out \in [Threads -> Seq(Events)] /\ written \in [Threads -> Events \cup {NoEvent}]
        /\ "loop" \in Threads /\ "watchdog" \in Threads /\ th \in {"loop", "watchdog"}
        /\ spans \subseteq Tasks
    BY DEF SpanInv, TelEventsOK, Threads
  <1>1. /\ written[th] # NoEvent /\ written[th] \in Events
        /\ written' = [written EXCEPT ![th] = NoEvent]
        /\ UNCHANGED <<status, monitored, history, engine, out, logFaults, sighted, unreported>>
    BY <1>0 DEF EmitRecord, truth
  <1>2. spans' = SpansAfter(written[th])
    BY RecordSpans DEF EmitRecord
  <1>3. Neutral(written[th]) => spans' = spans
    BY <1>2 DEF Neutral, SpansAfter
  <1>4. TelEventsOK'
    <2>1. written[th][2] \in Tasks
      BY <1>1 DEF Events
    <2>2. spans' \subseteq Tasks
      BY <1>0, <1>2, <2>1 DEF SpansAfter
    <2>3. written' \in [Threads -> Events \cup {NoEvent}]
      BY <1>0, <1>1
    <2>4. QED
      BY <1>1, <2>2, <2>3 DEF SpanInv, TelEventsOK
  <1>5. InProgress' = InProgress
    BY <1>1 DEF InProgress
  <1>6. /\ written'[th] = NoEvent
        /\ \A x \in Threads \ {th} : written'[x] = written[x]
        /\ Busy(th)
    BY <1>0, <1>1 DEF Busy
  <1>7. CASE th = "loop"
    <2>1. written'["loop"] = NoEvent /\ written'["watchdog"] = written["watchdog"] /\ Busy("loop")
      BY <1>0, <1>6, <1>7
    <2>2. engine = "starting" => spans' = spans
      BY <1>1, <1>3, <1>7 DEF SpanInv, QuietOutside
    <2>3. QuietOutside'
      BY <1>1, <1>5, <2>1, <2>2 DEF SpanInv, QuietOutside, Busy, AllNeutral, Neutral, EndsSpan
    <2>4. ASSUME logFaults' = 0, ~unreported', engine' \in {"looping", "draining"} PROVE SpansFollow'
      <3>1. SpansAfter(written["loop"]) = InProgress /\ AllNeutral(out["loop"])
        BY <1>1, <1>7, <2>4 DEF SpanInv, SpansFollow
      <3>2. spans' = InProgress'
        BY <1>2, <1>5, <1>7, <3>1
      <3>3. ASSUME out["loop"] # << >>
            PROVE  SpansAfter(out["loop"][1])' = InProgress' /\ HeadedBy(out["loop"], out["loop"][1])'
        <4>1. out["loop"] \in Seq(Events) /\ Len(out["loop"]) >= 1 /\ Len(out["loop"]) \in Nat
          BY <1>0, <3>3
        <4>2. Neutral(out["loop"][1]) /\ \A i \in 2..Len(out["loop"]) : Neutral(out["loop"][i])
          BY <3>1, <4>1 DEF AllNeutral
        <4>3. SpansAfter(out["loop"][1])' = spans'
          BY <1>1, <4>2 DEF SpansAfter, Neutral, EndsSpan
        <4>4. HeadedBy(out["loop"], out["loop"][1])
          BY <3>3, <4>1, <4>2 DEF HeadedBy
        <4>5. HeadedBy(out["loop"], out["loop"][1])'
          BY <1>1, <4>4 DEF HeadedBy, Neutral, EndsSpan
        <4>6. QED
          BY <3>2, <4>3, <4>5
      <3>4. QED
        BY <1>1, <2>1, <3>2, <3>3 DEF SpansFollow
    <2>5. QED
      BY <1>4, <2>3, <2>4 DEF SpanInv
  <1>8. CASE th = "watchdog"
    <2>1. written'["watchdog"] = NoEvent /\ written'["loop"] = written["loop"] /\ Busy("watchdog")
      BY <1>0, <1>6, <1>8
    <2>2. spans' = spans
      BY <1>1, <1>3, <1>8 DEF SpanInv, QuietOutside
    <2>3. QuietOutside'
      BY <1>1, <1>5, <2>1, <2>2 DEF SpanInv, QuietOutside, Busy, AllNeutral, Neutral, EndsSpan
    <2>4. ASSUME logFaults' = 0, ~unreported', engine' \in {"looping", "draining"} PROVE SpansFollow'
      BY <1>1, <1>5, <2>1, <2>2, <2>4
      DEF SpanInv, SpansFollow, SpansAfter, Busy, HeadedBy, AllNeutral, Neutral, EndsSpan
    <2>5. QED
      BY <1>4, <2>3, <2>4 DEF SpanInv
  <1>9. QED
    BY <1>0, <1>7, <1>8

\* Before a restart the watchdog announces a handoff.
LEMMA FindsSpans ==
  ASSUME SpanInv, NEW t \in Tasks, WatchdogFinds(t)
  PROVE  SpanInv'
  <1> DEFINE q == << Ev("handoff", t) >>
  <1>0. out \in [Threads -> Seq(Events)] /\ "loop" \in Threads /\ "watchdog" \in Threads
    BY DEF SpanInv, TelEventsOK, Threads
  <1>1. /\ engine \in {"looping", "draining"} /\ Emits("watchdog", q)
        /\ UNCHANGED <<status, monitored, history, spans, written, engine, logFaults, unreported>>
    BY DEF WatchdogFinds, meters
  <1>2. AllNeutral(q)
    <2>1. Ev("handoff", t) \in Events /\ Neutral(Ev("handoff", t))
      BY DEF Ev, Events, Kinds, Neutral, EndsSpan, Terminal
    <2>2. QED
      BY <2>1 DEF AllNeutral
  <1> HIDE DEF q
  <1>3. out'["watchdog"] = q /\ out'["loop"] = out["loop"] /\ out' \in [Threads -> Seq(Events)]
    BY <1>0, <1>1, <1>2 DEF Emits, AllNeutral
  <1>4. TelEventsOK' /\ InProgress' = InProgress
    BY <1>1, <1>3 DEF SpanInv, TelEventsOK, InProgress
  <1>5. QuietOutside'
    <2>1. AllNeutral(out["watchdog"])'
      BY <1>2, <1>3 DEF AllNeutral, Neutral, EndsSpan
    <2>2. QED
      BY <1>1, <2>1 DEF SpanInv, QuietOutside, Neutral, EndsSpan
  <1>6. logFaults = 0 /\ ~unreported => SpansFollow'
    BY <1>1, <1>3, <1>4
    DEF SpanInv, SpansFollow, SpansAfter, Busy, HeadedBy, AllNeutral, Neutral, EndsSpan
  <1>7. QED
    BY <1>1, <1>4, <1>5, <1>6 DEF SpanInv

\* A restart writes the task from the watchdog's copy; an outcome whose task
\* cannot be written changes no status.
LEMMA RestartSpans ==
  ASSUME SpanInv, NEW t \in Tasks, WatchdogRestarts(t) \/ OutcomeLost(t)
  PROVE  SpanInv'
  <1>1. /\ monitored' \subseteq monitored /\ sighted' \in {sighted, {}}
        /\ UNCHANGED <<history, out, written, spans, engine, logFaults>>
        /\ engine \in {"looping", "draining"} \/ sighted # {}
    BY DEF WatchdogRestarts, OutcomeLost, LoopFree, meters
  <1>2. engine \in {"looping", "draining"}
    BY <1>1 DEF SpanInv, QuietOutside
  <1>3. status \in [Tasks -> Statuses] /\ unreported \in BOOLEAN
    BY DEF SpanInv, TelEventsOK
  <1>4. /\ status' \in [Tasks -> Statuses] /\ unreported' \in BOOLEAN
        /\ unreported => unreported'
        /\ unreported' \/ status' = status
    <2>1. CASE RestartSession(t)
      <3>1. "running" \in Statuses
        BY DEF Statuses
      <3>2. QED
        BY <1>3, <2>1, <3>1 DEF RestartSession
    <2>2. CASE UNCHANGED <<status, unreported>>
      BY <1>3, <2>2
    <2>3. QED
      BY <2>1, <2>2 DEF WatchdogRestarts, OutcomeLost
  <1>5. TelEventsOK'
    BY <1>1, <1>4 DEF SpanInv, TelEventsOK
  <1>6. QuietOutside'
    BY <1>1, <1>2 DEF SpanInv, QuietOutside, Busy, AllNeutral, Neutral, EndsSpan
  <1>7. ASSUME logFaults' = 0, ~unreported' PROVE SpansFollow'
    <2>1. SpansFollow /\ InProgress' = InProgress
      BY <1>1, <1>2, <1>4, <1>7 DEF SpanInv, InProgress
    <2>2. QED
      BY <1>1, <2>1 DEF SpansFollow, SpansAfter, Busy, HeadedBy, AllNeutral, Neutral, EndsSpan
  <1>8. QED
    BY <1>5, <1>6, <1>7 DEF SpanInv

\* The engine around the loop: nothing is pending when it starts or ends.
LEMMA EngineSpans ==
  ASSUME SpanInv, EmitLifecycleStarted \/ LoopEnds \/ Shutdown
  PROVE  SpanInv'
  <1>0. engine \in Engines /\ logFaults \in Nat
    BY DEF SpanInv, TelEventsOK
  <1>1. UNCHANGED <<status, monitored, history, out, written, spans, sighted, unreported>>
    BY DEF EmitLifecycleStarted, LoopEnds, Shutdown, EmitLifecycleCompleted, SignalPath,
           Cleanup, Return, StartLifecycle, EndLifecycle, truth, meters
  <1>2. /\ InProgress' = InProgress
        /\ \A th \in Threads : Busy(th)' = Busy(th)
        /\ "loop" \in Threads /\ "watchdog" \in Threads
    BY <1>1 DEF InProgress, Busy, Threads
  <1>3. logFaults' \in Nat /\ (logFaults' = 0 => logFaults = 0)
    BY <1>0 DEF EmitLifecycleStarted, LoopEnds, Shutdown, EmitLifecycleCompleted, SignalPath,
                Cleanup, Return
  <1>4. CASE EmitLifecycleStarted
    <2>1. engine = "starting" /\ ~Busy("loop") /\ engine' \in {"looping", "down"}
      BY <1>4 DEF EmitLifecycleStarted
    <2>2. TelEventsOK'
      BY <1>1, <1>3, <2>1 DEF SpanInv, TelEventsOK, Engines
    <2>3. QuietOutside'
      BY <1>1, <1>2, <2>1 DEF SpanInv, QuietOutside, AllNeutral, Neutral, EndsSpan, Busy
    <2>4. SpansFollow'
      BY <1>1, <1>2, <2>1 DEF SpanInv, QuietOutside, SpansFollow, Busy
    <2>5. QED
      BY <2>2, <2>3, <2>4 DEF SpanInv
  <1>5. CASE LoopEnds
    <2>1. engine = "looping" /\ engine' = "draining"
      BY <1>5 DEF LoopEnds
    <2>2. TelEventsOK'
      BY <1>1, <1>3, <2>1 DEF SpanInv, TelEventsOK, Engines
    <2>3. QuietOutside'
      BY <1>1, <1>2, <2>1 DEF SpanInv, QuietOutside, AllNeutral, Neutral, EndsSpan, Busy
    <2>4. logFaults' = 0 /\ ~unreported' => SpansFollow'
      BY <1>1, <1>2, <1>3, <2>1
      DEF SpanInv, SpansFollow, SpansAfter, Busy, HeadedBy, AllNeutral, Neutral, EndsSpan
    <2>5. QED
      BY <2>2, <2>3, <2>4 DEF SpanInv
  <1>6. CASE Shutdown
    <2>1. /\ engine' \in {"ended", "returned"}
          /\ ~Busy("loop") /\ ~Busy("watchdog") /\ sighted = {}
      BY <1>2, <1>6 DEF Shutdown, EmitLifecycleCompleted, SignalPath, Cleanup, Return, Drained,
                        SpanInv, QuietOutside
    <2>2. TelEventsOK'
      BY <1>1, <1>3, <2>1 DEF SpanInv, TelEventsOK, Engines
    <2>3. QuietOutside'
      BY <1>1, <1>2, <2>1 DEF SpanInv, QuietOutside, AllNeutral, Neutral, EndsSpan, Busy
    <2>4. QED
      BY <2>1, <2>2, <2>3 DEF SpanInv
  <1>7. QED
    BY <1>4, <1>5, <1>6

\* A resume in a new process starts from empty meters and no task running; the
\* resolved gaps it reports concern no span.
LEMMA ResumeSpans ==
  ASSUME SpanInv, NEW again \in SUBSET Tasks, Resume(again)
  PROVE  SpanInv'
  <1>0. /\ out \in [Threads -> Seq(Events)] /\ "loop" \in Threads /\ "watchdog" \in Threads
        /\ status \in [Tasks -> Statuses]
    BY DEF SpanInv, TelEventsOK, Threads
  <1>1. /\ engine \in {"returned", "down"} /\ engine' = "starting"
        /\ spans' = {} /\ monitored' = {} /\ sighted' = {} /\ unreported' = FALSE
        /\ UNCHANGED <<history, written, logFaults>>
        /\ status' = [t \in Tasks |-> IF status[t] \notin Terminal \/ t \in again
                                      THEN "open" ELSE status[t]]
    BY DEF Resume
  <1> DEFINE resolved == {t \in history : status'[t] = "open"}
             R == {Ev("resolved", t) : t \in resolved}
  <1>2. PICK q \in SetToSeqs(R) : Emits("loop", q)
    BY Zenon DEF Resume
  <1>3. resolved \subseteq Tasks /\ \A e \in R : e \in Events /\ Neutral(e)
    BY DEF SpanInv, TelEventsOK, Ev, Events, Kinds, Neutral, EndsSpan, Terminal
  <1>4. IsFiniteSet(R)
    <2>1. IsFiniteSet(resolved)
      BY <1>3, FS_Subset, TelemetryAssumption
    <2> HIDE DEF resolved
    <2> DEFINE f == [t \in resolved |-> Ev("resolved", t)]
    <2>2. f \in Surjection(resolved, R)
      BY DEF Surjection
    <2> HIDE DEF f, R
    <2>3. QED
      BY <2>1, <2>2, FS_Surjection
  <1>5. Cardinality(R) \in Nat
    BY <1>4, FS_CardinalityType
  <1> HIDE DEF R, resolved
  <1>6. q \in [1..Cardinality(R) -> R]
    BY <1>2 DEF SetToSeqs
  <1>7. AllNeutral(q)
    <2>1. q \in Seq(R)
      BY <1>5, <1>6
    <2>2. QED
      BY <1>3, <2>1 DEF AllNeutral
  <1>8. out'["loop"] = q /\ out'["watchdog"] = out["watchdog"] /\ out' \in [Threads -> Seq(Events)]
    BY <1>0, <1>2, <1>7 DEF Emits, AllNeutral
  <1>9. InProgress' = {} /\ status' \in [Tasks -> Statuses]
    BY <1>0, <1>1 DEF InProgress, Statuses, Terminal
  <1>10. TelEventsOK'
    BY <1>1, <1>8, <1>9 DEF SpanInv, TelEventsOK, Engines
  <1>11. QuietOutside'
    <2>1. ~Busy("loop") /\ ~Busy("watchdog")
      BY <1>1 DEF SpanInv, QuietOutside
    <2>2. written'["loop"] = NoEvent /\ ~Busy("watchdog")' /\ AllNeutral(out["loop"])'
      BY <1>1, <1>7, <1>8, <2>1 DEF Busy, AllNeutral, Neutral, EndsSpan
    <2>3. AllNeutral(out["watchdog"])' /\ written'["watchdog"] = NoEvent
      BY <1>1, <1>8, <2>1 DEF SpanInv, QuietOutside, Busy, AllNeutral, Neutral, EndsSpan
    <2>4. QED
      BY <1>1, <1>9, <2>2, <2>3 DEF QuietOutside
  <1>12. QED
    BY <1>1, <1>10, <1>11 DEF SpanInv

LEMMA SpanStep == SpanInv /\ [TelNext]_telVars => SpanInv'
  <1> SUFFICES ASSUME SpanInv, [TelNext]_telVars PROVE SpanInv'
    OBVIOUS
  <1>1. CASE UNCHANGED telVars
    BY <1>1 DEF telVars, SpanInv, TelEventsOK, QuietOutside, SpansFollow, SpansAfter, InProgress,
                Busy, HeadedBy, AllNeutral, Neutral, EndsSpan
  <1>2. QED
    BY <1>1, DispatchSpans, TerminateSpans, EmitWriteSpans, EmitRecordSpans, FindsSpans,
       RestartSpans, EngineSpans, ResumeSpans
    DEF TelNext, Handler, Stopped

LEMMA SpanInit == TelInit => SpanInv
  <1> SUFFICES ASSUME TelInit PROVE SpanInv
    OBVIOUS
  <1>1. /\ status = [t \in Tasks |-> "open"] /\ monitored = {} /\ history = {} /\ spans = {}
        /\ out = [th \in Threads |-> << >>] /\ written = [th \in Threads |-> NoEvent]
        /\ engine = "starting" /\ logFaults = 0 /\ sighted = {} /\ unreported = FALSE
    BY Zenon DEF TelInit
  <1>2. /\ out["loop"] = << >> /\ out["watchdog"] = << >>
        /\ written["loop"] = NoEvent /\ written["watchdog"] = NoEvent
    BY <1>1 DEF Threads
  <1>3. AllNeutral(<< >>)
    BY DEF AllNeutral
  <1>4. TelEventsOK /\ InProgress = {}
    <2>0. unreported \in BOOLEAN
      BY <1>1, Zenon
    <2>1. "open" \in Statuses /\ << >> \in Seq(Events) /\ engine \in Engines /\ logFaults \in Nat
      BY <1>1 DEF Statuses, Engines
    <2>2. status \in [Tasks -> Statuses] /\ \A t \in Tasks : status[t] # "running"
      BY <1>1, <2>1
    <2>3. out \in [Threads -> Seq(Events)]
      BY <1>1, <2>1
    <2>4. written \in [Threads -> Events \cup {NoEvent}]
      BY <1>1
    <2>5. QED
      BY <1>1, <2>0, <2>1, <2>2, <2>3, <2>4 DEF TelEventsOK, InProgress
  <1>5. QED
    BY <1>1, <1>2, <1>3, <1>4 DEF SpanInv, QuietOutside, Busy

\* The counter of tasks in progress counts the open spans.
CountInv == gauge.inProgress = Cardinality(spans)

LEMMA CountStep == LockGaugeInv /\ SpanInv /\ CountInv /\ [TelNext]_telVars => CountInv'
  <1> SUFFICES ASSUME LockGaugeInv, SpanInv, CountInv, [TelNext]_telVars PROVE CountInv'
    OBVIOUS
  <1>1. ASSUME NEW th \in Threads, EmitRecord(th) PROVE CountInv'
    <2>1. written[th] \in Events /\ Record(written[th])
      BY <1>1 DEF EmitRecord, SpanInv, TelEventsOK
    <2> DEFINE e == written[th]
    <2>2. IsFiniteSet(spans) /\ gauge \in Gauges /\ Cardinality(spans) \in Nat
      BY FS_Subset, FS_CardinalityType, TelemetryAssumption
      DEF SpanInv, TelEventsOK, LockGaugeInv
    <2>3. CASE e[1] = "dispatched"
      <3>1. ~EndsSpan(e[1])
        BY <2>3 DEF EndsSpan, Terminal
      <3>2. OnTaskDispatched(e[2])
        BY <2>1, <2>3, <3>1 DEF Record
      <3>3. Cardinality(spans \cup {e[2]}) =
              IF e[2] \in spans THEN Cardinality(spans) ELSE Cardinality(spans) + 1
        BY <2>2, FS_AddElement
      <3>4. QED
        BY <2>2, <3>2, <3>3 DEF OnTaskDispatched, CountInv, Gauges
    <2>4. CASE e[1] # "dispatched" /\ EndsSpan(e[1])
      <3>1. OnTaskTerminal(e[2])
        BY <2>1, <2>4 DEF Record
      <3>2. Cardinality(spans \ {e[2]}) =
              IF e[2] \in spans THEN Cardinality(spans) - 1 ELSE Cardinality(spans)
        BY <2>2, FS_RemoveElement
      <3>3. QED
        BY <2>2, <3>1, <3>2 DEF OnTaskTerminal, CountInv, Gauges
    <2>5. CASE Neutral(e)
      <3>1. gauge' = [gauge EXCEPT !.gap = @ + GapDelta(e[1])] /\ spans' = spans
        BY <2>1, <2>5 DEF Record, Neutral
      <3>2. QED
        BY <2>2, <3>1 DEF CountInv, Gauges
    <2>6. QED
      BY <2>3, <2>4, <2>5 DEF Neutral
  <1>2. ASSUME NEW again \in SUBSET Tasks, Resume(again) PROVE CountInv'
    <2>1. spans' = {} /\ gauge' = Zero
      BY Zenon, <1>2 DEF Resume
    <2>2. QED
      BY <2>1, FS_EmptySet DEF CountInv, Zero
  <1>3. CASE UNCHANGED spans /\ gauge'.inProgress = gauge.inProgress
    BY <1>3 DEF CountInv
  <1>4. CASE EmitLifecycleStarted \/ EmitLifecycleCompleted \/ Return
    <2>1. /\ UNCHANGED spans
          /\ \/ gauge' = gauge
             \/ gauge' = [gauge EXCEPT !.lockHeld = @ + 1]
             \/ gauge' = [gauge EXCEPT !.lockHeld = @ - 1]
      BY <1>4 DEF EmitLifecycleStarted, EmitLifecycleCompleted, Return, StartLifecycle,
                  EndLifecycle, meters
    <2>2. gauge \in Gauges
      BY DEF LockGaugeInv
    <2>3. QED
      BY <1>3, <2>1, <2>2 DEF Gauges
  <1>5. CASE \/ UNCHANGED telVars \/ LoopEnds \/ SignalPath \/ Cleanup \/ Handler
             \/ (\E th \in Threads : EmitWrite(th)) \/ (\E t \in Tasks : WatchdogFinds(t) \/ WatchdogRestarts(t))
    <2>1. UNCHANGED <<spans, gauge>>
      BY <1>5 DEF telVars, LoopEnds, SignalPath, Cleanup, Handler, EmitWrite, WatchdogFinds,
                  WatchdogRestarts, Dispatch, SpawnFails, Finish, OutcomeLost, Retry, HandoffOutcome,
                  FailOrphaned, meters
    <2>2. QED
      BY <1>3, <2>1
  <1>6. QED
    BY <1>1, <1>2, <1>4, <1>5 DEF TelNext, Shutdown, Stopped

\* OBS-04: while every log write succeeded and no write put or left a task in
\* progress unreported, a loop between two handlers has a span open for exactly
\* the tasks the ledger has in progress and the gauge counts them: through
\* retries, handoffs, aborts, orphans whose agents answer late, restarts from
\* old copies, lost outcomes and resumes, for any set of tasks.
THEOREM InProgressAlwaysExact == TelSpec => []InProgressExact
  <1>1. SpanInv /\ CountInv => InProgressExact
    BY DEF SpanInv, SpansFollow, CountInv, InProgressExact, InProgress, LoopFree
  <1>2. TelInit => LockGaugeInv
    <2>1. TelInit => engine = "starting" /\ lock = TRUE /\ lifecycle = FALSE /\ gauge = Zero
      BY Zenon DEF TelInit
    <2>2. QED
      BY <2>1 DEF LockGaugeInv, Zero, Gauges, Engines
  <1>3. TelInit => CountInv
    <2>1. TelInit => gauge = Zero /\ spans = {}
      BY Zenon DEF TelInit
    <2>2. QED
      BY <2>1, FS_EmptySet DEF CountInv, Zero
  <1>4. QED
    BY <1>1, <1>2, <1>3, SpanInit, LockGaugeStep, SpanStep, CountStep, PTL DEF TelSpec
=============================================================================
