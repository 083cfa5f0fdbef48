-------------------------- MODULE CircuitBreaker --------------------------
(***************************************************************************)
(* CircuitBreaker of orch/watchdog.go: failure timestamps per worker in a  *)
(* rolling window.  RecordFailure is called by CheckOnce and by runAgent   *)
(* goroutines, Reset by the dispatch loop; each holds the mutex.           *)
(***************************************************************************)
EXTENDS Integers, Sequences

CONSTANTS
  Workers,
  CBThreshold,
  Window,         \* WatchdogConfig.CBWindow, in units of the clock
  MaxTime,        \* bound on the clock
  MaxRecords      \* bound on the recorded failures

ASSUME BreakerAssumption ==
  CBThreshold \in Nat \ {0} /\ Window \in Nat \ {0} /\ MaxTime \in Nat /\ MaxRecords \in Nat

VARIABLES
  clock,            \* time.Now()
  failures,       \* CircuitBreaker.failures; no entry is an empty history
  tripped,        \* CircuitBreaker.tripped
  rapid           \* history: the rapid failures per worker since the last Reset

cbVars == <<clock, failures, tripped, rapid>>

CbInit ==
  /\ clock = 0
  /\ failures = [w \in Workers |-> <<>>]
  /\ tripped = FALSE
  /\ rapid = [w \in Workers |-> <<>>]

PruneLate(s) ==
  LET cut == CHOOSE k \in 0..Len(s) : \A i \in DOMAIN s : i > k <=> s[i] >= clock - Window
  IN SubSeq(s, cut + 1, Len(s))

\* The entries after the cutoff.  Each was appended under the mutex at the time it
\* names, so they are the last ones.
Prune(s) ==
  LET cut == CHOOSE k \in 0..Len(s) : \A i \in DOMAIN s : i > k <=> s[i] > clock - Window
  IN SubSeq(s, cut + 1, Len(s))

\* The threshold holds per worker, not for their sum.
Reached(fs) == \E w \in Workers : Len(fs[w]) >= CBThreshold

\* RecordFailure(workerName, sessionStart)
RecordFailure(w, start) ==
  /\ \/ clock - start >= Window /\ UNCHANGED <<failures, tripped, rapid>>
     \/ /\ clock - start < Window
        /\ Len(rapid[w]) < MaxRecords
        /\ LET added == [failures EXCEPT ![w] = Append(@, clock)]
           IN failures' = [v \in Workers |-> Prune(added[v])]
        /\ tripped' = (tripped \/ Reached(failures'))
        /\ rapid' = [rapid EXCEPT ![w] = Append(@, clock)]
  /\ UNCHANGED clock

ResetKeepsHistory ==
  /\ tripped' = FALSE
  /\ rapid' = [w \in Workers |-> <<>>]
  /\ UNCHANGED <<failures, clock>>

\* Reset, called only after a trip
Reset ==
  /\ tripped' = FALSE
  /\ failures' = [w \in Workers |-> <<>>]
  /\ rapid' = [w \in Workers |-> <<>>]
  /\ UNCHANGED clock

Tick == clock < MaxTime /\ clock' = clock + 1 /\ UNCHANGED <<failures, tripped, rapid>>

CbNext ==
  \/ \E w \in Workers, start \in 0..clock : RecordFailure(w, start)
  \/ tripped /\ Reset
  \/ Tick

CbSpec == CbInit /\ [][CbNext]_cbVars

-----------------------------------------------------------------------------
(* Properties *)

\* SUP-05: the breaker is up exactly when, since the last Reset, a single worker
\* had CBThreshold rapid failures within one window; pruning never loses a
\* failure that counts and never keeps one that does not.
TripsExactly ==
  tripped <=> \E w \in Workers : \E i \in DOMAIN rapid[w] :
    LET j == i + CBThreshold - 1
    IN j \in DOMAIN rapid[w] /\ rapid[w][j] - rapid[w][i] < Window

\* The breaker with its clock implements the one Supervision uses.
Abstract == INSTANCE Breaker WITH
  cbFailures <- [w \in Workers |->
    IF Len(failures[w]) < CBThreshold THEN Len(failures[w]) ELSE CBThreshold],
  cbTripped <- tripped
ImplementsBreaker == Abstract!Spec
=============================================================================
