------------------------------ MODULE Breaker ------------------------------
(***************************************************************************)
(* What the circuit breaker of orch/watchdog.go promises to the            *)
(* dispatcher, without clocks: a count of recent failures per worker, any  *)
(* of which may expire, and a flag that is up once a single worker's count *)
(* reached the threshold and stays up until Reset.  CircuitBreaker has the *)
(* timestamps and implements this; Supervision uses this.                  *)
(***************************************************************************)
EXTENDS Naturals

CONSTANTS
  Workers,
  CBThreshold     \* WatchdogConfig.CBThreshold

VARIABLES
  cbFailures,     \* recent failures per worker, counted up to the threshold
  cbTripped       \* CircuitBreaker.tripped

breaker == <<cbFailures, cbTripped>>

Init ==
  /\ cbFailures = [w \in Workers |-> 0]
  /\ cbTripped = FALSE

\* RecordFailure: a session that outlived the window is ignored; otherwise one
\* failure is added to those that are left.
RecordFailure(w) ==
  \/ UNCHANGED breaker
  \/ \E kept \in [Workers -> 0..CBThreshold] :
       /\ \A v \in Workers : kept[v] <= cbFailures[v]
       /\ cbFailures' = [kept EXCEPT ![w] = IF @ < CBThreshold THEN @ + 1 ELSE @]
       /\ cbTripped' = (cbTripped \/ \E v \in Workers : cbFailures'[v] >= CBThreshold)

\* Reset
ResetCB == cbTripped' = FALSE /\ cbFailures' = [w \in Workers |-> 0]

Next == ResetCB \/ \E w \in Workers : RecordFailure(w)

Spec == Init /\ [][Next]_breaker
=============================================================================
