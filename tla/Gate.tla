-------------------------------- MODULE Gate --------------------------------
(***************************************************************************)
(* ExecuteGate, the pull-request gate: predecessor check, gh pr view, gh   *)
(* pr create, gh pr checks --watch under the CI timeout.  The gate task is *)
(* run by the dispatcher like any other: an attempt may be killed by the   *)
(* session timeout at any moment, also while gh pr create is on its way to *)
(* the server, and a failed or killed attempt is retried.                  *)
(***************************************************************************)
EXTENDS Naturals

CONSTANTS Deps,          \* predecessors of the gate task
          MaxAttempts,   \* attempts of the gate task
          MaxGhFaults      \* bound: gh or store failures

ASSUME GateAssumption ==
    {MaxAttempts, MaxGhFaults} \subseteq Nat

VARIABLES
    dep,        \* the ledger's status of each predecessor
    reopened,   \* history: a human has re-opened a predecessor
    gatePc,     \* where the running attempt is
    unchecked,  \* predecessors the attempt has yet to look at
    code,       \* exit code of the last attempt
    pr,         \* the pull request exists
    inFlight,   \* a create sent by a killed attempt may still be served
    ci,         \* what the checks of the pull request say
    event,      \* the attempt's last gate event
    had,        \* ghost: the pull request existed when the attempt began
    clean,      \* ghost: no operation of the attempt failed
    tries, ghFaults

gateVars == << dep, reopened, gatePc, unchecked, code, pr, inFlight, ci, event,
               had, clean, tries, ghFaults >>
ledger == << dep, reopened >>
remote == << pr, inFlight, ci >>

Settled == {"completed", "failed", "blocked"}

(* ReadyTasks offers the gate once every predecessor is terminal.          *)
GateInit ==
    /\ dep \in [Deps -> Settled] /\ reopened = FALSE
    /\ gatePc = "idle"
    /\ unchecked = {}
    /\ code = 0
    /\ pr = FALSE /\ inFlight = FALSE /\ ci = "pending"
    /\ event = ""
    /\ had = FALSE /\ clean = TRUE
    /\ tries = 0
    /\ ghFaults = 0

Ready == \A d \in Deps : dep[d] \in Settled

Start ==
    /\ gatePc = "idle" \/ (gatePc = "exited" /\ code = 1)
    /\ Ready /\ tries < MaxAttempts
    /\ tries' = tries + 1
    /\ gatePc' = "deps" /\ unchecked' = Deps
    /\ event' = ""
    /\ had' = pr /\ clean' = TRUE
    /\ UNCHANGED << ledger, code, remote, ghFaults >>

(* The attempt returns its exit code after emitGate, which only warns when *)
(* the event cannot be written.                                            *)
Exit(c, e) ==
    /\ gatePc' = "exited" /\ code' = c /\ event' \in {e, "lost"}
    /\ UNCHANGED << unchecked, had >>

(* A store or gh call fails: gate_failed, exit 1.                          *)
Fails ==
    /\ ghFaults < MaxGhFaults
    /\ ghFaults' = ghFaults + 1
    /\ Exit(1, "gate_failed") /\ clean' = FALSE

RefusesFailedOnly(s) == s = "failed"

(* Statuses of a predecessor for which no pull request is created.         *)
Refuses(s) == s \in {"failed", "blocked"}

CheckDep(d) ==
    /\ gatePc = "deps" /\ d \in unchecked
    /\ \/ /\ ~Refuses(dep[d])
          /\ unchecked' = unchecked \ {d}
          /\ UNCHANGED << gatePc, code, event, had, clean, ghFaults >>
       \/ Refuses(dep[d]) /\ Exit(1, "gate_failed") /\ UNCHANGED << clean, ghFaults >>
       \/ Fails
    /\ UNCHANGED << ledger, remote, tries >>

(* gate_created is logged before gh is asked for anything.                 *)
DepsPass ==
    /\ gatePc = "deps" /\ unchecked = {}
    /\ gatePc' = "view"
    /\ event' = "gate_created"
    /\ UNCHANGED << ledger, unchecked, code, remote, had, clean, tries, ghFaults >>

AfterViewAlwaysCreates == "create"
AfterView == IF pr THEN "checks" ELSE "create"

(* gh pr view: an existing pull request is reused, only "not found" leads  *)
(* to a create, any other error ends the attempt.                          *)
View ==
    /\ gatePc = "view"
    /\ \/ /\ gatePc' = AfterView
          /\ UNCHANGED << unchecked, code, event, had, clean, ghFaults >>
       \/ Fails
    /\ UNCHANGED << ledger, remote, tries >>

(* gh pr create: GitHub refuses a second pull request for the branch; a    *)
(* failed call may have been served all the same.                          *)
Create ==
    /\ gatePc = "create"
    /\ \/ /\ ~pr /\ pr' = TRUE
          /\ gatePc' = "checks"
          /\ UNCHANGED << unchecked, code, event, had, clean, ghFaults >>
       \/ pr /\ Exit(1, "gate_failed") /\ UNCHANGED << pr, clean, ghFaults >>
       \/ Fails /\ (UNCHANGED pr \/ pr' = TRUE)
    /\ UNCHANGED << ledger, inFlight, ci, tries >>

ChecksIgnoringTimeout ==
    /\ gatePc = "checks"
    /\ IF ci = "failed" THEN Exit(1, "gate_failed") ELSE Exit(0, "gate_passed")
    /\ UNCHANGED << ledger, remote, clean, tries, ghFaults >>

(* gh pr checks --watch ends with the checks or at the CI timeout.         *)
Checks ==
    /\ gatePc = "checks"
    /\ \/ ci = "passed" /\ Exit(0, "gate_passed") /\ UNCHANGED << clean, ghFaults >>
       \/ ci = "failed" /\ Exit(1, "gate_failed") /\ UNCHANGED << clean, ghFaults >>
       \/ Fails
    /\ UNCHANGED << ledger, remote, tries >>

(* The session timeout kills the attempt, which counts as exit 1.          *)
Killed ==
    /\ gatePc \notin {"idle", "exited"}
    /\ gatePc' = "exited" /\ code' = 1 /\ clean' = FALSE
    /\ inFlight' = (inFlight \/ gatePc = "create")
    /\ UNCHANGED << ledger, unchecked, pr, ci, event, had, tries, ghFaults >>

(* The server serves the create of a killed attempt after all.             *)
Lands ==
    /\ inFlight
    /\ inFlight' = FALSE /\ pr' = TRUE
    /\ UNCHANGED << ledger, gatePc, unchecked, code, ci, event, had, clean,
                    tries, ghFaults >>

CIFinishes(r) ==
    /\ pr /\ ci = "pending"
    /\ ci' = r
    /\ UNCHANGED << ledger, gatePc, unchecked, code, pr, inFlight, event,
                    had, clean, tries, ghFaults >>

(* BVV-S-02a: a human re-opens a predecessor and it runs again.            *)
Reopen(d) ==
    /\ reopened' = TRUE
    /\ dep[d] \in Settled
    /\ dep' = [dep EXCEPT ![d] = "open"]
    /\ UNCHANGED << gatePc, unchecked, code, remote, event, had, clean,
                    tries, ghFaults >>

Rerun(d, s) ==
    /\ dep[d] = "open"
    /\ dep' = [dep EXCEPT ![d] = s]
    /\ UNCHANGED << reopened, gatePc, unchecked, code, remote, event, had, clean,
                    tries, ghFaults >>

Over ==
    /\ gatePc = "exited" /\ (code = 0 \/ tries = MaxAttempts)
    /\ UNCHANGED gateVars

GateNext ==
    \/ Start
    \/ \E d \in Deps : CheckDep(d)
    \/ DepsPass \/ View \/ Create \/ Checks
    \/ Killed
    \/ Lands
    \/ \E r \in {"passed", "failed"} : CIFinishes(r)
    \/ \E d \in Deps : Reopen(d) \/ \E s \in Settled : Rerun(d, s)
    \/ Over

GateSpec == GateInit /\ [][GateNext]_gateVars

----------------------------------------------------------------------------

GateTypeOK ==
    /\ dep \in [Deps -> Settled \cup {"open"}]
    /\ gatePc \in {"idle", "deps", "view", "create", "checks", "exited"}
    /\ unchecked \subseteq Deps
    /\ code \in 0..1
    /\ {reopened, pr, inFlight, had, clean} \subseteq BOOLEAN
    /\ ci \in {"pending", "passed", "failed"}

(* A gate that exits 0 has a pull request whose checks passed, and its     *)
(* last event says so; an exit 1 that was not a kill logged gate_failed,   *)
(* where the event could be written.                                       *)
ExitHonest ==
    gatePc = "exited" =>
        /\ code = 0 => pr /\ ci = "passed" /\ event \in {"gate_passed", "lost"}
        /\ code = 1 /\ event \notin {"gate_failed", "lost"} => ~clean

(* With a failed or blocked predecessor no pull request comes to exist,    *)
(* whatever is killed, retried or served late (BVV-GT-03), as long as no   *)
(* human re-opens a predecessor.                                           *)
NoPRAfterFailure ==
    (~reopened /\ \E d \in Deps : dep[d] \in {"failed", "blocked"}) => ~pr /\ ~inFlight

(* An attempt that meets no failure, for a pull request some earlier       *)
(* attempt left behind, reports what the checks say: a create whose answer *)
(* was lost never wedges the gate.                                         *)
ExistingPRSuffices ==
    gatePc = "exited" /\ clean /\ had /\ ~reopened =>
        (code = 0 <=> ci = "passed")
=============================================================================
