---------------------------- MODULE LifecycleLock ----------------------------
(***************************************************************************)
(* The per-branch lock file of orch/lock.go, and the orchestrator          *)
(* processes of one branch that compete for it.  Every file system call of *)
(* Acquire, Refresh and Release is a step of its own, so that any other    *)
(* process can come between two of them.                                   *)
(*                                                                         *)
(*   off -> enter -> create -> write -> held <-> refresh                   *)
(*                    |  ^                |        |                       *)
(*                    v  |                +--> release -> done             *)
(*                  read -> remove                                         *)
(*                                                                         *)
(* Acquire ends in held, contended (ErrLockContention), exhausted (the     *)
(* retries are used up) or error (a file system call failed).  A process   *)
(* may crash anywhere and leaves the file as it is.                        *)
(*                                                                         *)
(* Two constants describe the environment.  MaxContenders: how many        *)
(* processes are between start and the end of Acquire at the same time.    *)
(* MaxStall: how long a live process takes at most between two stamps of   *)
(* its lock; a process that stalls for Staleness or more becomes late, and *)
(* others may rightly take it for dead.                                    *)
(***************************************************************************)
EXTENDS Integers, FiniteSets

CONSTANTS
  Procs,          \* orchestrator processes, each an Engine used once
  Staleness,      \* LockConfig.StalenessThreshold
  RetryCount,     \* LockConfig.RetryCount
  MaxContenders,  \* bound on the processes acquiring at the same time
  MaxStall,       \* bound on the age of a live process's last stamp
  MaxClock        \* bound on the time

ASSUME ProcsAssumption == Procs \subseteq Nat \ {0}
ASSUME TimesAssumption ==
  /\ Staleness \in Nat \ {0}
  /\ RetryCount \in Nat
  /\ MaxContenders \in Nat \ {0}
  /\ MaxStall \in Nat
  /\ MaxClock \in Nat

VARIABLES
  now,      \* time.Now()
  file,     \* the lock file
  pc,       \* where each process stands
  id,       \* cfg.RunID, the holder ID it locks with
  stamp,    \* the timestamp in its LockContent: of Acquire, then of Refresh
  attempt,  \* Acquire's loop variable
  late      \* processes that once stalled for Staleness or longer

vars == <<now, file, pc, id, stamp, attempt, late>>

NoId == 0    \* the content of a file that was created and not yet written
NoFile == [creator |-> 0, holder |-> NoId, time |-> 0]
Lock == [creator: Procs, holder: Procs \cup {NoId}, time: 0..MaxClock]

Acquiring == {"enter", "create", "write", "read", "remove"}
Holding == {"held", "refresh"}
Alive == Acquiring \cup Holding \cup {"release"}
Ended == {"done", "contended", "exhausted", "error", "crashed"}

TypeOK ==
  /\ now \in 0..MaxClock
  /\ file \in Lock \cup {NoFile}
  /\ pc \in [Procs -> {"off"} \cup Alive \cup Ended]
  /\ id \in [Procs -> Procs]
  /\ stamp \in [Procs -> 0..MaxClock]
  /\ attempt \in [Procs -> 0..RetryCount]
  /\ late \subseteq Procs

Init ==
  /\ now = 0
  /\ file = NoFile
  /\ pc = [p \in Procs |-> "off"]
  /\ id = [p \in Procs |-> p]
  /\ stamp = [p \in Procs |-> 0]
  /\ attempt = [p \in Procs |-> 0]
  /\ late = {}

Goto(p, l) == pc' = [pc EXCEPT ![p] = l]

-----------------------------------------------------------------------------
(* Starting *)

MayStart(p) ==
  /\ pc[p] = "off"
  /\ Cardinality({q \in Procs : pc[q] \in Acquiring}) < MaxContenders

\* wonka run: a fresh RunID.
Run(p) ==
  /\ MayStart(p)
  /\ Goto(p, "enter")
  /\ UNCHANGED <<now, file, id, stamp, attempt, late>>

\* wonka resume: ReadHolder gives the RunID of the previous run; a lock file
\* that does not parse ends the command (ErrCorruptLock).
ResumeRun(p) ==
  /\ MayStart(p)
  /\ \/ file = NoFile /\ Goto(p, "enter") /\ UNCHANGED id
     \/ file # NoFile /\ file.holder = NoId /\ Goto(p, "error") /\ UNCHANGED id
     \/ /\ file.holder # NoId
        /\ id' = [id EXCEPT ![p] = file.holder]
        /\ Goto(p, "enter")
  /\ UNCHANGED <<now, file, stamp, attempt, late>>

-----------------------------------------------------------------------------
(* Acquire *)

\* The LockContent is built once, before the loop.
Enter(p) ==
  /\ pc[p] = "enter"
  /\ stamp' = [stamp EXCEPT ![p] = now]
  /\ Goto(p, "create")
  /\ UNCHANGED <<now, file, id, attempt, late>>

\* tryCreate: O_CREATE|O_EXCL makes an empty file.
TryCreate(p) ==
  /\ pc[p] = "create"
  /\ \/ /\ file = NoFile
        /\ file' = [creator |-> p, holder |-> NoId, time |-> 0]
        /\ Goto(p, "write")
     \/ file # NoFile /\ UNCHANGED file /\ Goto(p, "read")
  /\ UNCHANGED <<now, id, stamp, attempt, late>>

\* tryCreate: the content goes to the file that was opened, which may no longer
\* be the one under the lock's name.  A failing close leaves the content there.
Write(p) ==
  /\ pc[p] = "write"
  /\ file' = IF file.creator = p
             THEN [file EXCEPT !.holder = id[p], !.time = stamp[p]] ELSE file
  /\ Goto(p, "held") \/ Goto(p, "error")
  /\ UNCHANGED <<now, id, stamp, attempt, late>>

\* A failing write removes whatever is under the lock's name.
WriteFails(p) ==
  /\ pc[p] = "write"
  /\ file' = NoFile
  /\ Goto(p, "error")
  /\ UNCHANGED <<now, id, stamp, attempt, late>>

NextAttemptOffByOne(p) ==
  IF attempt[p] + 1 < RetryCount
  THEN attempt' = [attempt EXCEPT ![p] = @ + 1] /\ Goto(p, "create")
  ELSE UNCHANGED attempt /\ Goto(p, "exhausted")

\* continue
NextAttempt(p) ==
  IF attempt[p] < RetryCount
  THEN attempt' = [attempt EXCEPT ![p] = @ + 1] /\ Goto(p, "create")
  ELSE UNCHANGED attempt /\ Goto(p, "exhausted")

StaleTooEarly == now - file.time >= Staleness - 1

\* time.Since(existing.Timestamp) >= l.stalenessThreshold
Stale == now - file.time >= Staleness

ReadReleasesOnContention(p) ==
  /\ pc[p] = "read"
  /\ \/ file = NoFile /\ NextAttempt(p)
     \/ /\ file # NoFile
        /\ Goto(p, IF file.holder = NoId \/ Stale THEN "remove" ELSE "release")
        /\ UNCHANGED attempt
  /\ UNCHANGED <<now, file, id, stamp, late>>

\* The file exists: gone by now, unparsable, stale, or somebody's.
Read(p) ==
  /\ pc[p] = "read"
  /\ \/ file = NoFile /\ NextAttempt(p)
     \/ /\ file # NoFile
        /\ Goto(p, IF file.holder = NoId \/ Stale THEN "remove" ELSE "contended")
        /\ UNCHANGED attempt
  /\ UNCHANGED <<now, file, id, stamp, late>>

\* os.Remove of the path; a file that is gone is fine.
RemoveStale(p) ==
  /\ pc[p] = "remove"
  /\ file' = NoFile
  /\ NextAttempt(p)
  /\ UNCHANGED <<now, id, stamp, late>>

\* The open, the read or the remove fails with anything else.
CallFails(p) ==
  /\ pc[p] \in {"create", "read", "remove"}
  /\ Goto(p, "error")
  /\ UNCHANGED <<now, file, id, stamp, attempt, late>>

-----------------------------------------------------------------------------
(* Refresh and Release *)

\* Refresh reads the file; an error ends Tick, Run and, by Cleanup, the lock.
RefreshRead(p) ==
  /\ pc[p] = "held"
  /\ Goto(p, IF file.holder = id[p] THEN "refresh" ELSE "release")
  /\ UNCHANGED <<now, file, id, stamp, attempt, late>>

\* atomicWriteJSON renames a new file over the lock's name, or fails.
RefreshWrite(p) ==
  /\ pc[p] = "refresh"
  /\ \/ /\ file' = [creator |-> p, holder |-> id[p], time |-> now]
        /\ stamp' = [stamp EXCEPT ![p] = now]
        /\ Goto(p, "held")
     \/ UNCHANGED <<file, stamp>> /\ Goto(p, "release")
  /\ UNCHANGED <<now, id, attempt, late>>

\* The dispatch loop ends for a reason of its own.
RunEnds(p) ==
  /\ pc[p] = "held"
  /\ Goto(p, "release")
  /\ UNCHANGED <<now, file, id, stamp, attempt, late>>

\* Cleanup -> Release: os.Remove of the path, or it fails with a warning.
Release(p) ==
  /\ pc[p] = "release"
  /\ file' \in {NoFile, file}
  /\ Goto(p, "done")
  /\ UNCHANGED <<now, id, stamp, attempt, late>>

-----------------------------------------------------------------------------
(* The environment *)

Crash(p) ==
  /\ pc[p] \in Alive
  /\ Goto(p, "crashed")
  /\ UNCHANGED <<now, file, id, stamp, attempt, late>>

\* Processes that are past Enter carry a stamp that ages.
Stamped(p) == pc[p] \in Alive \ {"enter"}

TimePasses ==
  /\ now < MaxClock
  /\ now' = now + 1
  /\ \A p \in Procs : Stamped(p) => now' - stamp[p] <= MaxStall
  /\ late' = late \cup {p \in Procs : Stamped(p) /\ now' - stamp[p] >= Staleness}
  /\ UNCHANGED <<file, pc, id, stamp, attempt>>

Next ==
  \/ TimePasses
  \/ \E p \in Procs :
       \/ Run(p) \/ ResumeRun(p)
       \/ Enter(p) \/ TryCreate(p) \/ Write(p) \/ WriteFails(p) \/ Read(p) \/ RemoveStale(p)
       \/ CallFails(p)
       \/ RefreshRead(p) \/ RefreshWrite(p) \/ RunEnds(p) \/ Release(p)
       \/ Crash(p)

Spec == Init /\ [][Next]_vars

-----------------------------------------------------------------------------
(* Properties *)

\* BVV-S-01: of the processes that never stalled at most one holds the lock.
MutualExclusion ==
  \A p, q \in Procs \ late : pc[p] \in Holding /\ pc[q] \in Holding => p = q

\* What a holder that never stalled refreshes is its own lock, with the stamp
\* it wrote last: Refresh cannot fail on it, nor anyone find it stale.
HolderKeepsLock ==
  \A p \in Procs \ late : pc[p] \in Holding =>
    file.holder = id[p] /\ file.time = stamp[p] /\ ~Stale

\* BVV-ERR-06: one retry is enough to take over an abandoned, half-written or
\* just released lock; Acquire then never runs out of attempts.
OneRetryIsEnough ==
  RetryCount >= 1 => \A p \in Procs : pc[p] # "exhausted"
=============================================================================
