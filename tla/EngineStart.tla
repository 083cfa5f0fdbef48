---------------------------- MODULE EngineStart ----------------------------
(***************************************************************************)
(* How orchestrator processes for one branch come up and go down: Run and  *)
(* Resume, initForResume, initCommon, the tmux server they create or join, *)
(* lock.Acquire, Refresh, cleanupAfterFailedAcquire and Cleanup.  A tmux   *)
(* server is named by the RunID of its socket; a resumed engine takes over *)
(* the RunID it reads from the lock file, so several engines can use one   *)
(* socket.                                                                 *)
(*                                                                         *)
(* Every file system call of the lock is a step of its own.  Clock times   *)
(* are those of LifecycleLock with timely refreshes: the lock of a live    *)
(* process stays fresh, one that is left behind goes stale.                *)
(***************************************************************************)
EXTENDS FiniteSets, Integers

CONSTANTS Engines,        \* the processes; each also names its generated RunID
          LockRetries,    \* LockConfig.RetryCount
          MaxCrashes,     \* bound: processes that die
          MaxFaults       \* bound: operations of a start or a release that fail

None == "none"   \* no engine, no RunID

ASSUME StartAssumption ==
    {LockRetries, MaxCrashes, MaxFaults} \subseteq Nat /\ None \notin Engines

VARIABLES
    stage,      \* where each engine is
    run,        \* cfg.RunID of each engine
    owned,      \* the engines whose TmuxClient.owned is set
    open,       \* what each engine has open: "store", "log"
    servers,    \* sockets with a running tmux server
    persistent, \* those with a bootstrap session and exit-empty off
    sessions,   \* sockets with agent sessions
    lockFile,   \* the process that created it and the RunID written into it
    stale,      \* the lock file is older than the staleness threshold
    attempts,   \* Acquire's loop variable
    anchored,   \* the event log holds a first record
    crashes, faults

(* History variables, which no guard looks at.                             *)
VARIABLES
    victims,    \* running engines whose server another engine killed
    unkilled,   \* sockets on which a kill-server failed
    seen,       \* the RunID in the lock file when Resume read it, None if none
    removed,    \* RunIDs in lock files an engine removed and has not written again
    lost,       \* engines that held the lock while the file was not theirs
    overlapped  \* two engines were inside Acquire at the same time

tmux == << servers, persistent, sessions, victims, unkilled >>
lck  == << lockFile, stale, attempts, removed >>
ids  == << run, seen >>
hist == << lost, overlapped >>

esVars == << stage, ids, owned, open, tmux, lck, anchored, crashes, faults, hist >>

Locking   == {"lock", "read", "remove", "write"}
Starting  == {"holder", "store", "log", "probe", "create", "lockdir"} \cup Locking
               \cup {"failed", "reconcile", "started"}
Running   == {"running", "refresh"}
Stopping  == {"kill", "release"}
Finished  == {"refused", "ended", "crashed"}
\* The engine has created the lock file and not yet removed it.
HasLock   == {"write", "reconcile", "started"} \cup Running \cup Stopping

NoLock == [engine |-> None, run |-> None]
\* A lock file that was created and not written: it does not parse.
Unwritten == lockFile # NoLock /\ lockFile.run = None

EsInit ==
    /\ stage = [e \in Engines |-> "idle"]
    /\ run = [e \in Engines |-> e]
    /\ owned = {}
    /\ open = [e \in Engines |-> {}]
    /\ servers = {} /\ persistent = {} /\ sessions = {}
    /\ lockFile = NoLock
    /\ stale = FALSE
    /\ attempts = [e \in Engines |-> 0]
    /\ anchored = FALSE
    /\ crashes = 0
    /\ faults = 0
    /\ victims = {} /\ unkilled = {}
    /\ seen = [e \in Engines |-> None]
    /\ removed = [e \in Engines |-> {}]
    /\ lost = {}
    /\ overlapped = FALSE

GotoStage(e, p) == stage' = [stage EXCEPT ![e] = p]

Fault == faults < MaxFaults /\ faults' = faults + 1

(* tmux kill-server on a socket.                                           *)
KillServer(e, s) ==
    /\ servers' = servers \ {s}
    /\ persistent' = persistent \ {s}
    /\ sessions' = sessions \ {s}
    /\ victims' = victims \cup {d \in Engines \ {e} : stage[d] \in Running /\ run[d] = s}
    /\ UNCHANGED unkilled

(* ... which may fail, with a warning.                                     *)
KillFails(s) ==
    /\ Fault
    /\ unkilled' = unkilled \cup {s}
    /\ UNCHANGED << servers, persistent, sessions, victims >>

Close(e) == open' = [open EXCEPT ![e] = {}]

(* A start that fails before a tmux client exists closes what it opened.   *)
Refuse(e) ==
    /\ GotoStage(e, "refused")
    /\ Close(e)
    /\ UNCHANGED << ids, owned, tmux, lck, anchored, crashes >>

----------------------------------------------------------------------------

(* Engine.Run: init goes straight to initCommon.                           *)
RunStarts(e) ==
    /\ stage[e] = "idle"
    /\ GotoStage(e, "store")
    /\ UNCHANGED << ids, owned, open, tmux, lck, anchored, crashes, faults >>

(* Engine.Resume: verifyEventLogParseable refuses a log without a first    *)
(* record (ErrResumeNoEventLog); a missing ledger is a fault.              *)
ResumeStarts(e) ==
    /\ stage[e] = "idle"
    /\ \/ /\ anchored
          /\ GotoStage(e, "holder")
          /\ UNCHANGED << ids, owned, open, tmux, lck, anchored, crashes, faults >>
       \/ ~anchored /\ Refuse(e) /\ UNCHANGED faults
       \/ anchored /\ Fault /\ Refuse(e)

TakesOver(e) == lockFile.run # None

RecoverRunIDIgnoringStale(e) ==
    /\ stage[e] = "holder"
    /\ \/ Unwritten /\ Refuse(e)
       \/ /\ ~Unwritten
          /\ run' = [run EXCEPT ![e] = IF TakesOver(e) /\ ~stale THEN lockFile.run ELSE @]
          /\ seen' = [seen EXCEPT ![e] = lockFile.run]
          /\ GotoStage(e, "store")
          /\ UNCHANGED << owned, open, tmux, lck, anchored, crashes >>
    /\ UNCHANGED faults

(* ReadHolder: the RunID of the lock file, fresh or stale, replaces the    *)
(* generated one; a file that does not parse ends the resume               *)
(* (ErrCorruptLock).                                                       *)
RecoverRunID(e) ==
    /\ stage[e] = "holder"
    /\ \/ Unwritten /\ Refuse(e)
       \/ /\ ~Unwritten
          /\ run' = [run EXCEPT ![e] = IF TakesOver(e) THEN lockFile.run ELSE @]
          /\ seen' = [seen EXCEPT ![e] = lockFile.run]
          /\ GotoStage(e, "store")
          /\ UNCHANGED << owned, open, tmux, lck, anchored, crashes >>
    /\ UNCHANGED faults

OpenStore(e) ==
    /\ stage[e] = "store"
    /\ \/ /\ open' = [open EXCEPT ![e] = {"store"}]
          /\ GotoStage(e, "log")
          /\ UNCHANGED << ids, owned, tmux, lck, anchored, crashes, faults >>
       \/ Fault /\ Refuse(e)

OpenLogLeaksStore(e) ==
    /\ stage[e] = "log"
    /\ \/ /\ open' = [open EXCEPT ![e] = @ \cup {"log"}]
          /\ GotoStage(e, "probe")
          /\ UNCHANGED faults
       \/ Fault /\ GotoStage(e, "refused") /\ UNCHANGED open
    /\ UNCHANGED << ids, owned, tmux, lck, anchored, crashes >>

(* NewEventLog, with telemetry attached.                                   *)
OpenLog(e) ==
    /\ stage[e] = "log"
    /\ \/ /\ open' = [open EXCEPT ![e] = @ \cup {"log"}]
          /\ GotoStage(e, "probe")
          /\ UNCHANGED << ids, owned, tmux, lck, anchored, crashes, faults >>
       \/ Fault /\ Refuse(e)

(* StartServer probes the socket: a server that answers is joined, and     *)
(* owned stays FALSE.                                                      *)
ProbeServer(e) ==
    /\ stage[e] = "probe"
    /\ \/ /\ GotoStage(e, IF run[e] \in servers THEN "lockdir" ELSE "create")
          /\ UNCHANGED << ids, owned, open, tmux, lck, anchored, crashes, faults >>
       \/ Fault /\ Refuse(e)

(* StartServer creates its bootstrap session, and the server with it.  If  *)
(* another engine did so since the probe, the session name is taken and    *)
(* tmux fails as for any other reason: kill-server cleans up.              *)
CreateServer(e) ==
    /\ stage[e] = "create"
    /\ \/ /\ run[e] \notin persistent
          /\ servers' = servers \cup {run[e]}
          /\ persistent' = persistent \cup {run[e]}
          /\ owned' = owned \cup {e}
          /\ GotoStage(e, "lockdir")
          /\ UNCHANGED << ids, open, sessions, victims, unkilled, lck, anchored, crashes,
                          faults >>
       \/ /\ IF run[e] \in persistent THEN UNCHANGED faults ELSE Fault
          /\ KillServer(e, run[e])
          /\ GotoStage(e, "refused") /\ Close(e)
          /\ UNCHANGED << ids, owned, lck, anchored, crashes >>

(* os.MkdirAll of the lock's directory; a failure runs the plain Cleanup,  *)
(* which kills the server whether it was created or joined.                *)
MakeLockDir(e) ==
    /\ stage[e] = "lockdir"
    /\ \/ /\ GotoStage(e, "lock")
          /\ UNCHANGED << ids, owned, open, tmux, lck, anchored, crashes, faults >>
       \/ /\ Fault
          /\ KillServer(e, run[e])
          /\ GotoStage(e, "refused") /\ Close(e)
          /\ UNCHANGED << ids, owned, lck, anchored, crashes >>

----------------------------------------------------------------------------
(* Acquire *)

(* tryCreate: O_CREATE|O_EXCL makes an empty file, or finds one.           *)
LockCreate(e) ==
    /\ stage[e] = "lock"
    /\ \/ /\ lockFile = NoLock
          /\ lockFile' = [engine |-> e, run |-> None]
          /\ GotoStage(e, "write")
       \/ lockFile # NoLock /\ UNCHANGED lockFile /\ GotoStage(e, "read")
    /\ UNCHANGED << ids, owned, open, tmux, stale, attempts, removed, anchored,
                    crashes, faults >>

(* tryCreate: the content goes to the file that was opened, which may no   *)
(* longer be the one under the lock's name.  A failing close leaves the    *)
(* content there.                                                          *)
LockWrite(e) ==
    /\ stage[e] = "write"
    /\ lockFile' = IF lockFile.engine = e THEN [engine |-> e, run |-> run[e]] ELSE lockFile
    /\ removed' = [removed EXCEPT ![e] = @ \ {seen[e]}]
    /\ \/ GotoStage(e, "reconcile") /\ UNCHANGED faults
       \/ Fault /\ GotoStage(e, "failed")
    /\ UNCHANGED << ids, owned, open, tmux, stale, attempts, anchored, crashes >>

(* A failing write removes whatever is under the lock's name, or tries to. *)
LockWriteFails(e) ==
    /\ stage[e] = "write"
    /\ Fault
    /\ \/ lockFile' = NoLock /\ stale' = FALSE
       \/ UNCHANGED << lockFile, stale >>
    /\ GotoStage(e, "failed")
    /\ UNCHANGED << ids, owned, open, tmux, attempts, removed, anchored, crashes >>

(* continue: the next attempt, after a sleep, or none is left.             *)
TryAgain(e) ==
    IF attempts[e] < LockRetries
    THEN attempts' = [attempts EXCEPT ![e] = @ + 1] /\ GotoStage(e, "lock")
    ELSE UNCHANGED attempts /\ GotoStage(e, "failed")

(* The file exists: gone by now, unparsable, stale, or somebody's          *)
(* (ErrLockContention).                                                    *)
LockRead(e) ==
    /\ stage[e] = "read"
    /\ \/ lockFile = NoLock /\ TryAgain(e)
       \/ /\ lockFile # NoLock
          /\ GotoStage(e, IF Unwritten \/ stale THEN "remove" ELSE "failed")
          /\ UNCHANGED attempts
    /\ UNCHANGED << ids, owned, open, tmux, lockFile, stale, removed, anchored,
                    crashes, faults >>

(* os.Remove of the path; a file that is gone is fine.                     *)
LockRemove(e) ==
    /\ stage[e] = "remove"
    /\ lockFile' = NoLock /\ stale' = FALSE
    /\ removed' = [removed EXCEPT ![e] = @ \cup ({lockFile.run} \ {None})]
    /\ TryAgain(e)
    /\ UNCHANGED << ids, owned, open, tmux, anchored, crashes, faults >>

(* The open, the read or the remove fails with anything else.              *)
LockCallFails(e) ==
    /\ stage[e] \in {"lock", "read", "remove"}
    /\ Fault
    /\ GotoStage(e, "failed")
    /\ UNCHANGED << ids, owned, open, tmux, lck, anchored, crashes >>

AcquireFailsKills(e) ==
    /\ stage[e] = "failed"
    /\ KillServer(e, run[e])
    /\ GotoStage(e, "refused") /\ Close(e)
    /\ UNCHANGED << ids, owned, lck, anchored, crashes, faults >>

AcquireFailsReleases(e) ==
    /\ stage[e] = "failed"
    /\ IF e \in owned THEN KillServer(e, run[e]) ELSE UNCHANGED tmux
    /\ lockFile' = NoLock /\ stale' = FALSE
    /\ GotoStage(e, "refused") /\ Close(e)
    /\ UNCHANGED << ids, owned, attempts, removed, anchored, crashes, faults >>

(* cleanupAfterFailedAcquire: only a server this engine created is killed, *)
(* and the lock file is left alone.                                        *)
AcquireFails(e) ==
    /\ stage[e] = "failed"
    /\ \/ e \in owned /\ KillServer(e, run[e]) /\ UNCHANGED faults
       \/ e \in owned /\ KillFails(run[e])
       \/ e \notin owned /\ UNCHANGED << tmux, faults >>
    /\ GotoStage(e, "refused") /\ Close(e)
    /\ UNCHANGED << ids, owned, lck, anchored, crashes >>

----------------------------------------------------------------------------

(* Reconcile (Resume only) and buildDispatchAndWatchdog; after a failure,  *)
(* as after a failed lifecycle_started, the plain Cleanup.                 *)
Reconciles(e) ==
    /\ stage[e] = "reconcile"
    /\ \/ GotoStage(e, "started") /\ UNCHANGED faults
       \/ Fault /\ GotoStage(e, "kill")
    /\ UNCHANGED << ids, owned, open, tmux, lck, anchored, crashes >>

(* emitLifecycleStarted                                                    *)
EmitsStarted(e) ==
    /\ stage[e] = "started"
    /\ \/ GotoStage(e, "running") /\ anchored' = TRUE /\ UNCHANGED faults
       \/ Fault /\ GotoStage(e, "kill") /\ UNCHANGED anchored
    /\ UNCHANGED << ids, owned, open, tmux, lck, crashes >>

(* Refresh, in every tick: a lock that is gone, does not parse or has      *)
(* another RunID ends the lifecycle.                                       *)
RefreshReads(e) ==
    /\ stage[e] = "running"
    /\ GotoStage(e, IF lockFile.run = run[e] THEN "refresh" ELSE "kill")
    /\ UNCHANGED << ids, owned, open, tmux, lck, anchored, crashes, faults >>

(* atomicWriteJSON renames a new file over the lock's name.                *)
RefreshWrites(e) ==
    /\ stage[e] = "refresh"
    /\ lockFile' = [engine |-> e, run |-> run[e]]
    /\ stale' = FALSE
    /\ GotoStage(e, "running")
    /\ UNCHANGED << ids, owned, open, tmux, attempts, removed, anchored, crashes, faults >>

(* A session is created; tmux starts a plain server when none runs.        *)
Spawn(e) ==
    /\ stage[e] \in Running
    /\ sessions' = sessions \cup {run[e]}
    /\ servers' = servers \cup {run[e]}
    /\ UNCHANGED << stage, ids, owned, open, persistent, victims, unkilled, lck,
                    anchored, crashes, faults >>

(* The agents of a socket all exit; without exit-empty off the server goes *)
(* with them.                                                              *)
AgentsExit(s) ==
    /\ s \in sessions
    /\ sessions' = sessions \ {s}
    /\ servers' = IF s \in persistent THEN servers ELSE servers \ {s}
    /\ UNCHANGED << stage, ids, owned, open, persistent, victims, unkilled, lck,
                    anchored, crashes, faults >>

(* The lifecycle ends (completed, aborted, interrupted or failed, a failed *)
(* Refresh included).                                                      *)
LifecycleEnds(e) ==
    /\ stage[e] \in Running
    /\ GotoStage(e, "kill")
    /\ UNCHANGED << ids, owned, open, tmux, lck, anchored, crashes, faults >>

(* Cleanup: kill the server, release the lock, close log and store.        *)
CleanupKill(e) ==
    /\ stage[e] = "kill"
    /\ \/ KillServer(e, run[e]) /\ UNCHANGED faults
       \/ KillFails(run[e])
    /\ GotoStage(e, "release")
    /\ UNCHANGED << ids, owned, open, lck, anchored, crashes >>

(* Release: os.Remove of the path, whoever created it; its failure is a    *)
(* warning.                                                                *)
CleanupRelease(e) ==
    /\ stage[e] = "release"
    /\ \/ lockFile' = NoLock /\ stale' = FALSE /\ UNCHANGED faults
       \/ Fault /\ UNCHANGED << lockFile, stale >>
    /\ GotoStage(e, "ended") /\ Close(e)
    /\ UNCHANGED << ids, owned, tmux, attempts, removed, anchored, crashes >>

----------------------------------------------------------------------------

(* A process dies: the operating system closes its files, its tmux server  *)
(* and its lock file stay behind.                                          *)
EngineDies(e) ==
    /\ crashes < MaxCrashes
    /\ stage[e] \in Starting \cup Running \cup Stopping
    /\ crashes' = crashes + 1
    /\ GotoStage(e, "crashed") /\ Close(e)
    /\ UNCHANGED << ids, owned, tmux, lck, anchored, faults >>

(* Nobody refreshes a lock file that was left behind.                      *)
LockGoesStale ==
    /\ lockFile # NoLock /\ ~stale /\ stage[lockFile.engine] \in Finished
    /\ stale' = TRUE
    /\ UNCHANGED << stage, ids, owned, open, tmux, lockFile, attempts, removed,
                    anchored, crashes, faults >>

(* The machine restarts: every server is gone.                             *)
Reboot ==
    /\ crashes < MaxCrashes /\ servers # {}
    /\ \A e \in Engines : stage[e] \in Finished \cup {"idle"}
    /\ crashes' = crashes + 1
    /\ servers' = {} /\ persistent' = {} /\ sessions' = {}
    /\ UNCHANGED << stage, ids, owned, open, victims, unkilled, lck, anchored, faults >>

Step(e) ==
    \/ RunStarts(e) \/ ResumeStarts(e) \/ RecoverRunID(e) \/ OpenStore(e) \/ OpenLog(e)
    \/ ProbeServer(e) \/ CreateServer(e) \/ MakeLockDir(e)
    \/ LockCreate(e) \/ LockWrite(e) \/ LockWriteFails(e) \/ LockRead(e) \/ LockRemove(e)
    \/ LockCallFails(e) \/ AcquireFails(e)
    \/ Reconciles(e) \/ EmitsStarted(e) \/ RefreshReads(e) \/ RefreshWrites(e) \/ Spawn(e)
    \/ LifecycleEnds(e) \/ CleanupKill(e) \/ CleanupRelease(e) \/ EngineDies(e)

Observe ==
    /\ lost' = lost \cup {e \in Engines : stage'[e] \in HasLock /\ lockFile'.engine # e}
    /\ overlapped' = (overlapped \/ \E d, e \in Engines : d # e /\ {stage'[d], stage'[e]} \subseteq Locking)

EsNext ==
    /\ \/ \E e \in Engines : Step(e)
       \/ \E s \in Engines : AgentsExit(s)
       \/ LockGoesStale
       \/ Reboot
    /\ Observe

EsSpec == EsInit /\ [][EsNext]_esVars

----------------------------------------------------------------------------

EsTypeOK ==
    /\ stage \in [Engines -> Starting \cup Running \cup Stopping \cup Finished \cup {"idle"}]
    /\ run \in [Engines -> Engines]
    /\ owned \subseteq Engines
    /\ open \in [Engines -> SUBSET {"store", "log"}]
    /\ persistent \subseteq servers /\ sessions \subseteq servers
    /\ servers \subseteq Engines
    /\ lockFile \in [engine : Engines, run : Engines \cup {None}] \cup {NoLock}
    /\ victims \subseteq Engines
    /\ seen \in [Engines -> Engines \cup {None}]
    /\ removed \in [Engines -> SUBSET Engines]

(* A start that is refused leaves no store and no log open and no server   *)
(* of its own running: initCommon and cleanupAfterFailedAcquire close      *)
(* everything on every error path (a kill-server that fails excepted).     *)
RefusedHoldsNothing ==
    \A e \in Engines : stage[e] = "refused" =>
        /\ open[e] = {}
        /\ e \in owned /\ run[e] \in servers \ unkilled =>
              \E d \in Engines \ {e} : run[d] = run[e] /\ stage[d] # "idle"

(* As long as no two processes are inside Acquire at the same time, the    *)
(* lock file under the path is that of the one process that holds it: a    *)
(* start that finds a lock stale or half-written, one that fails or is     *)
(* refused, a Refresh and a Release of others never take it away.          *)
LockKept ==
    ~overlapped => \A e \in Engines : stage[e] \in HasLock => lockFile.engine = e

(* No engine kills the tmux server of another one that is running          *)
(* (BVV-ERR-08), as long as no system call of a start fails, nobody loses  *)
(* its lock file to another (see LockKept) and no RunID is taken over by   *)
(* two resumes: fresh runs and a resume, racing with each other and with   *)
(* the holder, leave its sessions alone.                                   *)
HolderUndisturbed ==
    /\ faults = 0 /\ lost = {}
    /\ \A d, e \in Engines : run[d] = run[e] /\ run[d] # d /\ run[e] # e => d = e
    => victims = {}

(* Agent sessions that outlive their orchestrator stay reachable           *)
(* (BVV-ERR-08): their socket is the one a resume reads from the lock      *)
(* file, however often it is resumed and dies again, as long as nobody     *)
(* loses its lock file to another and Cleanup's kill-server succeeds.      *)
(* The exceptions are a lock file that                                     *)
(* was removed by an engine that had not read it when it started (a fresh  *)
(* run, or a resume that found another lock or none), and one that was     *)
(* removed by an engine that has not written its own instead: Acquire      *)
(* removes a stale lock first, and may die or be refused before it writes. *)
SessionsReachable ==
    lost = {} => \A s \in sessions \ unkilled : lockFile.run = s \/ \E e \in Engines : s \in removed[e]
=============================================================================
