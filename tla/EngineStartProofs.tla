------------------------- MODULE EngineStartProofs -------------------------
(***************************************************************************)
(* Any number of orchestrator processes for one branch, started with       *)
(* `wonka run` or `wonka resume`, crashing and failing at any call.        *)
(*                                                                         *)
(* Three facts carry the rest.  Origin: a RunID that is in the lock file   *)
(* or was taken over belongs to a process that has been past the write of  *)
(* its lock.  LeftBehind: a lock file that is stale or unwritten belongs   *)
(* to a process that is over, or is just writing it.  Kept: as long as no  *)
(* two processes are inside Acquire together, the file that a process is   *)
(* about to remove is nobody's.                                            *)
(***************************************************************************)
EXTENDS EngineStart, TLAPS

Stages == Starting \cup Running \cup Stopping \cup Finished \cup {"idle"}

\* The lock has been written.
Wrote == HasLock \ {"write"}

\* Past the write of the lock, or dead; a failing close brings one back.
Past == Wrote \cup {"ended", "crashed"}
PastOrFailed == Past \cup {"failed", "refused"}
PastWrite == IF faults = 0 THEN Past ELSE PastOrFailed

\* Before the tmux server.
Early == {"idle", "holder", "store", "log", "probe", "create"}

LeftBehind ==
  /\ stale => lockFile # NoLock /\ stage[lockFile.engine] \in Finished
  /\ Unwritten => stage[lockFile.engine] \in {"write", "failed"} \cup Finished

\* The process whose generated RunID is in the lock file or in use by another
\* process.
Origin ==
  /\ lockFile.run # None => stage[lockFile.run] \in PastWrite /\ run[lockFile.run] = lockFile.run
  /\ \A e \in Engines : run[e] # e => stage[run[e]] \in PastWrite /\ run[run[e]] = run[e]
  /\ \A e \in Engines : stage[e] \in {"idle", "holder"} => run[e] = e

\* An engine owns no server before it creates one, and nobody else creates one
\* under a RunID that its process has not brought to the lock yet.
NoServerYet ==
  \A e \in Engines : stage[e] \in Early => e \notin owned /\ e \notin servers

\* Who holds the lock without its file is recorded, and otherwise the file has
\* the RunID of its holder.
Recorded ==
  /\ lost \subseteq Engines
  /\ \A e \in Engines : stage[e] \in HasLock => lockFile.engine = e \/ e \in lost
  /\ lost = {} => \A e \in Engines : stage[e] \in Wrote => lockFile.run = run[e]

StartInv ==
  EsTypeOK /\ faults \in Nat /\ LeftBehind /\ Origin /\ NoServerYet /\ Recorded

-----------------------------------------------------------------------------

LEMMA NoLockFacts ==
  /\ NoLock.engine = None /\ NoLock.run = None
  /\ \A e \in Engines : \A r : [engine |-> e, run |-> r] # NoLock
                               /\ [engine |-> e, run |-> r].engine = e
                               /\ [engine |-> e, run |-> r].run = r
  BY StartAssumption DEF NoLock, None

LEMMA LockFileFacts ==
  ASSUME EsTypeOK
  PROVE  /\ lockFile.engine \in Engines \cup {None} /\ lockFile.run \in Engines \cup {None}
         /\ lockFile # NoLock => lockFile.engine \in Engines
         /\ lockFile.engine \in Engines => lockFile # NoLock
         /\ lockFile.run # None => lockFile.run \in Engines /\ lockFile # NoLock
  BY NoLockFacts, StartAssumption DEF EsTypeOK

LEMMA GotoFacts ==
  ASSUME EsTypeOK, NEW e \in Engines, NEW p \in Stages, GotoStage(e, p)
  PROVE  /\ stage' \in [Engines -> Stages]
         /\ stage'[e] = p
         /\ \A d \in Engines : d # e => stage'[d] = stage[d]
  BY DEF EsTypeOK, GotoStage, Stages

LEMMA CloseOpen ==
  ASSUME EsTypeOK, NEW e \in Engines, Close(e)
  PROVE  open' \in [Engines -> SUBSET {"store", "log"}] /\ open'[e] = {}
         /\ \A d \in Engines : d # e => open'[d] = open[d]
  BY DEF EsTypeOK, Close

LEMMA KillFacts ==
  ASSUME EsTypeOK, faults \in Nat, NEW e \in Engines, NEW s, KillServer(e, s) \/ KillFails(s)
  PROVE  /\ servers' \subseteq servers /\ sessions' \subseteq sessions
         /\ KillServer(e, s) => s \notin servers' /\ s \notin sessions'
         /\ KillFails(s) => s \in unkilled' /\ faults' # 0
         /\ persistent' \subseteq servers' /\ sessions' \subseteq servers'
         /\ servers' \subseteq Engines
         /\ victims' \subseteq Engines
         /\ unkilled \subseteq unkilled'
  BY DEF EsTypeOK, KillServer, KillFails, Fault

LEMMA StartInit == EsInit => StartInv
  <1> SUFFICES ASSUME EsInit PROVE StartInv
    OBVIOUS
  <1>1. EsTypeOK
    BY DEF EsInit, EsTypeOK
  <1>2. LeftBehind /\ Origin /\ NoServerYet /\ Recorded
    BY NoLockFacts
    DEF EsInit, LeftBehind, Unwritten, Origin, NoServerYet, Recorded, HasLock, Wrote, Running, Stopping
  <1>3. QED
    BY <1>1, <1>2 DEF EsInit, StartInv

-----------------------------------------------------------------------------
(* The steps by what they change *)

\* Steps of an engine that leave the lock file, the RunIDs and the ownership alone.
Plain(e) ==
  \/ RunStarts(e) \/ ResumeStarts(e) \/ (RecoverRunID(e) /\ Refuse(e)) \/ OpenStore(e)
  \/ OpenLog(e) \/ ProbeServer(e) \/ (CreateServer(e) /\ KillServer(e, run[e])) \/ MakeLockDir(e)
  \/ (LockCreate(e) /\ lockFile # NoLock)
  \/ LockRead(e) \/ LockCallFails(e) \/ AcquireFails(e) \/ Reconciles(e) \/ EmitsStarted(e)
  \/ RefreshReads(e) \/ LifecycleEnds(e) \/ CleanupKill(e) \/ EngineDies(e)

\* ReadHolder succeeds.
Takes(e) ==
  /\ stage[e] = "holder" /\ ~Unwritten
  /\ run' = [run EXCEPT ![e] = IF lockFile.run # None THEN lockFile.run ELSE @]
  /\ seen' = [seen EXCEPT ![e] = lockFile.run]
  /\ GotoStage(e, "store")
  /\ UNCHANGED << owned, open, tmux, lck, anchored, crashes, faults >>

\* A tmux server is created.
Creates(e) ==
  /\ stage[e] = "create" /\ run[e] \notin persistent
  /\ servers' = servers \cup {run[e]}
  /\ persistent' = persistent \cup {run[e]}
  /\ owned' = owned \cup {e}
  /\ GotoStage(e, "lockdir")
  /\ UNCHANGED << ids, open, sessions, victims, unkilled, lck, anchored, crashes, faults >>

\* Steps that change the lock file.
Locks(e) ==
  \/ LockCreate(e) /\ lockFile = NoLock
  \/ LockWrite(e) \/ LockWriteFails(e) \/ LockRemove(e) \/ RefreshWrites(e) \/ CleanupRelease(e)

\* Steps of no engine, and the creation of sessions.
Outside ==
  \/ \E e \in Engines : Spawn(e)
  \/ \E s \in Engines : AgentsExit(s)
  \/ LockGoesStale \/ Reboot

LEMMA StepKinds ==
  ASSUME EsNext
  PROVE  /\ Observe
         /\ \/ \E e \in Engines : \/ Plain(e) \/ Takes(e) \/ Creates(e) \/ Locks(e)
            \/ Outside
  <1>1. ASSUME NEW e \in Engines, RecoverRunID(e) PROVE Plain(e) \/ Takes(e)
    BY <1>1 DEF RecoverRunID, TakesOver, Plain, Takes
  <1>2. ASSUME NEW e \in Engines, CreateServer(e) PROVE Plain(e) \/ Creates(e)
    BY <1>2 DEF CreateServer, Plain, Creates
  <1>3. ASSUME NEW e \in Engines, Step(e)
        PROVE  Plain(e) \/ Takes(e) \/ Creates(e) \/ Locks(e) \/ Outside
    BY <1>1, <1>2, <1>3 DEF Step, LockCreate, Plain, Locks, Outside
  <1>4. QED
    BY <1>3 DEF EsNext, Outside

\* Where a plain step may lead.
Edge(a, p) ==
  /\ p \in Stages /\ a \notin Finished
  /\ p \in HasLock => p \in Wrote /\ a \in Wrote
  /\ a \in Past => p \in Past
  /\ a \in PastOrFailed => p \in PastOrFailed
  /\ a \in {"write", "failed"} => p \in Finished
  /\ p \in Early => a \in Early
  /\ p \in {"idle", "holder"} => a = "idle"
  /\ p \in Locking => a \in Locking \cup {"lockdir"}

LEMMA PlainSteps ==
  ASSUME EsTypeOK, faults \in Nat, NEW e \in Engines, Plain(e)
  PROVE  /\ \E p \in Stages : GotoStage(e, p) /\ Edge(stage[e], p)
                              /\ (p = "remove" => stage[e] = "read" /\ (Unwritten \/ stale))
         /\ UNCHANGED << run, owned, lockFile, stale, seen, removed >>
         /\ servers' \subseteq servers /\ sessions' \subseteq sessions
         /\ faults' = faults \/ Fault
  <1> USE DEF tmux, lck, ids
  <1> DEFINE Named(S) == \E p \in S : GotoStage(e, p)
             Rest == /\ UNCHANGED << run, owned, lockFile, stale, seen, removed >>
                     /\ servers' \subseteq servers /\ sessions' \subseteq sessions
                     /\ faults' = faults \/ Fault
  <1> USE DEF Edge, Stages, Starting, Locking, Running, Stopping, Finished, HasLock, Wrote, Past,
              PastOrFailed, Early
  <1>0. ASSUME KillServer(e, run[e]) \/ KillFails(run[e])
        PROVE  servers' \subseteq servers /\ sessions' \subseteq sessions
    BY <1>0, KillFacts
  <1>1. CASE RunStarts(e) \/ ResumeStarts(e) \/ (RecoverRunID(e) /\ Refuse(e))
    <2>1. Rest
      BY <1>1 DEF RunStarts, ResumeStarts, RecoverRunID, Refuse
    <2>2. stage[e] \in {"idle", "holder"} /\ Named({"store", "holder", "refused"})
          /\ (stage[e] = "holder" => Named({"refused"}))
      BY <1>1 DEF RunStarts, ResumeStarts, RecoverRunID, Refuse
    <2>3. QED
      BY <2>1, <2>2
  <1>2. CASE OpenStore(e) \/ OpenLog(e) \/ ProbeServer(e)
    <2>1. Rest
      BY <1>2 DEF OpenStore, OpenLog, ProbeServer, Refuse
    <2>2. stage[e] \in {"store", "log", "probe"}
          /\ Named({"log", "probe", "lockdir", "create", "refused"})
      BY <1>2 DEF OpenStore, OpenLog, ProbeServer, Refuse
    <2>3. QED
      BY <2>1, <2>2
  <1>3. CASE (CreateServer(e) /\ KillServer(e, run[e])) \/ MakeLockDir(e)
    <2>1. stage[e] \in {"create", "lockdir"} /\ Named({"refused", "lock", "lockdir"})
          /\ (stage[e] = "create" => Named({"refused", "lockdir"}))
      BY <1>3 DEF CreateServer, MakeLockDir
    <2>2. CASE CreateServer(e) /\ KillServer(e, run[e])
      <3>1. servers' = servers \ {run[e]} /\ (servers' = servers \cup {run[e]} => FALSE)
        BY <2>2 DEF KillServer
      <3>2. /\ GotoStage(e, "refused")
            /\ UNCHANGED << ids, owned, lck >>
            /\ faults' = faults \/ Fault
        BY <2>2, <3>1 DEF CreateServer
      <3>3. QED
        BY <1>0, <2>2, <3>2 DEF CreateServer
    <2>3. CASE MakeLockDir(e)
      BY <1>0, <2>1, <2>3 DEF MakeLockDir
    <2>4. QED
      BY <1>3, <2>2, <2>3
  <1>4. CASE (LockCreate(e) /\ lockFile # NoLock) \/ LockRead(e) \/ LockCallFails(e)
    <2>1. Rest
      BY <1>4 DEF LockCreate, LockRead, LockCallFails
    <2>2. stage[e] \in {"lock", "read", "remove"}
      BY <1>4 DEF LockCreate, LockRead, LockCallFails
    <2>3. Named({"read", "lock", "failed"}) \/ (GotoStage(e, "remove") /\ stage[e] = "read" /\ (Unwritten \/ stale))
      BY <1>4 DEF LockCreate, LockRead, LockCallFails, TryAgain
    <2>4. QED
      BY <2>1, <2>2, <2>3
  <1>5. CASE AcquireFails(e) \/ CleanupKill(e)
    <2>1. Rest
      BY <1>0, <1>5 DEF AcquireFails, CleanupKill, KillFails
    <2>2. (stage[e] = "failed" /\ GotoStage(e, "refused")) \/ (stage[e] = "kill" /\ GotoStage(e, "release"))
      BY <1>5 DEF AcquireFails, CleanupKill
    <2>3. QED
      BY <2>1, <2>2
  <1>6. CASE Reconciles(e) \/ EmitsStarted(e) \/ RefreshReads(e) \/ LifecycleEnds(e)
    <2>1. Rest
      BY <1>6 DEF Reconciles, EmitsStarted, RefreshReads, LifecycleEnds
    <2>2. stage[e] \in {"reconcile", "started", "running", "refresh"}
          /\ Named({"started", "kill", "running", "refresh"})
      BY <1>6 DEF Reconciles, EmitsStarted, RefreshReads, LifecycleEnds
    <2>3. QED
      BY <2>1, <2>2
  <1>7. CASE EngineDies(e)
    <2>1. Rest
      BY <1>7 DEF EngineDies
    <2>2. stage[e] \notin Finished /\ GotoStage(e, "crashed")
      BY <1>7 DEF EngineDies
    <2>3. QED
      BY <2>1, <2>2
  <1>8. QED
    BY <1>1, <1>2, <1>3, <1>4, <1>5, <1>6, <1>7 DEF Plain

\* The same for the steps that change the lock file.
LEMMA LockSteps ==
  ASSUME EsTypeOK, faults \in Nat, NEW e \in Engines, Locks(e)
  PROVE  /\ \/ /\ stage[e] = "lock" /\ GotoStage(e, "write") /\ lockFile = NoLock
               /\ lockFile' = [engine |-> e, run |-> None] /\ stale' = stale /\ removed' = removed
            \/ /\ stage[e] = "write"
               /\ GotoStage(e, "reconcile") \/ (GotoStage(e, "failed") /\ Fault)
               /\ lockFile' = IF lockFile.engine = e THEN [engine |-> e, run |-> run[e]] ELSE lockFile
               /\ stale' = stale /\ removed' = [removed EXCEPT ![e] = @ \ {seen[e]}]
            \/ /\ stage[e] = "write" /\ GotoStage(e, "failed") /\ Fault /\ removed' = removed
               /\ (lockFile' = NoLock /\ ~stale') \/ UNCHANGED << lockFile, stale >>
            \/ /\ stage[e] = "remove"
               /\ GotoStage(e, "lock") \/ GotoStage(e, "failed")
               /\ lockFile' = NoLock /\ ~stale'
               /\ removed' = [removed EXCEPT ![e] = @ \cup ({lockFile.run} \ {None})]
            \/ /\ stage[e] = "refresh" /\ GotoStage(e, "running") /\ removed' = removed
               /\ lockFile' = [engine |-> e, run |-> run[e]] /\ ~stale'
            \/ /\ stage[e] = "release" /\ GotoStage(e, "ended") /\ removed' = removed
               /\ (lockFile' = NoLock /\ ~stale') \/ UNCHANGED << lockFile, stale >>
         /\ UNCHANGED << run, owned, seen, tmux >>
         /\ faults' = faults \/ Fault
  <1> USE DEF tmux, lck, ids
  <1>1. CASE LockCreate(e) /\ lockFile = NoLock
    BY <1>1 DEF LockCreate
  <1>2. CASE LockWrite(e)
    BY <1>2 DEF LockWrite
  <1>3. CASE LockWriteFails(e)
    BY <1>3 DEF LockWriteFails
  <1>4. CASE LockRemove(e)
    BY <1>4 DEF LockRemove, TryAgain
  <1>5. CASE RefreshWrites(e)
    BY <1>5 DEF RefreshWrites
  <1>6. CASE CleanupRelease(e)
    BY <1>6 DEF CleanupRelease
  <1>7. QED
    BY <1>1, <1>2, <1>3, <1>4, <1>5, <1>6 DEF Locks

LEMMA OutsideSteps ==
  ASSUME Outside
  PROVE  /\ UNCHANGED << stage, run, owned, lockFile, seen, removed, victims, unkilled, open, faults >>
         /\ \/ \E e \in Engines : stage[e] \in Running /\ sessions' = sessions \cup {run[e]}
                                  /\ servers' = servers \cup {run[e]}
            \/ sessions' \subseteq sessions /\ servers' \subseteq servers
         /\ \/ stale' = stale
            \/ stale' /\ lockFile # NoLock /\ stage[lockFile.engine] \in Finished
  BY DEF Outside, Spawn, AgentsExit, LockGoesStale, Reboot, tmux, lck, ids

-----------------------------------------------------------------------------
(* Types *)

LEMMA OpenStep ==
  ASSUME EsTypeOK, NEW e \in Engines, Plain(e) \/ Takes(e) \/ Creates(e) \/ Locks(e)
  PROVE  open' \in [Engines -> SUBSET {"store", "log"}] /\ \A d \in Engines : d # e => open'[d] = open[d]
  <1>1. open' = open \/ Close(e) \/ open' = [open EXCEPT ![e] = {"store"}]
          \/ open' = [open EXCEPT ![e] = @ \cup {"log"}]
    <2>1. CASE Plain(e)
      BY <2>1 DEF Plain, RunStarts, ResumeStarts, Refuse, OpenStore, OpenLog, ProbeServer, CreateServer,
           MakeLockDir, LockCreate, LockRead, LockCallFails, AcquireFails, Reconciles, EmitsStarted,
           RefreshReads, LifecycleEnds, CleanupKill, EngineDies
    <2>2. CASE Takes(e) \/ Creates(e)
      BY <2>2 DEF Takes, Creates
    <2>3. CASE Locks(e)
      BY <2>3 DEF Locks, LockCreate, LockWrite, LockWriteFails, LockRemove, RefreshWrites, CleanupRelease
    <2>4. QED
      BY <2>1, <2>2, <2>3
  <1>2. QED
    BY <1>1, CloseOpen DEF EsTypeOK

LEMMA TmuxStep ==
  ASSUME EsTypeOK, faults \in Nat, NEW e \in Engines, Plain(e)
  PROVE  /\ persistent' \subseteq servers' /\ sessions' \subseteq servers'
         /\ servers' \subseteq Engines
         /\ victims' \subseteq Engines
         /\ unkilled \subseteq unkilled'
  <1>1. UNCHANGED tmux \/ KillServer(e, run[e]) \/ KillFails(run[e])
    BY DEF Plain, RunStarts, ResumeStarts, Refuse, OpenStore, OpenLog, ProbeServer, MakeLockDir,
           LockCreate, LockRead, LockCallFails, AcquireFails, Reconciles, EmitsStarted, RefreshReads,
           LifecycleEnds, CleanupKill, EngineDies
  <1>2. QED
    BY <1>1, KillFacts DEF EsTypeOK, tmux

LEMMA TypeStep ==
  ASSUME StartInv, EsNext
  PROVE  EsTypeOK' /\ faults' \in Nat
  <1>0. EsTypeOK /\ faults \in Nat
    BY DEF StartInv
  <1>1. ASSUME NEW e \in Engines, Plain(e) PROVE EsTypeOK' /\ faults' \in Nat
    <2>1. stage' \in [Engines -> Stages] /\ UNCHANGED << run, owned, lockFile, seen, removed >>
          /\ faults' \in Nat
      BY <1>0, <1>1, PlainSteps, GotoFacts DEF Fault
    <2>2. QED
      BY <1>0, <1>1, <2>1, OpenStep, TmuxStep DEF EsTypeOK, Stages
  <1>2. ASSUME NEW e \in Engines, Takes(e) PROVE EsTypeOK' /\ faults' \in Nat
    <2>1. stage' \in [Engines -> Stages] /\ faults' = faults
      BY <1>0, <1>2, GotoFacts DEF Takes, Stages, Starting
    <2>2. run' \in [Engines -> Engines] /\ seen' \in [Engines -> Engines \cup {None}]
      BY <1>0, <1>2, LockFileFacts DEF Takes, EsTypeOK
    <2>3. UNCHANGED << owned, open, tmux, lck >>
      BY <1>2 DEF Takes
    <2>4. QED
      BY <1>0, <2>1, <2>2, <2>3 DEF EsTypeOK, Stages, tmux, lck
  <1>3. ASSUME NEW e \in Engines, Creates(e) PROVE EsTypeOK' /\ faults' \in Nat
    <2>1. stage' \in [Engines -> Stages] /\ faults' = faults
      BY <1>0, <1>3, GotoFacts DEF Creates, Stages, Starting
    <2>2. QED
      BY <1>0, <1>3, <2>1 DEF Creates, EsTypeOK, Stages, lck, ids
  <1>4. ASSUME NEW e \in Engines, Locks(e) PROVE EsTypeOK' /\ faults' \in Nat
    <2>1. \E p \in Stages : GotoStage(e, p)
      BY <1>0, <1>4, LockSteps DEF Stages, Starting, Locking, Running, Stopping, Finished
    <2>2. stage' \in [Engines -> Stages]
      BY <1>0, <2>1, GotoFacts
    <2>3. lockFile' \in [engine : Engines, run : Engines \cup {None}] \cup {NoLock}
      <3>1. lockFile \in [engine : Engines, run : Engines \cup {None}] \cup {NoLock} /\ run[e] \in Engines
        BY <1>0 DEF EsTypeOK
      <3>2. lockFile' \in {lockFile, NoLock, [engine |-> e, run |-> None], [engine |-> e, run |-> run[e]]}
        BY <1>0, <1>4, LockSteps
      <3>3. QED
        BY <3>1, <3>2
    <2>4. removed' \in [Engines -> SUBSET Engines]
      <3>1. removed \in [Engines -> SUBSET Engines] /\ {lockFile.run} \ {None} \subseteq Engines
        BY <1>0, LockFileFacts DEF EsTypeOK
      <3>2. \/ removed' = removed \/ removed' = [removed EXCEPT ![e] = @ \ {seen[e]}]
            \/ removed' = [removed EXCEPT ![e] = @ \cup ({lockFile.run} \ {None})]
        BY <1>0, <1>4, LockSteps
      <3>3. QED
        BY <3>1, <3>2
    <2>5. UNCHANGED << run, owned, seen, tmux >> /\ faults' \in Nat
      BY <1>0, <1>4, LockSteps DEF Fault
    <2>6. QED
      BY <1>0, <1>4, <2>2, <2>3, <2>4, <2>5, OpenStep DEF EsTypeOK, Stages, tmux
  <1>5. CASE Outside
    <2>1. UNCHANGED << stage, run, owned, lockFile, seen, removed, victims, open, faults >>
      BY <1>5, OutsideSteps
    <2>2. persistent' \subseteq servers' /\ sessions' \subseteq servers' /\ servers' \subseteq Engines
      BY <1>0, <1>5 DEF Outside, Spawn, AgentsExit, LockGoesStale, Reboot, EsTypeOK, tmux
    <2>3. QED
      BY <1>0, <2>1, <2>2 DEF EsTypeOK
  <1>6. QED
    BY <1>1, <1>2, <1>3, <1>4, <1>5, StepKinds

-----------------------------------------------------------------------------
(* The lock and the sockets *)

LEMMA PlainPreserves ==
  ASSUME StartInv, NEW e \in Engines, Plain(e)
  PROVE  LeftBehind' /\ Origin' /\ NoServerYet'
  <1>0. EsTypeOK /\ faults \in Nat
    BY DEF StartInv
  <1>1. PICK p \in Stages : GotoStage(e, p) /\ Edge(stage[e], p)
    BY <1>0, PlainSteps
  <1>2. /\ stage'[e] = p
        /\ \A d \in Engines : d # e => stage'[d] = stage[d]
    BY <1>0, <1>1, GotoFacts
  <1>3. UNCHANGED << run, owned, lockFile, stale >> /\ servers' \subseteq servers
        /\ (faults' = faults \/ (faults' # 0))
    BY <1>0, PlainSteps DEF Fault
  <1>4. LeftBehind'
    <2>1. \A d \in Engines : stage[d] \in Finished => stage'[d] \in Finished
      BY <1>1, <1>2 DEF Edge
    <2>2. \A d \in Engines : stage[d] \in {"write", "failed"} \cup Finished
                             => stage'[d] \in {"write", "failed"} \cup Finished
      BY <1>1, <1>2 DEF Edge
    <2>3. QED
      BY <1>0, <1>3, <2>1, <2>2, LockFileFacts DEF StartInv, LeftBehind, Unwritten
  <1>5. Origin'
    <2>1. \A d \in Engines : stage[d] \in PastWrite => stage'[d] \in PastWrite'
      BY <1>1, <1>2, <1>3 DEF Edge, PastWrite, PastOrFailed
    <2>2. lockFile'.run # None => stage'[lockFile'.run] \in PastWrite' /\ run'[lockFile'.run] = lockFile'.run
      BY <1>0, <1>3, <2>1, LockFileFacts DEF StartInv, Origin
    <2>3. \A d \in Engines : run'[d] # d => stage'[run'[d]] \in PastWrite' /\ run'[run'[d]] = run'[d]
      BY <1>3, <2>1 DEF StartInv, Origin, EsTypeOK
    <2>4. \A d \in Engines : stage'[d] \in {"idle", "holder"} => run'[d] = d
      BY <1>1, <1>2, <1>3 DEF StartInv, Origin, Edge
    <2>5. QED
      BY <2>2, <2>3, <2>4 DEF Origin
  <1>6. NoServerYet'
    BY <1>1, <1>2, <1>3 DEF StartInv, NoServerYet, Edge
  <1>7. QED
    BY <1>4, <1>5, <1>6

\* Nobody uses the RunID of a process that has not been past Acquire.
LEMMA NotTaken ==
  ASSUME StartInv, NEW e \in Engines, stage[e] \in Early \cup {"lockdir"} \cup Locking
  PROVE  (\A d \in Engines : d # e => run[d] # e) /\ lockFile.run # e
  <1>1. stage[e] \notin PastWrite
    BY DEF PastWrite, PastOrFailed, Past, Wrote, HasLock, Running, Stopping, Early, Locking
  <1>2. QED
    BY <1>1, StartAssumption DEF StartInv, Origin

LEMMA TakePreserves ==
  ASSUME StartInv, NEW e \in Engines, Takes(e)
  PROVE  LeftBehind' /\ Origin' /\ NoServerYet'
  <1>1. /\ stage[e] = "holder" /\ GotoStage(e, "store")
        /\ run' = [run EXCEPT ![e] = IF lockFile.run # None THEN lockFile.run ELSE @]
        /\ UNCHANGED << owned, servers, lockFile, stale, faults >>
    BY DEF Takes, tmux, lck
  <1>2. /\ stage'[e] = "store"
        /\ \A d \in Engines : d # e => stage'[d] = stage[d] /\ run'[d] = run[d]
    BY <1>1, GotoFacts DEF StartInv, Stages, Starting, EsTypeOK
  <1>3. /\ run \in [Engines -> Engines] /\ run[e] = e
        /\ lockFile.run # None => lockFile.run \in Engines
    BY <1>1, LockFileFacts DEF StartInv, EsTypeOK, Origin
  <1>4. (\A d \in Engines : d # e => run[d] # e) /\ lockFile.run # e
    BY <1>1, NotTaken DEF Early
  <1>5. run'[e] = e \/ (lockFile.run # None /\ run'[e] = lockFile.run)
    BY <1>1, <1>3
  <1>6. LeftBehind'
    BY <1>1, <1>2, LockFileFacts DEF StartInv, LeftBehind, Unwritten, Finished
  <1>7. Origin'
    <2>1. \A d \in Engines : stage[d] \in PastWrite => d # e /\ stage'[d] \in PastWrite' /\ run'[d] = run[d]
      BY <1>1, <1>2 DEF PastWrite, PastOrFailed, Past, Wrote, HasLock, Running, Stopping
    <2>2. lockFile.run # None => stage[lockFile.run] \in PastWrite /\ run[lockFile.run] = lockFile.run
      BY DEF StartInv, Origin
    <2>3. \A d \in Engines : run[d] \in Engines
                             /\ (run[d] # d => stage[run[d]] \in PastWrite /\ run[run[d]] = run[d])
      BY <1>3 DEF StartInv, Origin
    <2>4. lockFile'.run # None => stage'[lockFile'.run] \in PastWrite' /\ run'[lockFile'.run] = lockFile'.run
      BY <1>1, <1>3, <2>1, <2>2
    <2>5. \A d \in Engines : run'[d] # d => stage'[run'[d]] \in PastWrite' /\ run'[run'[d]] = run'[d]
      BY <1>2, <1>3, <1>5, <2>1, <2>2, <2>3
    <2>6. \A d \in Engines : stage'[d] \in {"idle", "holder"} => run'[d] = d
      BY <1>2 DEF StartInv, Origin
    <2>7. QED
      BY <2>4, <2>5, <2>6 DEF Origin
  <1>8. NoServerYet'
    BY <1>1, <1>2 DEF StartInv, NoServerYet, Early
  <1>9. QED
    BY <1>6, <1>7, <1>8

\* A server comes up under a RunID that is past Acquire, or that of its creator.
LEMMA CreatePreserves ==
  ASSUME StartInv, NEW e \in Engines, Creates(e)
  PROVE  LeftBehind' /\ Origin' /\ NoServerYet'
  <1>1. /\ servers' = servers \cup {run[e]} /\ owned' = owned \cup {e}
        /\ stage[e] = "create" /\ GotoStage(e, "lockdir")
        /\ UNCHANGED << run, lockFile, stale, faults >>
    BY DEF Creates, lck, ids
  <1>2. stage'[e] = "lockdir" /\ \A d \in Engines : d # e => stage'[d] = stage[d]
    BY <1>1, GotoFacts DEF StartInv, Stages, Starting
  <1>3. LeftBehind'
    BY <1>1, <1>2, LockFileFacts DEF StartInv, LeftBehind, Unwritten, Finished
  <1>4. Origin'
    <2>1. \A d \in Engines : stage[d] \in PastWrite => stage'[d] \in PastWrite'
      BY <1>1, <1>2 DEF PastWrite, PastOrFailed, Past, Wrote, HasLock, Running, Stopping
    <2>2. lockFile'.run # None => stage'[lockFile'.run] \in PastWrite' /\ run'[lockFile'.run] = lockFile'.run
      BY <1>1, <2>1, LockFileFacts DEF StartInv, Origin
    <2>3. \A d \in Engines : run'[d] # d => stage'[run'[d]] \in PastWrite' /\ run'[run'[d]] = run'[d]
      BY <1>1, <2>1 DEF StartInv, Origin, EsTypeOK
    <2>4. \A d \in Engines : stage'[d] \in {"idle", "holder"} => run'[d] = d
      BY <1>1, <1>2 DEF StartInv, Origin
    <2>5. QED
      BY <2>2, <2>3, <2>4 DEF Origin
  <1>5. ASSUME NEW d \in Engines, stage'[d] \in Early PROVE d \notin owned' /\ d \notin servers'
    <2>1. d # e /\ stage[d] \in Early
      BY <1>2, <1>5 DEF Early
    <2>2. run[e] # d
      BY <2>1, NotTaken
    <2>3. QED
      BY <1>1, <2>1, <2>2 DEF StartInv, NoServerYet
  <1>6. QED
    BY <1>3, <1>4, <1>5 DEF NoServerYet

LEMMA LockPreserves ==
  ASSUME StartInv, NEW e \in Engines, Locks(e)
  PROVE  LeftBehind' /\ Origin' /\ NoServerYet'
  <1>0. EsTypeOK /\ faults \in Nat
    BY DEF StartInv
  <1>1. /\ UNCHANGED << run, owned, servers >>
        /\ faults' = faults \/ faults' # 0
    BY <1>0, LockSteps DEF tmux, Fault
  <1>2. PICK p \in Stages : /\ GotoStage(e, p)
                            /\ \/ stage[e] = "lock" /\ p = "write"
                               \/ stage[e] = "write" /\ p = "reconcile"
                               \/ stage[e] = "write" /\ p = "failed" /\ faults' # 0
                               \/ stage[e] = "remove" /\ p \in {"lock", "failed"}
                               \/ stage[e] = "refresh" /\ p = "running"
                               \/ stage[e] = "release" /\ p = "ended"
    BY <1>0, LockSteps DEF Stages, Starting, Locking, Running, Stopping, Finished, Fault
  <1>3. stage'[e] = p /\ \A d \in Engines : d # e => stage'[d] = stage[d]
    BY <1>0, <1>2, GotoFacts
  <1>4. \/ lockFile' = NoLock /\ ~stale'
        \/ lockFile' = lockFile /\ stale' = stale
        \/ /\ lockFile' = [engine |-> e, run |-> None] /\ stale' = stale /\ p = "write" /\ lockFile = NoLock
        \/ /\ lockFile' = [engine |-> e, run |-> run[e]] /\ ~stale' /\ stage[e] = "refresh"
        \/ /\ lockFile' = [engine |-> e, run |-> run[e]] /\ stale' = stale /\ stage[e] = "write"
           /\ lockFile.engine = e
    BY <1>0, <1>2, <1>3, LockSteps, GotoFacts DEF Stages, Starting, Locking, Running, Stopping, Finished
  <1>5. LeftBehind'
    <2>1. \A d \in Engines : stage[d] \in Finished => stage'[d] \in Finished
      BY <1>2, <1>3 DEF Finished
    <2>2. CASE lockFile' = NoLock /\ ~stale'
      BY <2>2, NoLockFacts DEF LeftBehind, Unwritten
    <2>3. CASE lockFile' = lockFile /\ stale' = stale
      <3>1. ASSUME Unwritten PROVE stage'[lockFile.engine] \in {"write", "failed"} \cup Finished
        <4>1. lockFile.engine \in Engines
              /\ stage[lockFile.engine] \in {"write", "failed"} \cup Finished
          BY <1>0, <3>1, LockFileFacts DEF StartInv, LeftBehind, Unwritten
        <4>2. CASE lockFile.engine # e
          BY <1>3, <4>1, <4>2
        <4>3. CASE lockFile.engine = e
          <5>1. stage[e] = "write"
            BY <1>2, <4>1, <4>3 DEF Finished
          <5>2. p = "failed" \/ lockFile' = [engine |-> e, run |-> run[e]]
            BY <1>0, <1>3, <4>3, <5>1, LockSteps, GotoFacts DEF Stages, Starting, Locking
          <5>3. run[e] # None
            BY <1>0, StartAssumption DEF EsTypeOK
          <5>4. QED
            BY <1>3, <2>3, <3>1, <4>3, <5>2, <5>3, NoLockFacts DEF Unwritten
        <4>4. QED
          BY <4>2, <4>3
      <3>2. QED
        BY <1>0, <2>1, <2>3, <3>1, LockFileFacts DEF StartInv, LeftBehind, Unwritten
    <2>4. CASE lockFile' = [engine |-> e, run |-> None] /\ stale' = stale /\ p = "write" /\ lockFile = NoLock
      BY <1>3, <2>4, NoLockFacts DEF StartInv, LeftBehind, Unwritten
    <2>5. CASE lockFile' = [engine |-> e, run |-> run[e]] /\ (~stale' \/ (stale' = stale /\ lockFile.engine = e))
      <3>1. run[e] # None
        BY <1>0, StartAssumption DEF EsTypeOK
      <3>2. lockFile.engine = e => ~stale
        BY <1>2 DEF StartInv, LeftBehind, Finished
      <3>3. QED
        BY <2>5, <3>1, <3>2, NoLockFacts DEF LeftBehind, Unwritten
    <2>6. QED
      BY <1>4, <2>2, <2>3, <2>4, <2>5
  <1>6. \A d \in Engines : stage[d] \in PastWrite => stage'[d] \in PastWrite'
    BY <1>1, <1>2, <1>3 DEF PastWrite, PastOrFailed, Past, Wrote, HasLock, Running, Stopping
  <1>7. Origin'
    <2>1. ASSUME lockFile'.run = run[e], stage[e] \in {"write", "refresh"}
          PROVE  stage'[lockFile'.run] \in PastWrite' /\ run'[lockFile'.run] = lockFile'.run
      <3>1. run[e] \in Engines
        BY <1>0 DEF EsTypeOK
      <3>2. CASE run[e] = e
        <4>1. stage'[e] \in PastWrite'
          <5>1. p \in {"reconcile", "running"} \/ (p = "failed" /\ faults' # 0)
            BY <1>2, <2>1
          <5>2. QED
            BY <1>3, <5>1 DEF PastWrite, PastOrFailed, Past, Wrote, HasLock, Running
        <4>2. QED
          BY <1>1, <2>1, <3>2, <4>1
      <3>3. CASE run[e] # e
        BY <1>1, <1>6, <2>1, <3>1, <3>3 DEF StartInv, Origin
      <3>4. QED
        BY <3>2, <3>3
    <2>2. lockFile'.run # None => stage'[lockFile'.run] \in PastWrite' /\ run'[lockFile'.run] = lockFile'.run
      <3>1. lockFile'.run = None \/ (lockFile'.run = run[e] /\ stage[e] \in {"write", "refresh"})
            \/ lockFile' = lockFile
        BY <1>4, NoLockFacts
      <3>2. QED
        BY <1>0, <1>1, <1>6, <2>1, <3>1, LockFileFacts DEF StartInv, Origin
    <2>3. \A d \in Engines : run'[d] # d => stage'[run'[d]] \in PastWrite' /\ run'[run'[d]] = run'[d]
      BY <1>1, <1>6 DEF StartInv, Origin, EsTypeOK
    <2>4. \A d \in Engines : stage'[d] \in {"idle", "holder"} => run'[d] = d
      BY <1>1, <1>2, <1>3 DEF StartInv, Origin
    <2>5. QED
      BY <2>2, <2>3, <2>4 DEF Origin
  <1>8. NoServerYet'
    BY <1>1, <1>2, <1>3 DEF StartInv, NoServerYet, Early
  <1>9. QED
    BY <1>5, <1>7, <1>8

LEMMA OutsidePreserves ==
  ASSUME StartInv, Outside
  PROVE  LeftBehind' /\ Origin' /\ NoServerYet'
  <1>1. UNCHANGED << stage, run, owned, lockFile, faults >>
    BY OutsideSteps
  <1>2. LeftBehind'
    BY <1>1, OutsideSteps DEF StartInv, LeftBehind, Unwritten
  <1>3. Origin'
    BY <1>1 DEF StartInv, Origin, PastWrite
  <1>4. NoServerYet'
    <2>1. CASE servers' \subseteq servers
      BY <1>1, <2>1 DEF StartInv, NoServerYet
    <2>2. ASSUME NEW e \in Engines, stage[e] \in Running, servers' = servers \cup {run[e]}
          PROVE  NoServerYet'
      <3>1. \A d \in Engines : stage[d] \in Early => run[e] # d
        BY <2>2, NotTaken DEF Running, Early
      <3>2. QED
        BY <1>1, <2>2, <3>1 DEF StartInv, NoServerYet
    <2>3. QED
      BY <2>1, <2>2, OutsideSteps
  <1>5. QED
    BY <1>2, <1>3, <1>4

LEMMA RecordedStep ==
  ASSUME StartInv, EsNext
  PROVE  Recorded'
  <1>0. EsTypeOK /\ faults \in Nat
    BY DEF StartInv
  <1>1. lost' \subseteq Engines /\ (\A d \in Engines : stage'[d] \in HasLock => lockFile'.engine = d \/ d \in lost')
    BY StepKinds DEF Observe, StartInv, Recorded
  <1>2. lost' = {} => lost = {}
    BY StepKinds DEF Observe
  <1> SUFFICES ASSUME lost' = {}, NEW d \in Engines, stage'[d] \in Wrote PROVE lockFile'.run = run'[d]
    BY <1>1 DEF Recorded
  <1>3. lockFile'.engine = d
    BY <1>1 DEF Wrote
  <1>4. stage[d] \in Wrote => lockFile.run = run[d] /\ lockFile.engine = d
    BY <1>2 DEF StartInv, Recorded, Wrote
  <1>5. ASSUME NEW e \in Engines, Plain(e) PROVE lockFile'.run = run'[d]
    <2>1. PICK p \in Stages : GotoStage(e, p) /\ Edge(stage[e], p)
      BY <1>0, <1>5, PlainSteps
    <2>2. stage[d] \in Wrote
      BY <1>0, <2>1, GotoFacts DEF Edge, Wrote
    <2>3. QED
      BY <1>0, <1>4, <1>5, <2>2, PlainSteps
  <1>6. ASSUME NEW e \in Engines, Takes(e) PROVE lockFile'.run = run'[d]
    <2>1. GotoStage(e, "store") /\ lockFile' = lockFile
          /\ run' = [run EXCEPT ![e] = IF lockFile.run # None THEN lockFile.run ELSE @]
      BY <1>6 DEF Takes, lck
    <2>2. d # e /\ stage[d] \in Wrote
      BY <1>0, <2>1, GotoFacts DEF Stages, Starting, Wrote, HasLock, Running, Stopping
    <2>3. QED
      BY <1>0, <1>4, <2>1, <2>2 DEF EsTypeOK
  <1>7. ASSUME NEW e \in Engines, Creates(e) PROVE lockFile'.run = run'[d]
    <2>1. GotoStage(e, "lockdir") /\ UNCHANGED << lockFile, run >>
      BY <1>7 DEF Creates, lck, ids
    <2>2. d # e /\ stage[d] \in Wrote
      BY <1>0, <2>1, GotoFacts DEF Stages, Starting, Wrote, HasLock, Running, Stopping
    <2>3. QED
      BY <1>4, <2>1, <2>2
  <1>8. ASSUME NEW e \in Engines, Locks(e) PROVE lockFile'.run = run'[d]
    <2>1. run' = run
      BY <1>0, <1>8, LockSteps
    <2>2. CASE d = e
      <3>1. \/ stage[e] = "write" /\ lockFile' = IF lockFile.engine = e THEN [engine |-> e, run |-> run[e]] ELSE lockFile
            \/ stage[e] = "refresh" /\ lockFile' = [engine |-> e, run |-> run[e]]
        <4>1. stage'[e] \notin {"write", "failed", "lock", "ended"}
          BY <2>2 DEF Wrote, HasLock, Running, Stopping
        <4>2. \A p \in {"write", "failed", "lock", "ended"} : ~GotoStage(e, p)
          BY <1>0, <4>1, GotoFacts DEF Stages, Starting, Locking, Finished
        <4>3. QED
          BY <1>0, <1>8, <4>2, LockSteps
      <3>2. stage[e] = "write" => lockFile.engine = e
        BY <1>2 DEF StartInv, Recorded, HasLock
      <3>3. QED
        BY <2>1, <2>2, <3>1, <3>2, NoLockFacts
    <2>3. CASE d # e
      <3>1. stage'[d] = stage[d]
        <4>1. \E p \in Stages : GotoStage(e, p)
          BY <1>0, <1>8, LockSteps DEF Stages, Starting, Locking, Running, Stopping, Finished
        <4>2. QED
          BY <1>0, <2>3, <4>1, GotoFacts
      <3>2. lockFile' = lockFile
        <4>1. lockFile'.engine \notin {e, None}
          BY <1>3, <2>3, StartAssumption
        <4>2. lockFile' # NoLock /\ \A r : lockFile' # [engine |-> e, run |-> r]
          BY <4>1, NoLockFacts
        <4>3. QED
          BY <1>0, <1>8, <4>2, LockSteps
      <3>3. QED
        BY <1>4, <2>1, <3>1, <3>2
    <2>4. QED
      BY <2>2, <2>3
  <1>9. CASE Outside
    BY <1>4, <1>9, OutsideSteps
  <1>10. QED
    BY <1>5, <1>6, <1>7, <1>8, <1>9, StepKinds

LEMMA StartInvStep == StartInv /\ [EsNext]_esVars => StartInv'
  <1>1. ASSUME StartInv, EsNext PROVE StartInv'
    <2>1. EsTypeOK' /\ faults' \in Nat /\ Recorded'
      BY <1>1, TypeStep, RecordedStep
    <2>2. LeftBehind' /\ Origin' /\ NoServerYet'
      BY <1>1, StepKinds, PlainPreserves, TakePreserves, CreatePreserves, LockPreserves, OutsidePreserves
    <2>3. QED
      BY <2>1, <2>2 DEF StartInv
  <1>2. ASSUME StartInv, UNCHANGED esVars PROVE StartInv'
    BY <1>2 DEF StartInv, esVars, tmux, lck, ids, hist, EsTypeOK, LeftBehind, Unwritten, Origin, PastWrite,
                NoServerYet, Recorded
  <1>3. QED
    BY <1>1, <1>2

-----------------------------------------------------------------------------
(* The lock file is its holder's *)

\* The file that is about to be removed belongs to nobody who is alive.
Removable ==
  \A e \in Engines : stage[e] = "remove" => lockFile = NoLock \/ stage[lockFile.engine] \notin HasLock

KeptInv == StartInv /\ (~overlapped => lost = {} /\ Removable)

\* One engine inside Acquire at a time.
LEMMA Alone ==
  ASSUME Observe, ~overlapped', NEW d \in Engines, NEW e \in Engines,
         stage'[d] \in Locking, stage'[e] \in Locking
  PROVE  d = e
  BY DEF Observe

LEMMA KeptStep == KeptInv /\ [EsNext]_esVars => KeptInv'
  <1>a. ASSUME KeptInv, UNCHANGED esVars PROVE KeptInv'
    <2>1. StartInv'
      BY <1>a, StartInvStep DEF KeptInv
    <2>2. QED
      BY <1>a, <2>1 DEF KeptInv, Removable, esVars, lck, hist
  <1> SUFFICES ASSUME KeptInv, EsNext, ~overlapped' PROVE lost' = {} /\ Removable'
    BY <1>a, StartInvStep DEF KeptInv
  <1>0. StartInv /\ EsTypeOK /\ faults \in Nat
    BY DEF KeptInv, StartInv
  <1>1. Observe /\ ~overlapped
    BY StepKinds DEF Observe
  <1>2. lost = {} /\ Removable
    BY <1>1 DEF KeptInv
  <1>3. \A d \in Engines : stage[d] \in HasLock => lockFile.engine = d
    BY <1>0, <1>2 DEF StartInv, Recorded
  <1> SUFFICES (\A d \in Engines : stage'[d] \in HasLock => lockFile'.engine = d) /\ Removable'
    BY <1>1, <1>2 DEF Observe
  <1>4. ASSUME NEW e \in Engines, Plain(e)
        PROVE  (\A d \in Engines : stage'[d] \in HasLock => lockFile'.engine = d) /\ Removable'
    <2>1. PICK p \in Stages : GotoStage(e, p) /\ Edge(stage[e], p)
                             /\ (p = "remove" => stage[e] = "read" /\ (Unwritten \/ stale))
      BY <1>0, <1>4, PlainSteps
    <2>2. lockFile' = lockFile
      BY <1>0, <1>4, PlainSteps
    <2>3. stage'[e] = p /\ \A d \in Engines : d # e => stage'[d] = stage[d]
      BY <1>0, <2>1, GotoFacts
    <2>4. \A d \in Engines : stage'[d] \in HasLock => stage[d] \in HasLock
      BY <2>1, <2>3 DEF Edge, Wrote
    <2>5. ASSUME NEW d \in Engines, stage'[d] = "remove"
          PROVE  lockFile = NoLock \/ stage'[lockFile.engine] \notin HasLock
      <3>1. CASE stage[d] = "remove"
        BY <1>0, <1>2, <2>4, <3>1, LockFileFacts DEF Removable
      <3>2. CASE stage[d] # "remove"
        <4>1. d = e /\ (Unwritten \/ stale)
          BY <2>1, <2>3, <2>5, <3>2
        <4>2. SUFFICES ASSUME lockFile # NoLock PROVE stage'[lockFile.engine] \notin HasLock
          OBVIOUS
        <4>3. lockFile.engine \in Engines /\ stage[lockFile.engine] \in {"write", "failed"} \cup Finished
          BY <1>0, <4>1, <4>2, LockFileFacts DEF StartInv, LeftBehind, Unwritten
        <4>4. CASE lockFile.engine = e
          BY <2>5, <4>1, <4>4 DEF HasLock, Running, Stopping
        <4>5. CASE lockFile.engine # e
          <5>1. stage'[lockFile.engine] \in {"write", "failed"} \cup Finished
            BY <2>3, <4>3, <4>5
          <5>2. stage'[lockFile.engine] # "write"
            BY <1>1, <2>5, <4>1, <4>3, <4>5, Alone DEF Locking
          <5>3. QED
            BY <5>1, <5>2 DEF Finished, HasLock, Running, Stopping
        <4>6. QED
          BY <4>4, <4>5
      <3>3. QED
        BY <3>1, <3>2
    <2>6. QED
      BY <1>3, <2>2, <2>4, <2>5 DEF Removable
  <1>5. ASSUME NEW e \in Engines, Takes(e) \/ Creates(e)
        PROVE  (\A d \in Engines : stage'[d] \in HasLock => lockFile'.engine = d) /\ Removable'
    <2>1. lockFile' = lockFile /\ \E p \in {"store", "lockdir"} : GotoStage(e, p)
      BY <1>5 DEF Takes, Creates, lck
    <2>2. stage'[e] \in {"store", "lockdir"} /\ \A d \in Engines : d # e => stage'[d] = stage[d]
      BY <1>0, <2>1, GotoFacts DEF Stages, Starting
    <2>3. \A d \in Engines : stage'[d] \in HasLock => stage[d] \in HasLock
      BY <2>2 DEF HasLock, Running, Stopping
    <2>4. QED
      BY <1>0, <1>2, <1>3, <2>1, <2>2, <2>3, LockFileFacts DEF Removable
  <1>6. ASSUME NEW e \in Engines, Locks(e)
        PROVE  (\A d \in Engines : stage'[d] \in HasLock => lockFile'.engine = d) /\ Removable'
    <2>1. PICK p \in Stages : /\ GotoStage(e, p)
                              /\ \/ stage[e] = "lock" /\ p = "write" /\ lockFile = NoLock
                                    /\ lockFile' = [engine |-> e, run |-> None]
                                 \/ stage[e] = "write" /\ p = "reconcile"
                                    /\ lockFile' = IF lockFile.engine = e THEN [engine |-> e, run |-> run[e]] ELSE lockFile
                                 \/ stage[e] = "write" /\ p = "failed"
                                 \/ stage[e] = "remove" /\ p \in {"lock", "failed"}
                                 \/ stage[e] = "refresh" /\ p = "running" /\ lockFile' = [engine |-> e, run |-> run[e]]
                                 \/ stage[e] = "release" /\ p = "ended"
      BY <1>0, <1>6, LockSteps DEF Stages, Starting, Locking, Running, Stopping, Finished
    <2>2. stage'[e] = p /\ \A d \in Engines : d # e => stage'[d] = stage[d]
      BY <1>0, <2>1, GotoFacts
    <2>3. \A d \in Engines \ {e} : stage[d] \notin HasLock
      <3>1. CASE stage[e] = "lock"
        BY <1>3, <2>1, <3>1, NoLockFacts, StartAssumption
      <3>2. CASE stage[e] = "remove"
        BY <1>2, <1>3, <3>2, NoLockFacts, StartAssumption DEF Removable
      <3>3. CASE stage[e] \in {"write", "refresh", "release"}
        BY <1>3, <3>3 DEF HasLock, Running, Stopping
      <3>4. QED
        BY <2>1, <3>1, <3>2, <3>3
    <2>4. stage'[e] \in HasLock => lockFile'.engine = e
      <3>1. stage[e] = "write" => lockFile.engine = e
        BY <1>3 DEF HasLock
      <3>2. p \in HasLock => p \notin {"failed", "lock", "ended"}
        BY DEF HasLock, Running, Stopping
      <3>3. QED
        BY <2>1, <2>2, <3>1, <3>2, NoLockFacts
    <2>5. Removable'
      <3>1. SUFFICES ASSUME NEW d \in Engines, stage'[d] = "remove"
                     PROVE  lockFile' = NoLock \/ stage'[lockFile'.engine] \notin HasLock
        BY DEF Removable
      <3>2. d # e
        BY <2>1, <2>2, <3>1
      <3>3. stage[e] \notin {"lock", "remove", "write"} \/ stage'[e] \notin Locking
        BY <1>1, <3>1, <3>2, Alone DEF Locking
      <3>4. stage[d] = "remove"
        BY <2>2, <3>1, <3>2
      <3>5. lockFile = NoLock \/ stage[lockFile.engine] \notin HasLock
        BY <1>2, <3>4 DEF Removable
      <3>6. stage[e] \in HasLock => FALSE
        BY <1>3, <3>5, NoLockFacts, StartAssumption
      <3>7. stage[e] = "remove" /\ p = "failed"
        BY <2>1, <2>2, <3>3, <3>6 DEF Locking, HasLock, Running, Stopping
      <3>8. lockFile' = NoLock
        BY <1>0, <1>6, <3>7, LockSteps
      <3>9. QED
        BY <3>8
    <2>6. QED
      BY <2>2, <2>3, <2>4, <2>5
  <1>7. CASE Outside
    BY <1>2, <1>3, <1>7, OutsideSteps DEF Removable
  <1>8. QED
    BY <1>4, <1>5, <1>6, <1>7, StepKinds

\* BVV-S-01, BVV-ERR-06: as long as no two starts are inside Acquire together, the
\* lock file is that of the one process that holds it, for any number of runs and
\* resumes, wherever processes die and whichever calls fail.
THEOREM LockStaysHolders == EsSpec => []LockKept
  <1>1. EsInit => KeptInv
    BY StartInit DEF EsInit, KeptInv, Removable
  <1>2. KeptInv => LockKept
    BY DEF KeptInv, StartInv, Recorded, LockKept
  <1>3. QED
    BY <1>1, <1>2, KeptStep, PTL DEF EsSpec

\* At most one orchestrator is between the creation of its lock file and its
\* removal, under the same condition.
THEOREM OneEngineHoldsBranch ==
  EsSpec => [](~overlapped => \A d, e \in Engines :
                 stage[d] \in HasLock /\ stage[e] \in HasLock => d = e)
  <1>1. LockKept => (~overlapped => \A d, e \in Engines :
                       stage[d] \in HasLock /\ stage[e] \in HasLock => d = e)
    BY DEF LockKept
  <1>2. QED
    BY <1>1, LockStaysHolders, PTL

-----------------------------------------------------------------------------
(* Refused starts *)

\* RefusedHoldsNothing, with an engine that will not change its RunID any more.
Clean(e) ==
  /\ open[e] = {}
  /\ e \in owned /\ run[e] \in servers \ unkilled =>
        \E d \in Engines \ {e} : run[d] = run[e] /\ stage[d] \notin {"idle", "holder"}
RefusedClean == \A e \in Engines : stage[e] = "refused" => Clean(e)

RefuseInv == StartInv /\ RefusedClean

\* An engine that is refused now has closed what it had open and owns no server,
\* or has just tried to kill it.
LEMMA RefusedNow ==
  ASSUME StartInv, NEW e \in Engines, Plain(e), stage'[e] = "refused"
  PROVE  open'[e] = {} /\ (e \notin owned \/ run[e] \notin servers' \ unkilled')
  <1>0. EsTypeOK /\ faults \in Nat
    BY DEF StartInv
  <1>1. ASSUME NEW p \in Stages, GotoStage(e, p) PROVE p = "refused"
    BY <1>0, <1>1, GotoFacts
  <1>2. ASSUME Refuse(e), stage[e] \in Early PROVE open'[e] = {} /\ e \notin owned
    BY <1>0, <1>2, CloseOpen DEF Refuse, StartInv, NoServerYet
  <1>3. ASSUME KillServer(e, run[e]) \/ KillFails(run[e]), Close(e)
        PROVE  open'[e] = {} /\ run[e] \notin servers' \ unkilled'
    BY <1>0, <1>3, KillFacts, CloseOpen
  <1> USE DEF Stages, Starting, Locking, Running, Stopping, Finished
  <1>4. CASE RunStarts(e) \/ ResumeStarts(e) \/ (RecoverRunID(e) /\ Refuse(e))
    <2>1. Refuse(e) /\ stage[e] \in {"idle", "holder"}
      BY <1>1, <1>4 DEF RunStarts, ResumeStarts, RecoverRunID
    <2>2. QED
      BY <1>2, <2>1 DEF Early
  <1>5. CASE OpenStore(e) \/ OpenLog(e) \/ ProbeServer(e)
    <2>1. Refuse(e) \/ \E p \in {"log", "probe", "lockdir", "create"} : GotoStage(e, p)
      BY <1>5 DEF OpenStore, OpenLog, ProbeServer
    <2>2. stage[e] \in Early
      BY <1>5 DEF OpenStore, OpenLog, ProbeServer, Early
    <2>3. QED
      BY <1>1, <1>2, <2>1, <2>2
  <1>6. CASE (CreateServer(e) /\ KillServer(e, run[e])) \/ MakeLockDir(e)
    <2>1. \/ KillServer(e, run[e]) /\ (Close(e) \/ GotoStage(e, "lockdir"))
          \/ GotoStage(e, "lock")
      BY <1>6 DEF CreateServer, MakeLockDir
    <2>2. QED
      BY <1>1, <1>3, <2>1
  <1>7. CASE AcquireFails(e)
    <2>1. Close(e)
      BY <1>7 DEF AcquireFails
    <2>2. e \notin owned \/ KillServer(e, run[e]) \/ KillFails(run[e])
      BY <1>7 DEF AcquireFails
    <2>3. QED
      BY <1>0, <1>3, <2>1, <2>2, CloseOpen
  <1>8. CASE \/ (LockCreate(e) /\ lockFile # NoLock) \/ LockRead(e) \/ LockCallFails(e)
             \/ Reconciles(e) \/ EmitsStarted(e) \/ RefreshReads(e) \/ LifecycleEnds(e)
             \/ CleanupKill(e) \/ EngineDies(e)
    <2>1. \E p \in Stages \ {"refused"} : GotoStage(e, p)
      <3>1. \E p \in {"read", "lock", "failed", "remove", "started", "kill", "running", "refresh",
                      "release", "crashed"} : GotoStage(e, p)
        BY <1>8 DEF LockCreate, LockRead, TryAgain, LockCallFails, Reconciles, EmitsStarted, RefreshReads,
                    LifecycleEnds, CleanupKill, EngineDies
      <3>2. QED
        BY <3>1
    <2>2. QED
      BY <1>1, <2>1
  <1>9. QED
    BY <1>4, <1>5, <1>6, <1>7, <1>8 DEF Plain

LEMMA RefuseStep == RefuseInv /\ [EsNext]_esVars => RefuseInv'
  <1>a. ASSUME RefuseInv, UNCHANGED esVars PROVE RefuseInv'
    <2>1. StartInv'
      BY <1>a, StartInvStep DEF RefuseInv
    <2>2. QED
      BY <1>a, <2>1 DEF RefuseInv, RefusedClean, Clean, esVars, tmux, ids
  <1> SUFFICES ASSUME StartInv, RefusedClean, EsNext PROVE RefusedClean'
    BY <1>a, StartInvStep DEF RefuseInv
  <1>0. EsTypeOK /\ faults \in Nat
    BY DEF StartInv
  \* Nobody who has its RunID for good loses it.
  <1>1. ASSUME NEW d \in Engines, open'[d] = open[d], (d \in owned' => d \in owned), run'[d] = run[d],
               stage[d] = "refused", unkilled \subseteq unkilled', run[d] \in servers' => run[d] \in servers,
               \A b \in Engines : stage[b] \notin {"idle", "holder"} =>
                 run'[b] = run[b] /\ stage'[b] \notin {"idle", "holder"}
        PROVE  Clean(d)'
    BY <1>1 DEF RefusedClean, Clean
  <1>2. ASSUME NEW e \in Engines, Plain(e) PROVE RefusedClean'
    <2>1. PICK p \in Stages : GotoStage(e, p) /\ Edge(stage[e], p)
      BY <1>0, <1>2, PlainSteps
    <2>2. stage'[e] = p /\ \A d \in Engines : d # e => stage'[d] = stage[d]
      BY <1>0, <2>1, GotoFacts
    <2>3. UNCHANGED << run, owned >> /\ servers' \subseteq servers /\ unkilled \subseteq unkilled'
      BY <1>0, <1>2, PlainSteps, TmuxStep
    <2>4. \A d \in Engines : d # e => open'[d] = open[d]
      BY <1>0, <1>2, OpenStep
    <2>5. \A b \in Engines : stage[b] \notin {"idle", "holder"} =>
                 run'[b] = run[b] /\ stage'[b] \notin {"idle", "holder"}
      BY <2>1, <2>2, <2>3 DEF Edge
    <2>6. ASSUME NEW d \in Engines, stage'[d] = "refused" PROVE Clean(d)'
      <3>1. CASE d = e
        BY <1>2, <2>3, <2>6, <3>1, RefusedNow DEF Clean
      <3>2. CASE d # e
        BY <1>1, <2>2, <2>3, <2>4, <2>5, <2>6, <3>2
      <3>3. QED
        BY <3>1, <3>2
    <2>7. QED
      BY <2>6 DEF RefusedClean
  <1>3. ASSUME NEW e \in Engines, Takes(e) PROVE RefusedClean'
    <2>1. /\ stage[e] = "holder" /\ GotoStage(e, "store")
          /\ UNCHANGED << owned, open, servers, unkilled >>
          /\ \A d \in Engines : d # e => run'[d] = run[d]
      BY <1>0, <1>3 DEF Takes, tmux, EsTypeOK
    <2>2. stage'[e] = "store" /\ \A d \in Engines : d # e => stage'[d] = stage[d]
      BY <1>0, <2>1, GotoFacts DEF Stages, Starting
    <2>3. \A b \in Engines : stage[b] \notin {"idle", "holder"} =>
                 run'[b] = run[b] /\ stage'[b] \notin {"idle", "holder"}
      BY <2>1, <2>2
    <2>4. QED
      BY <1>1, <2>1, <2>2, <2>3 DEF RefusedClean
  <1>4. ASSUME NEW e \in Engines, Creates(e) PROVE RefusedClean'
    <2>1. /\ stage[e] = "create" /\ GotoStage(e, "lockdir")
          /\ UNCHANGED << run, open, unkilled >>
          /\ servers' = servers \cup {run[e]} /\ owned' = owned \cup {e}
      BY <1>4 DEF Creates, ids
    <2>2. stage'[e] = "lockdir" /\ \A d \in Engines : d # e => stage'[d] = stage[d]
      BY <1>0, <2>1, GotoFacts DEF Stages, Starting
    <2>3. ASSUME NEW d \in Engines, stage'[d] = "refused" PROVE Clean(d)'
      <3>1. d # e /\ stage[d] = "refused"
        BY <2>2, <2>3
      <3>2. CASE run[d] = run[e]
        BY <2>1, <2>2, <3>1, <3>2 DEF RefusedClean, Clean
      <3>3. CASE run[d] # run[e]
        BY <1>1, <2>1, <2>2, <3>1, <3>3
      <3>4. QED
        BY <3>2, <3>3
    <2>4. QED
      BY <2>3 DEF RefusedClean
  <1>5. ASSUME NEW e \in Engines, Locks(e) PROVE RefusedClean'
    <2>1. PICK p \in Stages \ {"idle", "holder", "refused"} : GotoStage(e, p)
      BY <1>0, <1>5, LockSteps DEF Stages, Starting, Locking, Running, Stopping, Finished
    <2>2. stage'[e] = p /\ \A d \in Engines : d # e => stage'[d] = stage[d]
      BY <1>0, <2>1, GotoFacts
    <2>3. UNCHANGED << run, owned, servers, unkilled >> /\ \A d \in Engines : d # e => open'[d] = open[d]
      BY <1>0, <1>5, LockSteps, OpenStep DEF tmux
    <2>4. QED
      BY <1>1, <2>2, <2>3 DEF RefusedClean
  <1>6. CASE Outside
    <2>1. UNCHANGED << stage, run, owned, open, unkilled >>
      BY <1>6, OutsideSteps
    <2>2. CASE servers' \subseteq servers
      BY <1>1, <2>1, <2>2 DEF RefusedClean
    <2>3. ASSUME NEW e \in Engines, stage[e] \in Running, servers' = servers \cup {run[e]}
          PROVE  RefusedClean'
      <3>1. stage[e] \notin {"idle", "holder", "refused"}
        BY <2>3 DEF Running
      <3>2. ASSUME NEW d \in Engines, stage[d] = "refused" PROVE Clean(d)'
        <4>1. CASE run[d] = run[e]
          BY <2>1, <3>1, <3>2, <4>1 DEF RefusedClean, Clean
        <4>2. CASE run[d] # run[e]
          BY <1>1, <2>1, <2>3, <3>2, <4>2
        <4>3. QED
          BY <4>1, <4>2
      <3>3. QED
        BY <2>1, <3>2 DEF RefusedClean
    <2>4. QED
      BY <1>6, <2>2, <2>3, OutsideSteps
  <1>7. QED
    BY <1>2, <1>3, <1>4, <1>5, <1>6, StepKinds

\* A start that is refused, on whichever path, leaves no store and no log open
\* and no server of its own running, whatever other processes do meanwhile.
THEOREM RefusedStartsClean == EsSpec => []RefusedHoldsNothing
  <1>1. EsInit => RefuseInv
    BY StartInit DEF EsInit, RefuseInv, RefusedClean
  <1>2. RefuseInv => RefusedHoldsNothing
    BY DEF RefuseInv, RefusedClean, Clean, RefusedHoldsNothing
  <1>3. QED
    BY <1>1, <1>2, RefuseStep, PTL DEF EsSpec

-----------------------------------------------------------------------------
(* The server of a running engine *)

Active == {"reconcile", "started"} \cup Running
Up == {"lockdir"} \cup Locking \cup Active

\* What HolderUndisturbed supposes.
Quiet ==
  /\ faults = 0 /\ lost = {}
  /\ \A d, e \in Engines : run[d] = run[e] /\ run[d] # d /\ run[e] # e => d = e

\* A fresh run has created its server, which stays; an engine that has taken over
\* the RunID of a live one has joined that server.
ServerUp == \A d \in Engines : stage[d] \in Up /\ run[d] = d => d \in persistent
Joined ==
  \A d, e \in Engines : d # e /\ run[e] = d /\ stage[d] \in Active => stage[e] # "create" /\ e \notin owned

QuietInv == StartInv /\ (Quiet => ServerUp /\ Joined /\ victims = {})

\* Before the step there were no more faults and no more takeovers.
LEMMA QuietBefore ==
  ASSUME StartInv, EsNext, Quiet'
  PROVE  Quiet /\ faults' = faults
  <1>0. EsTypeOK /\ faults \in Nat /\ Origin
    BY DEF StartInv
  <1>1. faults' = faults \/ Fault
    <2>1. ASSUME NEW e \in Engines, Takes(e) \/ Creates(e) PROVE faults' = faults
      BY <2>1 DEF Takes, Creates
    <2>2. QED
      BY <1>0, <2>1, StepKinds, PlainSteps, LockSteps, OutsideSteps
  <1>2. faults' = faults /\ faults = 0
    BY <1>0, <1>1 DEF Fault, Quiet
  <1>3. run' = run \/ \E e \in Engines : Takes(e)
    <2>1. ASSUME NEW e \in Engines, Creates(e) PROVE run' = run
      BY <2>1 DEF Creates, ids
    <2>2. QED
      BY <1>0, <2>1, StepKinds, PlainSteps, LockSteps, OutsideSteps
  <1>4. \A e \in Engines : run[e] # e => run'[e] = run[e]
    BY <1>0, <1>3 DEF Takes, EsTypeOK, Origin
  <1>5. lost = {}
    BY StepKinds DEF Quiet, Observe
  <1>6. QED
    BY <1>2, <1>4, <1>5 DEF Quiet

\* Whoever kills a server does so while no other engine is up on its socket.
LEMMA KillHarmless ==
  ASSUME StartInv, Quiet, ServerUp, Joined, NEW e \in Engines,
         stage[e] = "create" \/ (stage[e] = "failed" /\ e \in owned) \/ stage[e] = "kill"
  PROVE  \A d \in Engines : d # e /\ run[d] = run[e] =>
           stage[d] \notin Active /\ (run[d] = d => stage[d] \notin Up)
  <1> SUFFICES ASSUME NEW d \in Engines, d # e, run[d] = run[e]
               PROVE  stage[d] \notin Active /\ (run[d] = d => stage[d] \notin Up)
    OBVIOUS
  <1>0. /\ \A b \in Engines : stage[b] \in HasLock => lockFile.engine = b
        /\ \A b \in Engines : run[b] # b => stage[run[b]] \in Past /\ run[run[b]] = run[b]
        /\ Active \subseteq HasLock
    BY DEF StartInv, Recorded, Origin, PastWrite, Quiet, Active, HasLock
  <1>1. CASE run[e] = e
    <2>1. run[d] # d /\ run[d] = e
      BY <1>1
    <2>2. stage[e] \in Past
      BY <1>0, <2>1
    <2>3. stage[e] = "kill"
      BY <2>2 DEF Past, Wrote, HasLock, Running, Stopping
    <2>4. lockFile.engine = e
      BY <1>0, <2>3 DEF HasLock, Stopping
    <2>5. stage[d] \notin HasLock
      BY <1>0, <2>4
    <2>6. QED
      BY <1>0, <2>1, <2>5
  <1>2. CASE run[e] = d /\ d # e
    <2>1. stage[d] \in Past /\ run[d] = d
      BY <1>0, <1>2
    <2>2. stage[d] \notin Active
      <3>1. CASE stage[e] = "kill"
        BY <1>0, <3>1 DEF HasLock, Stopping
      <3>2. CASE stage[e] # "kill"
        BY <1>2, <3>2 DEF Joined
      <3>3. QED
        BY <3>1, <3>2
    <2>3. QED
      BY <2>1, <2>2 DEF Past, Wrote, HasLock, Locking, Stopping, Up, Active
  <1>3. CASE run[e] # e /\ run[e] # d
    BY <1>3 DEF Quiet
  <1>4. QED
    BY <1>1, <1>2, <1>3

\* A move of e that kills nothing.
LEMMA QuietMove ==
  ASSUME StartInv, ServerUp, Joined, NEW e \in Engines, NEW p \in Stages, GotoStage(e, p),
         UNCHANGED << run, owned, persistent >>,
         p \in Up => stage[e] \in Up, p \in Active => stage[e] \in Active, p # "create"
  PROVE  ServerUp' /\ Joined'
  <1>1. stage'[e] = p /\ \A d \in Engines : d # e => stage'[d] = stage[d]
    BY GotoFacts DEF StartInv
  <1>2. ServerUp'
    BY <1>1 DEF ServerUp
  <1>3. Joined'
    BY <1>1 DEF Joined
  <1>4. QED
    BY <1>2, <1>3

LEMMA QuietKill ==
  ASSUME StartInv, Quiet, ServerUp, Joined, victims = {}, NEW e \in Engines,
         stage[e] = "create" \/ (stage[e] = "failed" /\ e \in owned) \/ stage[e] = "kill",
         KillServer(e, run[e]), NEW p \in {"refused", "release"}, GotoStage(e, p),
         UNCHANGED << run, owned >>
  PROVE  ServerUp' /\ Joined' /\ victims' = {}
  <1>1. stage'[e] = p /\ \A d \in Engines : d # e => stage'[d] = stage[d]
    BY GotoFacts DEF StartInv, Stages, Finished, Stopping
  <1>2. \A d \in Engines : d # e /\ run[d] = run[e] =>
           stage[d] \notin Active /\ (run[d] = d => stage[d] \notin Up)
    BY KillHarmless
  <1>3. victims' = {}
    BY <1>2 DEF KillServer, Active
  <1>4. ServerUp'
    BY <1>1, <1>2 DEF ServerUp, KillServer, Up, Active, Locking, Running
  <1>5. Joined'
    BY <1>1 DEF Joined, Active, Running
  <1>6. QED
    BY <1>3, <1>4, <1>5

LEMMA QuietStep == QuietInv /\ [EsNext]_esVars => QuietInv'
  <1>a. ASSUME QuietInv, UNCHANGED esVars PROVE QuietInv'
    <2>1. StartInv'
      BY <1>a, StartInvStep DEF QuietInv
    <2>2. QED
      BY <1>a, <2>1 DEF QuietInv, Quiet, ServerUp, Joined, esVars, tmux, ids, hist
  <1> SUFFICES ASSUME QuietInv, EsNext, Quiet'
               PROVE  ServerUp' /\ Joined' /\ victims' = {}
    BY <1>a, StartInvStep DEF QuietInv
  <1> USE DEF tmux, ids
  <1>0. StartInv /\ EsTypeOK /\ faults \in Nat
    BY DEF QuietInv, StartInv
  <1>1. Quiet /\ faults' = faults
    BY <1>0, QuietBefore
  <1>2. ServerUp /\ Joined /\ victims = {} /\ ~Fault
    BY <1>0, <1>1 DEF QuietInv, Fault
  <1>3. ASSUME NEW e \in Engines, RunStarts(e) \/ ResumeStarts(e) \/ (RecoverRunID(e) /\ Refuse(e))
                                  \/ OpenStore(e) \/ OpenLog(e)
        PROVE  ServerUp' /\ Joined' /\ victims' = {}
    <2>1. /\ \E p \in {"store", "holder", "refused", "log", "probe"} : GotoStage(e, p)
          /\ UNCHANGED << run, owned, persistent, victims >>
      BY <1>2, <1>3 DEF RunStarts, ResumeStarts, OpenStore, OpenLog, Refuse
    <2>2. QED
      BY <1>0, <1>2, <2>1, QuietMove DEF Stages, Starting, Finished, Up, Active, Locking, Running
  <1>4. ASSUME NEW e \in Engines, Takes(e) PROVE ServerUp' /\ Joined' /\ victims' = {}
    <2>1. /\ stage[e] = "holder" /\ GotoStage(e, "store")
          /\ \A d \in Engines : d # e => run'[d] = run[d]
          /\ UNCHANGED << owned, persistent, victims >>
      BY <1>0, <1>4 DEF Takes, EsTypeOK
    <2>2. stage'[e] = "store" /\ \A d \in Engines : d # e => stage'[d] = stage[d]
      BY <1>0, <2>1, GotoFacts DEF Stages, Starting
    <2>3. e \notin owned
      BY <1>0, <2>1 DEF StartInv, NoServerYet, Early
    <2>4. ServerUp'
      BY <1>2, <2>1, <2>2 DEF ServerUp, Up, Active, Locking, Running
    <2>5. Joined'
      BY <1>2, <2>1, <2>2, <2>3 DEF Joined, Active, Running
    <2>6. QED
      BY <1>2, <2>1, <2>4, <2>5
  <1>5. ASSUME NEW e \in Engines, ProbeServer(e) PROVE ServerUp' /\ Joined' /\ victims' = {}
    <2>1. /\ stage[e] = "probe" /\ GotoStage(e, IF run[e] \in servers THEN "lockdir" ELSE "create")
          /\ UNCHANGED << run, owned, persistent, victims >>
      BY <1>2, <1>5 DEF ProbeServer
    <2>2. /\ stage'[e] = IF run[e] \in servers THEN "lockdir" ELSE "create"
          /\ \A d \in Engines : d # e => stage'[d] = stage[d]
      BY <1>0, <2>1, GotoFacts DEF Stages, Starting
    <2>3. ServerUp'
      <3>1. run[e] = e => e \notin servers
        BY <1>0, <2>1 DEF StartInv, NoServerYet, Early
      <3>2. QED
        BY <1>2, <2>1, <2>2, <3>1 DEF ServerUp, Up, Active, Locking, Running
    <2>4. Joined'
      <3>1. ASSUME NEW d \in Engines, d # e, run[e] = d, stage[d] \in Active PROVE d \in servers
        <4>1. run[d] = d
          BY <1>0, <3>1 DEF StartInv, Origin
        <4>2. d \in persistent
          BY <1>2, <3>1, <4>1 DEF ServerUp, Up
        <4>3. QED
          BY <1>0, <4>2 DEF EsTypeOK
      <3>2. QED
        BY <1>2, <2>1, <2>2, <3>1 DEF Joined, Active, Running
    <2>5. QED
      BY <1>2, <2>1, <2>3, <2>4
  <1>6. ASSUME NEW e \in Engines, Creates(e) PROVE ServerUp' /\ Joined' /\ victims' = {}
    <2>1. /\ stage[e] = "create" /\ persistent' = persistent \cup {run[e]} /\ owned' = owned \cup {e}
          /\ GotoStage(e, "lockdir") /\ UNCHANGED << run, victims >>
      BY <1>6 DEF Creates
    <2>2. stage'[e] = "lockdir" /\ \A d \in Engines : d # e => stage'[d] = stage[d]
      BY <1>0, <2>1, GotoFacts DEF Stages, Starting
    <2>3. ServerUp'
      BY <1>2, <2>1, <2>2 DEF ServerUp
    <2>4. Joined'
      BY <1>2, <2>1, <2>2 DEF Joined, Active, Running
    <2>5. QED
      BY <1>2, <2>1, <2>3, <2>4
  <1>7. ASSUME NEW e \in Engines, CreateServer(e) /\ KillServer(e, run[e]) PROVE ServerUp' /\ Joined' /\ victims' = {}
    <2>1. servers' = servers \ {run[e]} /\ servers' # servers \cup {run[e]}
      BY <1>7 DEF KillServer
    <2>2. stage[e] = "create" /\ GotoStage(e, "refused") /\ UNCHANGED << run, owned >>
      BY <1>7, <2>1 DEF CreateServer
    <2>3. QED
      BY <1>0, <1>1, <1>2, <1>7, <2>2, QuietKill
  <1>8. ASSUME NEW e \in Engines, MakeLockDir(e) \/ (LockCreate(e) /\ lockFile # NoLock) \/ LockRead(e)
        PROVE  ServerUp' /\ Joined' /\ victims' = {}
    <2>1. /\ stage[e] \in {"lockdir", "lock", "read"}
          /\ \E p \in {"lock", "read", "remove", "failed"} : GotoStage(e, p)
          /\ UNCHANGED << run, owned, persistent, victims >>
      BY <1>2, <1>8 DEF MakeLockDir, LockCreate, LockRead, TryAgain
    <2>2. QED
      BY <1>0, <1>2, <2>1, QuietMove DEF Stages, Starting, Locking, Up, Active, Running
  <1>9. ASSUME NEW e \in Engines, Locks(e) PROVE ServerUp' /\ Joined' /\ victims' = {}
    <2>1. UNCHANGED << run, owned, persistent, victims >>
      BY <1>0, <1>9, LockSteps
    <2>2. CASE stage[e] = "write" /\ GotoStage(e, "reconcile")
      <3>1. stage'[e] = "reconcile" /\ \A d \in Engines : d # e => stage'[d] = stage[d]
        BY <1>0, <2>2, GotoFacts DEF Stages, Starting
      <3>2. \A d \in Engines : d # e => run[d] # e
        BY <1>0, <2>2, NotTaken DEF Locking
      <3>3. ServerUp'
        BY <1>2, <2>1, <2>2, <3>1 DEF ServerUp, Up, Locking
      <3>4. Joined'
        BY <1>2, <2>1, <2>2, <3>1, <3>2 DEF Joined
      <3>5. QED
        BY <1>2, <2>1, <3>3, <3>4
    <2>3. CASE ~(stage[e] = "write" /\ GotoStage(e, "reconcile"))
      <3>1. \/ stage[e] = "lock" /\ GotoStage(e, "write")
            \/ stage[e] = "remove" /\ GotoStage(e, "lock")
            \/ GotoStage(e, "failed")
            \/ stage[e] = "refresh" /\ GotoStage(e, "running")
            \/ GotoStage(e, "ended")
        BY <1>0, <1>9, <2>3, LockSteps
      <3>2. QED
        BY <1>0, <1>2, <2>1, <3>1, QuietMove DEF Stages, Starting, Finished, Locking, Up, Active, Running
    <2>4. QED
      BY <2>2, <2>3
  <1>10. ASSUME NEW e \in Engines, AcquireFails(e) \/ CleanupKill(e) PROVE ServerUp' /\ Joined' /\ victims' = {}
    <2>1. UNCHANGED << run, owned >> /\ \E p \in {"refused", "release"} : GotoStage(e, p)
      BY <1>10 DEF AcquireFails, CleanupKill
    <2>2. CASE KillServer(e, run[e]) /\ ((stage[e] = "failed" /\ e \in owned) \/ stage[e] = "kill")
      BY <1>0, <1>1, <1>2, <2>1, <2>2, QuietKill
    <2>3. CASE UNCHANGED tmux
      BY <1>0, <1>2, <2>1, <2>3, QuietMove DEF Stages, Finished, Stopping, Up, Active, Locking, Running
    <2>4. QED
      BY <1>2, <1>10, <2>2, <2>3 DEF AcquireFails, CleanupKill, KillFails
  <1>11. ASSUME NEW e \in Engines, \/ Reconciles(e) \/ EmitsStarted(e) \/ RefreshReads(e) \/ LifecycleEnds(e)
                                  \/ EngineDies(e)
         PROVE  ServerUp' /\ Joined' /\ victims' = {}
    <2>1. /\ \/ stage[e] \in Active /\ (\E p \in {"started", "running", "refresh", "kill"} : GotoStage(e, p))
             \/ GotoStage(e, "crashed")
          /\ UNCHANGED << run, owned, persistent, victims >>
      BY <1>2, <1>11 DEF Reconciles, EmitsStarted, RefreshReads, LifecycleEnds, EngineDies, Active, Running
    <2>2. QED
      BY <1>0, <1>2, <2>1, QuietMove DEF Stages, Starting, Stopping, Finished, Up, Active, Running, Locking
  <1>12. CASE Outside
    <2>1. UNCHANGED << stage, run, owned, victims >>
      BY <1>12, OutsideSteps
    <2>2. CASE UNCHANGED persistent
      BY <1>2, <2>1, <2>2 DEF ServerUp, Joined
    <2>3. CASE Reboot
      <3>1. \A e \in Engines : stage[e] \in Finished \cup {"idle"}
        BY <2>3 DEF Reboot
      <3>2. ServerUp'
        BY <2>1, <3>1 DEF ServerUp, Up, Active, Finished, Locking, Running
      <3>3. QED
        BY <1>2, <2>1, <3>2 DEF Joined
    <2>4. QED
      BY <1>12, <2>2, <2>3 DEF Outside, Spawn, AgentsExit, LockGoesStale
  <1>13. ASSUME NEW e \in Engines, LockCallFails(e) PROVE FALSE
    BY <1>2, <1>13 DEF LockCallFails
  <1>14. ASSUME NEW e \in Engines, Plain(e) PROVE ServerUp' /\ Joined' /\ victims' = {}
    BY <1>3, <1>5, <1>7, <1>8, <1>10, <1>11, <1>13, <1>14 DEF Plain
  <1>15. QED
    BY <1>4, <1>6, <1>9, <1>12, <1>14, StepKinds

\* BVV-ERR-08: no engine kills the tmux server of another one that is running, as
\* long as no system call of a start fails, nobody loses its lock file to another
\* and no RunID is taken over by two resumes - for any number of fresh runs and
\* resumes, wherever they crash.
THEOREM HolderNeverDisturbed == EsSpec => []HolderUndisturbed
  <1>1. EsInit => QuietInv
    BY StartInit DEF EsInit, QuietInv, ServerUp, Joined, Up, Active, Locking, Running
  <1>2. QuietInv => HolderUndisturbed
    BY DEF QuietInv, Quiet, HolderUndisturbed
  <1>3. QED
    BY <1>1, <1>2, QuietStep, PTL DEF EsSpec

-----------------------------------------------------------------------------
(* Sessions that outlive their orchestrator *)

\* A RunID that was read has been taken over.
SeenRun == \A e \in Engines : seen[e] # None => run[e] = seen[e]

\* The sessions are on the socket that the lock names, or on one whose lock was
\* removed; Cleanup has killed the server before it gives the lock up.
Covered == \A s \in sessions \ unkilled : lockFile.run = s \/ \E e \in Engines : s \in removed[e]
Down == \A e \in Engines : stage[e] = "release" => run[e] \notin sessions \ unkilled

\* A lock file that its creator is about to write is empty.
Empty == \A e \in Engines : stage[e] = "write" /\ lockFile.engine = e => lockFile.run = None

ReachInv == StartInv /\ SeenRun /\ Empty /\ (lost = {} => Covered /\ Down)

LEMMA SeenStep ==
  ASSUME StartInv, SeenRun, EsNext
  PROVE  SeenRun'
  <1>0. EsTypeOK /\ faults \in Nat
    BY DEF StartInv
  <1>1. ASSUME NEW e \in Engines, Takes(e) PROVE SeenRun'
    <2>1. /\ run' = [run EXCEPT ![e] = IF lockFile.run # None THEN lockFile.run ELSE @]
          /\ seen' = [seen EXCEPT ![e] = lockFile.run]
      BY <1>1 DEF Takes
    <2>2. QED
      BY <1>0, <2>1 DEF SeenRun, EsTypeOK
  <1>2. ASSUME UNCHANGED << run, seen >> PROVE SeenRun'
    BY <1>2 DEF SeenRun
  <1>3. ASSUME NEW e \in Engines, Plain(e) \/ Creates(e) \/ Locks(e) PROVE UNCHANGED << run, seen >>
    BY <1>0, <1>3, PlainSteps, LockSteps DEF Creates, ids
  <1>4. QED
    BY <1>1, <1>2, <1>3, OutsideSteps, StepKinds

LEMMA EmptyStep ==
  ASSUME StartInv, Empty, EsNext
  PROVE  Empty'
  <1>0. EsTypeOK /\ faults \in Nat
    BY DEF StartInv
  <1>1. ASSUME NEW e \in Engines, NEW p \in Stages, p # "write", GotoStage(e, p), lockFile' = lockFile
        PROVE  Empty'
    BY <1>0, <1>1, GotoFacts DEF Empty
  <1>2. ASSUME NEW e \in Engines, Plain(e) PROVE Empty'
    <2>1. lockFile' = lockFile /\ \E p \in Stages : GotoStage(e, p) /\ Edge(stage[e], p)
      BY <1>0, <1>2, PlainSteps
    <2>2. QED
      BY <1>1, <2>1 DEF Edge, HasLock, Wrote
  <1>3. ASSUME NEW e \in Engines, Takes(e) \/ Creates(e) PROVE Empty'
    BY <1>1, <1>3 DEF Takes, Creates, lck, Stages, Starting
  <1>4. ASSUME NEW e \in Engines, Locks(e) PROVE Empty'
    <2>1. PICK p \in Stages : /\ GotoStage(e, p)
                              /\ p = "write" => lockFile' = [engine |-> e, run |-> None]
      BY <1>0, <1>4, LockSteps DEF Stages, Starting, Locking, Running, Stopping, Finished
    <2>2. stage'[e] = p /\ \A d \in Engines : d # e => stage'[d] = stage[d]
      BY <1>0, <2>1, GotoFacts
    <2>3. lockFile' \in {lockFile, NoLock} \/ lockFile'.engine = e
      BY <1>0, <1>4, LockSteps, NoLockFacts
    <2>4. ASSUME NEW d \in Engines, stage'[d] = "write", lockFile'.engine = d PROVE lockFile'.run = None
      <3>1. CASE d = e
        BY <2>1, <2>2, <2>4, <3>1, NoLockFacts
      <3>2. CASE d # e
        BY <2>2, <2>3, <2>4, <3>2, NoLockFacts DEF Empty
      <3>3. QED
        BY <3>1, <3>2
    <2>5. QED
      BY <2>4 DEF Empty
  <1>5. CASE Outside
    BY <1>5, OutsideSteps DEF Empty
  <1>6. QED
    BY <1>2, <1>3, <1>4, <1>5, StepKinds

\* Cleanup's kill-server has run, or failed.
LEMMA ReleaseNow ==
  ASSUME EsTypeOK, faults \in Nat, NEW e \in Engines, Plain(e), stage'[e] = "release"
  PROVE  run[e] \notin sessions' \ unkilled'
  <1>1. ASSUME NEW p \in Stages, GotoStage(e, p) PROVE p = "release"
    BY <1>1, GotoFacts
  <1>2. CleanupKill(e)
    <2> USE DEF Stages, Starting, Locking, Running, Stopping, Finished
    <2>2. ASSUME ~CleanupKill(e) PROVE FALSE
      <3>1. CASE RunStarts(e) \/ ResumeStarts(e) \/ (RecoverRunID(e) /\ Refuse(e)) \/ OpenStore(e)
                 \/ OpenLog(e) \/ ProbeServer(e) \/ CreateServer(e) \/ MakeLockDir(e)
        <4>1. \E p \in {"store", "holder", "refused", "log", "probe", "lockdir", "create", "lock"} : GotoStage(e, p)
          BY <3>1 DEF RunStarts, ResumeStarts, Refuse, OpenStore, OpenLog, ProbeServer, CreateServer,
                      MakeLockDir
        <4>2. QED
          BY <1>1, <4>1
      <3>2. CASE \/ (LockCreate(e) /\ lockFile # NoLock) \/ LockRead(e) \/ LockCallFails(e) \/ AcquireFails(e)
                 \/ Reconciles(e) \/ EmitsStarted(e) \/ RefreshReads(e) \/ LifecycleEnds(e) \/ EngineDies(e)
        <4>1. \E p \in {"read", "lock", "failed", "remove", "started", "kill", "running", "refresh",
                        "refused", "crashed"} : GotoStage(e, p)
          BY <3>2 DEF LockCreate, LockRead, TryAgain, LockCallFails, AcquireFails, Reconciles, EmitsStarted,
                      RefreshReads, LifecycleEnds, EngineDies
        <4>2. QED
          BY <1>1, <4>1
      <3>3. QED
        BY <2>2, <3>1, <3>2 DEF Plain
    <2>3. QED
      BY <2>2
  <1>3. QED
    BY <1>2, KillFacts DEF CleanupKill

LEMMA ReachStep == ReachInv /\ [EsNext]_esVars => ReachInv'
  <1>a. ASSUME ReachInv, UNCHANGED esVars PROVE ReachInv'
    <2>1. StartInv'
      BY <1>a, StartInvStep DEF ReachInv
    <2>2. QED
      BY <1>a, <2>1 DEF ReachInv, SeenRun, Empty, Covered, Down, esVars, tmux, lck, ids, hist
  <1> SUFFICES ASSUME ReachInv, EsNext, lost' = {} PROVE Covered' /\ Down'
    BY <1>a, StartInvStep, SeenStep, EmptyStep DEF ReachInv
  <1>0. StartInv /\ EsTypeOK /\ faults \in Nat /\ SeenRun /\ Empty
    BY DEF ReachInv, StartInv
  <1>1. lost = {} /\ Covered /\ Down
    BY StepKinds DEF Observe, ReachInv
  <1>2. \A d \in Engines : stage[d] \in HasLock => lockFile.engine = d
    BY <1>0, <1>1 DEF StartInv, Recorded
  <1>3. \A d \in Engines : stage[d] \in Wrote => lockFile.run = run[d]
    BY <1>0, <1>1 DEF StartInv, Recorded
  <1>4. ASSUME NEW e \in Engines, Plain(e) PROVE Covered' /\ Down'
    <2>1. UNCHANGED << run, lockFile, removed >> /\ sessions' \subseteq sessions /\ unkilled \subseteq unkilled'
      BY <1>0, <1>4, PlainSteps, TmuxStep
    <2>2. \A d \in Engines : d # e => stage'[d] = stage[d]
      BY <1>0, <1>4, PlainSteps, GotoFacts
    <2>3. Covered'
      BY <1>1, <2>1 DEF Covered
    <2>4. Down'
      BY <1>0, <1>1, <1>4, <2>1, <2>2, ReleaseNow DEF Down
    <2>5. QED
      BY <2>3, <2>4
  <1>5. ASSUME NEW e \in Engines, Takes(e) \/ Creates(e) PROVE Covered' /\ Down'
    <2>1. UNCHANGED << lockFile, removed, sessions, unkilled >> /\ \E p \in {"store", "lockdir"} : GotoStage(e, p)
      BY <1>5 DEF Takes, Creates, tmux, lck
    <2>2. \A d \in Engines : d # e => run'[d] = run[d]
      BY <1>0, <1>5 DEF Takes, Creates, ids, EsTypeOK
    <2>3. stage'[e] # "release" /\ \A d \in Engines : d # e => stage'[d] = stage[d]
      BY <1>0, <2>1, GotoFacts DEF Stages, Starting
    <2>4. QED
      BY <1>1, <2>1, <2>2, <2>3 DEF Covered, Down
  <1>6. ASSUME NEW e \in Engines, Locks(e) PROVE Covered' /\ Down'
    <2>1. UNCHANGED << run, seen, sessions, unkilled >> /\ \E p \in Stages \ {"release"} : GotoStage(e, p)
      BY <1>0, <1>6, LockSteps DEF tmux, Stages, Starting, Locking, Running, Stopping, Finished
    <2>2. stage'[e] # "release" /\ \A d \in Engines : d # e => stage'[d] = stage[d]
      BY <1>0, <2>1, GotoFacts
    <2>3. Down'
      BY <1>1, <2>1, <2>2 DEF Down
    <2>4. SUFFICES ASSUME NEW s \in sessions \ unkilled
                   PROVE  lockFile'.run = s \/ \E d \in Engines : s \in removed'[d]
      BY <2>1, <2>3 DEF Covered
    <2>5. s \in Engines /\ s # None
      BY <1>0, StartAssumption DEF EsTypeOK
    <2>6. lockFile.run = s \/ \E d \in Engines : s \in removed[d]
      BY <1>1 DEF Covered
    <2>7. removed \in [Engines -> SUBSET Engines]
      BY <1>0 DEF EsTypeOK
    <2>8. CASE stage[e] = "lock" /\ lockFile = NoLock /\ removed' = removed
      BY <2>5, <2>6, <2>8, NoLockFacts
    <2>9. CASE /\ stage[e] = "write"
               /\ lockFile' = IF lockFile.engine = e THEN [engine |-> e, run |-> run[e]] ELSE lockFile
               /\ removed' = [removed EXCEPT ![e] = @ \ {seen[e]}]
      <3>1. lockFile.engine = e
        BY <1>2, <2>9 DEF HasLock
      <3>2. lockFile'.run = run[e]
        BY <2>9, <3>1, NoLockFacts
      <3>3. lockFile.run = None
        BY <1>0, <2>9, <3>1 DEF Empty
      <3>4. CASE \E d \in Engines : s \in removed[d]
        <4>1. PICK d \in Engines : s \in removed[d]
          BY <3>4
        <4>2. CASE d = e /\ s = seen[e]
          BY <1>0, <2>5, <3>2, <4>2 DEF SeenRun
        <4>3. CASE ~(d = e /\ s = seen[e])
          BY <2>7, <2>9, <4>1, <4>3
        <4>4. QED
          BY <4>2, <4>3
      <3>5. QED
        BY <2>5, <2>6, <3>2, <3>3, <3>4
    <2>10. CASE stage[e] = "write" /\ removed' = removed /\ lockFile' \in {NoLock, lockFile}
      <3>1. lockFile.engine = e
        BY <1>2, <2>10 DEF HasLock
      <3>2. lockFile.run = None
        BY <1>0, <2>10, <3>1 DEF Empty
      <3>3. QED
        BY <2>5, <2>6, <2>10, <3>2
    <2>11. CASE stage[e] = "remove" /\ removed' = [removed EXCEPT ![e] = @ \cup ({lockFile.run} \ {None})]
      BY <2>5, <2>6, <2>7, <2>11
    <2>12. CASE stage[e] = "refresh" /\ removed' = removed /\ lockFile' = [engine |-> e, run |-> run[e]]
      BY <1>3, <2>6, <2>12, NoLockFacts DEF Wrote, HasLock, Running
    <2>13. CASE stage[e] = "release" /\ removed' = removed
      <3>1. lockFile.run = run[e] /\ run[e] # s
        BY <1>1, <1>3, <2>13 DEF Wrote, HasLock, Stopping, Down
      <3>2. QED
        BY <2>6, <2>13, <3>1
    <2>14. QED
      BY <1>0, <1>6, <2>8, <2>9, <2>10, <2>11, <2>12, <2>13, LockSteps
  <1>7. CASE Outside
    <2>1. UNCHANGED << stage, run, lockFile, removed, unkilled >>
      BY <1>7, OutsideSteps
    <2>2. CASE sessions' \subseteq sessions
      BY <1>1, <2>1, <2>2 DEF Covered, Down
    <2>3. ASSUME NEW e \in Engines, stage[e] \in Running, sessions' = sessions \cup {run[e]}
          PROVE  Covered' /\ Down'
      <3>1. lockFile.engine = e /\ lockFile.run = run[e]
        BY <1>2, <1>3, <2>3 DEF HasLock, Wrote, Running
      <3>2. \A d \in Engines : stage[d] # "release"
        BY <1>2, <2>3, <3>1 DEF HasLock, Running, Stopping
      <3>3. QED
        BY <1>1, <2>1, <2>3, <3>1, <3>2 DEF Covered, Down
    <2>4. QED
      BY <1>7, <2>2, <2>3, OutsideSteps
  <1>8. QED
    BY <1>4, <1>5, <1>6, <1>7, StepKinds

\* BVV-ERR-08: agent sessions that outlive their orchestrator stay reachable, for
\* any number of processes that are started, resumed, refused and killed: the
\* socket of every agent session is the one that a resume reads from the lock
\* file, but for those whose stale lock an engine removed and has not written
\* again, and as long as nobody loses its lock file to another.
THEOREM SessionsStayReachable == EsSpec => []SessionsReachable
  <1>1. EsInit => ReachInv
    BY StartInit DEF EsInit, ReachInv, SeenRun, Empty, Covered, Down
  <1>2. ReachInv => SessionsReachable
    BY DEF ReachInv, Covered, SessionsReachable
  <1>3. QED
    BY <1>1, <1>2, ReachStep, PTL DEF EsSpec
=============================================================================
