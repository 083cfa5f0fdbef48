--------------------------- MODULE FSLedgerProofs ---------------------------
(***************************************************************************)
(* FSStore implements the abstract store, ReadyTasks returns no task early *)
(* and dependencies stay acyclic, for any number of clients, processes,    *)
(* tasks and failing writes; the last also of the abstract store itself.   *)
(*                                                                         *)
(* They rest on the two locks: LockInv says that the client between Lock   *)
(* and Unlock holds the mutex of its process and that its process holds    *)
(* the flock, so there is one such client.  CallInv says what that buys:   *)
(* what the client has checked or read is still so when it writes.         *)
(***************************************************************************)
EXTENDS FSLedger, TLAPS

-----------------------------------------------------------------------------
(* The locks *)

LockInv ==
  /\ \A c \in Clients : pc[c] \in {"flock"} \cup Writing => mu[Process[c]] = c
  /\ \A c \in Clients : pc[c] \in Writing => flock = Process[c]

\* What a client knows at each point of its call.
HasCall(c) ==
  pc[c] \in {"mu", "flock"} \cup Writing => call[c] \in Requests /\ call[c].op # "ReadyTasks"

MayWrite(c) ==
  pc[c] = "write" =>
    /\ L!Accepts(call[c])
    /\ call[c].op = "AddDep" => loaded[c] = deps
    /\ call[c].op = "Assign" => orig[c] = L!OpenTask

HalfAssigned(c) ==
  pc[c] \in {"worker", "rollback"} =>
    /\ call[c].op = "Assign"
    /\ orig[c] = L!OpenTask
    /\ task[call[c].t] = L!Assigned(call[c].w)
    /\ worker[call[c].w].status = "idle"

CallInv ==
  /\ \A c \in Clients : HasCall(c) /\ MayWrite(c) /\ HalfAssigned(c)
  /\ \A c \in Clients : pc[c] = "rollback" => Failed

FSInv == TypeOK /\ LockInv /\ CallInv


LEMMA RequestFields ==
  ASSUME NEW r \in Requests
  PROVE  /\ r.op \in {"CreateTask", "UpdateTask"} => r.t \in Tasks /\ r.r \in L!TaskRec
         /\ r.op = "Assign" => r.t \in Tasks /\ r.w \in Workers
         /\ r.op \in {"CreateWorker", "UpdateWorker"} => r.w \in Workers /\ r.r \in L!WorkerRec
         /\ r.op = "AddDep" => r.t \in Tasks /\ r.d \in Tasks
         /\ r.op \in {"CreateTask", "UpdateTask", "Assign", "CreateWorker", "UpdateWorker",
                      "AddDep", "ReadyTasks"}
  <1>1. r \in L!Request \cup [op: {"ReadyTasks"}]
    BY FSAssumption DEF Request
  <1>2. QED
    BY <1>1 DEF L!Request

LEMMA RecordTypes ==
  /\ \A w \in Workers : L!Assigned(w) \in L!TaskRec
  /\ \A t \in Tasks : L!Active(t) \in L!WorkerRec
  /\ L!OpenTask \in L!TaskRec
  /\ L!AbsentTask \notin L!TaskRec
  /\ L!OpenTask # L!AbsentTask
  BY DEF L!Assigned, L!Active, L!OpenTask, L!AbsentTask, L!TaskRec, L!WorkerRec, L!Status

LEMMA ProcessType == \A c \in Clients : Process[c] \in Processes
  BY FSAssumption

\* At most one client is between Lock and Unlock.
LEMMA OneWriter ==
  ASSUME LockInv, NEW c \in Clients, NEW d \in Clients,
         pc[c] \in Writing, pc[d] \in Writing
  PROVE  c = d
  BY DEF LockInv

-----------------------------------------------------------------------------
(* Types *)

PCs == {"idle", "mu", "flock", "scan", "return"} \cup Writing

LEMMA GotoType ==
  ASSUME TypeOK, NEW c \in Clients, NEW where \in PCs, Goto(c, where)
  PROVE  /\ pc' \in [Clients -> PCs]
         /\ pc'[c] = where
         /\ \A d \in Clients \ {c} : pc'[d] = pc[d]
  BY DEF TypeOK, Goto, PCs

LEMMA EdgeType ==
  ASSUME NEW f \in [Tasks -> SUBSET Tasks], NEW t \in Tasks, NEW d \in Tasks
  PROVE  /\ [f EXCEPT ![t] = @ \cup {d}] \in [Tasks -> SUBSET Tasks]
         /\ \A u \in Tasks : f[u] \subseteq [f EXCEPT ![t] = @ \cup {d}][u]
  OBVIOUS

LEMMA TypeInit == Init => TypeOK
  <1> SUFFICES ASSUME Init PROVE TypeOK
    OBVIOUS
  <1>1. faults \in 0..MaxFaults
    BY FSAssumption DEF Init
  <1>2. QED
    BY <1>1 DEF Init, TypeOK

LEMMA TypeStep == FSInv /\ [Next]_vars => TypeOK'
  <1> SUFFICES ASSUME FSInv, [Next]_vars PROVE TypeOK'
    OBVIOUS
  <1> USE DEF files, locks, locals
  <1>0. TypeOK
    BY DEF FSInv
  <1>1. ASSUME NEW c \in Clients, Call(c) PROVE TypeOK'
    <2>1. PICK r \in Requests :
            /\ call' = [call EXCEPT ![c] = r]
            /\ \/ /\ left' = [left EXCEPT ![c] = {t \in Tasks : task[t] # L!AbsentTask}]
                  /\ Goto(c, "scan")
               \/ UNCHANGED left /\ Goto(c, "mu")
      BY <1>1 DEF Call
    <2>2. pc' \in [Clients -> PCs]
      BY <1>0, <2>1, GotoType DEF PCs
    <2>3. call' \in [Clients -> Requests \cup {NoCall}] /\ left' \in [Clients -> SUBSET Tasks]
      BY <1>0, <2>1 DEF TypeOK
    <2>4. QED
      BY <1>0, <1>1, <2>2, <2>3 DEF Call, TypeOK, PCs
  <1>2. ASSUME NEW c \in Clients, LockMu(c) PROVE TypeOK'
    <2>1. pc' \in [Clients -> PCs]
      BY <1>0, <1>2, GotoType DEF LockMu, PCs
    <2>2. mu' \in [Processes -> Clients \cup {NoClient}]
      BY <1>0, <1>2, ProcessType DEF LockMu, TypeOK
    <2>3. QED
      BY <1>0, <1>2, <2>1, <2>2 DEF LockMu, TypeOK, PCs
  <1>3. ASSUME NEW c \in Clients, LockFile(c) PROVE TypeOK'
    <2>1. pc' \in [Clients -> PCs]
      BY <1>0, <1>3, GotoType DEF LockFile, PCs, Writing
    <2>2. QED
      BY <1>0, <1>3, <2>1, ProcessType DEF LockFile, TypeOK, PCs
  <1>4. ASSUME NEW c \in Clients, Inspect(c) PROVE TypeOK'
    <2>0. call[c] \in Requests /\ (call[c].op = "Assign" => call[c].t \in Tasks)
      BY <1>4, RequestFields DEF FSInv, CallInv, HasCall, Inspect, Writing
    <2>1. pc' \in [Clients -> PCs]
      BY <1>0, <1>4, GotoType DEF Inspect, PCs, Writing
    <2>2. orig' \in [Clients -> L!TaskRec \cup {L!AbsentTask}]
      BY <1>0, <1>4, <2>0 DEF Inspect, TypeOK
    <2>3. loaded' \in [Clients -> [Tasks -> SUBSET Tasks]]
      BY <1>0, <1>4 DEF Inspect, TypeOK
    <2>4. QED
      BY <1>0, <1>4, <2>1, <2>2, <2>3 DEF Inspect, TypeOK, PCs
  <1>5. ASSUME NEW c \in Clients, Write(c) PROVE TypeOK'
    <2>0. call[c] \in Requests
      BY <1>5 DEF FSInv, CallInv, HasCall, Write, Writing
    <2>1. pc' \in [Clients -> PCs]
      BY <1>0, <1>5, GotoType DEF Write, PCs, Writing
    <2>2. task' \in [Tasks -> L!TaskRec \cup {L!AbsentTask}]
      BY <1>0, <1>5, <2>0, RequestFields, RecordTypes DEF Write, TypeOK
    <2>3. worker' \in [Workers -> L!WorkerRec \cup {L!AbsentWorker}]
      BY <1>0, <1>5, <2>0, RequestFields DEF Write, TypeOK
    <2>4. deps' \in [Tasks -> SUBSET Tasks]
      <3>1. CASE call[c].op = "AddDep"
        <4>1. call[c].t \in Tasks /\ call[c].d \in Tasks
          BY <2>0, <3>1, RequestFields
        <4>2. loaded[c] \in [Tasks -> SUBSET Tasks]
          BY <1>0 DEF TypeOK
        <4>3. deps' = [loaded[c] EXCEPT ![call[c].t] = @ \cup {call[c].d}]
          BY <1>5, <3>1 DEF Write
        <4>4. QED
          BY <4>1, <4>2, <4>3, EdgeType
      <3>2. CASE call[c].op # "AddDep"
        BY <1>0, <1>5, <3>2 DEF Write, TypeOK
      <3>3. QED
        BY <3>1, <3>2
    <2>5. QED
      BY <1>0, <1>5, <2>1, <2>2, <2>3, <2>4 DEF Write, TypeOK, PCs
  <1>6. ASSUME NEW c \in Clients, WriteWorker(c) PROVE TypeOK'
    <2>0. call[c].t \in Tasks /\ call[c].w \in Workers
      BY <1>6, RequestFields DEF FSInv, CallInv, HasCall, HalfAssigned, WriteWorker, Writing
    <2>1. pc' \in [Clients -> PCs]
      BY <1>0, <1>6, GotoType DEF WriteWorker, PCs, Writing
    <2>2. worker' \in [Workers -> L!WorkerRec \cup {L!AbsentWorker}]
      BY <1>0, <1>6, <2>0, RecordTypes DEF WriteWorker, TypeOK
    <2>3. QED
      BY <1>0, <1>6, <2>1, <2>2 DEF WriteWorker, TypeOK, PCs
  <1>7. ASSUME NEW c \in Clients, Rollback(c) PROVE TypeOK'
    <2>1. pc' \in [Clients -> PCs]
      BY <1>0, <1>7, GotoType DEF Rollback, PCs, Writing
    <2>2. task' \in [Tasks -> L!TaskRec \cup {L!AbsentTask}]
      BY <1>0, <1>7 DEF Rollback, TypeOK
    <2>3. QED
      BY <1>0, <1>7, <2>1, <2>2 DEF Rollback, TypeOK, PCs
  <1>8. ASSUME NEW c \in Clients, WriteFails(c) PROVE TypeOK'
    <2>1. pc' \in [Clients -> PCs]
      BY <1>0, <1>8, GotoType DEF WriteFails, PCs, Writing
    <2>2. faults' \in 0..MaxFaults
      BY <1>0, <1>8, FSAssumption DEF WriteFails, TypeOK
    <2>3. QED
      BY <1>0, <1>8, <2>1, <2>2 DEF WriteFails, TypeOK, PCs
  <1>9. ASSUME NEW c \in Clients, Unlock(c) PROVE TypeOK'
    <2>1. pc' \in [Clients -> PCs]
      BY <1>0, <1>9, GotoType DEF Unlock, PCs
    <2>2. /\ mu' \in [Processes -> Clients \cup {NoClient}]
          /\ call' \in [Clients -> Requests \cup {NoCall}]
          /\ orig' \in [Clients -> L!TaskRec \cup {L!AbsentTask}]
          /\ loaded' \in [Clients -> [Tasks -> SUBSET Tasks]]
      BY <1>0, <1>9 DEF Unlock, TypeOK
    <2>3. QED
      BY <1>0, <1>9, <2>1, <2>2 DEF Unlock, TypeOK, PCs
  <1>10. ASSUME NEW c \in Clients, ReadFile(c) PROVE TypeOK'
    <2>1. PICK t \in left[c] : /\ seen' = [seen EXCEPT ![c][t] = task[t]]
                               /\ left' = [left EXCEPT ![c] = @ \ {t}]
      BY <1>10 DEF ReadFile
    <2>2. t \in Tasks /\ task[t] \in L!TaskRec \cup {L!AbsentTask}
      BY <1>0, <2>1 DEF TypeOK
    <2>3. seen' \in [Clients -> [Tasks -> L!TaskRec \cup {L!AbsentTask}]]
      BY <1>0, <2>1, <2>2 DEF TypeOK
    <2>4. left' \in [Clients -> SUBSET Tasks]
      BY <1>0, <2>1 DEF TypeOK
    <2>5. QED
      BY <1>0, <1>10, <2>3, <2>4 DEF ReadFile, TypeOK
  <1>11. ASSUME NEW c \in Clients, LoadDeps(c) PROVE TypeOK'
    <2>1. pc' \in [Clients -> PCs]
      BY <1>0, <1>11, GotoType DEF LoadDeps, PCs
    <2>2. ready' \in [Clients -> SUBSET Tasks]
      BY <1>0, <1>11, FSAssumption DEF LoadDeps, TypeOK
    <2>3. QED
      BY <1>0, <1>11, <2>1, <2>2 DEF LoadDeps, TypeOK, PCs
  <1>12. ASSUME NEW c \in Clients, Return(c) PROVE TypeOK'
    <2>1. pc' \in [Clients -> PCs]
      BY <1>0, <1>12, GotoType DEF Return, PCs
    <2>2. /\ call' \in [Clients -> Requests \cup {NoCall}]
          /\ seen' \in [Clients -> [Tasks -> L!TaskRec \cup {L!AbsentTask}]]
          /\ ready' \in [Clients -> SUBSET Tasks]
      BY <1>0, <1>12 DEF Return, TypeOK
    <2>3. QED
      BY <1>0, <1>12, <2>1, <2>2 DEF Return, TypeOK, PCs
  <1>13. ASSUME NEW p \in Processes, Kill(p) PROVE TypeOK'
    <2>1. faults' \in 0..MaxFaults
      BY <1>0, <1>13, FSAssumption DEF Kill, TypeOK
    <2>2. /\ pc' \in [Clients -> PCs]
          /\ call' \in [Clients -> Requests \cup {NoCall}]
          /\ left' \in [Clients -> SUBSET Tasks]
          /\ ready' \in [Clients -> SUBSET Tasks]
      BY <1>0, <1>13 DEF Kill, TypeOK, PCs
    <2>3. /\ seen' \in [Clients -> [Tasks -> L!TaskRec \cup {L!AbsentTask}]]
          /\ orig' \in [Clients -> L!TaskRec \cup {L!AbsentTask}]
          /\ loaded' \in [Clients -> [Tasks -> SUBSET Tasks]]
      BY <1>0, <1>13 DEF Kill, TypeOK
    <2>4. /\ mu' \in [Processes -> Clients \cup {NoClient}]
          /\ flock' \in Processes \cup {NoProcess}
      BY <1>0, <1>13 DEF Kill, TypeOK
    <2>5. QED
      BY <1>0, <1>13, <2>1, <2>2, <2>3, <2>4 DEF Kill, TypeOK, PCs
  <1>14. CASE UNCHANGED vars
    BY <1>0, <1>14 DEF vars, TypeOK
  <1>15. QED
    BY <1>1, <1>2, <1>3, <1>4, <1>5, <1>6, <1>7, <1>8, <1>9, <1>10, <1>11, <1>12, <1>13, <1>14
    DEF Next, Step

-----------------------------------------------------------------------------
(* Mutual exclusion *)

LEMMA LockStep == FSInv /\ [Next]_vars => LockInv'
  <1> SUFFICES ASSUME FSInv, [Next]_vars PROVE LockInv'
    OBVIOUS
  <1> USE DEF files, locks, locals
  <1>0. TypeOK /\ LockInv
    BY DEF FSInv
  <1>1. ASSUME NEW c \in Clients, NEW where \in PCs, Goto(c, where),
               where \in {"flock"} \cup Writing => pc[c] \in {"flock"} \cup Writing,
               where \in Writing => pc[c] \in Writing,
               UNCHANGED <<mu, flock>>
        PROVE  LockInv'
    BY <1>0, <1>1, GotoType DEF LockInv
  <1>2. ASSUME NEW c \in Clients, Call(c) PROVE LockInv'
    <2>1. Goto(c, "scan") \/ Goto(c, "mu")
      BY <1>2 DEF Call
    <2>2. QED
      BY <1>1, <1>2, <2>1 DEF Call, PCs, Writing
  <1>3. ASSUME NEW c \in Clients, LockMu(c) PROVE LockInv'
    <2>1. /\ pc[c] = "mu" /\ mu[Process[c]] = NoClient
          /\ mu' = [mu EXCEPT ![Process[c]] = c] /\ flock' = flock
          /\ pc'[c] = "flock" /\ \A d \in Clients \ {c} : pc'[d] = pc[d]
      BY <1>0, <1>3, GotoType DEF LockMu, PCs
    <2>2. \A d \in Clients : pc'[d] \in {"flock"} \cup Writing => mu'[Process[d]] = d
      BY <1>0, <2>1, ProcessType, FSAssumption DEF LockInv, TypeOK
    <2>3. \A d \in Clients : pc'[d] \in Writing => flock' = Process[d]
      BY <1>0, <2>1 DEF LockInv, Writing
    <2>4. QED
      BY <2>2, <2>3 DEF LockInv
  <1>4. ASSUME NEW c \in Clients, LockFile(c) PROVE LockInv'
    <2>1. /\ pc[c] = "flock" /\ flock \in {NoProcess, Process[c]}
          /\ flock' = Process[c] /\ mu' = mu
          /\ pc'[c] = "inspect" /\ \A d \in Clients \ {c} : pc'[d] = pc[d]
      BY <1>0, <1>4, GotoType DEF LockFile, PCs, Writing
    <2>2. ASSUME NEW d \in Clients, pc'[d] \in Writing PROVE flock' = Process[d]
      <3>1. CASE d = c
        BY <2>1, <3>1
      <3>2. CASE d # c
        <4>1. flock = Process[d] /\ Process[d] # NoProcess
          BY <1>0, <2>1, <2>2, <3>2, ProcessType, FSAssumption DEF LockInv
        <4>2. QED
          BY <2>1, <4>1
      <3>3. QED
        BY <3>1, <3>2
    <2>3. \A d \in Clients : pc'[d] \in {"flock"} \cup Writing => mu'[Process[d]] = d
      BY <1>0, <2>1 DEF LockInv
    <2>4. QED
      BY <2>2, <2>3 DEF LockInv
  <1>5. ASSUME NEW c \in Clients, Unlock(c) PROVE LockInv'
    <2>1. /\ pc[c] = "unlock" /\ pc[c] \in Writing
          /\ flock' = NoProcess /\ mu' = [mu EXCEPT ![Process[c]] = NoClient]
          /\ pc'[c] = "idle" /\ \A d \in Clients \ {c} : pc'[d] = pc[d]
      BY <1>0, <1>5, GotoType DEF Unlock, PCs, Writing
    <2>2. \A d \in Clients : pc'[d] \notin Writing
      BY <1>0, <2>1, OneWriter DEF Writing
    <2>3. ASSUME NEW d \in Clients, pc'[d] \in {"flock"} \cup Writing PROVE mu'[Process[d]] = d
      <3>1. d # c /\ pc[d] = "flock"
        BY <2>1, <2>2, <2>3 DEF Writing
      <3>2. mu[Process[d]] = d /\ mu[Process[c]] = c
        BY <1>0, <2>1, <3>1 DEF LockInv
      <3>3. Process[d] # Process[c]
        BY <3>1, <3>2
      <3>4. QED
        BY <1>0, <2>1, <3>2, <3>3, ProcessType DEF TypeOK
    <2>4. QED
      BY <2>2, <2>3 DEF LockInv
  <1>6. ASSUME NEW c \in Clients,
               Inspect(c) \/ Write(c) \/ WriteWorker(c) \/ Rollback(c) \/ WriteFails(c)
        PROVE  LockInv'
    <2>1. pc[c] \in Writing /\ UNCHANGED <<mu, flock>>
      BY <1>6 DEF Inspect, Write, WriteWorker, Rollback, WriteFails, Writing
    <2>2. \E where \in PCs : Goto(c, where)
      BY <1>6 DEF Inspect, Write, WriteWorker, Rollback, WriteFails, PCs, Writing
    <2>3. QED
      BY <1>1, <2>1, <2>2
  <1>7. ASSUME NEW c \in Clients, ReadFile(c) PROVE LockInv'
    BY <1>0, <1>7 DEF ReadFile, LockInv
  <1>8. ASSUME NEW c \in Clients, LoadDeps(c) PROVE LockInv'
    BY <1>1, <1>8 DEF LoadDeps, PCs, Writing
  <1>9. ASSUME NEW c \in Clients, Return(c) PROVE LockInv'
    BY <1>1, <1>9 DEF Return, PCs, Writing
  <1>10. ASSUME NEW p \in Processes, Kill(p) PROVE LockInv'
    <2>1. /\ mu' = [mu EXCEPT ![p] = NoClient]
          /\ flock' = IF flock = p THEN NoProcess ELSE flock
          /\ pc' = [c \in Clients |-> IF Process[c] = p THEN "idle" ELSE pc[c]]
      BY <1>10 DEF Kill
    <2>2. "idle" \notin {"flock"} \cup Writing
      BY DEF Writing
    <2>3. ASSUME NEW d \in Clients, pc'[d] \in {"flock"} \cup Writing
          PROVE  /\ mu'[Process[d]] = d
                 /\ pc'[d] \in Writing => flock' = Process[d]
      <3>1. Process[d] # p /\ pc'[d] = pc[d]
        BY <2>1, <2>2, <2>3
      <3>2. QED
        BY <1>0, <2>1, <2>3, <3>1, ProcessType DEF LockInv, TypeOK
    <2>4. QED
      BY <2>3 DEF LockInv
  <1>11. CASE UNCHANGED vars
    BY <1>0, <1>11 DEF vars, LockInv
  <1>12. QED
    BY <1>2, <1>3, <1>4, <1>5, <1>6, <1>7, <1>8, <1>9, <1>10, <1>11 DEF Next, Step

-----------------------------------------------------------------------------
(* What is checked stays so *)

\* A call that a step of another client leaves alone: the files are as they were,
\* or the other one holds the locks and this one is not that far.
LEMMA CallKept ==
  ASSUME FSInv, NEW d \in Clients, pc'[d] = pc[d], call'[d] = call[d],
         loaded'[d] = loaded[d], orig'[d] = orig[d],
         UNCHANGED files \/ pc[d] \notin Writing
  PROVE  HasCall(d)' /\ MayWrite(d)' /\ HalfAssigned(d)'
  <1>1. HasCall(d)'
    BY DEF FSInv, CallInv, HasCall
  <1>2. CASE pc[d] \notin Writing
    BY <1>1, <1>2 DEF MayWrite, HalfAssigned, Writing
  <1>3. CASE UNCHANGED files
    <2>1. UNCHANGED <<task, worker, deps>>
      BY <1>3 DEF files
    <2>2. MayWrite(d)'
      BY <2>1 DEF FSInv, CallInv, MayWrite, L!Accepts, L!Reachable, L!Closed
    <2>3. HalfAssigned(d)'
      BY <2>1 DEF FSInv, CallInv, HalfAssigned
    <2>4. QED
      BY <1>1, <2>2, <2>3
  <1>4. QED
    BY <1>2, <1>3

LEMMA CallStep == FSInv /\ [Next]_vars => CallInv'
  <1> SUFFICES ASSUME FSInv, [Next]_vars PROVE CallInv'
    OBVIOUS
  <1> USE DEF files, locks, locals
  <1>0. TypeOK /\ LockInv /\ CallInv
    BY DEF FSInv
  <1> DEFINE Knows(d) == HasCall(d) /\ MayWrite(d) /\ HalfAssigned(d) /\ (pc[d] = "rollback" => Failed)
  <1>1. ASSUME \A d \in Clients : Knows(d)' PROVE CallInv'
    BY <1>1 DEF CallInv
  \* A step of c that only concerns c, and writes files only with the locks.
  <1>2. ASSUME NEW c \in Clients, \A d \in Clients \ {c} : /\ pc'[d] = pc[d] /\ call'[d] = call[d]
                                                          /\ loaded'[d] = loaded[d] /\ orig'[d] = orig[d],
               UNCHANGED files \/ pc[c] \in Writing,
               faults' = faults \/ Failed',
               Knows(c)'
        PROVE  CallInv'
    <2>1. ASSUME NEW d \in Clients, d # c PROVE Knows(d)'
      <3>1. UNCHANGED files \/ pc[d] \notin Writing
        BY <1>0, <1>2, <2>1, OneWriter
      <3>2. pc'[d] = "rollback" => Failed'
        BY <1>0, <1>2, <2>1 DEF CallInv, Failed
      <3>3. QED
        BY <1>2, <2>1, <3>1, <3>2, CallKept
    <2>2. QED
      BY <1>1, <1>2, <2>1
  <1>3. ASSUME NEW c \in Clients, Call(c) PROVE CallInv'
    <2>1. PICK r \in Requests :
            /\ call' = [call EXCEPT ![c] = r]
            /\ \/ r.op = "ReadyTasks" /\ Goto(c, "scan")
               \/ r.op # "ReadyTasks" /\ Goto(c, "mu")
      BY <1>3 DEF Call
    <2>2. /\ call'[c] = r /\ \A d \in Clients \ {c} : pc'[d] = pc[d] /\ call'[d] = call[d]
          /\ pc'[c] = "scan" \/ (pc'[c] = "mu" /\ r.op # "ReadyTasks")
      BY <1>0, <2>1, GotoType DEF TypeOK, PCs
    <2>3. Knows(c)'
      BY <2>2 DEF HasCall, MayWrite, HalfAssigned, Writing
    <2>4. UNCHANGED files /\ UNCHANGED <<loaded, orig, faults>>
      BY <1>3 DEF Call
    <2>5. QED
      BY <1>2, <2>2, <2>3, <2>4
  <1>4. ASSUME NEW c \in Clients, LockMu(c) \/ LockFile(c) PROVE CallInv'
    <2>1. /\ pc[c] \in {"mu", "flock"} /\ pc'[c] \in {"flock", "inspect"}
          /\ \A d \in Clients \ {c} : pc'[d] = pc[d]
      BY <1>0, <1>4, GotoType DEF LockMu, LockFile, PCs, Writing
    <2>2. UNCHANGED files /\ UNCHANGED <<call, loaded, orig, faults>>
      BY <1>4 DEF LockMu, LockFile
    <2>3. Knows(c)'
      BY <1>0, <2>1, <2>2 DEF CallInv, HasCall, MayWrite, HalfAssigned
    <2>4. QED
      BY <1>2, <2>1, <2>2, <2>3
  <1>5. ASSUME NEW c \in Clients, Inspect(c) PROVE CallInv'
    <2>1. /\ pc[c] = "inspect" /\ pc[c] \in Writing
          /\ pc'[c] = IF Accepts(c) THEN "write" ELSE "unlock"
          /\ \A d \in Clients \ {c} : pc'[d] = pc[d]
      BY <1>0, <1>5, GotoType DEF Inspect, PCs, Writing
    <2>2. UNCHANGED files /\ UNCHANGED <<call, faults>>
      BY <1>5 DEF Inspect
    <2>3. /\ \A d \in Clients \ {c} : loaded'[d] = loaded[d] /\ orig'[d] = orig[d]
          /\ call[c].op = "AddDep" => loaded'[c] = deps
          /\ call[c].op = "Assign" => orig'[c] = task[call[c].t]
      BY <1>0, <1>5 DEF Inspect, TypeOK
    <2>4. HasCall(c)' /\ HalfAssigned(c)' /\ (pc'[c] = "rollback" => Failed')
      BY <1>0, <2>1, <2>2 DEF CallInv, HasCall, HalfAssigned, Writing
    <2>5. MayWrite(c)'
      <3>1. CASE Accepts(c)
        <4>1. L!Accepts(call[c])'
          BY <2>2, <3>1 DEF Accepts, L!Accepts, L!Reachable, L!Closed
        <4>2. call[c].op = "Assign" => task[call[c].t] = L!OpenTask
          BY <3>1 DEF Accepts, L!Accepts
        <4>3. QED
          BY <2>2, <2>3, <4>1, <4>2 DEF MayWrite, L!OpenTask
      <3>2. CASE ~Accepts(c)
        BY <2>1, <3>2 DEF MayWrite
      <3>3. QED
        BY <3>1, <3>2
    <2>6. QED
      BY <1>2, <2>1, <2>2, <2>3, <2>4, <2>5
  <1>6. ASSUME NEW c \in Clients, Write(c) PROVE CallInv'
    <2>1. /\ pc[c] = "write" /\ pc[c] \in Writing
          /\ pc'[c] = IF call[c].op = "Assign" THEN "worker" ELSE "unlock"
          /\ \A d \in Clients \ {c} : pc'[d] = pc[d]
      BY <1>0, <1>6, GotoType DEF Write, PCs, Writing
    <2>2. UNCHANGED <<call, loaded, orig, faults>>
      BY <1>6 DEF Write
    <2>3. HasCall(c)' /\ MayWrite(c)' /\ (pc'[c] = "rollback" => Failed')
      BY <1>0, <2>1, <2>2 DEF CallInv, HasCall, MayWrite, Writing
    <2>4. HalfAssigned(c)'
      <3>1. CASE call[c].op = "Assign"
        <4>1. /\ orig[c] = L!OpenTask
              /\ worker[call[c].w].status = "idle"
          BY <1>0, <2>1, <3>1 DEF CallInv, MayWrite, L!Accepts
        <4>2. /\ task' = [task EXCEPT ![call[c].t] = L!Assigned(call[c].w)]
              /\ worker' = worker
          BY <1>6, <3>1 DEF Write
        <4>3. call[c].t \in Tasks
          BY <1>0, <2>1, <3>1, RequestFields DEF CallInv, HasCall
        <4>4. task'[call[c].t] = L!Assigned(call[c].w)
          BY <1>0, <4>2, <4>3 DEF TypeOK
        <4>5. QED
          BY <2>2, <3>1, <4>1, <4>2, <4>4 DEF HalfAssigned, L!OpenTask, L!Assigned
      <3>2. CASE call[c].op # "Assign"
        BY <2>1, <3>2 DEF HalfAssigned
      <3>3. QED
        BY <3>1, <3>2
    <2>5. QED
      BY <1>2, <2>1, <2>2, <2>3, <2>4
  <1>7. ASSUME NEW c \in Clients, WriteWorker(c) \/ Rollback(c) PROVE CallInv'
    <2>1. /\ pc[c] \in Writing /\ pc'[c] = "unlock"
          /\ \A d \in Clients \ {c} : pc'[d] = pc[d]
      BY <1>0, <1>7, GotoType DEF WriteWorker, Rollback, PCs, Writing
    <2>2. UNCHANGED <<call, loaded, orig, faults>>
      BY <1>7 DEF WriteWorker, Rollback
    <2>3. Knows(c)'
      BY <1>0, <2>1, <2>2 DEF CallInv, HasCall, MayWrite, HalfAssigned, Writing
    <2>4. QED
      BY <1>2, <2>1, <2>2, <2>3
  <1>8. ASSUME NEW c \in Clients, WriteFails(c) PROVE CallInv'
    <2>1. /\ pc[c] \in {"write", "worker", "rollback"} /\ pc[c] \in Writing
          /\ pc'[c] = IF pc[c] = "worker" THEN "rollback" ELSE "unlock"
          /\ \A d \in Clients \ {c} : pc'[d] = pc[d]
      BY <1>0, <1>8, GotoType DEF WriteFails, PCs, Writing
    <2>2. UNCHANGED files /\ UNCHANGED <<call, loaded, orig>> /\ Failed'
      BY <1>0, <1>8 DEF WriteFails, TypeOK, Failed
    <2>3. HasCall(c)' /\ MayWrite(c)'
      BY <1>0, <2>1, <2>2 DEF CallInv, HasCall, MayWrite, Writing
    <2>4. HalfAssigned(c)'
      BY <1>0, <2>1, <2>2 DEF CallInv, HalfAssigned, L!OpenTask, L!Assigned
    <2>5. QED
      BY <1>2, <2>1, <2>2, <2>3, <2>4
  <1>9. ASSUME NEW c \in Clients, Unlock(c) PROVE CallInv'
    <2>1. /\ pc'[c] = "idle" /\ \A d \in Clients \ {c} : pc'[d] = pc[d]
      BY <1>0, <1>9, GotoType DEF Unlock, PCs
    <2>2. \A d \in Clients \ {c} : call'[d] = call[d] /\ loaded'[d] = loaded[d] /\ orig'[d] = orig[d]
      BY <1>0, <1>9 DEF Unlock, TypeOK
    <2>3. Knows(c)'
      BY <2>1 DEF HasCall, MayWrite, HalfAssigned, Writing
    <2>4. UNCHANGED files /\ UNCHANGED faults
      BY <1>9 DEF Unlock
    <2>5. QED
      BY <1>2, <2>1, <2>2, <2>3, <2>4
  <1>10. ASSUME NEW c \in Clients, ReadFile(c) \/ LoadDeps(c) \/ Return(c) PROVE CallInv'
    <2>1. /\ pc'[c] \in {"scan", "return", "idle"} /\ \A d \in Clients \ {c} : pc'[d] = pc[d]
      BY <1>0, <1>10, GotoType DEF ReadFile, LoadDeps, Return, PCs
    <2>2. \A d \in Clients \ {c} : call'[d] = call[d]
      BY <1>0, <1>10 DEF ReadFile, LoadDeps, Return, TypeOK
    <2>3. Knows(c)'
      BY <2>1 DEF HasCall, MayWrite, HalfAssigned, Writing
    <2>4. UNCHANGED files /\ UNCHANGED <<loaded, orig, faults>>
      BY <1>10 DEF ReadFile, LoadDeps, Return
    <2>5. QED
      BY <1>2, <2>1, <2>2, <2>3, <2>4
  <1>11. ASSUME NEW p \in Processes, Kill(p) PROVE CallInv'
    <2>1. UNCHANGED files /\ Failed'
      BY <1>0, <1>11 DEF Kill, TypeOK, Failed
    <2>2. ASSUME NEW d \in Clients PROVE Knows(d)'
      <3>1. CASE Process[d] = p
        <4>1. pc'[d] = "idle"
          BY <1>11, <3>1 DEF Kill
        <4>2. QED
          BY <4>1 DEF HasCall, MayWrite, HalfAssigned, Writing
      <3>2. CASE Process[d] # p
        <4>1. /\ pc'[d] = pc[d] /\ call'[d] = call[d] /\ loaded'[d] = loaded[d] /\ orig'[d] = orig[d]
          BY <1>11, <3>2 DEF Kill
        <4>2. QED
          BY <2>1, <4>1, CallKept
      <3>3. QED
        BY <3>1, <3>2
    <2>3. QED
      BY <1>1, <2>2
  <1>12. CASE UNCHANGED vars
    <2>1. ASSUME NEW d \in Clients PROVE Knows(d)'
      <3>1. UNCHANGED files /\ UNCHANGED <<pc, call, loaded, orig, faults>>
        BY <1>12 DEF vars
      <3>2. pc'[d] = "rollback" => Failed'
        BY <1>0, <3>1 DEF CallInv, Failed
      <3>3. QED
        BY <3>1, <3>2, CallKept
    <2>2. QED
      BY <1>1, <2>1
  <1>13. QED
    BY <1>3, <1>4, <1>5, <1>6, <1>7, <1>8, <1>9, <1>10, <1>11, <1>12 DEF Next, Step

LEMMA FSInvInit == Init => FSInv
  <1> SUFFICES ASSUME Init PROVE FSInv
    OBVIOUS
  <1>1. \A c \in Clients : pc[c] = "idle"
    BY DEF Init
  <1>2. LockInv /\ CallInv
    BY <1>1 DEF LockInv, CallInv, HasCall, MayWrite, HalfAssigned, Writing
  <1>3. QED
    BY <1>2, TypeInit DEF FSInv

LEMMA FSInvStep == FSInv /\ [Next]_vars => FSInv'
  BY TypeStep, LockStep, CallStep DEF FSInv

\* The two locks exclude writers of one process and of different ones.
THEOREM WritersExclusive ==
  Spec => [](\A c, d \in Clients : pc[c] \in Writing /\ pc[d] \in Writing => c = d)
  <1>1. FSInv => \A c, d \in Clients : pc[c] \in Writing /\ pc[d] \in Writing => c = d
    BY OneWriter DEF FSInv
  <1>2. QED
    BY <1>1, FSInvInit, FSInvStep, PTL DEF Spec

-----------------------------------------------------------------------------
(* ReadyTasks *)

\* BVV-S-02 of the store's clients: none takes a task out of a terminal status.
TerminalStays ==
  [][\A t \in Tasks : task[t].status \in L!Terminal => task'[t].status \in L!Terminal]_vars

\* The dependencies a task had are still there.
WiredBefore == \A c \in Clients, t \in Tasks : wired[c][t] \subseteq deps[t]

\* What ReadyTasks has read is not ahead of the files.
ReadsBehind ==
  \A c \in Clients, t \in Tasks :
    /\ seen[c][t] # L!AbsentTask => task[t] # L!AbsentTask
    /\ seen[c][t].status \in L!Terminal => task[t].status \in L!Terminal

ReadyInv == FSInv /\ WiredBefore /\ ReadsBehind /\ NeverReadyEarly

\* What the writers leave to ReadyTasks: dependencies only grow, and no task
\* disappears.
FilesGrow ==
  \A t \in Tasks :
    /\ deps[t] \subseteq deps'[t]
    /\ task[t] # L!AbsentTask => task'[t] # L!AbsentTask

LEMMA WriteGrows ==
  ASSUME FSInv, NEW c \in Clients, Write(c)
  PROVE  FilesGrow
  <1>1. /\ call[c] \in Requests /\ L!Accepts(call[c])
        /\ call[c].op = "AddDep" => loaded[c] = deps
    BY DEF Write, FSInv, CallInv, HasCall, MayWrite, Writing
  <1>2. /\ task \in [Tasks -> L!TaskRec \cup {L!AbsentTask}] /\ deps \in [Tasks -> SUBSET Tasks]
    BY DEF FSInv, TypeOK
  <1>3. CASE call[c].op \in {"CreateTask", "UpdateTask"}
    <2>1. /\ task' = [task EXCEPT ![call[c].t] = call[c].r] /\ deps' = deps
      BY <1>3 DEF Write
    <2>2. call[c].t \in Tasks /\ call[c].r \in L!TaskRec
      BY <1>1, <1>3, RequestFields
    <2>3. QED
      BY <1>2, <2>1, <2>2, RecordTypes DEF FilesGrow
  <1>4. CASE call[c].op = "Assign"
    <2>1. /\ task' = [task EXCEPT ![call[c].t] = L!Assigned(call[c].w)] /\ deps' = deps
      BY <1>4 DEF Write
    <2>2. /\ call[c].t \in Tasks /\ call[c].w \in Workers
          /\ task[call[c].t] # L!AbsentTask
      BY <1>1, <1>4, RequestFields, RecordTypes DEF L!Accepts
    <2>3. QED
      BY <1>2, <2>1, <2>2, RecordTypes DEF FilesGrow
  <1>5. CASE call[c].op = "AddDep"
    <2>1. task' = task /\ deps' = [deps EXCEPT ![call[c].t] = @ \cup {call[c].d}]
      BY <1>1, <1>5 DEF Write
    <2>2. call[c].t \in Tasks /\ call[c].d \in Tasks
      BY <1>1, <1>5, RequestFields
    <2>3. QED
      BY <1>2, <2>1, <2>2, EdgeType DEF FilesGrow
  <1>6. CASE call[c].op \in {"CreateWorker", "UpdateWorker"}
    BY <1>6 DEF Write, FilesGrow
  <1>7. QED
    BY <1>3, <1>4, <1>5, <1>6 DEF Write

LEMMA RollbackGrows ==
  ASSUME FSInv, NEW c \in Clients, Rollback(c)
  PROVE  FilesGrow
  <1>1. /\ orig[c] = L!OpenTask /\ call[c].op = "Assign" /\ call[c] \in Requests
        /\ task[call[c].t] = L!Assigned(call[c].w)
    BY DEF Rollback, FSInv, CallInv, HasCall, HalfAssigned, Writing
  <1>2. call[c].t \in Tasks /\ call[c].w \in Workers
    BY <1>1, RequestFields
  <1>3. task' = [task EXCEPT ![call[c].t] = L!OpenTask] /\ deps' = deps
    BY <1>1 DEF Rollback
  <1>4. task \in [Tasks -> L!TaskRec \cup {L!AbsentTask}]
    BY DEF FSInv, TypeOK
  <1>5. QED
    BY <1>1, <1>2, <1>3, <1>4, RecordTypes DEF FilesGrow

LEMMA NextGrows ==
  ASSUME FSInv, [Next]_vars
  PROVE  FilesGrow
  <1>1. ASSUME UNCHANGED <<task, deps>> PROVE FilesGrow
    BY <1>1 DEF FilesGrow
  <1>2. ASSUME NEW c \in Clients,
               \/ Call(c) \/ LockMu(c) \/ LockFile(c) \/ Inspect(c) \/ WriteWorker(c)
               \/ WriteFails(c) \/ Unlock(c) \/ ReadFile(c) \/ LoadDeps(c) \/ Return(c)
        PROVE  UNCHANGED <<task, deps>>
    BY <1>2 DEF Call, LockMu, LockFile, Inspect, WriteWorker, WriteFails, Unlock, ReadFile,
                LoadDeps, Return, files
  <1>3. ASSUME NEW p \in Processes, Kill(p) PROVE UNCHANGED <<task, deps>>
    BY <1>3 DEF Kill, files
  <1>4. CASE UNCHANGED vars
    BY <1>1, <1>4 DEF vars, files
  <1>5. QED
    BY <1>1, <1>2, <1>3, <1>4, WriteGrows, RollbackGrows DEF Next, Step

\* What ReadyTasks holds of the client's reads changes only in its own steps and
\* in a kill.
Filtered(c) ==
  {t \in InBranch : /\ seen[c][t] = L!OpenTask
                    /\ \A d \in deps[t] : seen[c][d].status \in L!Terminal}

ReadsMove(c, t) ==
  /\ \/ seen'[c][t] = seen[c][t]
     \/ seen'[c][t] = task[t]
     \/ seen'[c][t] = L!AbsentTask
  /\ pc'[c] = "return" =>
       (pc[c] = "return" /\ ready'[c] = ready[c]) \/ ready'[c] = Filtered(c)

LEMMA NextReads ==
  ASSUME FSInv, [Next]_vars, NEW c \in Clients, NEW t \in Tasks
  PROVE  ReadsMove(c, t)
  <1> USE DEF files, locks, locals
  <1>0. /\ seen \in [Clients -> [Tasks -> L!TaskRec \cup {L!AbsentTask}]]
        /\ ready \in [Clients -> SUBSET Tasks]
        /\ left \in [Clients -> SUBSET Tasks]
        /\ pc \in [Clients -> {"idle", "mu", "flock", "scan", "return"} \cup Writing]
    BY DEF FSInv, TypeOK
  <1>1. ASSUME UNCHANGED <<seen, ready>>, pc'[c] = "return" => pc[c] = "return" PROVE ReadsMove(c, t)
    BY <1>1 DEF ReadsMove
  <1>2. ASSUME NEW b \in Clients,
               \/ Call(b) \/ LockMu(b) \/ LockFile(b) \/ Inspect(b) \/ Write(b) \/ WriteWorker(b)
               \/ Rollback(b) \/ WriteFails(b) \/ Unlock(b)
        PROVE  ReadsMove(c, t)
    <2>1. UNCHANGED <<seen, ready>>
      BY <1>2 DEF Call, LockMu, LockFile, Inspect, Write, WriteWorker, Rollback, WriteFails, Unlock
    <2>2. PICK where \in {"idle", "mu", "flock", "scan"} \cup Writing : Goto(b, where)
      BY <1>2 DEF Call, LockMu, LockFile, Inspect, Write, WriteWorker, Rollback, WriteFails, Unlock,
                  Writing
    <2>3. pc'[c] = "return" => pc[c] = "return"
      BY <1>0, <2>2 DEF Goto, Writing
    <2>4. QED
      BY <1>1, <2>1, <2>3
  <1>3. ASSUME NEW b \in Clients, ReadFile(b) PROVE ReadsMove(c, t)
    <2>1. PICK u \in left[b] : seen' = [seen EXCEPT ![b][u] = task[u]]
      BY <1>3 DEF ReadFile
    <2>2. ready' = ready /\ pc' = pc
      BY <1>3 DEF ReadFile
    <2>3. seen'[c][t] = seen[c][t] \/ seen'[c][t] = task[t]
      BY <1>0, <2>1
    <2>4. QED
      BY <2>2, <2>3 DEF ReadsMove
  <1>4. ASSUME NEW b \in Clients, LoadDeps(b) PROVE ReadsMove(c, t)
    <2>1. seen' = seen /\ ready' = [ready EXCEPT ![b] = Filtered(b)] /\ Goto(b, "return")
      BY <1>4 DEF LoadDeps, Filtered
    <2>2. CASE b = c
      BY <1>0, <2>1, <2>2 DEF ReadsMove
    <2>3. CASE b # c
      BY <1>0, <2>1, <2>3 DEF ReadsMove, Goto
    <2>4. QED
      BY <2>2, <2>3
  <1>5. ASSUME NEW b \in Clients, Return(b) PROVE ReadsMove(c, t)
    <2>1. /\ seen' = [seen EXCEPT ![b] = [u \in Tasks |-> L!AbsentTask]]
          /\ ready' = [ready EXCEPT ![b] = {}] /\ Goto(b, "idle")
      BY <1>5 DEF Return
    <2>2. QED
      BY <1>0, <2>1 DEF ReadsMove, Goto
  <1>6. ASSUME NEW p \in Processes, Kill(p) PROVE ReadsMove(c, t)
    <2>1. /\ seen' = [b \in Clients |-> IF Process[b] = p THEN [u \in Tasks |-> L!AbsentTask] ELSE seen[b]]
          /\ ready' = [b \in Clients |-> IF Process[b] = p THEN {} ELSE ready[b]]
          /\ pc' = [b \in Clients |-> IF Process[b] = p THEN "idle" ELSE pc[b]]
      BY <1>6 DEF Kill
    <2>2. QED
      BY <2>1 DEF ReadsMove
  <1>7. CASE UNCHANGED vars
    BY <1>1, <1>7 DEF vars
  <1>8. QED
    BY <1>2, <1>3, <1>4, <1>5, <1>6, <1>7 DEF Next, Step

LEMMA ReadyInit == HInit => ReadyInv
  <1> SUFFICES ASSUME HInit PROVE ReadyInv
    OBVIOUS
  <1>1. /\ Init
        /\ task = [t \in Tasks |-> L!AbsentTask]
        /\ seen = [c \in Clients |-> [t \in Tasks |-> L!AbsentTask]]
        /\ ready = [c \in Clients |-> {}]
        /\ wired = [c \in Clients |-> [t \in Tasks |-> {}]]
    BY DEF HInit, Init
  <1>2. WiredBefore
    BY <1>1 DEF WiredBefore
  <1>3. ReadsBehind /\ NeverReadyEarly
    BY <1>1 DEF ReadsBehind, NeverReadyEarly, L!Terminal, L!AbsentTask
  <1>4. QED
    BY <1>1, <1>2, <1>3, FSInvInit DEF ReadyInv

LEMMA ReadyStep ==
  /\ ReadyInv
  /\ [Next /\ Observe]_hvars
  /\ [\A t \in Tasks : task[t].status \in L!Terminal => task'[t].status \in L!Terminal]_vars
  => ReadyInv'
  <1> SUFFICES ASSUME ReadyInv, [Next /\ Observe]_hvars,
                      [\A t \in Tasks : task[t].status \in L!Terminal => task'[t].status \in L!Terminal]_vars
               PROVE  ReadyInv'
    OBVIOUS
  <1>0. FSInv /\ WiredBefore /\ ReadsBehind /\ NeverReadyEarly /\ [Next]_vars
    BY DEF ReadyInv, hvars
  <1>1. \A t \in Tasks : task[t].status \in L!Terminal => task'[t].status \in L!Terminal
    BY DEF vars, files
  <1>2. FilesGrow
    BY <1>0, NextGrows
  <1>t. /\ FSInv'
        /\ L!AbsentTask.status \notin L!Terminal
    BY <1>0, FSInvStep DEF L!AbsentTask, L!Terminal
  \* What Observe notes of the task t.
  <1>w. ASSUME NEW c \in Clients, NEW t \in Tasks
        PROVE  /\ wired'[c][t] = {} \/ wired'[c][t] = deps[t] \/ wired'[c][t] = wired[c][t]
               /\ pc'[c] = "return" => wired'[c][t] = wired[c][t]
    <2>1. CASE UNCHANGED hvars
      BY <2>1 DEF hvars
    <2>2. CASE Observe
      <3>1. wired'[c][t] = CASE pc'[c] = "idle" -> {}
                             [] pc'[c] = "scan" /\ t \in left[c] \ left'[c] -> deps[t]
                             [] OTHER -> wired[c][t]
        BY <2>2 DEF Observe
      <3>2. QED
        BY <3>1
    <2>3. QED
      BY <2>1, <2>2
  <1>3. WiredBefore'
    <2>1. ASSUME NEW c \in Clients, NEW t \in Tasks PROVE wired'[c][t] \subseteq deps'[t]
      BY <1>0, <1>2, <1>w DEF WiredBefore, FilesGrow
    <2>2. QED
      BY <2>1 DEF WiredBefore
  <1>4. ReadsBehind'
    <2>1. ASSUME NEW c \in Clients, NEW t \in Tasks
          PROVE  /\ seen'[c][t] # L!AbsentTask => task'[t] # L!AbsentTask
                 /\ seen'[c][t].status \in L!Terminal => task'[t].status \in L!Terminal
      <3>1. ReadsMove(c, t)
        BY <1>0, NextReads
      <3>2. QED
        BY <1>0, <1>1, <1>2, <1>t, <3>1 DEF ReadsMove, ReadsBehind, FilesGrow
    <2>2. QED
      BY <2>1 DEF ReadsBehind, L!AbsentTask, L!Terminal
  <1>5. NeverReadyEarly'
    <2>1. ASSUME NEW c \in Clients, pc'[c] = "return", NEW t \in ready'[c], NEW d \in wired'[c][t]
          PROVE  task'[d].status \in L!Terminal
      <3>1. t \in Tasks
        BY <1>t, <2>1 DEF FSInv, TypeOK
      <3>2. d \in wired[c][t] /\ d \in deps[t]
        BY <1>0, <1>w, <2>1, <3>1 DEF WiredBefore
      <3>3. d \in Tasks
        BY <1>0, <3>1, <3>2 DEF FSInv, TypeOK
      <3>4. ReadsMove(c, t)
        BY <1>0, <3>1, NextReads
      <3>5. CASE pc[c] = "return" /\ t \in ready[c]
        BY <1>0, <1>1, <3>2, <3>3, <3>5 DEF NeverReadyEarly
      <3>6. CASE t \in Filtered(c)
        BY <1>0, <1>1, <3>2, <3>3, <3>6 DEF Filtered, ReadsBehind
      <3>7. QED
        BY <2>1, <3>4, <3>5, <3>6 DEF ReadsMove
    <2>2. QED
      BY <2>1 DEF NeverReadyEarly, L!Terminal
  <1>6. QED
    BY <1>t, <1>3, <1>4, <1>5 DEF ReadyInv

\* BVV-S-04: if no client takes a task out of a terminal status (BVV-S-02, which
\* the dispatcher keeps), then ReadyTasks, which reads file after file without a
\* lock, returns no task before the dependencies it had when its file was read are
\* terminal - with any number of clients and processes creating, wiring, failing
\* and being killed meanwhile, in whatever order.
THEOREM ReadyTasksNeverEarly == HSpec /\ TerminalStays => []NeverReadyEarly
  <1>1. ReadyInv => NeverReadyEarly
    BY DEF ReadyInv
  <1>2. QED
    BY <1>1, ReadyInit, ReadyStep, PTL DEF HSpec, TerminalStays

-----------------------------------------------------------------------------
(* The refinement *)

Pending == {"mu", "flock", "inspect", "write", "worker", "rollback"}
Half == {"worker", "rollback"}

LEMMA ToDoAt ==
  ASSUME NEW c \in Clients
  PROVE  ToDo[c] = IF pc[c] \in Pending THEN call[c] ELSE [op |-> "none"]
  BY DEF ToDo, Pending

\* A step of one client changes at most its own entry.
LEMMA ToDoMoves ==
  ASSUME NEW c \in Clients, \A d \in Clients \ {c} : pc'[d] = pc[d] /\ call'[d] = call[d]
  PROVE  ToDo' = [ToDo EXCEPT ![c] = IF pc'[c] \in Pending THEN call'[c] ELSE [op |-> "none"]]
  BY DEF ToDo, Pending

LEMMA ToDoStays ==
  ASSUME NEW c \in Clients, \A d \in Clients \ {c} : pc'[d] = pc[d] /\ call'[d] = call[d],
         \/ call'[c] = call[c] /\ (pc'[c] \in Pending <=> pc[c] \in Pending)
         \/ pc[c] \notin Pending /\ pc'[c] \notin Pending
  PROVE  ToDo' = ToDo
  BY DEF ToDo, Pending

NobodyHalf == \A c \in Clients : pc[c] \notin Half
SameTasks == AbsTask = task
HidesHalf == \A c \in Clients : pc[c] \in Half => AbsTask = [task EXCEPT ![call[c].t] = L!OpenTask]

\* Without an Assign under way the abstract tasks are the files.
LEMMA NoHalfTask == FSInv /\ NobodyHalf => SameTasks
  BY DEF FSInv, TypeOK, AbsTask, AssignHalfDone, Half, NobodyHalf, SameTasks

\* There is at most one Assign under way.
LEMMA OneHalfTask == FSInv => HidesHalf
  <1> SUFFICES ASSUME FSInv, NEW c \in Clients, pc[c] \in Half
               PROVE  AbsTask = [task EXCEPT ![call[c].t] = L!OpenTask]
    BY DEF HidesHalf
  <1>1. \A d \in Clients : pc[d] \in Half => d = c
    BY OneWriter DEF FSInv, Half, Writing
  <1>2. \A t \in Tasks : AssignHalfDone(t) <=> t = call[c].t
    BY <1>1 DEF AssignHalfDone, Half
  <1>3. task \in [Tasks -> L!TaskRec \cup {L!AbsentTask}]
    BY DEF FSInv, TypeOK
  <1>4. QED
    BY <1>2, <1>3 DEF AbsTask, L!OpenTask

\* The same of the next state.
LEMMA HalfTaskNext == FSInv' => HidesHalf' /\ (NobodyHalf' => SameTasks')
  BY NoHalfTask, OneHalfTask, PTL

\* The client that holds the locks is the only one that can be in an Assign.
LEMMA WriterAlone ==
  ASSUME FSInv, NEW c \in Clients, pc[c] \in Writing \ Half
  PROVE  AbsTask = task
  <1>1. NobodyHalf
    BY OneWriter DEF FSInv, Half, Writing, NobodyHalf
  <1>2. QED
    BY <1>1, NoHalfTask DEF SameTasks

\* A step that changes no file and neither starts nor ends an Assign.
LEMMA AbsTaskStays ==
  ASSUME task' = task,
         \A t \in Tasks : AssignHalfDone(t)' <=> AssignHalfDone(t)
  PROVE  AbsTask' = AbsTask
  BY DEF AbsTask

\* The checks on the files are the checks on the abstract store.
LEMMA SameAccepts ==
  ASSUME AbsTask = task, NEW r
  PROVE  Abstract!Accepts(r) <=> L!Accepts(r)
  BY DEF Abstract!Accepts, L!Accepts, Abstract!Reachable, L!Reachable, Abstract!Closed, L!Closed,
         Abstract!AbsentTask, L!AbsentTask, Abstract!OpenTask, L!OpenTask, Abstract!AbsentWorker,
         L!AbsentWorker

AbsStep == [Abstract!Next]_(Abstract!vars)

\* A step of c outside its writes: nothing of the store changes.
LEMMA StoreStays ==
  ASSUME FSInv, NEW c \in Clients, UNCHANGED files,
         \A d \in Clients \ {c} : pc'[d] = pc[d] /\ call'[d] = call[d],
         \/ pc[c] \notin Half /\ pc'[c] \notin Half
         \/ pc[c] \in Half /\ pc'[c] \in Half /\ call'[c] = call[c]
  PROVE  AbsTask' = AbsTask /\ worker' = worker /\ deps' = deps
  <1>1. \A t \in Tasks : AssignHalfDone(t)' <=> AssignHalfDone(t)
    BY DEF AssignHalfDone, Half
  <1>2. QED
    BY <1>1, AbsTaskStays DEF files

LEMMA RefInit == Init => Abstract!Init
  <1> SUFFICES ASSUME Init PROVE Abstract!Init
    OBVIOUS
  <1>1. AbsTask = task
    BY FSInvInit, NoHalfTask DEF Init, Half, NobodyHalf, SameTasks
  <1>2. ToDo = [c \in Clients |-> [op |-> "none"]]
    BY DEF Init, ToDo
  <1>3. ~Failed
    BY DEF Init, Failed
  <1>4. Failed = FALSE
    BY <1>3 DEF Failed
  <1>5. QED
    BY <1>1, <1>2, <1>4
    DEF Init, Abstract!Init, Abstract!NoCall, Abstract!AbsentTask, Abstract!AbsentWorker,
        L!AbsentTask, L!AbsentWorker

\* How the actions of the abstract store look through the mapping.
LEMMA AsStutter ==
  ASSUME AbsTask' = AbsTask, worker' = worker, deps' = deps, ToDo' = ToDo, faults' = faults
  PROVE  AbsStep
  <1>1. Failed' = Failed
    BY DEF Failed
  <1>2. QED
    BY <1>1 DEF AbsStep, Abstract!vars, Abstract!stored

LEMMA AsInvoke ==
  ASSUME NEW c \in Clients, NEW r \in Requests, ToDo[c] = [op |-> "none"],
         ToDo' = [ToDo EXCEPT ![c] = r],
         AbsTask' = AbsTask, worker' = worker, deps' = deps, faults' = faults
  PROVE  AbsStep
  <1>1. Failed' = Failed
    BY DEF Failed
  <1>2. Abstract!Invoke(c)
    BY <1>1 DEF Abstract!Invoke, Abstract!NoCall, Abstract!stored
  <1>3. QED
    BY <1>2 DEF AbsStep, Abstract!Next

LEMMA AsRefuse ==
  ASSUME NEW c \in Clients, ToDo[c] # [op |-> "none"], ~Abstract!Accepts(ToDo[c]),
         ToDo' = [ToDo EXCEPT ![c] = [op |-> "none"]],
         AbsTask' = AbsTask, worker' = worker, deps' = deps, faults' = faults
  PROVE  AbsStep
  <1>1. Failed' = Failed
    BY DEF Failed
  <1>2. Abstract!Refuse(c)
    BY <1>1 DEF Abstract!Refuse, Abstract!NoCall, Abstract!stored
  <1>3. QED
    BY <1>2 DEF AbsStep, Abstract!Next

LEMMA AsPerform ==
  ASSUME NEW c \in Clients, ToDo[c] # [op |-> "none"], Abstract!Accepts(ToDo[c]),
         ToDo' = [ToDo EXCEPT ![c] = [op |-> "none"]],
         \/ Abstract!WriteTask(ToDo[c]) \/ Abstract!Assign(ToDo[c])
         \/ Abstract!WriteWorker(ToDo[c]) \/ Abstract!AddDep(ToDo[c]),
         faults' = faults
  PROVE  AbsStep
  <1>1. Failed' = Failed
    BY DEF Failed
  <1>2. Abstract!Perform(c)
    BY <1>1 DEF Abstract!Perform, Abstract!NoCall
  <1>3. QED
    BY <1>2 DEF AbsStep, Abstract!Next

LEMMA AsCut ==
  ASSUME NEW S \in SUBSET Clients, Failed', worker' = worker, deps' = deps,
         ToDo' = [c \in Clients |-> IF c \in S THEN [op |-> "none"] ELSE ToDo[c]],
         \/ AbsTask' = AbsTask
         \/ \E c \in S : /\ ToDo[c].op = "Assign"
                         /\ Abstract!Accepts(ToDo[c])
                         /\ AbsTask' = [AbsTask EXCEPT ![ToDo[c].t] = L!Assigned(ToDo[c].w)]
  PROVE  AbsStep
  <1>1. Failed' = TRUE
    BY DEF Failed
  <1>2. Abstract!Cut(S)
    BY <1>1 DEF Abstract!Cut, Abstract!NoCall, Abstract!Assigned, L!Assigned
  <1>3. QED
    BY <1>2 DEF AbsStep, Abstract!Next

\* A call that is cut takes nothing with it; one entry is a set of one.
LEMMA ToDoCut ==
  ASSUME NEW c \in Clients
  PROVE  [ToDo EXCEPT ![c] = [op |-> "none"]]
           = [d \in Clients |-> IF d \in {c} THEN [op |-> "none"] ELSE ToDo[d]]
  BY DEF ToDo

\* A client with a call to do has one that a store can do.
LEMMA ToDoCall ==
  ASSUME FSInv, NEW c \in Clients, pc[c] \in Pending
  PROVE  /\ ToDo[c] = call[c] /\ call[c] \in Requests
         /\ call[c] # [op |-> "none"]
         /\ call[c].op \in {"CreateTask", "UpdateTask", "Assign", "CreateWorker", "UpdateWorker", "AddDep"}
  <1>1. ToDo[c] = call[c]
    BY ToDoAt
  <1>2. call[c] \in Requests /\ call[c].op # "ReadyTasks"
    BY DEF FSInv, CallInv, HasCall, Pending, Writing
  <1>3. call[c].op \in {"CreateTask", "UpdateTask", "Assign", "CreateWorker", "UpdateWorker", "AddDep"}
    BY <1>2, RequestFields
  <1>4. QED
    BY <1>1, <1>2, <1>3

\* What an Assign between its writes looks like from outside.
LEMMA HalfFacts ==
  ASSUME FSInv, NEW c \in Clients, pc[c] \in Half
  PROVE  /\ call[c].t \in Tasks /\ call[c].w \in Workers
         /\ AbsTask = [task EXCEPT ![call[c].t] = L!OpenTask]
         /\ task = [AbsTask EXCEPT ![call[c].t] = L!Assigned(call[c].w)]
         /\ Abstract!Accepts(call[c])
         /\ call[c].op = "Assign"
  <1>1. /\ call[c].op = "Assign"
        /\ task[call[c].t] = L!Assigned(call[c].w)
        /\ worker[call[c].w].status = "idle"
    BY DEF FSInv, CallInv, HalfAssigned, Half
  <1>2. call[c].t \in Tasks /\ call[c].w \in Workers
    BY <1>1, ToDoCall, RequestFields DEF Half, Pending
  <1>3. AbsTask = [task EXCEPT ![call[c].t] = L!OpenTask]
    BY OneHalfTask DEF HidesHalf
  <1>4. task \in [Tasks -> L!TaskRec \cup {L!AbsentTask}]
    BY DEF FSInv, TypeOK
  <1>5. task = [AbsTask EXCEPT ![call[c].t] = L!Assigned(call[c].w)]
    BY <1>1, <1>2, <1>3, <1>4
  <1>6. AbsTask[call[c].t] = L!OpenTask
    BY <1>2, <1>3, <1>4
  <1>7. Abstract!Accepts(call[c])
    BY <1>1, <1>6 DEF Abstract!Accepts, Abstract!OpenTask, L!OpenTask
  <1>8. QED
    BY <1>1, <1>2, <1>3, <1>5, <1>7

-----------------------------------------------------------------------------
(* One lemma per action *)

\* A step of c that goes to where and leaves the calls alone.
LEMMA GotoToDo ==
  ASSUME FSInv, NEW c \in Clients, NEW where \in PCs, Goto(c, where), call' = call
  PROVE  /\ pc'[c] = where
         /\ \A d \in Clients \ {c} : pc'[d] = pc[d] /\ call'[d] = call[d]
         /\ ToDo' = [ToDo EXCEPT ![c] = IF where \in Pending THEN call[c] ELSE [op |-> "none"]]
         /\ (pc[c] \in Pending <=> where \in Pending) => ToDo' = ToDo
  <1>1. pc'[c] = where /\ \A d \in Clients \ {c} : pc'[d] = pc[d] /\ call'[d] = call[d]
    BY GotoType DEF FSInv
  <1>2. ToDo' = [ToDo EXCEPT ![c] = IF where \in Pending THEN call[c] ELSE [op |-> "none"]]
    BY <1>1, ToDoMoves
  <1>3. (pc[c] \in Pending <=> where \in Pending) => ToDo' = ToDo
    BY <1>1, ToDoStays
  <1>4. QED
    BY <1>1, <1>2, <1>3

LEMMA RefCall ==
  ASSUME FSInv, NEW c \in Clients, Call(c)
  PROVE  AbsStep
  <1> USE DEF files, locks, locals
  <1>1. PICK r \in Requests :
          /\ call' = [call EXCEPT ![c] = r]
          /\ \/ r.op = "ReadyTasks" /\ Goto(c, "scan")
             \/ r.op # "ReadyTasks" /\ Goto(c, "mu")
    BY DEF Call
  <1>2. /\ pc[c] = "idle" /\ UNCHANGED <<files, faults>>
        /\ call \in [Clients -> Requests \cup {NoCall}]
    BY DEF Call, FSInv, TypeOK
  <1>3. /\ pc'[c] \in {"scan", "mu"}
        /\ pc'[c] = "mu" => Goto(c, "mu")
        /\ \A d \in Clients \ {c} : pc'[d] = pc[d]
    BY <1>1, GotoType DEF FSInv, PCs
  <1>4. /\ call'[c] = r
        /\ \A d \in Clients \ {c} : pc'[d] = pc[d] /\ call'[d] = call[d]
    BY <1>1, <1>2, <1>3
  <1>5. AbsTask' = AbsTask /\ worker' = worker /\ deps' = deps
    BY <1>2, <1>3, <1>4, StoreStays DEF Half
  <1>6. CASE pc'[c] = "mu"
    <2>1. ToDo' = [ToDo EXCEPT ![c] = r]
      BY <1>4, <1>6, ToDoMoves DEF Pending
    <2>2. ToDo[c] = [op |-> "none"]
      BY <1>2, ToDoAt DEF Pending
    <2>3. QED
      BY <1>2, <1>5, <2>1, <2>2, AsInvoke
  <1>7. CASE pc'[c] = "scan"
    <2>1. ToDo' = ToDo
      BY <1>2, <1>4, <1>7, ToDoStays DEF Pending
    <2>2. QED
      BY <1>2, <1>5, <2>1, AsStutter
  <1>8. QED
    BY <1>3, <1>6, <1>7

LEMMA RefLock ==
  ASSUME FSInv, NEW c \in Clients, LockMu(c) \/ LockFile(c)
  PROVE  AbsStep
  <1> USE DEF files, locks, locals
  <1>1. PICK where \in {"flock", "inspect"} : Goto(c, where) /\ pc[c] \in {"mu", "flock"}
    BY DEF LockMu, LockFile
  <1>2. UNCHANGED <<files, call, faults>>
    BY DEF LockMu, LockFile
  <1>3. /\ pc'[c] = where /\ ToDo' = ToDo
        /\ \A d \in Clients \ {c} : pc'[d] = pc[d] /\ call'[d] = call[d]
    BY <1>1, <1>2, GotoToDo DEF PCs, Writing, Pending
  <1>4. AbsTask' = AbsTask /\ worker' = worker /\ deps' = deps
    BY <1>1, <1>2, <1>3, StoreStays DEF Half
  <1>5. QED
    BY <1>2, <1>3, <1>4, AsStutter

LEMMA RefInspect ==
  ASSUME FSInv, NEW c \in Clients, Inspect(c)
  PROVE  AbsStep
  <1> USE DEF files, locks, locals
  <1>1. pc[c] = "inspect" /\ UNCHANGED <<files, call, faults>>
    BY DEF Inspect
  <1>2. CASE L!Accepts(call[c])
    <2>1. Goto(c, "write")
      BY <1>2 DEF Inspect, Accepts
    <2>2. /\ pc'[c] = "write" /\ ToDo' = ToDo
          /\ \A d \in Clients \ {c} : pc'[d] = pc[d] /\ call'[d] = call[d]
      BY <1>1, <2>1, GotoToDo DEF PCs, Writing, Pending
    <2>3. AbsTask' = AbsTask /\ worker' = worker /\ deps' = deps
      BY <1>1, <2>2, StoreStays DEF Half
    <2>4. QED
      BY <1>1, <2>2, <2>3, AsStutter
  <1>3. CASE ~L!Accepts(call[c])
    <2>1. Goto(c, "unlock")
      BY <1>3 DEF Inspect, Accepts
    <2>2. /\ pc'[c] = "unlock"
          /\ \A d \in Clients \ {c} : pc'[d] = pc[d] /\ call'[d] = call[d]
          /\ ToDo' = [ToDo EXCEPT ![c] = [op |-> "none"]]
      BY <1>1, <2>1, GotoToDo DEF PCs, Writing, Pending
    <2>3. AbsTask' = AbsTask /\ worker' = worker /\ deps' = deps
      BY <1>1, <2>2, StoreStays DEF Half
    <2>4. AbsTask = task
      BY <1>1, WriterAlone DEF Writing, Half
    <2>5. ToDo[c] = call[c] /\ ToDo[c] # [op |-> "none"]
      BY <1>1, ToDoCall DEF Pending
    <2>6. ~Abstract!Accepts(ToDo[c])
      BY <1>3, <2>4, <2>5, SameAccepts
    <2>7. QED
      BY <1>1, <2>2, <2>3, <2>5, <2>6, AsRefuse
  <1>4. QED
    BY <1>2, <1>3

\* Once c is past its writes nobody is in an Assign.
LEMMA AfterWrites ==
  ASSUME FSInv', NEW c \in Clients, pc'[c] = "unlock"
  PROVE  AbsTask' = task'
  <1>1. \A d \in Clients : pc'[d] \in Writing => d = c
    BY DEF FSInv, LockInv, Writing
  <1>2. NobodyHalf'
    BY <1>1 DEF NobodyHalf, Half, Writing
  <1>3. QED
    BY <1>2, HalfTaskNext DEF SameTasks

\* The first write of Assign is not visible; every other write is the moment the
\* call takes effect.
LEMMA RefWrite ==
  ASSUME FSInv, FSInv', NEW c \in Clients, Write(c)
  PROVE  AbsStep
  <1> USE DEF files, locks, locals
  <1>1. /\ pc[c] = "write" /\ UNCHANGED <<call, faults>>
        /\ task \in [Tasks -> L!TaskRec \cup {L!AbsentTask}]
    BY DEF Write, FSInv, TypeOK
  <1>2. AbsTask = task
    BY <1>1, WriterAlone DEF Writing, Half
  <1>3. ToDo[c] = call[c] /\ ToDo[c] # [op |-> "none"] /\ call[c] \in Requests
    BY <1>1, ToDoCall DEF Pending
  <1>4. L!Accepts(call[c]) /\ (call[c].op = "AddDep" => loaded[c] = deps)
    BY <1>1 DEF FSInv, CallInv, MayWrite
  <1>5. Abstract!Accepts(ToDo[c])
    BY <1>2, <1>3, <1>4, SameAccepts
  <1>6. CASE call[c].op = "Assign"
    <2>1. /\ task' = [task EXCEPT ![call[c].t] = L!Assigned(call[c].w)]
          /\ Goto(c, "worker") /\ UNCHANGED <<worker, deps>>
      BY <1>6 DEF Write
    <2>2. pc'[c] = "worker" /\ ToDo' = ToDo
      BY <1>1, <2>1, GotoToDo DEF PCs, Writing, Pending
    <2>3. HidesHalf'
      BY HalfTaskNext
    <2>4. AbsTask' = [task' EXCEPT ![call[c].t] = L!OpenTask]
      BY <1>1, <2>2, <2>3 DEF HidesHalf, Half
    <2>5. task[call[c].t] = L!OpenTask
      BY <1>4, <1>6 DEF L!Accepts
    <2>6. AbsTask' = AbsTask
      BY <1>1, <1>2, <2>1, <2>4, <2>5
    <2>7. QED
      BY <1>1, <2>1, <2>2, <2>6, AsStutter
  <1>7. CASE call[c].op # "Assign"
    <2>1. Goto(c, "unlock")
      BY <1>7 DEF Write
    <2>2. /\ pc'[c] = "unlock"
          /\ ToDo' = [ToDo EXCEPT ![c] = [op |-> "none"]]
      BY <1>1, <2>1, GotoToDo DEF PCs, Writing, Pending
    <2>3. AbsTask' = task'
      BY <2>2, AfterWrites
    <2>4. CASE call[c].op \in {"CreateTask", "UpdateTask"}
      <3>1. task' = [task EXCEPT ![call[c].t] = call[c].r] /\ UNCHANGED <<worker, deps>>
        BY <2>4 DEF Write
      <3>2. Abstract!WriteTask(ToDo[c])
        BY <1>2, <1>3, <2>3, <2>4, <3>1 DEF Abstract!WriteTask
      <3>3. QED
        BY <1>1, <1>3, <1>5, <2>2, <3>2, AsPerform
    <2>5. CASE call[c].op \in {"CreateWorker", "UpdateWorker"}
      <3>1. worker' = [worker EXCEPT ![call[c].w] = call[c].r] /\ UNCHANGED <<task, deps>>
        BY <2>5 DEF Write
      <3>2. Abstract!WriteWorker(ToDo[c])
        BY <1>2, <1>3, <2>3, <2>5, <3>1 DEF Abstract!WriteWorker
      <3>3. QED
        BY <1>1, <1>3, <1>5, <2>2, <3>2, AsPerform
    <2>6. CASE call[c].op = "AddDep"
      <3>1. /\ deps' = [loaded[c] EXCEPT ![call[c].t] = @ \cup {call[c].d}]
            /\ UNCHANGED <<task, worker>>
        BY <2>6 DEF Write
      <3>2. deps' = [deps EXCEPT ![call[c].t] = @ \cup {call[c].d}]
        BY <1>4, <2>6, <3>1
      <3>3. Abstract!AddDep(ToDo[c])
        BY <1>2, <1>3, <2>3, <2>6, <3>1, <3>2 DEF Abstract!AddDep
      <3>4. QED
        BY <1>1, <1>3, <1>5, <2>2, <3>3, AsPerform
    <2>7. QED
      BY <1>1, <1>7, <2>4, <2>5, <2>6, ToDoCall DEF Pending
  <1>8. QED
    BY <1>6, <1>7

\* The worker file is the moment Assign takes effect.
LEMMA RefWriteWorker ==
  ASSUME FSInv, FSInv', NEW c \in Clients, WriteWorker(c)
  PROVE  AbsStep
  <1> USE DEF files, locks, locals
  <1>1. /\ pc[c] = "worker" /\ UNCHANGED <<task, deps, call, faults>> /\ Goto(c, "unlock")
        /\ worker' = [worker EXCEPT ![call[c].w] = L!Active(call[c].t)]
    BY DEF WriteWorker
  <1>2. pc'[c] = "unlock" /\ ToDo' = [ToDo EXCEPT ![c] = [op |-> "none"]]
    BY <1>1, GotoToDo DEF PCs, Writing, Pending
  <1>3. ToDo[c] = call[c] /\ ToDo[c] # [op |-> "none"]
    BY <1>1, ToDoCall DEF Pending
  <1>4. AbsTask' = task'
    BY <1>2, AfterWrites
  <1>5. /\ task = [AbsTask EXCEPT ![call[c].t] = L!Assigned(call[c].w)]
        /\ Abstract!Accepts(call[c])
        /\ call[c].op = "Assign"
    BY <1>1, HalfFacts DEF Half
  <1>6. Abstract!Assign(ToDo[c])
    BY <1>1, <1>3, <1>4, <1>5
    DEF Abstract!Assign, Abstract!Assigned, L!Assigned, Abstract!Active, L!Active
  <1>7. QED
    BY <1>1, <1>2, <1>3, <1>5, <1>6, AsPerform

\* The rollback hides that the Assign ever wrote.
LEMMA RefRollback ==
  ASSUME FSInv, FSInv', NEW c \in Clients, Rollback(c)
  PROVE  AbsStep
  <1> USE DEF files, locks, locals
  <1>1. /\ pc[c] = "rollback" /\ UNCHANGED <<worker, deps, call, faults>> /\ Goto(c, "unlock")
        /\ task' = [task EXCEPT ![call[c].t] = orig[c]]
    BY DEF Rollback
  <1>2. pc'[c] = "unlock" /\ ToDo' = [ToDo EXCEPT ![c] = [op |-> "none"]]
    BY <1>1, GotoToDo DEF PCs, Writing, Pending
  <1>3. AbsTask' = task'
    BY <1>2, AfterWrites
  <1>4. orig[c] = L!OpenTask /\ Failed
    BY <1>1 DEF FSInv, CallInv, HalfAssigned
  <1>5. AbsTask' = AbsTask
    BY <1>1, <1>3, <1>4, HalfFacts DEF Half
  <1>6. Failed'
    BY <1>1, <1>4 DEF Failed
  <1>7. ToDo' = [d \in Clients |-> IF d \in {c} THEN [op |-> "none"] ELSE ToDo[d]]
    BY <1>2, ToDoCut
  <1>8. QED
    BY <1>1, <1>5, <1>6, <1>7, AsCut

LEMMA RefWriteFails ==
  ASSUME FSInv, FSInv', NEW c \in Clients, WriteFails(c)
  PROVE  AbsStep
  <1> USE DEF files, locks, locals
  <1>1. /\ pc[c] \in {"write", "worker", "rollback"} /\ UNCHANGED <<task, worker, deps, call>>
        /\ Goto(c, IF pc[c] = "worker" THEN "rollback" ELSE "unlock")
        /\ faults' = faults + 1 /\ faults \in Nat
    BY FSAssumption DEF WriteFails, FSInv, TypeOK
  <1>2. Failed'
    BY <1>1 DEF Failed
  <1>3. CASE pc[c] = "worker"
    <2>1. Goto(c, "rollback")
      BY <1>1, <1>3
    <2>2. /\ pc'[c] = "rollback" /\ ToDo' = ToDo
          /\ \A d \in Clients \ {c} : pc'[d] = pc[d] /\ call'[d] = call[d]
      BY <1>1, <1>3, <2>1, GotoToDo DEF PCs, Writing, Pending
    <2>3. AbsTask' = AbsTask
      BY <1>1, <1>3, <2>2, StoreStays DEF Half
    <2>4. ToDo' = [d \in Clients |-> IF d \in {} THEN [op |-> "none"] ELSE ToDo[d]]
      BY <2>2 DEF ToDo
    <2>5. {} \in SUBSET Clients
      OBVIOUS
    <2>6. QED
      BY <1>1, <1>2, <2>3, <2>4, <2>5, AsCut, Zenon
  <1>4. CASE pc[c] # "worker"
    <2>1. Goto(c, "unlock")
      BY <1>1, <1>4
    <2>2. pc'[c] = "unlock" /\ ToDo' = [ToDo EXCEPT ![c] = [op |-> "none"]]
      BY <1>1, <2>1, GotoToDo DEF PCs, Writing, Pending
    <2>3. ToDo' = [d \in Clients |-> IF d \in {c} THEN [op |-> "none"] ELSE ToDo[d]]
      BY <2>2, ToDoCut
    <2>4. AbsTask' = task'
      BY <2>2, AfterWrites
    <2>5. CASE pc[c] = "write"
      <3>1. AbsTask = task
        BY <2>5, WriterAlone DEF Writing, Half
      <3>2. QED
        BY <1>1, <1>2, <2>3, <2>4, <3>1, AsCut
    <2>6. CASE pc[c] = "rollback"
      <3>1. ToDo[c] = call[c]
        BY <2>6, ToDoCall DEF Pending
      <3>2. /\ AbsTask' = [AbsTask EXCEPT ![ToDo[c].t] = L!Assigned(ToDo[c].w)]
            /\ Abstract!Accepts(ToDo[c]) /\ ToDo[c].op = "Assign"
        BY <1>1, <2>4, <2>6, <3>1, HalfFacts DEF Half
      <3>3. QED
        BY <1>1, <1>2, <2>3, <3>2, AsCut
    <2>7. QED
      BY <1>1, <1>4, <2>5, <2>6
  <1>5. QED
    BY <1>3, <1>4

LEMMA RefKill ==
  ASSUME FSInv, FSInv', NEW p \in Processes, Kill(p)
  PROVE  AbsStep
  <1> USE DEF files, locks, locals
  <1> DEFINE S == {c \in Clients : Process[c] = p}
  <1>1. /\ faults' = faults + 1 /\ faults \in Nat /\ UNCHANGED <<task, worker, deps>>
        /\ pc' = [c \in Clients |-> IF Process[c] = p THEN "idle" ELSE pc[c]]
        /\ call' = [c \in Clients |-> IF Process[c] = p THEN NoCall ELSE call[c]]
    BY FSAssumption DEF Kill, FSInv, TypeOK
  <1>2. Failed'
    BY <1>1 DEF Failed
  <1>3. \A c \in Clients : IF c \in S THEN pc'[c] = "idle" ELSE pc'[c] = pc[c] /\ call'[c] = call[c]
    BY <1>1
  <1>4. ToDo' = [c \in Clients |-> IF c \in S THEN [op |-> "none"] ELSE ToDo[c]]
    BY <1>3 DEF ToDo
  <1>5. CASE \A c \in Clients : pc[c] \in Half => c \notin S
    <2>1. \A t \in Tasks : AssignHalfDone(t)' <=> AssignHalfDone(t)
      BY <1>3, <1>5 DEF AssignHalfDone, Half
    <2>2. AbsTask' = AbsTask
      BY <1>1, <2>1, AbsTaskStays
    <2>3. QED
      BY <1>1, <1>2, <1>4, <2>2, AsCut
  <1>6. ASSUME NEW c \in Clients, pc[c] \in Half, c \in S PROVE AbsStep
    <2>1. \A d \in Clients : pc[d] \in Half => d = c
      BY <1>6, OneWriter DEF FSInv, Half, Writing
    <2>2. NobodyHalf'
      BY <1>3, <1>6, <2>1 DEF Half, NobodyHalf
    <2>3. AbsTask' = task'
      BY <2>2, HalfTaskNext DEF SameTasks
    <2>4. ToDo[c] = call[c]
      BY <1>6, ToDoCall DEF Half, Pending
    <2>5. /\ AbsTask' = [AbsTask EXCEPT ![ToDo[c].t] = L!Assigned(ToDo[c].w)]
          /\ Abstract!Accepts(ToDo[c]) /\ ToDo[c].op = "Assign"
      BY <1>1, <1>6, <2>3, <2>4, HalfFacts
    <2>6. QED
      BY <1>1, <1>2, <1>4, <1>6, <2>5, AsCut
  <1>7. QED
    BY <1>5, <1>6

LEMMA RefUnlock ==
  ASSUME FSInv, NEW c \in Clients, Unlock(c) \/ Return(c)
  PROVE  AbsStep
  <1> USE DEF files, locks, locals
  <1>1. /\ pc[c] \in {"unlock", "return"} /\ UNCHANGED <<task, worker, deps, faults>>
        /\ Goto(c, "idle")
        /\ call' = [call EXCEPT ![c] = NoCall]
    BY DEF Unlock, Return
  <1>2. call \in [Clients -> Requests \cup {NoCall}]
    BY DEF FSInv, TypeOK
  <1>3. pc'[c] = "idle" /\ \A d \in Clients \ {c} : pc'[d] = pc[d] /\ call'[d] = call[d]
    BY <1>1, <1>2, GotoType DEF FSInv, PCs
  <1>4. ToDo' = ToDo
    BY <1>1, <1>3, ToDoStays DEF Pending
  <1>5. AbsTask' = AbsTask
    BY <1>1, <1>3, StoreStays DEF Half
  <1>6. QED
    BY <1>1, <1>4, <1>5, AsStutter

LEMMA RefRead ==
  ASSUME FSInv, NEW c \in Clients, ReadFile(c) \/ LoadDeps(c)
  PROVE  AbsStep
  <1> USE DEF files, locks, locals
  <1>1. /\ pc[c] = "scan" /\ UNCHANGED <<task, worker, deps, call, faults>>
        /\ pc' = pc \/ Goto(c, "return")
    BY DEF ReadFile, LoadDeps
  <1>2. /\ pc'[c] \in {"scan", "return"}
        /\ \A d \in Clients \ {c} : pc'[d] = pc[d] /\ call'[d] = call[d]
    BY <1>1, GotoType DEF FSInv, PCs
  <1>3. ToDo' = ToDo
    BY <1>1, <1>2, ToDoStays DEF Pending
  <1>4. AbsTask' = AbsTask
    BY <1>1, <1>2, StoreStays DEF Half
  <1>5. QED
    BY <1>1, <1>3, <1>4, AsStutter

\* Every step of FSStore is a step of the abstract store, or none.
LEMMA RefStep == FSInv /\ FSInv' /\ [Next]_vars => AbsStep
  <1> SUFFICES ASSUME FSInv, FSInv', [Next]_vars PROVE AbsStep
    OBVIOUS
  <1>1. CASE UNCHANGED vars
    <2>1. UNCHANGED <<task, worker, deps, pc, call, faults>>
      BY <1>1 DEF vars, files
    <2>2. ToDo' = ToDo
      BY <2>1 DEF ToDo
    <2>3. AbsTask' = AbsTask
      BY <2>1 DEF AbsTask, AssignHalfDone
    <2>4. QED
      BY <2>1, <2>2, <2>3, AsStutter
  <1>2. ASSUME NEW c \in Clients, Call(c) \/ Step(c) \/ WriteFails(c) PROVE AbsStep
    BY <1>2, RefCall, RefLock, RefInspect, RefWrite, RefWriteWorker, RefRollback, RefWriteFails,
       RefUnlock, RefRead DEF Step
  <1>3. ASSUME NEW p \in Processes, Kill(p) PROVE AbsStep
    BY <1>3, RefKill
  <1>4. QED
    BY <1>1, <1>2, <1>3 DEF Next

\* LDG-08..LDG-12: FSStore implements the abstract store.  With any number of
\* clients in any number of processes, every call takes effect once, at one
\* moment, on the state it has checked, or is refused with reason; only a kill or
\* a second failing write inside Assign leaves a task assigned to a worker that
\* is not active.
THEOREM FilesImplementLedger == Spec => ImplementsLedger
  <1>1. FSInv /\ FSInv' /\ [Next]_vars => [Abstract!Next]_(Abstract!vars)
    BY RefStep DEF AbsStep
  <1>2. QED
    BY <1>1, RefInit, FSInvInit, FSInvStep, PTL DEF Spec, ImplementsLedger, Abstract!Spec

-----------------------------------------------------------------------------
(* Dependencies stay acyclic *)

Acyclic(edges) == \A S \in SUBSET Tasks : S # {} => \E x \in S : edges[x] \cap S = {}

\* An edge to a task from which the other end cannot be reached closes no cycle.
LEMMA EdgeKeepsAcyclic ==
  ASSUME NEW e \in [Tasks -> SUBSET Tasks], Acyclic(e),
         NEW t \in Tasks, NEW d \in Tasks, ~L!Reachable(e, d, t)
  PROVE  Acyclic([e EXCEPT ![t] = @ \cup {d}])
  <1> DEFINE f == [e EXCEPT ![t] = @ \cup {d}]
  <1>1. PICK R \in SUBSET Tasks : d \in R /\ L!Closed(e, R) /\ t \notin R
    BY DEF L!Reachable
  <1>2. \A x \in Tasks : f[x] = IF x = t THEN e[t] \cup {d} ELSE e[x]
    OBVIOUS
  <1> HIDE DEF f
  <1>3. ASSUME NEW S \in SUBSET Tasks, S # {} PROVE \E x \in S : f[x] \cap S = {}
    <2>1. CASE S \cap R # {}
      <3>1. PICK x \in S \cap R : e[x] \cap (S \cap R) = {}
        BY <2>1 DEF Acyclic
      <3>2. e[x] \subseteq R /\ x # t
        BY <1>1, <3>1 DEF L!Closed
      <3>3. QED
        BY <1>2, <3>1, <3>2
    <2>2. CASE S \cap R = {}
      <3>1. PICK x \in S : e[x] \cap S = {}
        BY <1>3 DEF Acyclic
      <3>2. d \notin S
        BY <1>1, <2>2
      <3>3. QED
        BY <1>2, <3>1, <3>2
    <2>3. QED
      BY <2>1, <2>2
  <1>4. QED
    BY <1>3 DEF f, Acyclic

\* LDG-06: the dependency file of FSStore never holds a cycle, whichever processes
\* write to it, are killed or fail meanwhile.
THEOREM FilesStayAcyclic == Spec => []L!DepsAcyclic
  <1>1. Init => Acyclic(deps)
    BY DEF Init, Acyclic
  <1>2. FSInv /\ Acyclic(deps) /\ [Next]_vars => Acyclic(deps)'
    <2> SUFFICES ASSUME FSInv, Acyclic(deps), [Next]_vars PROVE Acyclic(deps')
      BY DEF Acyclic
    <2>1. ASSUME NEW c \in Clients, Write(c) PROVE Acyclic(deps')
      <3>1. /\ deps \in [Tasks -> SUBSET Tasks] /\ call[c] \in Requests /\ L!Accepts(call[c])
            /\ call[c].op = "AddDep" => loaded[c] = deps
        BY <2>1 DEF Write, FSInv, TypeOK, CallInv, HasCall, MayWrite, Writing
      <3>2. CASE call[c].op = "AddDep"
        <4>1. deps' = [deps EXCEPT ![call[c].t] = @ \cup {call[c].d}]
          BY <2>1, <3>1, <3>2 DEF Write
        <4>2. call[c].t \in Tasks /\ call[c].d \in Tasks
          BY <3>1, <3>2, RequestFields
        <4>3. ~L!Reachable(deps, call[c].d, call[c].t)
          BY <3>1, <3>2 DEF L!Accepts
        <4>4. QED
          BY <3>1, <4>1, <4>2, <4>3, EdgeKeepsAcyclic
      <3>3. CASE call[c].op # "AddDep"
        BY <2>1, <3>3 DEF Write
      <3>4. QED
        BY <3>2, <3>3
    <2>2. ASSUME NEW c \in Clients,
                 \/ Call(c) \/ LockMu(c) \/ LockFile(c) \/ Inspect(c) \/ WriteWorker(c) \/ Rollback(c)
                 \/ Unlock(c) \/ ReadFile(c) \/ LoadDeps(c) \/ Return(c) \/ WriteFails(c)
          PROVE  Acyclic(deps')
      <3>1. deps' = deps
        BY <2>2 DEF Call, LockMu, LockFile, Inspect, WriteWorker, Rollback, Unlock, ReadFile, LoadDeps,
                    Return, WriteFails, files
      <3>2. QED
        BY <3>1
    <2>3. ASSUME NEW p \in Processes, Kill(p) PROVE Acyclic(deps')
      BY <2>3 DEF Kill, files
    <2>4. CASE UNCHANGED vars
      BY <2>4 DEF vars, files
    <2>5. QED
      BY <2>1, <2>2, <2>3, <2>4 DEF Next, Step
  <1>3. Acyclic(deps) => L!DepsAcyclic
    BY DEF Acyclic, L!DepsAcyclic
  <1>4. QED
    BY <1>1, <1>2, <1>3, FSInvInit, FSInvStep, PTL DEF Spec

\* MockStore (orch/testutil/mock_store.go), which is the abstract store: its maps,
\* and the calls under way.
VARIABLES mTask, mWorker, mDeps, mTodo, mFailed
Mock == INSTANCE Ledger WITH
  task <- mTask, worker <- mWorker, deps <- mDeps, todo <- mTodo, failed <- mFailed

MockInv ==
  /\ mDeps \in [Tasks -> SUBSET Tasks]
  /\ mTodo \in [Clients -> Requests \cup {NoCall}]
  /\ Acyclic(mDeps)

\* LDG-06 of the abstract store: whatever is called, by however many clients, and
\* however it is cut, the dependencies stay acyclic: the check of AddDep suffices.
THEOREM DepsStayAcyclic == Mock!Spec => []Mock!DepsAcyclic
  <1> USE DEF NoCall, L!NoCall, Mock!NoCall
  <1>1. Mock!Init => MockInv
    BY DEF Mock!Init, MockInv, Acyclic
  <1>2. MockInv /\ [Mock!Next]_(Mock!vars) => MockInv'
    <2> SUFFICES ASSUME MockInv, [Mock!Next]_(Mock!vars) PROVE MockInv'
      OBVIOUS
    <2>1. ASSUME UNCHANGED mDeps, mTodo' \in [Clients -> Requests \cup {NoCall}]
          PROVE  MockInv'
      BY <2>1 DEF MockInv, Acyclic
    <2>2. ASSUME NEW c \in Clients, Mock!Invoke(c) \/ Mock!Refuse(c) PROVE MockInv'
      BY <2>1, <2>2 DEF Mock!Invoke, Mock!Refuse, Mock!stored, MockInv
    <2>3. ASSUME NEW S \in SUBSET Clients, Mock!Cut(S) PROVE MockInv'
      BY <2>1, <2>3 DEF Mock!Cut, MockInv
    <2>4. ASSUME NEW c \in Clients, Mock!Perform(c) PROVE MockInv'
      <3>1. mTodo[c] \in Requests /\ mTodo' \in [Clients -> Requests \cup {NoCall}]
        BY <2>4 DEF Mock!Perform, MockInv
      <3>2. CASE Mock!AddDep(mTodo[c])
        <4>1. mTodo[c].op = "AddDep" /\ mDeps' = [mDeps EXCEPT ![mTodo[c].t] = @ \cup {mTodo[c].d}]
          BY <3>2 DEF Mock!AddDep
        <4>2. mTodo[c].t \in Tasks /\ mTodo[c].d \in Tasks
          BY <3>1, <4>1, RequestFields
        <4>3. ~L!Reachable(mDeps, mTodo[c].d, mTodo[c].t)
          BY <2>4, <4>1
          DEF Mock!Perform, Mock!Accepts, Mock!Reachable, L!Reachable, Mock!Closed, L!Closed
        <4>4. Acyclic(mDeps')
          BY <4>1, <4>2, <4>3, EdgeKeepsAcyclic DEF MockInv
        <4>5. QED
          BY <3>1, <4>1, <4>2, <4>4 DEF MockInv, Acyclic
      <3>3. CASE Mock!WriteTask(mTodo[c]) \/ Mock!Assign(mTodo[c]) \/ Mock!WriteWorker(mTodo[c])
        BY <2>1, <3>1, <3>3 DEF Mock!WriteTask, Mock!Assign, Mock!WriteWorker
      <3>4. QED
        BY <2>4, <3>2, <3>3 DEF Mock!Perform
    <2>5. CASE UNCHANGED Mock!vars
      BY <2>1, <2>5 DEF Mock!vars, Mock!stored, MockInv
    <2>6. QED
      BY <2>2, <2>3, <2>4, <2>5 DEF Mock!Next
  <1>3. MockInv => Mock!DepsAcyclic
    BY DEF MockInv, Acyclic, Mock!DepsAcyclic
  <1>4. QED
    BY <1>1, <1>2, <1>3, PTL DEF Mock!Spec
=============================================================================
