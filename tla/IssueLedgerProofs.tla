------------------------- MODULE IssueLedgerProofs -------------------------
(***************************************************************************)
(* The two bd stores implement the abstract store and keep dependencies    *)
(* acyclic, and ReadyTasks tells the truth: for any number of clients,     *)
(* tasks and failing commands.                                             *)
(*                                                                         *)
(* MuInv says that the client between Lock and Unlock holds the mutex, so  *)
(* there is one such client.  CallInv says what it knows at each point of  *)
(* its call: with issues that nobody else writes to, what it has checked   *)
(* is still so when it writes; with issues that others write to, only that *)
(* the issue is there.                                                     *)
(***************************************************************************)
EXTENDS IssueLedger, TLAPS

-----------------------------------------------------------------------------
(* The invariant *)

Held == {"inspect", "write", "status", "worker", "rollback", "unlock"}
Half == {"worker", "rollback"}
PCs == {"idle", "mu", "inspect", "write", "status", "worker",
        "rollback", "unlock", "list", "show", "return", "dead"}

MuInv == \A c \in Clients : pc[c] \in Held => mu = c

\* The operations whose pre-check is a step of its own.
Looks(r) ==
  \/ r.op \in {"Assign", "CreateWorker", "UpdateWorker"}
  \/ r.op = "CreateTask" /\ backend = "bd"
  \/ r.op = "AddDep" /\ backend = "beads"

HasCall(c) ==
  /\ pc[c] \in {"mu"} \cup Held => call[c] \in Requests /\ call[c].op # "ReadyTasks"
  /\ pc[c] \in Half => call[c].op = "Assign"
  /\ pc[c] = "status" =>
       backend = "bd" /\ call[c].op = "CreateTask" /\ call[c].r.status # "open"

\* The issue of a claim, or of a creation half done, exists.
OnIssue(c) ==
  (pc[c] = "write" /\ call[c].op = "Assign") \/ pc[c] \in Half \cup {"status"} =>
    issue[call[c].t] # AbsentIssue

MayWrite(c) == ~shared /\ pc[c] = "write" /\ Looks(call[c]) => L!Accepts(call[c])

HalfAssigned(c) ==
  ~shared /\ pc[c] \in Half =>
    /\ issue[call[c].t].status = "open"
    /\ issue[call[c].t].assignee = call[c].w
    /\ worker[call[c].w].status = "idle"

HalfCreated(c) ==
  ~shared /\ pc[c] = "status" =>
    issue[call[c].t] = [status |-> "open", assignee |-> call[c].r.assignee,
                        failed |-> call[c].r.status = "failed"]

Knows(c) ==
  /\ HasCall(c) /\ OnIssue(c) /\ MayWrite(c) /\ HalfAssigned(c) /\ HalfCreated(c)
  /\ pc[c] = "rollback" => faults > 0

CallInv == \A c \in Clients : Knows(c)

ILInv == TypeOK /\ MuInv /\ CallInv

LEMMA RequestFields ==
  ASSUME NEW r \in Requests
  PROVE  /\ r.op \in {"CreateTask", "UpdateTask"} => r.t \in Tasks /\ r.r \in L!TaskRec
         /\ r.op = "Assign" => r.t \in Tasks /\ r.w \in Workers
         /\ r.op \in {"CreateWorker", "UpdateWorker"} => r.w \in Workers /\ r.r \in L!WorkerRec
         /\ r.op = "AddDep" => r.t \in Tasks /\ r.d \in Tasks
         /\ r.op \in {"CreateTask", "UpdateTask", "Assign", "CreateWorker", "UpdateWorker",
                      "AddDep", "ReadyTasks"}
  <1>1. r \in L!Request \cup [op: {"ReadyTasks"}]
    BY IssueAssumption DEF Request
  <1>2. QED
    BY <1>1 DEF L!Request

LEMMA UserFields ==
  ASSUME NEW r \in UserRequests
  PROVE  /\ r.t \in Tasks
         /\ r.op = "dep" => r.d \in Tasks
         /\ r.op = "status" => r.s \in BdStatus
  <1>1. r \in UserRequest
    BY IssueAssumption
  <1>2. QED
    BY <1>1 DEF UserRequest

LEMMA EncodeType ==
  ASSUME NEW s \in L!Status
  PROVE  EncodeStatus(s) \in BdStatus
  BY DEF L!Status, EncodeStatus, BdStatus

\* At most one client is between Lock and Unlock.
LEMMA OneWriter ==
  ASSUME MuInv, NEW c \in Clients, NEW d \in Clients, pc[c] \in Held, pc[d] \in Held
  PROVE  c = d
  BY DEF MuInv

LEMMA GotoType ==
  ASSUME TypeOK, NEW c \in Clients, NEW where \in PCs, Goto(c, where)
  PROVE  /\ pc' \in [Clients -> PCs]
         /\ pc'[c] = where
         /\ \A d \in Clients \ {c} : pc'[d] = pc[d]
  BY DEF TypeOK, Goto, PCs

LEMMA DepType ==
  ASSUME TypeOK, NEW t \in Tasks, NEW d \in Tasks
  PROVE  DepAdded(t, d) \in [Tasks -> SUBSET Tasks]
  BY DEF TypeOK, DepAdded

\* Replacing one issue by another keeps the type, and no issue disappears.
LEMMA IssueType ==
  ASSUME TypeOK, NEW t \in Tasks, NEW i,
         i \in Issue \/ i = issue[t],
         issue' = [issue EXCEPT ![t] = i]
  PROVE  /\ issue' \in [Tasks -> Issue \cup {AbsentIssue}]
         /\ \A u \in Tasks : issue[u] # AbsentIssue => issue'[u] # AbsentIssue
  <1>1. AbsentIssue \notin Issue
    BY DEF AbsentIssue, Issue, BdStatus
  <1>2. QED
    BY <1>1 DEF TypeOK

\* The issue that CreateTask, UpdateTask and Assign write.
LEMMA WrittenType ==
  ASSUME ILInv, NEW c \in Clients, pc[c] = "write"
  PROVE  /\ call[c].op = "CreateTask" => BornAs(call[c]) \in Issue \/ BornAs(call[c]) = issue[call[c].t]
         /\ call[c].op = "UpdateTask" => Updated(call[c]) \in Issue \/ Updated(call[c]) = issue[call[c].t]
         /\ call[c].op = "Assign" => Claimed(call[c]) \in Issue
  <1>1. call[c] \in Requests /\ OnIssue(c) /\ TypeOK
    BY DEF ILInv, CallInv, Knows, HasCall, Held
  <1>2. ASSUME call[c].op = "CreateTask"
        PROVE  BornAs(call[c]) \in Issue \/ BornAs(call[c]) = issue[call[c].t]
    <2>1. call[c].r \in L!TaskRec
      BY <1>1, <1>2, RequestFields
    <2>2. call[c].r.status \in L!Status /\ call[c].r.assignee \in Workers \cup {NoWorker}
      BY <2>1 DEF L!TaskRec
    <2>3. EncodeStatus(call[c].r.status) \in BdStatus /\ "open" \in BdStatus
      BY <2>2, EncodeType DEF BdStatus
    <2>4. QED
      BY <2>2, <2>3 DEF BornAs, Issue
  <1>3. ASSUME call[c].op = "UpdateTask"
        PROVE  Updated(call[c]) \in Issue \/ Updated(call[c]) = issue[call[c].t]
    <2>1. call[c].r \in L!TaskRec
      BY <1>1, <1>3, RequestFields
    <2>2. call[c].r.status \in L!Status /\ call[c].r.assignee \in Workers \cup {NoWorker}
      BY <2>1 DEF L!TaskRec
    <2>3. EncodeStatus(call[c].r.status) \in BdStatus
      BY <2>2, EncodeType
    <2>4. QED
      BY <2>2, <2>3 DEF Updated, Issue
  <1>4. ASSUME call[c].op = "Assign" PROVE Claimed(call[c]) \in Issue
    <2>1. call[c].t \in Tasks /\ call[c].w \in Workers
      BY <1>1, <1>4, RequestFields
    <2>2. issue[call[c].t] \in Issue
      BY <1>1, <1>4, <2>1 DEF OnIssue, TypeOK
    <2>3. QED
      BY <2>1, <2>2 DEF Claimed, Issue, BdStatus
  <1>5. QED
    BY <1>2, <1>3, <1>4

\* What a command, transaction or file write leaves.
LEMMA EffectType ==
  ASSUME ILInv, NEW c \in Clients, pc[c] = "write", Effect(call[c])
  PROVE  /\ issue' \in [Tasks -> Issue \cup {AbsentIssue}]
         /\ deps' \in [Tasks -> SUBSET Tasks]
         /\ worker' \in [Workers -> L!WorkerRec \cup {L!AbsentWorker}]
         /\ \A u \in Tasks : issue[u] # AbsentIssue => issue'[u] # AbsentIssue
  <1>1. call[c] \in Requests /\ TypeOK
    BY DEF ILInv, CallInv, Knows, HasCall, Held
  <1>2. CASE call[c].op = "CreateTask"
    <2>1. issue' = [issue EXCEPT ![call[c].t] = BornAs(call[c])] /\ UNCHANGED <<deps, worker>>
      BY <1>2 DEF Effect
    <2>2. call[c].t \in Tasks
      BY <1>1, <1>2, RequestFields
    <2>3. QED
      BY <1>1, <1>2, <2>1, <2>2, WrittenType, IssueType DEF TypeOK
  <1>3. CASE call[c].op = "UpdateTask"
    <2>1. issue' = [issue EXCEPT ![call[c].t] = Updated(call[c])] /\ UNCHANGED <<deps, worker>>
      BY <1>3 DEF Effect
    <2>2. call[c].t \in Tasks
      BY <1>1, <1>3, RequestFields
    <2>3. QED
      BY <1>1, <1>3, <2>1, <2>2, WrittenType, IssueType DEF TypeOK
  <1>4. CASE call[c].op = "Assign"
    <2>1. issue' = [issue EXCEPT ![call[c].t] = Claimed(call[c])] /\ UNCHANGED <<deps, worker>>
      BY <1>4 DEF Effect
    <2>2. call[c].t \in Tasks
      BY <1>1, <1>4, RequestFields
    <2>3. QED
      BY <1>1, <1>4, <2>1, <2>2, WrittenType, IssueType DEF TypeOK
  <1>5. CASE call[c].op \in {"CreateWorker", "UpdateWorker"}
    <2>1. worker' = [worker EXCEPT ![call[c].w] = call[c].r] /\ UNCHANGED <<issue, deps>>
      BY <1>5 DEF Effect
    <2>2. call[c].w \in Workers /\ call[c].r \in L!WorkerRec
      BY <1>1, <1>5, RequestFields
    <2>3. QED
      BY <1>1, <2>1, <2>2 DEF TypeOK
  <1>6. CASE call[c].op = "AddDep"
    <2>1. deps' = DepAdded(call[c].t, call[c].d) /\ UNCHANGED <<issue, worker>>
      BY <1>6 DEF Effect
    <2>2. call[c].t \in Tasks /\ call[c].d \in Tasks
      BY <1>1, <1>6, RequestFields
    <2>3. QED
      BY <1>1, <2>1, <2>2, DepType DEF TypeOK
  <1>7. QED
    BY <1>2, <1>3, <1>4, <1>5, <1>6 DEF Effect

-----------------------------------------------------------------------------
(* Types *)

LEMMA TypeInit == Init => TypeOK
  <1> SUFFICES ASSUME Init PROVE TypeOK
    OBVIOUS
  <1>1. faults \in 0..MaxFaults
    BY IssueAssumption DEF Init
  <1>2. QED
    BY <1>1 DEF Init, TypeOK

\* The issue of a call half done is overwritten field by field.
LEMMA HalfIssueType ==
  ASSUME ILInv, NEW c \in Clients, SetStatus(c) \/ Rollback(c)
  PROVE  /\ issue' \in [Tasks -> Issue \cup {AbsentIssue}]
         /\ \A u \in Tasks : issue[u] # AbsentIssue => issue'[u] # AbsentIssue
  <1>1. TypeOK /\ HasCall(c) /\ OnIssue(c) /\ pc[c] \in {"status", "rollback"}
    BY DEF ILInv, CallInv, Knows, SetStatus, Rollback
  <1>2. /\ call[c] \in Requests /\ call[c].op \in {"CreateTask", "Assign"}
        /\ pc[c] = "status" => call[c].op = "CreateTask"
    BY <1>1 DEF HasCall, Held, Half
  <1>3. call[c].t \in Tasks
    BY <1>2, RequestFields
  <1>4. issue[call[c].t] \in Issue
    BY <1>1, <1>3 DEF OnIssue, Half, TypeOK
  <1>5. CASE SetStatus(c)
    <2>1. call[c].r \in L!TaskRec
      BY <1>2, <1>5, RequestFields DEF SetStatus
    <2>2. EncodeStatus(call[c].r.status) \in BdStatus
      BY <2>1, EncodeType DEF L!TaskRec
    <2>3. [issue[call[c].t] EXCEPT !.status = EncodeStatus(call[c].r.status)] \in Issue
      BY <1>4, <2>2 DEF Issue
    <2>4. issue' = [issue EXCEPT ![call[c].t] = [issue[call[c].t] EXCEPT !.status = EncodeStatus(call[c].r.status)]]
      BY <1>1, <1>5 DEF SetStatus, TypeOK
    <2>5. QED
      BY <1>1, <1>3, <2>3, <2>4, IssueType
  <1>6. CASE Rollback(c)
    <2>1. [issue[call[c].t] EXCEPT !.assignee = NoWorker] \in Issue
      BY <1>4 DEF Issue
    <2>2. issue' = [issue EXCEPT ![call[c].t] = [issue[call[c].t] EXCEPT !.assignee = NoWorker]]
      BY <1>1, <1>6 DEF Rollback, TypeOK
    <2>3. QED
      BY <1>1, <1>3, <2>1, <2>2, IssueType
  <1>7. QED
    BY <1>5, <1>6

LEMMA UserType ==
  ASSUME TypeOK, User
  PROVE  /\ issue' \in [Tasks -> Issue \cup {AbsentIssue}]
         /\ deps' \in [Tasks -> SUBSET Tasks]
         /\ \A u \in Tasks : issue[u] # AbsentIssue => issue'[u] # AbsentIssue
  <1>1. PICK r \in UserRequests :
          \/ /\ issue[r.t] = AbsentIssue
             /\ issue' = [issue EXCEPT ![r.t] = [AbsentIssue EXCEPT !.status = "open"]]
             /\ UNCHANGED deps
          \/ /\ r.op = "dep" /\ deps' = DepAdded(r.t, r.d)
             /\ UNCHANGED issue
          \/ /\ r.op = "status" /\ issue[r.t] # AbsentIssue
             /\ issue' = [issue EXCEPT ![r.t].status = r.s]
             /\ UNCHANGED deps
    BY DEF User
  <1>2. r.t \in Tasks /\ (r.op = "dep" => r.d \in Tasks) /\ (r.op = "status" => r.s \in BdStatus)
    BY UserFields
  <1>3. CASE issue' = [issue EXCEPT ![r.t] = [AbsentIssue EXCEPT !.status = "open"]] /\ UNCHANGED deps
    <2>1. [AbsentIssue EXCEPT !.status = "open"] \in Issue
      BY DEF AbsentIssue, Issue, BdStatus
    <2>2. QED
      BY <1>2, <1>3, <2>1, IssueType DEF TypeOK
  <1>4. CASE r.op = "dep" /\ deps' = DepAdded(r.t, r.d) /\ UNCHANGED issue
    BY <1>2, <1>4, DepType DEF TypeOK
  <1>5. CASE /\ r.op = "status" /\ issue[r.t] # AbsentIssue
             /\ issue' = [issue EXCEPT ![r.t].status = r.s] /\ UNCHANGED deps
    <2>1. issue[r.t] \in Issue
      BY <1>2, <1>5 DEF TypeOK
    <2>2. [issue[r.t] EXCEPT !.status = r.s] \in Issue
      BY <1>2, <1>5, <2>1 DEF Issue
    <2>3. issue' = [issue EXCEPT ![r.t] = [issue[r.t] EXCEPT !.status = r.s]]
      BY <1>2, <1>5 DEF TypeOK
    <2>4. QED
      BY <1>2, <1>5, <2>2, <2>3, IssueType DEF TypeOK
  <1>6. QED
    BY <1>1, <1>3, <1>4, <1>5

LEMMA TypeStep == ILInv /\ [Next]_vars => TypeOK'
  <1> SUFFICES ASSUME ILInv, [Next]_vars PROVE TypeOK'
    OBVIOUS
  <1> USE DEF kind, stored
  <1>0. TypeOK
    BY DEF ILInv
  <1>1. ASSUME NEW c \in Clients, Call(c) PROVE TypeOK'
    <2>1. PICK r \in Requests : /\ call' = [call EXCEPT ![c] = r]
                                /\ Goto(c, IF r.op = "ReadyTasks" THEN "list" ELSE "mu")
      BY <1>1 DEF Call
    <2>2. pc' \in [Clients -> PCs]
      BY <1>0, <2>1, GotoType DEF PCs
    <2>3. call' \in [Clients -> Requests \cup {NoCall}]
      BY <1>0, <2>1 DEF TypeOK
    <2>4. QED
      BY <1>0, <1>1, <2>2, <2>3 DEF Call, TypeOK, PCs
  <1>2. ASSUME NEW c \in Clients, Lock(c) PROVE TypeOK'
    <2>1. pc' \in [Clients -> PCs]
      BY <1>0, <1>2, GotoType DEF Lock, PCs
    <2>2. QED
      BY <1>0, <1>2, <2>1 DEF Lock, TypeOK, PCs
  <1>3. ASSUME NEW c \in Clients, Inspect(c) PROVE TypeOK'
    <2>1. PICK where \in {"write", "unlock"} : Goto(c, where)
      BY <1>3 DEF Inspect
    <2>2. pc' \in [Clients -> PCs]
      BY <1>0, <2>1, GotoType DEF PCs
    <2>3. QED
      BY <1>0, <1>3, <2>2 DEF Inspect, TypeOK, PCs
  <1>3a. ASSUME NEW c \in Clients, Panics(c) PROVE TypeOK'
    BY <1>0, <1>3a DEF Panics, TypeOK
  <1>4. ASSUME NEW c \in Clients, Write(c) PROVE TypeOK'
    <2>1. PICK where \in {"worker", "status", "unlock"} : Goto(c, where)
      BY <1>4 DEF Write
    <2>2. pc' \in [Clients -> PCs]
      BY <1>0, <2>1, GotoType DEF PCs
    <2>3. /\ issue' \in [Tasks -> Issue \cup {AbsentIssue}]
          /\ deps' \in [Tasks -> SUBSET Tasks]
          /\ worker' \in [Workers -> L!WorkerRec \cup {L!AbsentWorker}]
      BY <1>4, EffectType DEF Write
    <2>4. UNCHANGED <<kind, mu, call, listed, ready, faults>>
      BY <1>4 DEF Write
    <2>5. QED
      BY <1>0, <2>2, <2>3, <2>4 DEF TypeOK, PCs
  <1>5. ASSUME NEW c \in Clients, SetStatus(c) \/ Rollback(c) PROVE TypeOK'
    <2>1. pc' \in [Clients -> PCs]
      BY <1>0, <1>5, GotoType DEF SetStatus, Rollback, PCs
    <2>2. issue' \in [Tasks -> Issue \cup {AbsentIssue}]
      BY <1>5, HalfIssueType
    <2>3. UNCHANGED <<kind, deps, worker, mu, call, listed, ready, faults>>
      BY <1>5 DEF SetStatus, Rollback
    <2>4. QED
      BY <1>0, <2>1, <2>2, <2>3 DEF TypeOK, PCs
  <1>6. ASSUME NEW c \in Clients, WriteWorker(c) PROVE TypeOK'
    <2>1. pc' \in [Clients -> PCs]
      BY <1>0, <1>6, GotoType DEF WriteWorker, PCs
    <2>2. call[c] \in Requests /\ call[c].op = "Assign"
      BY <1>6 DEF WriteWorker, ILInv, CallInv, Knows, HasCall, Held, Half
    <2>3. call[c].t \in Tasks /\ call[c].w \in Workers
      BY <2>2, RequestFields
    <2>4. L!Active(call[c].t) \in L!WorkerRec
      BY <2>3 DEF L!Active, L!WorkerRec
    <2>5. worker' \in [Workers -> L!WorkerRec \cup {L!AbsentWorker}]
      BY <1>0, <1>6, <2>3, <2>4 DEF WriteWorker, TypeOK
    <2>6. UNCHANGED <<kind, issue, deps, mu, call, listed, ready, faults>>
      BY <1>6 DEF WriteWorker
    <2>7. QED
      BY <1>0, <2>1, <2>5, <2>6 DEF TypeOK, PCs
  <1>7. ASSUME NEW c \in Clients, Fails(c) PROVE TypeOK'
    <2>1. PICK where \in {"rollback", "unlock"} : Goto(c, where)
      BY <1>7 DEF Fails
    <2>2. pc' \in [Clients -> PCs]
      BY <1>0, <2>1, GotoType DEF PCs
    <2>3. faults' \in 0..MaxFaults
      BY <1>0, <1>7, IssueAssumption DEF Fails, Fault, TypeOK
    <2>4. UNCHANGED <<kind, stored, mu, call, listed, ready>>
      BY <1>7 DEF Fails
    <2>5. QED
      BY <1>0, <2>2, <2>3, <2>4 DEF TypeOK, PCs
  <1>8. ASSUME NEW c \in Clients, TimesOut(c) PROVE TypeOK'
    <2>1. pc' \in [Clients -> PCs]
      BY <1>0, <1>8, GotoType DEF TimesOut, PCs
    <2>2. /\ issue' \in [Tasks -> Issue \cup {AbsentIssue}]
          /\ deps' \in [Tasks -> SUBSET Tasks]
          /\ worker' \in [Workers -> L!WorkerRec \cup {L!AbsentWorker}]
      BY <1>8, EffectType DEF TimesOut
    <2>3. faults' \in 0..MaxFaults
      BY <1>0, <1>8, IssueAssumption DEF TimesOut, Fault, TypeOK
    <2>4. UNCHANGED <<kind, mu, call, listed, ready>>
      BY <1>8 DEF TimesOut
    <2>5. QED
      BY <1>0, <2>1, <2>2, <2>3, <2>4 DEF TypeOK, PCs
  <1>9. ASSUME NEW c \in Clients, Unlock(c) \/ Return(c) PROVE TypeOK'
    <2>1. pc' \in [Clients -> PCs]
      BY <1>0, <1>9, GotoType DEF Unlock, Return, PCs
    <2>2. QED
      BY <1>0, <1>9, <2>1 DEF Unlock, Return, TypeOK, PCs
  <1>10. ASSUME NEW c \in Clients, List(c) PROVE TypeOK'
    <2>1. pc' \in [Clients -> PCs]
      BY <1>0, <1>10, GotoType DEF List, PCs
    <2>2. PICK S \in SUBSET Tasks : listed' = [listed EXCEPT ![c] = S]
      <3>1. listed' = [listed EXCEPT ![c] =
               IF backend = "bd" THEN {t \in InBranch : issue[t] # AbsentIssue}
               ELSE {t \in InBranch : ToTask(issue[t]) = L!OpenTask /\ DepsDone(t, Tasks)}]
        BY <1>10 DEF List
      <3>2. QED
        BY <3>1, IssueAssumption
    <2>3. QED
      BY <1>0, <1>10, <2>1, <2>2 DEF List, TypeOK, PCs
  <1>11. ASSUME NEW c \in Clients, Show(c) PROVE TypeOK'
    <2>1. pc' \in [Clients -> PCs]
      BY <1>0, <1>11, GotoType DEF Show, PCs
    <2>2. PICK S \in SUBSET Tasks : ready' = [ready EXCEPT ![c] = S]
      <3>1. ready' = [ready EXCEPT ![c] =
               IF backend = "bd"
               THEN {t \in listed[c] : ToTask(issue[t]) = L!OpenTask /\ DepsDone(t, listed[c])}
               ELSE listed[c]]
        BY <1>11 DEF Show
      <3>2. QED
        BY <1>0, <3>1 DEF TypeOK
    <2>3. QED
      BY <1>0, <1>11, <2>1, <2>2 DEF Show, TypeOK, PCs
  <1>12. CASE User
    <2>1. UNCHANGED <<kind, worker, mu, pc, call, listed, ready, faults>>
      BY <1>12 DEF User
    <2>2. QED
      BY <1>0, <1>12, <2>1, UserType DEF TypeOK
  <1>13. CASE UNCHANGED vars
    BY <1>0, <1>13 DEF vars, TypeOK
  <1>14. QED
    BY <1>1, <1>2, <1>3, <1>3a, <1>4, <1>5, <1>6, <1>7, <1>8, <1>9, <1>10, <1>11, <1>12, <1>13
    DEF Next, Step

-----------------------------------------------------------------------------
(* What the holder of the mutex knows *)

LEMMA MuStep == ILInv /\ [Next]_vars => MuInv'
  <1> SUFFICES ASSUME ILInv, [Next]_vars PROVE MuInv'
    OBVIOUS
  <1>0. TypeOK /\ MuInv
    BY DEF ILInv
  <1>1. ASSUME NEW c \in Clients, Call(c) \/ List(c) \/ Show(c) \/ Return(c) PROVE MuInv'
    <2>1. PICK where \in PCs \ Held : Goto(c, where)
      BY <1>1 DEF Call, List, Show, Return, PCs, Held
    <2>2. mu' = mu
      BY <1>1 DEF Call, List, Show, Return
    <2>3. QED
      BY <1>0, <2>1, <2>2, GotoType DEF MuInv
  <1>2. ASSUME NEW c \in Clients, Lock(c) PROVE MuInv'
    <2>1. mu = NoClient /\ mu' = c /\ Goto(c, "inspect")
      BY <1>2 DEF Lock
    <2>2. QED
      BY <1>0, <2>1, GotoType, IssueAssumption DEF MuInv, PCs
  <1>3. ASSUME NEW c \in Clients,
               \/ Inspect(c) \/ Write(c) \/ SetStatus(c) \/ WriteWorker(c) \/ Rollback(c)
               \/ Fails(c) \/ TimesOut(c)
        PROVE  MuInv'
    <2>1. pc[c] \in Held /\ mu' = mu
      BY <1>3 DEF Inspect, Write, SetStatus, WriteWorker, Rollback, Fails, TimesOut, Held
    <2>2. PICK where \in Held : Goto(c, where)
      BY <1>3 DEF Inspect, Write, SetStatus, WriteWorker, Rollback, Fails, TimesOut, Held
    <2>3. QED
      BY <1>0, <2>1, <2>2, GotoType DEF MuInv, PCs, Held
  <1>4. ASSUME NEW c \in Clients, Unlock(c) PROVE MuInv'
    <2>1. pc[c] = "unlock" /\ Goto(c, "idle")
      BY <1>4 DEF Unlock
    <2>2. \A d \in Clients \ {c} : pc[d] \notin Held
      BY <1>0, <2>1, OneWriter DEF Held
    <2>3. QED
      BY <1>0, <2>1, <2>2, GotoType DEF MuInv, PCs, Held
  <1>5. CASE User \/ UNCHANGED vars
    BY <1>0, <1>5 DEF User, vars, MuInv
  <1>6. ASSUME NEW c \in Clients, Panics(c) PROVE MuInv'
    BY <1>6 DEF Panics, MuInv, Held
  <1>7. QED
    BY <1>1, <1>2, <1>3, <1>4, <1>5, <1>6 DEF Next, Step

\* Issues that were not written read as before.
LEMMA SameTasks ==
  ASSUME UNCHANGED <<issue, backend>>
  PROVE  \A t : ToTask(issue[t])' = ToTask(issue[t])
  BY DEF ToTask, DecodeStatus

\* The tracker's record of a task that is not there, or is open.
LEMMA DecodedAbsent ==
  ASSUME NEW i \in Issue \cup {AbsentIssue}
  PROVE  /\ ToTask(i) = L!AbsentTask <=> i = AbsentIssue
         /\ ToTask(i).status = "absent" <=> i = AbsentIssue
         /\ ToTask(i) = L!OpenTask <=> i.status = "open" /\ i.assignee = NoWorker
  <1>1. CASE i = AbsentIssue
    <2>1. i.status = "absent" /\ i.assignee = NoWorker
      BY <1>1 DEF AbsentIssue
    <2>2. DecodeStatus(i) = "absent"
      BY <2>1 DEF DecodeStatus
    <2>3. ToTask(i) = [status |-> "absent", assignee |-> NoWorker]
      BY <2>1, <2>2 DEF ToTask
    <2>4. QED
      BY <1>1, <2>1, <2>3 DEF L!AbsentTask, L!OpenTask
  <1>2. CASE i \in Issue
    <2>1. i.status \in BdStatus /\ i # AbsentIssue
      BY <1>2 DEF Issue, AbsentIssue, BdStatus
    <2>2. /\ DecodeStatus(i) # "absent"
          /\ DecodeStatus(i) = "open" <=> i.status = "open"
      BY <2>1 DEF DecodeStatus, BdStatus, Unmapped
    <2>3. /\ ToTask(i).status = IF DecodeStatus(i) = "open" /\ i.assignee # NoWorker
                                THEN "assigned" ELSE DecodeStatus(i)
          /\ ToTask(i).assignee = i.assignee
      BY DEF ToTask
    <2>4. ToTask(i) = [status |-> ToTask(i).status, assignee |-> ToTask(i).assignee]
      BY DEF ToTask
    <2>5. QED
      BY <2>1, <2>2, <2>3, <2>4 DEF L!AbsentTask, L!OpenTask
  <1>3. QED
    BY <1>1, <1>2

Present == \A u \in Tasks : issue[u] # AbsentIssue => issue'[u] # AbsentIssue

\* What a client knows survives the steps of others: they do not write, or it
\* does not hold the mutex, or others write to the issues anyway.
LEMMA CallKept ==
  ASSUME ILInv, NEW d \in Clients, pc'[d] = pc[d], call'[d] = call[d],
         UNCHANGED kind, Present, faults > 0 => faults' > 0,
         UNCHANGED stored \/ pc[d] \notin Held \/ shared
  PROVE  Knows(d)'
  <1>0. Knows(d) /\ UNCHANGED <<backend, shared>>
    BY DEF ILInv, CallInv, kind
  <1>1. HasCall(d)' /\ (pc'[d] = "rollback" => faults' > 0)
    BY <1>0 DEF Knows, HasCall
  <1>2. OnIssue(d)'
    <2>1. CASE (pc[d] = "write" /\ call[d].op = "Assign") \/ pc[d] \in Half \cup {"status"}
      <3>1. call[d] \in Requests /\ call[d].op \in {"Assign", "CreateTask"}
        BY <1>0, <2>1 DEF Knows, HasCall, Held, Half
      <3>2. call[d].t \in Tasks
        BY <3>1, RequestFields
      <3>3. QED
        BY <1>0, <3>2 DEF Knows, OnIssue, Present
    <2>2. QED
      BY <2>1 DEF OnIssue
  <1>3. CASE pc[d] \notin Held
    BY <1>1, <1>2, <1>3 DEF Knows, MayWrite, HalfAssigned, HalfCreated, Held, Half
  <1>4. CASE shared
    BY <1>0, <1>1, <1>2, <1>4 DEF Knows, MayWrite, HalfAssigned, HalfCreated
  <1>5. CASE UNCHANGED stored
    <2>1. UNCHANGED <<issue, deps, worker>>
      BY <1>5 DEF stored
    <2>2. MayWrite(d)'
      <3>1. L!Accepts(call[d])' <=> L!Accepts(call[d])
        BY <1>0, <2>1, SameTasks
        DEF L!Accepts, L!Reachable, L!Closed, L!AbsentTask, L!OpenTask, L!AbsentWorker
      <3>2. QED
        BY <1>0, <3>1 DEF Knows, MayWrite, Looks
    <2>3. HalfAssigned(d)' /\ HalfCreated(d)'
      BY <1>0, <2>1 DEF Knows, HalfAssigned, HalfCreated
    <2>4. QED
      BY <1>1, <1>2, <2>2, <2>3 DEF Knows
  <1>6. QED
    BY <1>3, <1>4, <1>5

LEMMA CallStep == ILInv /\ [Next]_vars => CallInv'
  <1> SUFFICES ASSUME ILInv, [Next]_vars PROVE CallInv'
    OBVIOUS
  <1>0. TypeOK /\ MuInv /\ CallInv /\ faults \in Nat
    BY IssueAssumption DEF ILInv, TypeOK
  \* A step of c that writes only under the mutex.
  <1>1. ASSUME NEW c \in Clients, \A d \in Clients \ {c} : pc'[d] = pc[d] /\ call'[d] = call[d],
               UNCHANGED kind, Present, UNCHANGED stored \/ pc[c] \in Held,
               faults > 0 => faults' > 0, Knows(c)'
        PROVE  CallInv'
    <2>1. ASSUME NEW d \in Clients, d # c PROVE Knows(d)'
      <3>1. UNCHANGED stored \/ pc[d] \notin Held
        BY <1>0, <1>1, <2>1, OneWriter
      <3>2. QED
        BY <1>1, <2>1, <3>1, CallKept
    <2>2. QED
      BY <1>1, <2>1 DEF CallInv
  <1>2. ASSUME UNCHANGED issue PROVE Present
    BY <1>2 DEF Present
  <1>3. ASSUME NEW c \in Clients, Call(c) PROVE CallInv'
    <2>1. PICK r \in Requests : /\ call' = [call EXCEPT ![c] = r]
                                /\ Goto(c, IF r.op = "ReadyTasks" THEN "list" ELSE "mu")
      BY <1>3 DEF Call
    <2>2. /\ call'[c] = r /\ \A d \in Clients \ {c} : pc'[d] = pc[d] /\ call'[d] = call[d]
          /\ pc'[c] = IF r.op = "ReadyTasks" THEN "list" ELSE "mu"
      BY <1>0, <2>1, GotoType DEF TypeOK, PCs
    <2>3. Knows(c)'
      BY <2>2 DEF Knows, HasCall, OnIssue, MayWrite, HalfAssigned, HalfCreated, Held, Half
    <2>4. UNCHANGED kind /\ UNCHANGED stored /\ UNCHANGED faults /\ Present
      BY <1>2, <1>3 DEF Call, stored
    <2>5. QED
      BY <1>1, <2>2, <2>3, <2>4
  <1>4. ASSUME NEW c \in Clients, Lock(c) PROVE CallInv'
    <2>1. /\ pc[c] = "mu" /\ pc'[c] = "inspect"
          /\ \A d \in Clients \ {c} : pc'[d] = pc[d]
      BY <1>0, <1>4, GotoType DEF Lock, PCs
    <2>2. UNCHANGED kind /\ UNCHANGED stored /\ UNCHANGED <<call, faults>> /\ Present
      BY <1>2, <1>4 DEF Lock, stored
    <2>3. Knows(c)'
      BY <1>0, <2>1, <2>2
      DEF CallInv, Knows, HasCall, OnIssue, MayWrite, HalfAssigned, HalfCreated, Held, Half
    <2>4. QED
      BY <1>1, <2>1, <2>2, <2>3
  <1>5. ASSUME NEW c \in Clients, Inspect(c) PROVE CallInv'
    <2>1. /\ pc[c] = "inspect" /\ pc[c] \in Held
          /\ pc'[c] = IF Looks(call[c]) => L!Accepts(call[c]) THEN "write" ELSE "unlock"
          /\ \A d \in Clients \ {c} : pc'[d] = pc[d]
      <3>1. Goto(c, IF Looks(call[c]) => L!Accepts(call[c]) THEN "write" ELSE "unlock")
        BY <1>5 DEF Inspect, Looks
      <3>2. QED
        BY <1>0, <1>5, <3>1, GotoType DEF Inspect, PCs, Held
    <2>2. UNCHANGED kind /\ UNCHANGED stored /\ UNCHANGED <<call, faults>> /\ Present
      BY <1>2, <1>5 DEF Inspect, stored
    <2>3. UNCHANGED <<backend, shared, issue, deps, worker>>
      BY <2>2 DEF kind, stored
    <2>4. HasCall(c)' /\ HalfAssigned(c)' /\ HalfCreated(c)' /\ pc'[c] # "rollback"
      BY <1>0, <2>1, <2>2, <2>3
      DEF CallInv, Knows, HasCall, HalfAssigned, HalfCreated, Held, Half
    <2>5. MayWrite(c)'
      BY <2>1, <2>2, <2>3, SameTasks
      DEF MayWrite, Looks, L!Accepts, L!Reachable, L!Closed, L!AbsentTask, L!OpenTask, L!AbsentWorker
    <2>6. OnIssue(c)'
      <3>1. CASE pc'[c] = "write" /\ call[c].op = "Assign"
        <4>1. L!Accepts(call[c]) /\ call[c].t \in Tasks
          BY <1>0, <2>1, <3>1, RequestFields DEF Looks, CallInv, Knows, HasCall
        <4>2. ToTask(issue[call[c].t]) = L!OpenTask
          BY <3>1, <4>1 DEF L!Accepts
        <4>3. issue[call[c].t] # AbsentIssue
          BY <4>2 DEF ToTask, DecodeStatus, AbsentIssue, L!OpenTask
        <4>4. QED
          BY <2>2, <2>3, <4>3 DEF OnIssue
      <3>2. CASE ~(pc'[c] = "write" /\ call[c].op = "Assign")
        BY <2>1, <2>2, <3>2 DEF OnIssue, Half
      <3>3. QED
        BY <3>1, <3>2
    <2>7. QED
      BY <1>1, <2>1, <2>2, <2>4, <2>5, <2>6 DEF Knows

  <1>6. ASSUME NEW c \in Clients, Write(c) PROVE CallInv'
    <2>1. /\ pc[c] = "write" /\ pc[c] \in Held /\ Effect(call[c])
          /\ UNCHANGED kind /\ UNCHANGED <<call, faults>>
      BY <1>6 DEF Write, Held
    <2>2. /\ pc'[c] = CASE call[c].op = "Assign" -> "worker"
                        [] call[c].op = "CreateTask" /\ backend = "bd"
                             /\ call[c].r.status # "open" -> "status"
                        [] OTHER -> "unlock"
          /\ \A d \in Clients \ {c} : pc'[d] = pc[d]
      BY <1>0, <1>6, GotoType DEF Write, PCs
    <2>3. Present /\ UNCHANGED <<backend, shared>>
      BY <2>1, EffectType DEF Present, kind
    <2>4. Knows(c) /\ call[c] \in Requests
      BY <1>0, <2>1 DEF CallInv, Knows, HasCall, Held
    <2>5. CASE call[c].op = "Assign"
      <3>1. pc'[c] = "worker"
        BY <2>2, <2>5
      <3>2. issue' = [issue EXCEPT ![call[c].t] = Claimed(call[c])] /\ worker' = worker
        BY <2>1, <2>5 DEF Effect
      <3>3. call[c].t \in Tasks /\ call[c].w \in Workers
        BY <2>4, <2>5, RequestFields
      <3>4. issue[call[c].t] # AbsentIssue
        BY <2>1, <2>4, <2>5 DEF Knows, OnIssue
      <3>5. issue'[call[c].t] = Claimed(call[c]) /\ issue[call[c].t] \in Issue
        BY <1>0, <3>2, <3>3, <3>4 DEF TypeOK
      <3>6. HalfAssigned(c)'
        <4> SUFFICES ASSUME ~shared
                     PROVE  /\ issue'[call[c].t].status = "open"
                            /\ issue'[call[c].t].assignee = call[c].w
                            /\ worker'[call[c].w].status = "idle"
          BY <2>1, <2>3 DEF HalfAssigned
        <4>1. L!Accepts(call[c])
          BY <2>1, <2>4, <2>5 DEF Knows, MayWrite, Looks
        <4>2. ToTask(issue[call[c].t]) = L!OpenTask /\ worker[call[c].w].status = "idle"
          BY <2>5, <3>3, <4>1 DEF L!Accepts
        <4>3. issue[call[c].t].status = "open"
          BY <3>5, <4>2, DecodedAbsent
        <4>4. Claimed(call[c]).status = "open" /\ Claimed(call[c]).assignee = call[c].w
          BY <3>5, <4>3 DEF Claimed, Issue
        <4>5. QED
          BY <3>2, <3>5, <4>2, <4>4
      <3>7. Knows(c)'
        BY <2>1, <2>3, <2>4, <2>5, <3>1, <3>3, <3>4, <3>6
        DEF Knows, HasCall, OnIssue, MayWrite, HalfCreated, Held, Half, Present
      <3>8. QED
        BY <1>1, <2>1, <2>2, <2>3, <3>7
    <2>6. CASE call[c].op = "CreateTask" /\ backend = "bd" /\ call[c].r.status # "open"
      <3>1. pc'[c] = "status"
        BY <2>2, <2>6
      <3>2. issue' = [issue EXCEPT ![call[c].t] = BornAs(call[c])]
        BY <2>1, <2>6 DEF Effect
      <3>3. call[c].t \in Tasks
        BY <2>4, <2>6, RequestFields
      <3>4. issue'[call[c].t] = BornAs(call[c]) /\ issue[call[c].t] \in Issue \cup {AbsentIssue}
        BY <1>0, <3>2, <3>3 DEF TypeOK
      <3>5. issue'[call[c].t] # AbsentIssue
        BY <2>6, <3>4 DEF BornAs, AbsentIssue
      <3>6. HalfCreated(c)'
        <4> SUFFICES ASSUME ~shared
                     PROVE  issue'[call[c].t]
                              = [status |-> "open", assignee |-> call[c].r.assignee,
                                 failed |-> call[c].r.status = "failed"]
          BY <2>1, <2>3 DEF HalfCreated
        <4>1. L!Accepts(call[c])
          BY <2>1, <2>4, <2>6 DEF Knows, MayWrite, Looks
        <4>2. ToTask(issue[call[c].t]) = L!AbsentTask
          BY <2>6, <3>3, <4>1 DEF L!Accepts
        <4>3. issue[call[c].t] = AbsentIssue
          BY <3>4, <4>2, DecodedAbsent
        <4>4. QED
          BY <2>6, <3>4, <4>3 DEF BornAs
      <3>7. Knows(c)'
        BY <2>1, <2>3, <2>4, <2>6, <3>1, <3>5, <3>6
        DEF Knows, HasCall, OnIssue, MayWrite, HalfAssigned, Held, Half
      <3>8. QED
        BY <1>1, <2>1, <2>2, <2>3, <3>7
    <2>7. CASE /\ call[c].op # "Assign"
               /\ ~(call[c].op = "CreateTask" /\ backend = "bd" /\ call[c].r.status # "open")
      <3>1. pc'[c] = "unlock"
        BY <2>2, <2>7
      <3>2. Knows(c)'
        BY <2>1, <2>3, <2>4, <3>1
        DEF Knows, HasCall, OnIssue, MayWrite, HalfAssigned, HalfCreated, Held, Half
      <3>3. QED
        BY <1>1, <2>1, <2>2, <2>3, <3>2
    <2>8. QED
      BY <2>5, <2>6, <2>7
  <1>7. ASSUME NEW c \in Clients, SetStatus(c) \/ Rollback(c) \/ WriteWorker(c) PROVE CallInv'
    <2>1. /\ pc[c] \in Held /\ pc'[c] = "unlock" /\ \A d \in Clients \ {c} : pc'[d] = pc[d]
      BY <1>0, <1>7, GotoType DEF SetStatus, Rollback, WriteWorker, PCs, Held
    <2>2. UNCHANGED kind /\ UNCHANGED <<call, faults>>
      BY <1>7 DEF SetStatus, Rollback, WriteWorker
    <2>3. Present
      BY <1>2, <1>7, HalfIssueType DEF WriteWorker, Present
    <2>4. Knows(c)'
      BY <1>0, <2>1, <2>2
      DEF CallInv, Knows, HasCall, OnIssue, MayWrite, HalfAssigned, HalfCreated, Held, Half
    <2>5. QED
      BY <1>1, <2>1, <2>2, <2>3, <2>4
  <1>8. ASSUME NEW c \in Clients, Fails(c) PROVE CallInv'
    <2>1. /\ pc[c] \in {"write", "status", "worker", "rollback"} /\ pc[c] \in Held
          /\ pc'[c] = IF pc[c] = "worker" THEN "rollback" ELSE "unlock"
          /\ \A d \in Clients \ {c} : pc'[d] = pc[d]
      BY <1>0, <1>8, GotoType DEF Fails, PCs, Held
    <2>2. /\ UNCHANGED kind /\ UNCHANGED stored /\ UNCHANGED call /\ faults' > 0 /\ Present
      BY <1>0, <1>2, <1>8 DEF Fails, Fault, stored
    <2>3. UNCHANGED <<backend, shared, issue, deps, worker>>
      BY <2>2 DEF kind, stored
    <2>4. Knows(c)'
      BY <1>0, <2>1, <2>2, <2>3
      DEF CallInv, Knows, HasCall, OnIssue, MayWrite, HalfAssigned, HalfCreated, Held, Half
    <2>5. QED
      BY <1>1, <2>1, <2>2, <2>4
  <1>9. ASSUME NEW c \in Clients, TimesOut(c) PROVE CallInv'
    <2>1. /\ pc[c] \in Held /\ pc'[c] = "unlock" /\ \A d \in Clients \ {c} : pc'[d] = pc[d]
      BY <1>0, <1>9, GotoType DEF TimesOut, PCs, Held
    <2>2. UNCHANGED kind /\ UNCHANGED call /\ faults' > 0
      BY <1>0, <1>9 DEF TimesOut, Fault
    <2>3. Present
      BY <1>9, EffectType DEF TimesOut, Present
    <2>4. Knows(c)'
      BY <1>0, <2>1, <2>2
      DEF CallInv, Knows, HasCall, OnIssue, MayWrite, HalfAssigned, HalfCreated, Held, Half
    <2>5. QED
      BY <1>1, <2>1, <2>2, <2>3, <2>4
  <1>10. ASSUME NEW c \in Clients, Unlock(c) \/ List(c) \/ Show(c) \/ Return(c) PROVE CallInv'
    <2>1. /\ pc'[c] \in {"idle", "show", "return"} /\ \A d \in Clients \ {c} : pc'[d] = pc[d]
      BY <1>0, <1>10, GotoType DEF Unlock, List, Show, Return, PCs
    <2>2. \A d \in Clients \ {c} : call'[d] = call[d]
      BY <1>0, <1>10 DEF Unlock, List, Show, Return, TypeOK
    <2>3. UNCHANGED kind /\ UNCHANGED stored /\ UNCHANGED faults /\ Present
      BY <1>2, <1>10 DEF Unlock, List, Show, Return, stored
    <2>4. Knows(c)'
      BY <2>1 DEF Knows, HasCall, OnIssue, MayWrite, HalfAssigned, HalfCreated, Held, Half
    <2>5. QED
      BY <1>1, <2>1, <2>2, <2>3, <2>4
  <1>11. CASE User
    <2>1. shared /\ UNCHANGED kind /\ UNCHANGED <<pc, call, faults>>
      BY <1>11 DEF User
    <2>2. Present
      BY <1>0, <1>11, UserType DEF Present
    <2>3. QED
      BY <2>1, <2>2, CallKept DEF CallInv
  <1>12. CASE UNCHANGED vars
    <2>1. UNCHANGED kind /\ UNCHANGED stored /\ UNCHANGED <<pc, call, faults>> /\ Present
      BY <1>2, <1>12 DEF vars, stored
    <2>2. QED
      BY <2>1, CallKept DEF CallInv
  <1>13. ASSUME NEW c \in Clients, Panics(c) PROVE CallInv'
    <2>1. \A d \in Clients : pc'[d] = "dead"
      BY <1>13 DEF Panics
    <2>2. QED
      BY <2>1 DEF CallInv, Knows, HasCall, OnIssue, MayWrite, HalfAssigned, HalfCreated, Held, Half
  <1>14. QED
    BY <1>3, <1>4, <1>5, <1>6, <1>7, <1>8, <1>9, <1>10, <1>11, <1>12, <1>13 DEF Next, Step

LEMMA ILInvInit == Init => ILInv
  <1> SUFFICES ASSUME Init PROVE ILInv
    OBVIOUS
  <1>1. \A c \in Clients : pc[c] = "idle"
    BY DEF Init
  <1>2. MuInv /\ CallInv
    BY <1>1 DEF MuInv, CallInv, Knows, HasCall, OnIssue, MayWrite, HalfAssigned, HalfCreated, Held, Half
  <1>3. QED
    BY <1>2, TypeInit DEF ILInv

LEMMA ILInvStep == ILInv /\ [Next]_vars => ILInv'
  BY TypeStep, MuStep, CallStep DEF ILInv

-----------------------------------------------------------------------------
(* Dependencies stay acyclic *)

Acyclic(edges) == \A S \in SUBSET Tasks : S # {} => \E x \in S : edges[x] \cap S = {}

\* An edge to a task from which the other end cannot be reached closes no cycle.
LEMMA EdgeKeepsAcyclic ==
  ASSUME NEW e \in [Tasks -> SUBSET Tasks], Acyclic(e),
         NEW t \in Tasks, NEW d \in Tasks, ~L!Reachable(e, d, t)
  PROVE  Acyclic([e EXCEPT ![t] = @ \cup {d}])
  <1> DEFINE f == [e EXCEPT ![t] = @ \cup {d}]
  <1>1. PICK R \in SUBSET Tasks : d \in R /\ L!Closed(e, R) /\ t \notin R
    BY DEF L!Reachable
  <1>2. \A x \in Tasks : f[x] = IF x = t THEN e[t] \cup {d} ELSE e[x]
    OBVIOUS
  <1> HIDE DEF f
  <1>3. ASSUME NEW S \in SUBSET Tasks, S # {} PROVE \E x \in S : f[x] \cap S = {}
    <2>1. CASE S \cap R # {}
      <3>1. PICK x \in S \cap R : e[x] \cap (S \cap R) = {}
        BY <2>1 DEF Acyclic
      <3>2. e[x] \subseteq R /\ x # t
        BY <1>1, <3>1 DEF L!Closed
      <3>3. QED
        BY <1>2, <3>1, <3>2
    <2>2. CASE S \cap R = {}
      <3>1. PICK x \in S : e[x] \cap S = {}
        BY <1>3 DEF Acyclic
      <3>2. d \notin S
        BY <1>1, <2>2
      <3>3. QED
        BY <1>2, <3>1, <3>2
    <2>3. QED
      BY <2>1, <2>2
  <1>4. QED
    BY <1>3 DEF f, Acyclic

\* Who writes dependencies, and how.
LEMMA NextDeps ==
  ASSUME ILInv, [Next]_vars
  PROVE  \/ deps' = deps
         \/ \E c \in Clients : /\ pc[c] = "write" /\ call[c].op = "AddDep"
                               /\ deps' = DepAdded(call[c].t, call[c].d)
         \/ \E r \in UserRequests : r.op = "dep" /\ deps' = DepAdded(r.t, r.d)
  <1> DEFINE P == \/ deps' = deps
                  \/ \E c \in Clients : /\ pc[c] = "write" /\ call[c].op = "AddDep"
                                        /\ deps' = DepAdded(call[c].t, call[c].d)
                  \/ \E r \in UserRequests : r.op = "dep" /\ deps' = DepAdded(r.t, r.d)
  <1>1. ASSUME NEW c \in Clients, Write(c) \/ TimesOut(c) PROVE P
    <2>1. pc[c] = "write" /\ Effect(call[c])
      BY <1>1 DEF Write, TimesOut
    <2>2. deps' = deps \/ (call[c].op = "AddDep" /\ deps' = DepAdded(call[c].t, call[c].d))
      BY <2>1 DEF Effect
    <2>3. QED
      BY <2>1, <2>2
  <1>2. CASE User
    BY <1>2, Zenon DEF User
  <1>3. ASSUME NEW c \in Clients, Call(c) \/ Lock(c) \/ Inspect(c) \/ Unlock(c) \/ List(c) \/ Show(c)
                                  \/ Return(c) \/ Fails(c) \/ Panics(c)
        PROVE  P
    <2>1. UNCHANGED stored
      BY <1>3 DEF Call, Lock, Inspect, Unlock, List, Show, Return, Fails, Panics
    <2>2. QED
      BY <2>1 DEF stored
  <1>4. ASSUME NEW c \in Clients, SetStatus(c) \/ WriteWorker(c) \/ Rollback(c) PROVE P
    BY <1>4 DEF SetStatus, WriteWorker, Rollback
  <1>5. CASE UNCHANGED vars
    BY <1>5 DEF vars, stored
  <1>6. QED
    BY <1>1, <1>2, <1>3, <1>4, <1>5 DEF Next, Step

\* LDG-06: in both trackers the dependencies stay acyclic, also next to agents and
\* operators who add dependencies with bd themselves: the tracker checks them.
THEOREM TrackersStayAcyclic == Spec => []L!DepsAcyclic
  <1>1. Init => Acyclic(deps)
    BY DEF Init, Acyclic
  <1>2. ILInv /\ Acyclic(deps) /\ [Next]_vars => Acyclic(deps)'
    <2> SUFFICES ASSUME ILInv, Acyclic(deps), [Next]_vars PROVE Acyclic(deps')
      BY DEF Acyclic
    <2>1. deps \in [Tasks -> SUBSET Tasks]
      BY DEF ILInv, TypeOK
    <2>2. ASSUME NEW t \in Tasks, NEW d \in Tasks, deps' = DepAdded(t, d) PROVE Acyclic(deps')
      BY <2>1, <2>2, EdgeKeepsAcyclic DEF DepAdded
    <2>3. ASSUME NEW c \in Clients, pc[c] = "write", call[c].op = "AddDep"
          PROVE  call[c].t \in Tasks /\ call[c].d \in Tasks
      BY <2>3, RequestFields DEF ILInv, CallInv, Knows, HasCall, Held
    <2>4. QED
      BY <2>2, <2>3, NextDeps, UserFields
  <1>3. Acyclic(deps) => L!DepsAcyclic
    BY DEF Acyclic, L!DepsAcyclic
  <1>4. QED
    BY <1>1, <1>2, <1>3, ILInvInit, ILInvStep, PTL DEF Spec

-----------------------------------------------------------------------------
(* ReadyTasks *)

BranchIssues == {t \in InBranch : issue[t] # AbsentIssue}

\* What the first half of ReadyTasks has found: for BeadsStore the tasks that were
\* ready then, for BDCLIStore the issues that are still there, if nothing moved.
Looked(c) ==
  /\ listed[c] \subseteq InBranch
  /\ backend # "bd" => listed[c] \subseteq ever[c]
  /\ c \notin moved => listed[c] = IF backend = "bd" THEN BranchIssues ELSE L!Ready

ReadInv ==
  /\ \A c \in Clients : pc[c] = "show" => Looked(c)
  /\ ReadyTruthful

LEMMA ReadStep ==
  ASSUME ILInv, ReadInv, [Next]_vars, Observe
  PROVE  ReadInv'
  <1>0. TypeOK /\ InBranch \subseteq Tasks
    BY IssueAssumption DEF ILInv
  <1>1. backend' = backend
    BY DEF Next, Step, Call, Lock, Inspect, Panics, Write, SetStatus, WriteWorker, Rollback, Unlock, List, Show,
           Return, Fails, TimesOut, User, vars, kind
  <1> DEFINE Told(c) == /\ ready[c] \subseteq ever[c]
                        /\ c \notin moved /\ BranchLocal => ready[c] = L!Ready
             Fine(c) == (pc[c] = "show" => Looked(c)) /\ (pc[c] = "return" => Told(c))
  <1>2. ASSUME \A c \in Clients : Fine(c)' PROVE ReadInv'
    BY <1>2 DEF ReadInv, ReadyTruthful
  <1>3. \A c \in Clients : Fine(c)
    BY DEF ReadInv, ReadyTruthful
  <1> HIDE DEF Told, Fine
  \* A store that did not move is as it was.
  <1>4. ASSUME UNCHANGED <<issue, deps>>
        PROVE  BranchIssues' = BranchIssues /\ L!Ready' = L!Ready /\ BranchLocal' = BranchLocal
    BY <1>1, <1>4, SameTasks DEF BranchIssues, BranchLocal, L!Ready, L!OpenTask
  <1>5. ASSUME NEW c \in Clients, Reading(c), Reading(c)'
        PROVE  /\ ever[c] \subseteq ever'[c] /\ L!Ready' \subseteq ever'[c]
               /\ c \notin moved' => c \notin moved /\ UNCHANGED <<issue, deps>>
    BY <1>5 DEF Observe
  \* A client between its reads that does not move.
  <1>6. ASSUME NEW c \in Clients, pc'[c] = pc[c], listed'[c] = listed[c], ready'[c] = ready[c]
        PROVE  Fine(c)'
    <2>1. CASE pc[c] = "show"
      <3>1. Looked(c)
        BY <1>3, <2>1 DEF Fine
      <3>2. Reading(c) /\ Reading(c)'
        BY <1>6, <2>1 DEF Reading
      <3>3. Looked(c)'
        BY <1>1, <1>4, <1>5, <1>6, <3>1, <3>2 DEF Looked
      <3>4. QED
        BY <1>6, <2>1, <3>3 DEF Fine
    <2>2. CASE pc[c] = "return"
      <3>1. Told(c)
        BY <1>3, <2>2 DEF Fine
      <3>2. Reading(c) /\ Reading(c)'
        BY <1>6, <2>2 DEF Reading
      <3>3. Told(c)'
        BY <1>4, <1>5, <1>6, <3>1, <3>2 DEF Told
      <3>4. QED
        BY <1>6, <2>2, <3>3 DEF Fine
    <2>3. QED
      BY <1>6, <2>1, <2>2 DEF Fine
  <1>7. ASSUME NEW c \in Clients, List(c) PROVE \A d \in Clients : Fine(d)'
    <2>1. /\ pc[c] = "list" /\ pc'[c] = "show"
          /\ \A d \in Clients \ {c} : pc'[d] = pc[d]
      BY <1>0, <1>7, GotoType DEF List, PCs
    <2>2. UNCHANGED <<issue, deps>> /\ ready' = ready
      BY <1>7 DEF List, stored
    <2>3. /\ listed'[c] = IF backend = "bd" THEN BranchIssues
                          ELSE {t \in InBranch : ToTask(issue[t]) = L!OpenTask /\ DepsDone(t, Tasks)}
          /\ \A d \in Clients \ {c} : listed'[d] = listed[d]
      BY <1>0, <1>7 DEF List, TypeOK, BranchIssues
    <2>4. {t \in InBranch : ToTask(issue[t]) = L!OpenTask /\ DepsDone(t, Tasks)} = L!Ready
      <3>1. \A t \in InBranch : deps[t] \subseteq Tasks
        BY <1>0 DEF TypeOK
      <3>2. QED
        BY <1>0, <3>1 DEF DepsDone, L!Ready
    <2>5. ever'[c] = L!Ready'
      BY <2>1 DEF Observe, Reading
    <2>6. L!Ready \subseteq InBranch /\ BranchIssues \subseteq InBranch
      BY DEF L!Ready, BranchIssues
    <2>7. Looked(c)'
      BY <1>1, <1>4, <2>2, <2>3, <2>4, <2>5, <2>6 DEF Looked
    <2>8. Fine(c)'
      BY <2>1, <2>7 DEF Fine
    <2>9. QED
      BY <1>6, <2>1, <2>2, <2>3, <2>8
  <1>8. ASSUME NEW c \in Clients, Show(c) PROVE \A d \in Clients : Fine(d)'
    <2>1. /\ pc[c] = "show" /\ pc'[c] = "return" /\ \A d \in Clients \ {c} : pc'[d] = pc[d]
      BY <1>0, <1>8, GotoType DEF Show, PCs
    <2>2. UNCHANGED <<issue, deps>>
      BY <1>8 DEF Show, stored
    <2>3. /\ ready'[c] = IF backend = "bd"
                         THEN {t \in listed[c] : ToTask(issue[t]) = L!OpenTask /\ DepsDone(t, listed[c])}
                         ELSE listed[c]
          /\ \A d \in Clients \ {c} : listed'[d] = listed[d] /\ ready'[d] = ready[d]
      BY <1>0, <1>8 DEF Show, TypeOK
    <2>4. Looked(c) /\ Reading(c) /\ Reading(c)'
      BY <1>3, <2>1 DEF Fine, Reading
    <2>5. CASE backend = "bd"
      <3>1. \A t \in Tasks : issue[t] \in Issue \cup {AbsentIssue}
        BY <1>0 DEF TypeOK
      <3>0. \A t \in InBranch : t \in Tasks /\ deps[t] \subseteq Tasks
        BY <1>0 DEF TypeOK
      <3>2. ready'[c] \subseteq L!Ready
        BY <2>3, <2>4, <2>5, <3>0 DEF DepsDone, L!Ready, Looked
      <3>3. ASSUME c \notin moved, BranchLocal PROVE L!Ready \subseteq ready'[c]
        <4>1. listed[c] = BranchIssues
          BY <2>4, <2>5, <3>3 DEF Looked
        <4>2. \A t \in InBranch : ToTask(issue[t]) = L!OpenTask => t \in BranchIssues
          <5>1. L!OpenTask # L!AbsentTask
            BY DEF L!OpenTask, L!AbsentTask
          <5>2. QED
            BY <1>0, <3>1, <5>1, DecodedAbsent DEF BranchIssues
        <4>3. \A t \in InBranch : ToTask(issue[t]).status \in L!Terminal => t \in BranchIssues
          BY <1>0, <3>1, DecodedAbsent DEF L!Terminal, BranchIssues
        <4>4. \A t \in InBranch : deps[t] \subseteq InBranch
          BY <2>5, <3>3 DEF BranchLocal
        <4>5. QED
          BY <2>3, <2>5, <3>0, <4>1, <4>2, <4>3, <4>4 DEF DepsDone, L!Ready
      <3>4. Told(c)'
        <4>1. L!Ready' = L!Ready /\ BranchLocal' = BranchLocal
          BY <1>4, <2>2
        <4>2. L!Ready' \subseteq ever'[c] /\ (c \notin moved' => c \notin moved)
          BY <1>5, <2>4
        <4>3. ASSUME c \notin moved', BranchLocal' PROVE ready'[c] = L!Ready'
          <5>1. L!Ready \subseteq ready'[c]
            BY <3>3, <4>1, <4>2, <4>3
          <5>2. QED
            BY <3>2, <4>1, <5>1
        <4>4. ready'[c] \subseteq ever'[c]
          BY <3>2, <4>1, <4>2
        <4>5. QED
          BY <4>3, <4>4 DEF Told
      <3>5. QED
        BY <1>6, <2>1, <2>3, <3>4 DEF Fine
    <2>6. CASE backend # "bd"
      <3>1. Told(c)'
        BY <1>4, <1>5, <2>2, <2>3, <2>4, <2>6 DEF Told, Looked
      <3>2. QED
        BY <1>6, <2>1, <2>3, <3>1 DEF Fine
    <2>7. QED
      BY <2>5, <2>6
  <1>9. ASSUME NEW c \in Clients, Return(c) PROVE \A d \in Clients : Fine(d)'
    <2>1. /\ pc'[c] = "idle" /\ \A d \in Clients \ {c} : pc'[d] = pc[d]
      BY <1>0, <1>9, GotoType DEF Return, PCs
    <2>2. \A d \in Clients \ {c} : listed'[d] = listed[d] /\ ready'[d] = ready[d]
      BY <1>0, <1>9 DEF Return, TypeOK
    <2>3. QED
      BY <1>6, <2>1, <2>2 DEF Fine
  <1>10. ASSUME NEW c \in Clients,
                \/ Call(c) \/ Lock(c) \/ Inspect(c) \/ Write(c) \/ SetStatus(c) \/ WriteWorker(c)
                \/ Rollback(c) \/ Unlock(c) \/ Fails(c) \/ TimesOut(c)
         PROVE  \A d \in Clients : Fine(d)'
    <2>1. PICK where \in PCs \ {"show", "return"} : Goto(c, where)
      BY <1>10 DEF Call, Lock, Inspect, Write, SetStatus, WriteWorker, Rollback, Unlock, Fails, TimesOut, PCs
    <2>2. UNCHANGED <<listed, ready>>
      BY <1>10 DEF Call, Lock, Inspect, Write, SetStatus, WriteWorker, Rollback, Unlock, Fails, TimesOut
    <2>3. pc'[c] \notin {"show", "return"} /\ \A d \in Clients \ {c} : pc'[d] = pc[d]
      BY <1>0, <2>1, GotoType
    <2>4. QED
      BY <1>6, <2>2, <2>3 DEF Fine
  <1>11. ASSUME User \/ UNCHANGED vars PROVE \A d \in Clients : Fine(d)'
    <2>1. UNCHANGED <<pc, listed, ready>>
      BY <1>11 DEF User, vars
    <2>2. QED
      BY <1>6, <2>1
  <1>12. ASSUME NEW c \in Clients, Panics(c) PROVE \A d \in Clients : Fine(d)'
    BY <1>12 DEF Panics, Fine
  <1>13. QED
    BY <1>2, <1>7, <1>8, <1>9, <1>10, <1>11, <1>12 DEF Next, Step

\* ReadyTasks tells the truth, from either tracker, for any number of clients and
\* whoever uses bd on the same issues: what it returns was ready at some moment of
\* the call, and is all that the Store interface calls ready when nothing moved.
THEOREM ReadyTasksTruthful == HSpec => []ReadyTruthful
  <1>1. HInit => ReadInv
    BY DEF HInit, Init, ReadInv, ReadyTruthful
  <1>2. ILInv /\ ReadInv /\ [Next]_vars /\ [Next /\ Observe]_hvars => ReadInv'
    <2> SUFFICES ASSUME ILInv, ReadInv, UNCHANGED hvars PROVE ReadInv'
      BY ReadStep
    <2>1. UNCHANGED vars /\ moved' = moved /\ ever' = ever
      BY DEF hvars
    <2>2. UNCHANGED <<issue, deps, backend, pc, listed, ready>>
      BY <2>1 DEF vars, kind, stored
    <2>3. BranchIssues' = BranchIssues /\ L!Ready' = L!Ready /\ BranchLocal' = BranchLocal
      BY <2>2, SameTasks DEF BranchIssues, BranchLocal, L!Ready, L!OpenTask
    <2>4. QED
      BY <2>1, <2>2, <2>3 DEF ReadInv, ReadyTruthful, Looked
  <1>3. ReadInv => ReadyTruthful
    BY DEF ReadInv
  <1>4. HInit => Init
    BY DEF HInit
  <1>5. [Next /\ Observe]_hvars => [Next]_vars
    BY DEF hvars
  <1>6. QED
    BY <1>1, <1>2, <1>3, <1>4, <1>5, ILInvInit, ILInvStep, PTL DEF HSpec

-----------------------------------------------------------------------------
(* The refinement *)

\* What the stores are asked to keep.  An open task has no assignee and an
\* assigned one has, because the tracker has one status for both.  Labels are the
\* only difference between completed and failed, and BDCLIStore does not take them
\* away from a task that has none to set.
Representable ==
  /\ \A r \in Requests : r.op \in {"CreateTask", "UpdateTask"} =>
       /\ r.r.status = "open" => r.r.assignee = NoWorker
       /\ r.r.status = "assigned" => r.r.assignee # NoWorker
  /\ backend = "bd" =>
       \A r \in Requests : r.op = "UpdateTask" /\ r.t \in Unlabelled => r.r.status # "completed"

\* No command fails halfway through a CreateTask of BDCLIStore that needs two.
WholeCreate(c) ==
  backend = "bd" /\ call[c].op = "CreateTask" /\ call[c].r.status # "open" =>
    ~TimesOut(c) /\ ~(pc[c] = "status" /\ Fails(c))
WholeCreates == [][\A c \in Clients : WholeCreate(c)]_vars

Pending == {"mu", "inspect", "write", "status", "worker", "rollback"}
Between == Half \cup {"status"}

\* The tasks as the tracker has them, and the abstract state.
LTask == [t \in Tasks |-> ToTask(issue[t])]
ATask == [t \in Tasks |-> SeenTask(t)]
AWorker == [w \in Workers |-> SeenWorker(w)]
ADeps == [t \in Tasks |-> SeenDeps(t)]
ATodo == [c \in Clients |-> SeenToDo(c)]
AFailed == ~shared /\ faults > 0

None == [op |-> "none"]
AbsStep == [Abstract!Next]_(Abstract!vars)

Seen == /\ AWorker = worker /\ ADeps = deps /\ AFailed = (faults > 0)
        /\ \A c \in Clients : ATodo[c] = IF pc[c] \in Pending THEN call[c] ELSE None
        /\ (\A c \in Clients : pc[c] \notin Between) => ATask = LTask
        /\ \A c \in Clients : pc[c] \in Half => ATask = [LTask EXCEPT ![call[c].t] = L!OpenTask]
        /\ \A c \in Clients : pc[c] = "status" => ATask = [LTask EXCEPT ![call[c].t] = L!AbsentTask]

\* What is seen of the issues of a store that nobody else writes to: at most one
\* operation is between its two commands, and it has not happened yet.
LEMMA View == ILInv /\ ~shared => Seen
  <1> SUFFICES ASSUME ILInv, ~shared PROVE Seen
    OBVIOUS
  <1>1. AWorker = worker /\ ADeps = deps
    BY DEF AWorker, ADeps, SeenWorker, SeenDeps, ILInv, TypeOK
  <1>2. AFailed = (faults > 0)
    BY DEF AFailed
  <1>3. \A c \in Clients : ATodo[c] = IF pc[c] \in Pending THEN call[c] ELSE None
    BY DEF ATodo, SeenToDo, ToDo, Pending, None
  <1>4. (\A c \in Clients : pc[c] \notin Between) => ATask = LTask
    BY DEF ATask, LTask, SeenTask, AssignHalfDone, CreateHalfDone, Between, Half
  <1>5. ASSUME NEW c \in Clients, pc[c] \in Half
        PROVE  ATask = [LTask EXCEPT ![call[c].t] = L!OpenTask]
    <2>1. \A d \in Clients : pc[d] \in Between => d = c
      BY <1>5, OneWriter DEF ILInv, Between, Half, Held
    <2>2. \A t \in Tasks : ~CreateHalfDone(t) /\ (AssignHalfDone(t) <=> t = call[c].t)
      BY <1>5, <2>1 DEF AssignHalfDone, CreateHalfDone, Between, Half
    <2>3. QED
      BY <2>2 DEF ATask, LTask, SeenTask, L!OpenTask
  <1>6. ASSUME NEW c \in Clients, pc[c] = "status"
        PROVE  ATask = [LTask EXCEPT ![call[c].t] = L!AbsentTask]
    <2>1. \A d \in Clients : pc[d] \in Between => d = c
      BY <1>6, OneWriter DEF ILInv, Between, Half, Held
    <2>2. \A t \in Tasks : ~AssignHalfDone(t) /\ (CreateHalfDone(t) <=> t = call[c].t)
      BY <1>6, <2>1 DEF AssignHalfDone, CreateHalfDone, Between, Half
    <2>3. QED
      BY <2>2 DEF ATask, LTask, SeenTask, L!AbsentTask
  <1>7. QED
    BY <1>1, <1>2, <1>3, <1>4, <1>5, <1>6 DEF Seen

\* The same of the next state.
LEMMA ViewNext == ILInv' /\ ~shared' => Seen'
  BY View, PTL

\* The checks on the tracker are the checks on the abstract store.
LEMMA SameAccepts ==
  ASSUME ATask = LTask, AWorker = worker, ADeps = deps, NEW r
  PROVE  /\ Abstract!Accepts(r) <=> L!Accepts(r)
         /\ Abstract!Dangling(r) <=> r.op = "AddDep" /\ L!AbsentTask \in {LTask[r.t], LTask[r.d]}
  BY DEF ATask, LTask, AWorker, ADeps,
         Abstract!Accepts, L!Accepts, Abstract!Reachable, L!Reachable, Abstract!Closed, L!Closed,
         Abstract!AbsentTask, L!AbsentTask, Abstract!OpenTask, L!OpenTask, Abstract!AbsentWorker,
         L!AbsentWorker, Abstract!Dangling

-----------------------------------------------------------------------------
(* How the actions of the abstract store look through the mapping *)

LEMMA AsStutter ==
  ASSUME ATask' = ATask, AWorker' = AWorker, ADeps' = ADeps, ATodo' = ATodo, AFailed' = AFailed
  PROVE  AbsStep
  BY DEF AbsStep, Abstract!vars, Abstract!stored, ATask, AWorker, ADeps, ATodo, AFailed

LEMMA AsInvoke ==
  ASSUME NEW c \in Clients, NEW r \in Requests, ATodo[c] = None, ATodo' = [ATodo EXCEPT ![c] = r],
         ATask' = ATask, AWorker' = AWorker, ADeps' = ADeps, AFailed' = AFailed
  PROVE  AbsStep
  <1>1. Abstract!Invoke(c)
    BY DEF Abstract!Invoke, Abstract!NoCall, Abstract!stored, ATask, AWorker, ADeps, ATodo, AFailed, None
  <1>2. QED
    BY <1>1 DEF AbsStep, Abstract!Next

LEMMA AsRefuse ==
  ASSUME NEW c \in Clients, ATodo[c] # None, ~Abstract!Accepts(ATodo[c]) \/ Abstract!Dangling(ATodo[c]),
         ATodo' = [ATodo EXCEPT ![c] = None],
         ATask' = ATask, AWorker' = AWorker, ADeps' = ADeps, AFailed' = AFailed
  PROVE  AbsStep
  <1>1. Abstract!Refuse(c)
    BY DEF Abstract!Refuse, Abstract!NoCall, Abstract!stored, ATask, AWorker, ADeps, ATodo, AFailed, None
  <1>2. QED
    BY <1>1 DEF AbsStep, Abstract!Next

LEMMA AsPerform ==
  ASSUME NEW c \in Clients, ATodo[c] # None, Abstract!Accepts(ATodo[c]),
         ATodo' = [ATodo EXCEPT ![c] = None],
         \/ Abstract!WriteTask(ATodo[c]) \/ Abstract!Assign(ATodo[c])
         \/ Abstract!WriteWorker(ATodo[c]) \/ Abstract!AddDep(ATodo[c]),
         AFailed' \in {AFailed, TRUE}
  PROVE  AbsStep
  <1>1. Abstract!Perform(c)
    BY DEF Abstract!Perform, Abstract!NoCall, ATodo, AFailed, None
  <1>2. QED
    BY <1>1 DEF AbsStep, Abstract!Next

LEMMA AsCut ==
  ASSUME NEW S \in SUBSET Clients, AFailed' = TRUE, AWorker' = AWorker, ADeps' = ADeps,
         ATodo' = [c \in Clients |-> IF c \in S THEN None ELSE ATodo[c]],
         \/ ATask' = ATask
         \/ \E c \in S : /\ ATodo[c].op = "Assign"
                         /\ Abstract!Accepts(ATodo[c])
                         /\ ATask' = [ATask EXCEPT ![ATodo[c].t] = L!Assigned(ATodo[c].w)]
  PROVE  AbsStep
  <1>1. Abstract!Cut(S)
    BY DEF Abstract!Cut, Abstract!NoCall, Abstract!Assigned, L!Assigned, ATask, AWorker, ADeps, ATodo,
           AFailed, None
  <1>2. QED
    BY <1>1 DEF AbsStep, Abstract!Next

-----------------------------------------------------------------------------
(* One lemma per action *)

\* A step of one client changes at most its own entry.
LEMMA TodoMoves ==
  ASSUME ILInv, ILInv', ~shared, UNCHANGED kind, NEW c \in Clients,
         \A d \in Clients \ {c} : pc'[d] = pc[d] /\ call'[d] = call[d]
  PROVE  /\ ATodo' = [ATodo EXCEPT ![c] = IF pc'[c] \in Pending THEN call'[c] ELSE None]
         /\ \/ call'[c] = call[c] /\ (pc'[c] \in Pending <=> pc[c] \in Pending)
            \/ pc[c] \notin Pending /\ pc'[c] \notin Pending
            => ATodo' = ATodo
  <1>1. ~shared'
    BY DEF kind
  <1>2. /\ \A d \in Clients : ATodo[d] = IF pc[d] \in Pending THEN call[d] ELSE None
        /\ \A d \in Clients : ATodo'[d] = IF pc'[d] \in Pending THEN call'[d] ELSE None
    BY <1>1, View, ViewNext DEF Seen
  <1>3. ATodo = [d \in Clients |-> ATodo[d]] /\ ATodo' = [d \in Clients |-> ATodo'[d]]
    BY DEF ATodo
  <1>4. ATodo' = [ATodo EXCEPT ![c] = IF pc'[c] \in Pending THEN call'[c] ELSE None]
    BY <1>2, <1>3
  <1>5. ASSUME \/ call'[c] = call[c] /\ (pc'[c] \in Pending <=> pc[c] \in Pending)
               \/ pc[c] \notin Pending /\ pc'[c] \notin Pending
        PROVE  ATodo' = ATodo
    <2>1. \A d \in Clients : ATodo'[d] = ATodo[d]
      BY <1>2, <1>5
    <2>2. QED
      BY <1>3, <2>1
  <1>6. QED
    BY <1>4, <1>5

\* A step of c that writes nothing and neither starts nor ends a half of an
\* operation.
LEMMA StoreStays ==
  ASSUME ILInv, ILInv', ~shared, UNCHANGED kind, UNCHANGED stored, NEW c \in Clients,
         \A d \in Clients \ {c} : pc'[d] = pc[d] /\ call'[d] = call[d],
         \/ pc[c] \notin Between /\ pc'[c] \notin Between
         \/ pc[c] \in Half /\ pc'[c] \in Half /\ call'[c] = call[c]
  PROVE  ATask' = ATask /\ AWorker' = AWorker /\ ADeps' = ADeps
  <1>1. UNCHANGED <<issue, deps, worker, shared, backend>>
    BY DEF stored, kind
  <1>2. \A t \in Tasks : (AssignHalfDone(t)' <=> AssignHalfDone(t))
                         /\ (CreateHalfDone(t)' <=> CreateHalfDone(t))
    BY DEF AssignHalfDone, CreateHalfDone, Between, Half
  <1>3. QED
    BY <1>1, <1>2, SameTasks DEF ATask, AWorker, ADeps, SeenTask, SeenWorker, SeenDeps

\* A pending call is one that a store can do.
LEMMA PendingCall ==
  ASSUME ILInv, ~shared, NEW c \in Clients, pc[c] \in Pending
  PROVE  /\ ATodo[c] = call[c] /\ call[c] \in Requests /\ call[c] # None
         /\ call[c].op \in {"CreateTask", "UpdateTask", "Assign", "CreateWorker", "UpdateWorker", "AddDep"}
  <1>1. ATodo[c] = call[c]
    BY View DEF Seen
  <1>2. call[c] \in Requests /\ call[c].op # "ReadyTasks"
    BY DEF ILInv, CallInv, Knows, HasCall, Pending, Held
  <1>3. QED
    BY <1>1, <1>2, RequestFields DEF None

\* The holder of the mutex sees the issues as they are.
LEMMA HolderSees ==
  ASSUME ILInv, ~shared, NEW c \in Clients, pc[c] \in Held \ Between
  PROVE  ATask = LTask /\ AWorker = worker /\ ADeps = deps
  <1>1. \A d \in Clients : pc[d] \notin Between
    BY OneWriter DEF ILInv, Between, Half, Held
  <1>2. QED
    BY <1>1, View DEF Seen

\* A call of c that ends in this step.
LEMMA EndsCall ==
  ASSUME ILInv, ILInv', ~shared, UNCHANGED kind, NEW c \in Clients, pc[c] \in Pending,
         Goto(c, "unlock"), call' = call
  PROVE  /\ ATodo' = [ATodo EXCEPT ![c] = None]
         /\ ATodo' = [d \in Clients |-> IF d \in {c} THEN None ELSE ATodo[d]]
         /\ ATask' = LTask' /\ AWorker' = worker' /\ ADeps' = deps'
  <1>1. pc'[c] = "unlock" /\ \A d \in Clients \ {c} : pc'[d] = pc[d] /\ call'[d] = call[d]
    BY GotoType DEF ILInv, PCs
  <1>2. ATodo' = [ATodo EXCEPT ![c] = None]
    BY <1>1, TodoMoves DEF Pending
  <1>3. ATodo' = [d \in Clients |-> IF d \in {c} THEN None ELSE ATodo[d]]
    BY <1>2 DEF ATodo
  <1>4. \A d \in Clients : pc'[d] \notin Between
    BY <1>1 DEF ILInv, MuInv, Between, Half, Held
  <1>5. ~shared'
    BY DEF kind
  <1>6. ATask' = LTask' /\ AWorker' = worker' /\ ADeps' = deps'
    BY <1>4, <1>5, ViewNext DEF Seen
  <1>7. QED
    BY <1>2, <1>3, <1>6

LEMMA SameFailed ==
  ASSUME UNCHANGED kind, UNCHANGED faults
  PROVE  AFailed' = AFailed
  BY DEF AFailed, kind

LEMMA NowFailed ==
  ASSUME ILInv, ~shared, UNCHANGED kind, Fault
  PROVE  AFailed' = TRUE
  <1>1. faults' = faults + 1 /\ faults \in Nat
    BY IssueAssumption DEF Fault, ILInv, TypeOK
  <1>2. QED
    BY <1>1 DEF AFailed, kind

LEMMA RefCall ==
  ASSUME ILInv, ILInv', ~shared, NEW c \in Clients, Call(c)
  PROVE  AbsStep
  <1>1. PICK r \in Requests : /\ call' = [call EXCEPT ![c] = r]
                              /\ Goto(c, IF r.op = "ReadyTasks" THEN "list" ELSE "mu")
    BY DEF Call
  <1>2. /\ pc[c] = "idle" /\ UNCHANGED kind /\ UNCHANGED stored /\ UNCHANGED faults
        /\ call \in [Clients -> Requests \cup {NoCall}]
    BY DEF Call, ILInv, TypeOK
  <1>3. /\ pc'[c] = IF r.op = "ReadyTasks" THEN "list" ELSE "mu"
        /\ call'[c] = r
        /\ \A d \in Clients \ {c} : pc'[d] = pc[d] /\ call'[d] = call[d]
    BY <1>1, <1>2, GotoType DEF ILInv, PCs
  <1>4. ATask' = ATask /\ AWorker' = AWorker /\ ADeps' = ADeps
    BY <1>2, <1>3, StoreStays DEF Between, Half
  <1>5. AFailed' = AFailed
    BY <1>2, SameFailed
  <1>6. CASE r.op = "ReadyTasks"
    <2>1. ATodo' = ATodo
      BY <1>2, <1>3, <1>6, TodoMoves DEF Pending
    <2>2. QED
      BY <1>4, <1>5, <2>1, AsStutter
  <1>7. CASE r.op # "ReadyTasks"
    <2>1. ATodo' = [ATodo EXCEPT ![c] = r]
      BY <1>2, <1>3, <1>7, TodoMoves DEF Pending
    <2>2. ATodo[c] = None
      BY <1>2, View DEF Seen, Pending
    <2>3. QED
      BY <1>4, <1>5, <2>1, <2>2, AsInvoke
  <1>8. QED
    BY <1>6, <1>7

LEMMA RefInvisible ==
  ASSUME ILInv, ILInv', ~shared, NEW c \in Clients,
         Lock(c) \/ Unlock(c) \/ List(c) \/ Show(c) \/ Return(c)
  PROVE  AbsStep
  <1>1. UNCHANGED kind /\ UNCHANGED stored /\ UNCHANGED faults
    BY DEF Lock, Unlock, List, Show, Return
  <1>2. \A d \in Clients \ {c} : pc'[d] = pc[d] /\ call'[d] = call[d]
    BY GotoType DEF Lock, Unlock, List, Show, Return, ILInv, TypeOK, PCs
  <1>3. \/ pc[c] = "mu" /\ pc'[c] = "inspect" /\ call'[c] = call[c]
        \/ pc[c] \in {"unlock", "list", "show", "return"} /\ pc'[c] \in {"idle", "show", "return"}
    BY GotoType DEF Lock, Unlock, List, Show, Return, ILInv, PCs
  <1>4. ATask' = ATask /\ AWorker' = AWorker /\ ADeps' = ADeps
    BY <1>1, <1>2, <1>3, StoreStays DEF Between, Half
  <1>5. ATodo' = ATodo
    BY <1>1, <1>2, <1>3, TodoMoves DEF Pending
  <1>6. QED
    BY <1>1, <1>4, <1>5, SameFailed, AsStutter

\* An operation that looks first is refused on what it has found.
LEMMA RefInspect ==
  ASSUME ILInv, ILInv', ~shared, NEW c \in Clients, Inspect(c)
  PROVE  AbsStep
  <1>1. /\ pc[c] = "inspect" /\ UNCHANGED kind /\ UNCHANGED stored /\ UNCHANGED faults /\ call' = call
        /\ Goto(c, IF Looks(call[c]) => L!Accepts(call[c]) THEN "write" ELSE "unlock")
    BY DEF Inspect, Looks
  <1>2. /\ pc'[c] = IF Looks(call[c]) => L!Accepts(call[c]) THEN "write" ELSE "unlock"
        /\ \A d \in Clients \ {c} : pc'[d] = pc[d] /\ call'[d] = call[d]
    BY <1>1, GotoType DEF ILInv, PCs
  <1>3. ATask' = ATask /\ AWorker' = AWorker /\ ADeps' = ADeps
    BY <1>1, <1>2, StoreStays DEF Between, Half
  <1>4. AFailed' = AFailed
    BY <1>1, SameFailed
  <1>5. CASE Looks(call[c]) => L!Accepts(call[c])
    <2>1. ATodo' = ATodo
      BY <1>1, <1>2, <1>5, TodoMoves DEF Pending
    <2>2. QED
      BY <1>3, <1>4, <2>1, AsStutter
  <1>6. CASE ~L!Accepts(call[c]) /\ Looks(call[c])
    <2>1. ATodo' = [ATodo EXCEPT ![c] = None]
      BY <1>1, <1>2, <1>6, TodoMoves DEF Pending
    <2>2. ATodo[c] = call[c] /\ ATodo[c] # None
      BY <1>1, PendingCall DEF Pending
    <2>3. ~Abstract!Accepts(ATodo[c])
      BY <1>1, <1>6, <2>2, HolderSees, SameAccepts DEF Held, Between, Half
    <2>4. QED
      BY <1>3, <1>4, <2>1, <2>2, <2>3, AsRefuse
  <1>7. QED
    BY <1>5, <1>6

\* What comes back of a task that was written.
LEMMA WrittenReadsBack ==
  ASSUME NEW r \in L!TaskRec, NEW f \in BOOLEAN,
         r.status = "open" => r.assignee = NoWorker,
         r.status = "assigned" => r.assignee # NoWorker,
         r.status = "completed" => ~f, r.status = "failed" => f
  PROVE  ToTask([status |-> EncodeStatus(r.status), assignee |-> r.assignee, failed |-> f]) = r
  <1> DEFINE i == [status |-> EncodeStatus(r.status), assignee |-> r.assignee, failed |-> f]
  <1>1. r.status \in L!Status /\ r = [status |-> r.status, assignee |-> r.assignee]
    BY DEF L!TaskRec
  <1>2. i.status = EncodeStatus(r.status) /\ i.assignee = r.assignee /\ i.failed = f
    OBVIOUS
  <1> HIDE DEF i
  <1>3. DecodeStatus(i) = IF r.status = "assigned" THEN "open" ELSE r.status
    BY <1>1, <1>2 DEF DecodeStatus, EncodeStatus, Unmapped, L!Status
  <1>4. ToTask(i).status = r.status /\ ToTask(i).assignee = r.assignee
        /\ ToTask(i) = [status |-> ToTask(i).status, assignee |-> ToTask(i).assignee]
    BY <1>1, <1>2, <1>3 DEF ToTask, L!Status
  <1>5. QED
    BY <1>1, <1>4 DEF i

LEMMA LTaskWritten ==
  ASSUME ILInv, UNCHANGED kind, NEW t \in Tasks, NEW i, issue' = [issue EXCEPT ![t] = i]
  PROVE  LTask' = [LTask EXCEPT ![t] = ToTask(i)]
  BY DEF LTask, ILInv, TypeOK, kind, ToTask, DecodeStatus

LEMMA LTaskStays ==
  ASSUME UNCHANGED kind, UNCHANGED issue
  PROVE  LTask' = LTask
  BY SameTasks DEF LTask, kind

\* The call has no effect: it was refused, or failed.
LEMMA AsNothing ==
  ASSUME ILInv, ILInv', ~shared, UNCHANGED kind, UNCHANGED stored,
         NEW c \in Clients, pc[c] = "write", Goto(c, "unlock"), call' = call,
         \/ /\ UNCHANGED faults
            /\ ~L!Accepts(call[c]) \/ (/\ call[c].op = "AddDep"
                                       /\ AbsentIssue \in {issue[call[c].t], issue[call[c].d]})
         \/ Fault
  PROVE  AbsStep
  <1>1. /\ ATodo' = [ATodo EXCEPT ![c] = None]
        /\ ATodo' = [d \in Clients |-> IF d \in {c} THEN None ELSE ATodo[d]]
        /\ ATask' = LTask' /\ AWorker' = worker' /\ ADeps' = deps'
    BY EndsCall DEF Pending
  <1>2. ATask = LTask /\ AWorker = worker /\ ADeps = deps
    BY HolderSees DEF Held, Between, Half
  <1>3. LTask' = LTask /\ worker' = worker /\ deps' = deps
    BY LTaskStays DEF stored
  <1>4. ATask' = ATask /\ AWorker' = AWorker /\ ADeps' = ADeps
    BY <1>1, <1>2, <1>3
  <1>5. CASE Fault
    <2>1. AFailed' = TRUE
      BY <1>5, NowFailed
    <2>2. QED
      BY <1>1, <1>4, <2>1, AsCut
  <1>6. CASE /\ UNCHANGED faults
             /\ ~L!Accepts(call[c]) \/ (/\ call[c].op = "AddDep"
                                        /\ AbsentIssue \in {issue[call[c].t], issue[call[c].d]})
    <2>1. ATodo[c] = call[c] /\ ATodo[c] # None /\ call[c] \in Requests
      BY PendingCall DEF Pending
    <2>2. call[c].op = "AddDep" /\ AbsentIssue \in {issue[call[c].t], issue[call[c].d]}
            => L!AbsentTask \in {LTask[call[c].t], LTask[call[c].d]}
      BY <2>1, RequestFields, DecodedAbsent DEF LTask
    <2>3. ~Abstract!Accepts(ATodo[c]) \/ Abstract!Dangling(ATodo[c])
      BY <1>2, <1>6, <2>1, <2>2, SameAccepts
    <2>4. QED
      BY <1>1, <1>4, <1>6, <2>1, <2>3, SameFailed, AsRefuse
  <1>7. QED
    BY <1>5, <1>6

\* A command, transaction or file write that is the whole operation is the moment
\* at which it takes effect, whatever the caller is told.
LEMMA RefWhole ==
  ASSUME ILInv, ILInv', ~shared, UNCHANGED kind, Representable,
         NEW c \in Clients, pc[c] = "write", Effect(call[c]), Goto(c, "unlock"), call' = call,
         UNCHANGED faults \/ Fault,
         call[c].op # "Assign",
         ~(backend = "bd" /\ call[c].op = "CreateTask" /\ call[c].r.status # "open")
  PROVE  AbsStep
  <1>1. /\ ATodo' = [ATodo EXCEPT ![c] = None]
        /\ ATask' = LTask' /\ AWorker' = worker' /\ ADeps' = deps'
    BY EndsCall DEF Pending
  <1>2. ATask = LTask /\ AWorker = worker /\ ADeps = deps
    BY HolderSees DEF Held, Between, Half
  <1>3. /\ ATodo[c] = call[c] /\ ATodo[c] # None /\ call[c] \in Requests
        /\ call[c].op \in {"CreateTask", "UpdateTask", "CreateWorker", "UpdateWorker", "AddDep"}
    BY PendingCall DEF Pending
  <1>4. AFailed' \in {AFailed, TRUE}
    BY SameFailed, NowFailed
  <1>5. TypeOK /\ MayWrite(c)
    BY DEF ILInv, CallInv, Knows
  <1>6. ASSUME call[c].op \in {"CreateTask", "UpdateTask"}, L!Accepts(call[c]),
               LTask' = [LTask EXCEPT ![call[c].t] = call[c].r], UNCHANGED <<worker, deps>>
        PROVE  AbsStep
    <2>1. Abstract!WriteTask(ATodo[c])
      BY <1>1, <1>2, <1>3, <1>6 DEF Abstract!WriteTask, ATask, AWorker, ADeps
    <2>2. Abstract!Accepts(ATodo[c])
      BY <1>2, <1>3, <1>6, SameAccepts
    <2>3. QED
      BY <1>1, <1>3, <1>4, <2>1, <2>2, AsPerform
  <1>7. CASE call[c].op = "CreateTask"
    <2>1. issue' = [issue EXCEPT ![call[c].t] = BornAs(call[c])] /\ UNCHANGED <<deps, worker>>
      BY <1>7 DEF Effect
    <2>2. call[c].t \in Tasks /\ call[c].r \in L!TaskRec
      BY <1>3, <1>7, RequestFields
    <2>3. issue[call[c].t] \in Issue \cup {AbsentIssue}
      BY <1>5, <2>2 DEF TypeOK
    <2>5. L!Accepts(call[c]) <=> issue[call[c].t] = AbsentIssue
      BY <1>7, <2>2, <2>3, DecodedAbsent DEF L!Accepts
    <2>6. CASE issue[call[c].t] # AbsentIssue
      <3>1. issue' = issue
        BY <1>5, <2>1, <2>6 DEF BornAs, TypeOK
      <3>2. QED
        BY <2>1, <2>5, <2>6, <3>1, AsNothing DEF stored
    <2>7. CASE issue[call[c].t] = AbsentIssue
      <3> DEFINE f == call[c].r.status = "failed"
      <3>1. BornAs(call[c]) = [status |-> EncodeStatus(call[c].r.status),
                               assignee |-> call[c].r.assignee, failed |-> f]
        <4>1. backend = "bd" => EncodeStatus(call[c].r.status) = "open"
          BY <1>7 DEF EncodeStatus
        <4>2. QED
          BY <2>7, <4>1 DEF BornAs
      <3>2. /\ call[c].r.status = "open" => call[c].r.assignee = NoWorker
            /\ call[c].r.status = "assigned" => call[c].r.assignee # NoWorker
        BY <1>3, <1>7 DEF Representable
      <3>3. f \in BOOLEAN /\ (call[c].r.status = "completed" => ~f) /\ (call[c].r.status = "failed" => f)
        OBVIOUS
      <3> HIDE DEF f
      <3>4. ToTask(BornAs(call[c])) = call[c].r
        BY <2>2, <3>1, <3>2, <3>3, WrittenReadsBack
      <3>5. LTask' = [LTask EXCEPT ![call[c].t] = call[c].r]
        BY <2>1, <2>2, <3>4, LTaskWritten
      <3>6. QED
        BY <1>6, <1>7, <2>1, <2>5, <2>7, <3>5
    <2>8. QED
      BY <2>6, <2>7
  <1>8. CASE call[c].op = "UpdateTask"
    <2>1. issue' = [issue EXCEPT ![call[c].t] = Updated(call[c])] /\ UNCHANGED <<deps, worker>>
      BY <1>8 DEF Effect
    <2>2. call[c].t \in Tasks /\ call[c].r \in L!TaskRec
      BY <1>3, <1>8, RequestFields
    <2>3. issue[call[c].t] \in Issue \cup {AbsentIssue}
      BY <1>5, <2>2 DEF TypeOK
    <2>5. L!Accepts(call[c]) <=> issue[call[c].t] # AbsentIssue
      BY <1>8, <2>2, <2>3, DecodedAbsent DEF L!Accepts
    <2>6. CASE issue[call[c].t] = AbsentIssue
      <3>1. issue' = issue
        BY <1>5, <2>1, <2>6 DEF Updated, TypeOK
      <3>2. QED
        BY <2>1, <2>5, <2>6, <3>1, AsNothing DEF stored
    <2>7. CASE issue[call[c].t] # AbsentIssue
      <3> DEFINE f == \/ call[c].r.status = "failed"
                      \/ backend = "bd" /\ call[c].t \in Unlabelled /\ issue[call[c].t].failed
      <3>1. Updated(call[c]) = [status |-> EncodeStatus(call[c].r.status),
                                assignee |-> call[c].r.assignee, failed |-> f]
        BY <2>7 DEF Updated
      <3>2. /\ call[c].r.status = "open" => call[c].r.assignee = NoWorker
            /\ call[c].r.status = "assigned" => call[c].r.assignee # NoWorker
            /\ backend = "bd" /\ call[c].t \in Unlabelled => call[c].r.status # "completed"
        BY <1>3, <1>8 DEF Representable
      <3>3. f \in BOOLEAN /\ (call[c].r.status = "completed" => ~f) /\ (call[c].r.status = "failed" => f)
        BY <3>2
      <3> HIDE DEF f
      <3>4. ToTask(Updated(call[c])) = call[c].r
        BY <2>2, <3>1, <3>2, <3>3, WrittenReadsBack
      <3>5. LTask' = [LTask EXCEPT ![call[c].t] = call[c].r]
        BY <2>1, <2>2, <3>4, LTaskWritten
      <3>6. QED
        BY <1>6, <1>8, <2>1, <2>5, <2>7, <3>5
    <2>8. QED
      BY <2>6, <2>7
  <1>9. CASE call[c].op \in {"CreateWorker", "UpdateWorker"}
    <2>1. worker' = [worker EXCEPT ![call[c].w] = call[c].r] /\ UNCHANGED <<issue, deps>>
      BY <1>9 DEF Effect
    <2>2. LTask' = LTask
      BY <2>1, LTaskStays
    <2>3. L!Accepts(call[c])
      BY <1>5, <1>9 DEF MayWrite, Looks
    <2>4. Abstract!Accepts(ATodo[c])
      BY <1>2, <1>3, <2>3, SameAccepts
    <2>5. Abstract!WriteWorker(ATodo[c])
      BY <1>1, <1>2, <1>3, <1>9, <2>1, <2>2 DEF Abstract!WriteWorker, ATask, AWorker, ADeps
    <2>6. QED
      BY <1>1, <1>3, <1>4, <2>4, <2>5, AsPerform
  <1>10. CASE call[c].op = "AddDep"
    <2>1. deps' = DepAdded(call[c].t, call[c].d) /\ UNCHANGED <<issue, worker>>
      BY <1>10 DEF Effect
    <2>2. LTask' = LTask
      BY <2>1, LTaskStays
    <2>3. L!Accepts(call[c]) <=> call[c].d \notin deps[call[c].t] /\ ~L!Reachable(deps, call[c].d, call[c].t)
      BY <1>10 DEF L!Accepts
    <2>4. CASE L!Accepts(call[c]) /\ AbsentIssue \notin {issue[call[c].t], issue[call[c].d]}
      <3>1. deps' = [deps EXCEPT ![call[c].t] = @ \cup {call[c].d}]
        BY <2>1, <2>3, <2>4 DEF DepAdded
      <3>2. Abstract!AddDep(ATodo[c])
        BY <1>1, <1>2, <1>3, <1>10, <2>1, <2>2, <3>1 DEF Abstract!AddDep, ATask, AWorker, ADeps
      <3>3. Abstract!Accepts(ATodo[c])
        BY <1>2, <1>3, <2>4, SameAccepts
      <3>4. QED
        BY <1>1, <1>3, <1>4, <3>2, <3>3, AsPerform
    <2>5. CASE ~(L!Accepts(call[c]) /\ AbsentIssue \notin {issue[call[c].t], issue[call[c].d]})
      <3>1. call[c].t \in Tasks
        BY <1>3, <1>10, RequestFields
      <3>2. deps' = deps
        BY <1>5, <2>1, <2>3, <2>5, <3>1 DEF DepAdded, TypeOK
      <3>3. QED
        BY <1>10, <2>1, <2>5, <3>2, AsNothing DEF stored
    <2>6. QED
      BY <2>4, <2>5
  <1>11. QED
    BY <1>3, <1>7, <1>8, <1>9, <1>10

\* A claim: an open issue with an assignee is an assigned task.
LEMMA ClaimReadsBack ==
  ASSUME NEW i, i.status = "open", NEW w \in Workers, i.assignee = w
  PROVE  ToTask(i) = L!Assigned(w)
  <1>1. DecodeStatus(i) = "open" /\ w # NoWorker
    BY IssueAssumption DEF DecodeStatus, Unmapped
  <1>2. QED
    BY <1>1 DEF ToTask, L!Assigned

\* What a claim between its two writes looks like from outside.
LEMMA HalfFacts ==
  ASSUME ILInv, ~shared, NEW c \in Clients, pc[c] \in Half
  PROVE  /\ call[c].op = "Assign" /\ call[c].t \in Tasks /\ call[c].w \in Workers
         /\ ATask = [LTask EXCEPT ![call[c].t] = L!OpenTask]
         /\ LTask = [ATask EXCEPT ![call[c].t] = L!Assigned(call[c].w)]
         /\ Abstract!Accepts(call[c])
         /\ AWorker = worker /\ ADeps = deps
  <1>1. /\ call[c].op = "Assign" /\ call[c] \in Requests
        /\ issue[call[c].t].status = "open" /\ issue[call[c].t].assignee = call[c].w
        /\ worker[call[c].w].status = "idle"
    BY DEF ILInv, CallInv, Knows, HasCall, HalfAssigned, Half, Held
  <1>2. call[c].t \in Tasks /\ call[c].w \in Workers
    BY <1>1, RequestFields
  <1>3. ATask = [LTask EXCEPT ![call[c].t] = L!OpenTask] /\ AWorker = worker /\ ADeps = deps
    BY View DEF Seen
  <1>4. LTask[call[c].t] = L!Assigned(call[c].w)
    BY <1>1, <1>2, ClaimReadsBack DEF LTask
  <1>5. LTask = [ATask EXCEPT ![call[c].t] = L!Assigned(call[c].w)]
    BY <1>2, <1>3, <1>4 DEF LTask
  <1>6. ATask[call[c].t] = L!OpenTask
    BY <1>2, <1>3 DEF LTask
  <1>7. Abstract!Accepts(call[c])
    BY <1>1, <1>3, <1>6 DEF Abstract!Accepts, Abstract!OpenTask, L!OpenTask, ATask, AWorker
  <1>8. QED
    BY <1>1, <1>2, <1>3, <1>5, <1>7

\* The first of two commands is not visible yet.
LEMMA RefWrite ==
  ASSUME ILInv, ILInv', ~shared, Representable, NEW c \in Clients, Write(c)
  PROVE  AbsStep
  <1>1. /\ pc[c] = "write" /\ Effect(call[c])
        /\ UNCHANGED kind /\ UNCHANGED faults /\ call' = call
        /\ Goto(c, CASE call[c].op = "Assign" -> "worker"
                     [] call[c].op = "CreateTask" /\ backend = "bd"
                          /\ call[c].r.status # "open" -> "status"
                     [] OTHER -> "unlock")
    BY DEF Write
  <1>2. /\ call[c] \in Requests /\ TypeOK /\ MayWrite(c) /\ ~shared'
    BY <1>1 DEF ILInv, CallInv, Knows, HasCall, Held, kind
  <1>3. ATask = LTask /\ AWorker = worker /\ ADeps = deps
    BY <1>1, HolderSees DEF Held, Between, Half
  <1>4. AFailed' = AFailed
    BY <1>1, SameFailed
  <1>5. CASE call[c].op = "Assign"
    <2>1. Goto(c, "worker") /\ issue' = [issue EXCEPT ![call[c].t] = Claimed(call[c])]
          /\ UNCHANGED <<deps, worker>>
      BY <1>1, <1>5 DEF Effect
    <2>2. pc'[c] = "worker" /\ \A d \in Clients \ {c} : pc'[d] = pc[d] /\ call'[d] = call[d]
      BY <1>1, <1>2, <2>1, GotoType DEF PCs
    <2>3. ATodo' = ATodo
      BY <1>1, <2>2, TodoMoves DEF Pending
    <2>4. call[c].t \in Tasks
      BY <1>2, <1>5, RequestFields
    <2>5. ATask' = [LTask' EXCEPT ![call[c].t] = L!OpenTask] /\ AWorker' = worker' /\ ADeps' = deps'
      BY <1>1, <1>2, <2>2, ViewNext DEF Seen, Half, L!OpenTask
    <2>6. LTask' = [LTask EXCEPT ![call[c].t] = ToTask(Claimed(call[c]))]
      BY <1>1, <2>1, <2>4, LTaskWritten
    <2>7. LTask[call[c].t] = L!OpenTask
      BY <1>1, <1>2, <1>5, <2>4 DEF MayWrite, Looks, L!Accepts, LTask
    <2>8. ATask' = ATask
      BY <1>3, <2>4, <2>5, <2>6, <2>7 DEF LTask
    <2>9. QED
      BY <1>3, <1>4, <2>1, <2>3, <2>5, <2>8, AsStutter
  <1>6. CASE call[c].op = "CreateTask" /\ backend = "bd" /\ call[c].r.status # "open"
    <2>1. Goto(c, "status") /\ issue' = [issue EXCEPT ![call[c].t] = BornAs(call[c])]
          /\ UNCHANGED <<deps, worker>>
      BY <1>1, <1>6 DEF Effect
    <2>2. pc'[c] = "status" /\ \A d \in Clients \ {c} : pc'[d] = pc[d] /\ call'[d] = call[d]
      BY <1>1, <1>2, <2>1, GotoType DEF PCs
    <2>3. ATodo' = ATodo
      BY <1>1, <2>2, TodoMoves DEF Pending
    <2>4. call[c].t \in Tasks
      BY <1>2, <1>6, RequestFields
    <2>5. ATask' = [LTask' EXCEPT ![call[c].t] = L!AbsentTask] /\ AWorker' = worker' /\ ADeps' = deps'
      BY <1>1, <1>2, <2>2, ViewNext DEF Seen, L!AbsentTask
    <2>6. LTask' = [LTask EXCEPT ![call[c].t] = ToTask(BornAs(call[c]))]
      BY <1>1, <2>1, <2>4, LTaskWritten
    <2>7. LTask[call[c].t] = L!AbsentTask
      BY <1>1, <1>2, <1>6, <2>4 DEF MayWrite, Looks, L!Accepts, LTask
    <2>8. ATask' = ATask
      BY <1>3, <2>4, <2>5, <2>6, <2>7 DEF LTask
    <2>9. QED
      BY <1>3, <1>4, <2>1, <2>3, <2>5, <2>8, AsStutter
  <1>7. CASE /\ call[c].op # "Assign"
             /\ ~(call[c].op = "CreateTask" /\ backend = "bd" /\ call[c].r.status # "open")
    <2>1. Goto(c, "unlock")
      BY <1>1, <1>7
    <2>2. QED
      BY <1>1, <1>7, <2>1, RefWhole
  <1>8. QED
    BY <1>5, <1>6, <1>7

\* The second command is the moment at which CreateTask takes effect.
LEMMA RefSetStatus ==
  ASSUME ILInv, ILInv', ~shared, Representable, NEW c \in Clients, SetStatus(c)
  PROVE  AbsStep
  <1>1. /\ pc[c] = "status" /\ UNCHANGED kind /\ UNCHANGED <<deps, worker, faults>> /\ call' = call
        /\ issue' = [issue EXCEPT ![call[c].t].status = EncodeStatus(call[c].r.status)]
        /\ Goto(c, "unlock")
    BY DEF SetStatus
  <1> DEFINE f == call[c].r.status = "failed"
             i == [status |-> EncodeStatus(call[c].r.status), assignee |-> call[c].r.assignee, failed |-> f]
  <1>2. /\ TypeOK /\ call[c] \in Requests /\ call[c].op = "CreateTask"
        /\ issue[call[c].t] = [status |-> "open", assignee |-> call[c].r.assignee, failed |-> f]
    BY <1>1 DEF ILInv, CallInv, Knows, HasCall, HalfCreated, Held
  <1>3. call[c].t \in Tasks /\ call[c].r \in L!TaskRec
    BY <1>2, RequestFields
  <1>4. f \in BOOLEAN /\ (call[c].r.status = "completed" => ~f) /\ (call[c].r.status = "failed" => f)
    OBVIOUS
  <1> HIDE DEF f
  <1>5. issue' = [issue EXCEPT ![call[c].t] = i]
    <2>1. i = [issue[call[c].t] EXCEPT !.status = EncodeStatus(call[c].r.status)]
      BY <1>2
    <2>2. QED
      BY <1>1, <1>2, <1>3, <2>1 DEF TypeOK
  <1>6. LTask' = [LTask EXCEPT ![call[c].t] = call[c].r]
    <2>1. /\ call[c].r.status = "open" => call[c].r.assignee = NoWorker
          /\ call[c].r.status = "assigned" => call[c].r.assignee # NoWorker
      BY <1>2 DEF Representable
    <2>2. ToTask(i) = call[c].r
      BY <1>3, <1>4, <2>1, WrittenReadsBack
    <2> HIDE DEF i
    <2>3. UNCHANGED kind
      BY <1>1
    <2>4. LTask' = [LTask EXCEPT ![call[c].t] = ToTask(i)]
      BY <1>3, <1>5, <2>3, LTaskWritten
    <2>5. QED
      BY <2>2, <2>4
  <1>7. /\ ATodo' = [ATodo EXCEPT ![c] = None]
        /\ ATask' = LTask' /\ AWorker' = worker' /\ ADeps' = deps'
    BY <1>1, EndsCall DEF Pending
  <1>8. ATodo[c] = call[c] /\ ATodo[c] # None
    BY <1>1, PendingCall DEF Pending
  <1>9. ATask = [LTask EXCEPT ![call[c].t] = L!AbsentTask] /\ AWorker = worker /\ ADeps = deps
    BY <1>1, View DEF Seen
  <1>10. ATask' = [ATask EXCEPT ![call[c].t] = call[c].r] /\ ATask[call[c].t] = L!AbsentTask
    BY <1>3, <1>6, <1>7, <1>9 DEF LTask
  <1>11. Abstract!Accepts(ATodo[c])
    BY <1>2, <1>8, <1>10 DEF Abstract!Accepts, Abstract!AbsentTask, L!AbsentTask, ATask
  <1>12. Abstract!WriteTask(ATodo[c])
    BY <1>1, <1>2, <1>7, <1>8, <1>9, <1>10 DEF Abstract!WriteTask, ATask, AWorker, ADeps
  <1>13. QED
    BY <1>1, <1>7, <1>8, <1>11, <1>12, SameFailed, AsPerform

\* The worker file is the moment at which Assign takes effect.
LEMMA RefWriteWorker ==
  ASSUME ILInv, ILInv', ~shared, NEW c \in Clients, WriteWorker(c)
  PROVE  AbsStep
  <1>1. /\ pc[c] = "worker" /\ UNCHANGED kind /\ UNCHANGED <<issue, deps, faults>> /\ call' = call
        /\ worker' = [worker EXCEPT ![call[c].w] = L!Active(call[c].t)]
        /\ Goto(c, "unlock")
    BY DEF WriteWorker
  <1>2. /\ ATodo' = [ATodo EXCEPT ![c] = None]
        /\ ATask' = LTask' /\ AWorker' = worker' /\ ADeps' = deps'
    BY <1>1, EndsCall DEF Pending
  <1>3. ATodo[c] = call[c] /\ ATodo[c] # None
    BY <1>1, PendingCall DEF Pending
  <1>4. /\ LTask = [ATask EXCEPT ![call[c].t] = L!Assigned(call[c].w)]
        /\ Abstract!Accepts(call[c]) /\ call[c].op = "Assign" /\ AWorker = worker /\ ADeps = deps
    BY <1>1, HalfFacts DEF Half
  <1>5. LTask' = LTask
    BY <1>1, LTaskStays
  <1>6. Abstract!Assign(ATodo[c])
    BY <1>1, <1>2, <1>3, <1>4, <1>5
    DEF Abstract!Assign, Abstract!Assigned, L!Assigned, Abstract!Active, L!Active, ATask, AWorker, ADeps
  <1>7. QED
    BY <1>1, <1>2, <1>3, <1>4, <1>6, SameFailed, AsPerform

\* The rollback hides that the claim was ever written.
LEMMA RefRollback ==
  ASSUME ILInv, ILInv', ~shared, NEW c \in Clients, Rollback(c)
  PROVE  AbsStep
  <1>1. /\ pc[c] = "rollback" /\ UNCHANGED kind /\ UNCHANGED <<deps, worker, faults>> /\ call' = call
        /\ issue' = [issue EXCEPT ![call[c].t].assignee = NoWorker]
        /\ Goto(c, "unlock")
    BY DEF Rollback
  <1>2. /\ TypeOK /\ faults > 0 /\ issue[call[c].t].status = "open" /\ issue[call[c].t] # AbsentIssue
    BY <1>1 DEF ILInv, CallInv, Knows, HalfAssigned, OnIssue, Half
  <1>3. /\ call[c].t \in Tasks /\ AWorker = worker /\ ADeps = deps
        /\ ATask = [LTask EXCEPT ![call[c].t] = L!OpenTask]
    BY <1>1, HalfFacts DEF Half
  <1>4. /\ ATodo' = [d \in Clients |-> IF d \in {c} THEN None ELSE ATodo[d]]
        /\ ATask' = LTask' /\ AWorker' = worker' /\ ADeps' = deps'
    BY <1>1, EndsCall DEF Pending
  <1> DEFINE i == [issue[call[c].t] EXCEPT !.assignee = NoWorker]
  <1>5. issue' = [issue EXCEPT ![call[c].t] = i]
    BY <1>1, <1>2 DEF TypeOK
  <1>6. ToTask(i) = L!OpenTask
    <2>1. issue[call[c].t] \in Issue
      BY <1>2, <1>3 DEF TypeOK
    <2>2. i \in Issue /\ i.status = "open" /\ i.assignee = NoWorker
      BY <1>2, <2>1 DEF Issue
    <2>3. QED
      BY <2>2, DecodedAbsent
  <1> HIDE DEF i
  <1>7. LTask' = [LTask EXCEPT ![call[c].t] = L!OpenTask]
    BY <1>1, <1>3, <1>5, <1>6, LTaskWritten
  <1>8. AFailed' = TRUE
    BY <1>1, <1>2 DEF AFailed, kind
  <1>9. ATask' = ATask /\ AWorker' = AWorker /\ ADeps' = ADeps
    BY <1>1, <1>3, <1>4, <1>7
  <1>10. QED
    BY <1>4, <1>8, <1>9, AsCut

\* A claim that is left with its first write only.
LEMMA LeavesClaim ==
  ASSUME ILInv, ILInv', ~shared, UNCHANGED kind, UNCHANGED <<worker, deps>>, NEW c \in Clients,
         pc[c] \in Pending, Goto(c, "unlock"), call' = call, Fault,
         call[c].op = "Assign", Abstract!Accepts(call[c]), AWorker = worker, ADeps = deps,
         LTask' = [ATask EXCEPT ![call[c].t] = L!Assigned(call[c].w)]
  PROVE  AbsStep
  <1>1. /\ ATodo' = [d \in Clients |-> IF d \in {c} THEN None ELSE ATodo[d]]
        /\ ATask' = LTask' /\ AWorker' = worker' /\ ADeps' = deps'
    BY EndsCall
  <1>2. ATodo[c] = call[c]
    BY PendingCall
  <1>3. AFailed' = TRUE
    BY NowFailed
  <1>4. /\ ATodo[c].op = "Assign" /\ Abstract!Accepts(ATodo[c])
        /\ ATask' = [ATask EXCEPT ![ATodo[c].t] = L!Assigned(ATodo[c].w)]
    BY <1>1, <1>2
  <1>5. AWorker' = AWorker /\ ADeps' = ADeps
    BY <1>1
  <1>6. \E d \in {c} : /\ ATodo[d].op = "Assign" /\ Abstract!Accepts(ATodo[d])
                      /\ ATask' = [ATask EXCEPT ![ATodo[d].t] = L!Assigned(ATodo[d].w)]
    BY <1>4
  <1>7. {c} \in SUBSET Clients
    OBVIOUS
  <1>8. QED
    BY <1>1, <1>3, <1>5, <1>6, <1>7, AsCut, Zenon

LEMMA RefFails ==
  ASSUME ILInv, ILInv', ~shared, NEW c \in Clients, WholeCreate(c), Fails(c)
  PROVE  AbsStep
  <1>1. /\ pc[c] \in {"write", "status", "worker", "rollback"} /\ Fault
        /\ Goto(c, IF pc[c] = "worker" THEN "rollback" ELSE "unlock")
        /\ UNCHANGED kind /\ UNCHANGED stored /\ call' = call
    BY DEF Fails
  <1>2. pc[c] # "status"
    BY DEF WholeCreate, ILInv, CallInv, Knows, HasCall
  <1>3. CASE pc[c] = "write"
    <2>1. Goto(c, "unlock")
      BY <1>1, <1>3
    <2>2. QED
      BY <1>1, <1>3, <2>1, AsNothing
  <1>4. CASE pc[c] = "worker"
    <2>1. pc'[c] = "rollback" /\ \A d \in Clients \ {c} : pc'[d] = pc[d] /\ call'[d] = call[d]
      BY <1>1, <1>4, GotoType DEF ILInv, PCs
    <2>2. ATask' = ATask /\ AWorker' = AWorker /\ ADeps' = ADeps
      BY <1>1, <1>4, <2>1, StoreStays DEF Half
    <2>3. ATodo' = ATodo
      BY <1>1, <1>4, <2>1, TodoMoves DEF Pending
    <2>4. ATodo' = [d \in Clients |-> IF d \in {} THEN None ELSE ATodo[d]]
      BY <2>3 DEF ATodo
    <2>5. AFailed' = TRUE /\ {} \in SUBSET Clients
      BY <1>1, NowFailed
    <2>6. QED
      BY <2>2, <2>4, <2>5, AsCut, Zenon
  <1>5. CASE pc[c] = "rollback"
    <2>1. Goto(c, "unlock")
      BY <1>1, <1>5
    <2>2. /\ LTask = [ATask EXCEPT ![call[c].t] = L!Assigned(call[c].w)]
          /\ Abstract!Accepts(call[c]) /\ call[c].op = "Assign" /\ AWorker = worker /\ ADeps = deps
      BY <1>5, HalfFacts DEF Half
    <2>3. LTask' = LTask /\ UNCHANGED <<worker, deps>>
      BY <1>1, LTaskStays DEF stored
    <2>4. QED
      BY <1>1, <1>5, <2>1, <2>2, <2>3, LeavesClaim DEF Pending
  <1>6. QED
    BY <1>1, <1>2, <1>3, <1>4, <1>5

\* A command that is killed after its commit has taken effect; a claim is left
\* with its first write.
LEMMA RefTimesOut ==
  ASSUME ILInv, ILInv', ~shared, Representable, NEW c \in Clients, WholeCreate(c), TimesOut(c)
  PROVE  AbsStep
  <1>1. /\ backend = "bd" /\ pc[c] = "write" /\ Fault /\ Effect(call[c]) /\ Goto(c, "unlock")
        /\ UNCHANGED kind /\ call' = call
    BY DEF TimesOut
  <1>2. ~(backend = "bd" /\ call[c].op = "CreateTask" /\ call[c].r.status # "open")
    BY DEF WholeCreate
  <1>3. CASE call[c].op # "Assign"
    BY <1>1, <1>2, <1>3, RefWhole
  <1>4. CASE call[c].op = "Assign"
    <2>1. issue' = [issue EXCEPT ![call[c].t] = Claimed(call[c])] /\ UNCHANGED <<worker, deps>>
      BY <1>1, <1>4 DEF Effect
    <2>2. /\ call[c] \in Requests /\ TypeOK /\ L!Accepts(call[c]) /\ issue[call[c].t] # AbsentIssue
      BY <1>1, <1>4 DEF ILInv, CallInv, Knows, HasCall, MayWrite, OnIssue, Looks, Held
    <2>3. call[c].t \in Tasks /\ call[c].w \in Workers
      BY <1>4, <2>2, RequestFields
    <2>4. ATask = LTask /\ AWorker = worker /\ ADeps = deps
      BY <1>1, HolderSees DEF Held, Between, Half
    <2>5. Abstract!Accepts(call[c])
      BY <2>2, <2>4, SameAccepts
    <2>6. issue[call[c].t] \in Issue
      BY <2>2, <2>3 DEF TypeOK
    <2>7. Claimed(call[c]).status = "open" /\ Claimed(call[c]).assignee = call[c].w
      BY <1>1, <2>6 DEF Claimed, Issue
    <2>8. LTask' = [LTask EXCEPT ![call[c].t] = L!Assigned(call[c].w)]
      <3>1. ToTask(Claimed(call[c])) = L!Assigned(call[c].w)
        BY <2>3, <2>7, ClaimReadsBack
      <3>2. LTask' = [LTask EXCEPT ![call[c].t] = ToTask(Claimed(call[c]))]
        BY <1>1, <2>1, <2>3, LTaskWritten
      <3>3. QED
        BY <3>1, <3>2
    <2>9. QED
      BY <1>1, <1>4, <2>1, <2>4, <2>5, <2>8, LeavesClaim DEF Pending
  <1>5. QED
    BY <1>3, <1>4

\* A store that nobody else writes to holds no status it cannot read back.
Mapped == ~shared => \A t \in Tasks : issue[t].status \notin Unmapped

LEMMA EncodeMapped ==
  ASSUME NEW s \in L!Status
  PROVE  EncodeStatus(s) \notin Unmapped
  BY DEF L!Status, EncodeStatus, Unmapped

LEMMA MappedStep == ILInv /\ Mapped /\ [Next]_vars => Mapped'
  <1> SUFFICES ASSUME ILInv, Mapped, [Next]_vars, ~shared', NEW t \in Tasks
               PROVE  issue'[t].status \notin Unmapped
    BY DEF Mapped
  <1>1. UNCHANGED kind
    BY DEF Next, Step, Call, Lock, Inspect, Panics, Write, SetStatus, WriteWorker, Rollback, Unlock,
           List, Show, Return, Fails, TimesOut, User, vars
  <1>2. ~shared /\ issue[t].status \notin Unmapped
    BY <1>1 DEF kind, Mapped
  <1>3. issue \in [Tasks -> Issue \cup {AbsentIssue}]
    BY DEF ILInv, TypeOK
  <1>4. ASSUME NEW c \in Clients, Write(c) \/ TimesOut(c) PROVE issue'[t].status \notin Unmapped
    <2>1. pc[c] = "write" /\ Effect(call[c]) /\ call[c] \in Requests
      BY <1>4 DEF Write, TimesOut, ILInv, CallInv, Knows, HasCall, Held
    <2>2. ASSUME call[c].op \in {"CreateTask", "UpdateTask"}
          PROVE  call[c].r.status \in L!Status /\ EncodeStatus(call[c].r.status) \notin Unmapped
      <3>1. call[c].r \in L!TaskRec
        BY <2>1, <2>2, RequestFields
      <3>2. call[c].r.status \in L!Status
        BY <3>1 DEF L!TaskRec
      <3>3. QED
        BY <3>2, EncodeMapped
    <2>3. CASE call[c].op = "CreateTask"
      <3>1. issue' = [issue EXCEPT ![call[c].t] = BornAs(call[c])]
        BY <2>1, <2>3 DEF Effect
      <3>2. BornAs(call[c]) = issue[call[c].t] \/ BornAs(call[c]).status \notin Unmapped
        BY <2>2, <2>3 DEF BornAs, Unmapped
      <3>3. QED
        BY <1>2, <1>3, <3>1, <3>2
    <2>4. CASE call[c].op = "UpdateTask"
      <3>1. issue' = [issue EXCEPT ![call[c].t] = Updated(call[c])]
        BY <2>1, <2>4 DEF Effect
      <3>2. Updated(call[c]) = issue[call[c].t] \/ Updated(call[c]).status \notin Unmapped
        BY <2>2, <2>4 DEF Updated
      <3>3. QED
        BY <1>2, <1>3, <3>1, <3>2
    <2>5. CASE call[c].op = "Assign"
      <3>1. issue' = [issue EXCEPT ![call[c].t] = Claimed(call[c])]
        BY <2>1, <2>5 DEF Effect
      <3>2. call[c].t \in Tasks /\ issue[call[c].t] \in Issue
        BY <1>3, <2>1, <2>5, RequestFields DEF ILInv, CallInv, Knows, OnIssue
      <3>3. Claimed(call[c]).status \in {"open", issue[call[c].t].status}
        BY <3>2 DEF Claimed, Issue
      <3>4. QED
        BY <1>2, <1>3, <3>1, <3>3 DEF Unmapped
    <2>6. CASE call[c].op \notin {"CreateTask", "UpdateTask", "Assign"}
      BY <1>2, <2>1, <2>6 DEF Effect
    <2>7. QED
      BY <2>3, <2>4, <2>5, <2>6
  <1>5. ASSUME NEW c \in Clients, SetStatus(c) PROVE issue'[t].status \notin Unmapped
    <2>1. /\ issue' = [issue EXCEPT ![call[c].t].status = EncodeStatus(call[c].r.status)]
          /\ call[c] \in Requests /\ call[c].op = "CreateTask" /\ issue[call[c].t] # AbsentIssue
      BY <1>5 DEF SetStatus, ILInv, CallInv, Knows, HasCall, OnIssue, Held
    <2>2. call[c].r \in L!TaskRec /\ call[c].t \in Tasks
      BY <2>1, RequestFields
    <2>3. EncodeStatus(call[c].r.status) \notin Unmapped
      BY <2>2, EncodeMapped DEF L!TaskRec
    <2>4. QED
      BY <1>2, <1>3, <2>1, <2>2, <2>3 DEF Issue
  <1>6. ASSUME NEW c \in Clients, Rollback(c) PROVE issue'[t].status \notin Unmapped
    <2>1. issue' = [issue EXCEPT ![call[c].t].assignee = NoWorker]
      BY <1>6 DEF Rollback
    <2>2. QED
      BY <1>2, <1>3, <2>1 DEF Issue, AbsentIssue
  <1>7. ASSUME NEW c \in Clients,
               \/ Call(c) \/ Lock(c) \/ Inspect(c) \/ Panics(c) \/ WriteWorker(c) \/ Unlock(c)
               \/ List(c) \/ Show(c) \/ Return(c) \/ Fails(c)
        PROVE  issue'[t].status \notin Unmapped
    <2>1. issue' = issue
      BY <1>7 DEF Call, Lock, Inspect, Panics, WriteWorker, Unlock, List, Show, Return, Fails, stored
    <2>2. QED
      BY <1>2, <2>1
  <1>8. CASE UNCHANGED vars
    BY <1>2, <1>8 DEF vars, stored
  <1>9. QED
    BY <1>2, <1>4, <1>5, <1>6, <1>7, <1>8 DEF Next, Step, User

LEMMA NoPanic ==
  ASSUME ILInv, Mapped, ~shared, NEW c \in Clients
  PROVE  ~Panics(c)
  <1> SUFFICES ASSUME Panics(c) PROVE FALSE
    OBVIOUS
  <1>1. call[c] \in Requests /\ call[c].op = "Assign" /\ issue[call[c].t].status \in Unmapped
    BY DEF Panics, Undecodable, ILInv, CallInv, Knows, HasCall, Held
  <1>2. QED
    BY <1>1, RequestFields DEF Mapped

LEMMA RefInit == Init => Abstract!Init
  <1> SUFFICES ASSUME Init PROVE Abstract!Init
    OBVIOUS
  <1>1. ATodo = [c \in Clients |-> [op |-> "none"]]
    BY DEF Init, ATodo, SeenToDo, ToDo
  <1>2. ATask = [t \in Tasks |-> [status |-> "absent", assignee |-> NoWorker]]
    <2>1. \A t \in Tasks : ~AssignHalfDone(t) /\ ~CreateHalfDone(t)
      BY DEF Init, AssignHalfDone, CreateHalfDone
    <2>2. ToTask(AbsentIssue) = [status |-> "absent", assignee |-> NoWorker]
      BY DecodedAbsent DEF L!AbsentTask
    <2>3. QED
      BY <2>1, <2>2 DEF Init, ATask, SeenTask
  <1>3. AWorker = [w \in Workers |-> [status |-> "absent", task |-> NoTask]]
    BY DEF Init, AWorker, SeenWorker, L!AbsentWorker
  <1>4. ADeps = [t \in Tasks |-> {}]
    BY DEF Init, ADeps, SeenDeps
  <1>5. AFailed = FALSE
    BY DEF Init, AFailed
  <1>6. QED
    BY <1>1, <1>2, <1>3, <1>4, <1>5
    DEF Abstract!Init, Abstract!NoCall, Abstract!AbsentTask, Abstract!AbsentWorker,
        ATodo, ATask, AWorker, ADeps, AFailed

\* Every step of a bd store is a step of the abstract store, or none.
LEMMA RefStep ==
  ILInv /\ ILInv' /\ Mapped /\ Representable /\ [Next]_vars /\ [\A c \in Clients : WholeCreate(c)]_vars
    => AbsStep
  <1> SUFFICES ASSUME ILInv, ILInv', Mapped, Representable, [Next]_vars,
                      [\A c \in Clients : WholeCreate(c)]_vars
               PROVE  AbsStep
    OBVIOUS
  <1>1. UNCHANGED kind
    BY DEF Next, Step, Call, Lock, Inspect, Panics, Write, SetStatus, WriteWorker, Rollback, Unlock, List, Show,
           Return, Fails, TimesOut, User, vars
  <1>2. CASE shared
    <2>1. shared'
      BY <1>1, <1>2 DEF kind
    <2>2. ATask' = ATask /\ AWorker' = AWorker /\ ADeps' = ADeps /\ ATodo' = ATodo /\ AFailed' = AFailed
      BY <1>2, <2>1 DEF ATask, AWorker, ADeps, ATodo, AFailed, SeenTask, SeenWorker, SeenDeps, SeenToDo
    <2>3. QED
      BY <2>2, AsStutter
  <1>3. CASE ~shared /\ UNCHANGED vars
    <2>1. UNCHANGED <<issue, deps, worker, backend, shared, pc, call, faults>>
      BY <1>3 DEF vars, stored, kind
    <2>2. ATask' = ATask /\ AWorker' = AWorker /\ ADeps' = ADeps /\ ATodo' = ATodo /\ AFailed' = AFailed
      BY <2>1, SameTasks DEF ATask, AWorker, ADeps, ATodo, AFailed, SeenTask, SeenWorker, SeenDeps, SeenToDo, ToDo,
                  AssignHalfDone, CreateHalfDone
    <2>3. QED
      BY <2>2, AsStutter
  <1>4. CASE ~shared /\ Next /\ \A c \in Clients : WholeCreate(c)
    BY <1>4, NoPanic, RefCall, RefInvisible, RefInspect, RefWrite, RefSetStatus, RefWriteWorker, RefRollback,
       RefFails, RefTimesOut DEF Next, Step, User
  <1>5. QED
    BY <1>2, <1>3, <1>4

\* LDG-08..LDG-12: both bd stores implement the abstract store.  With any number
\* of clients, with commands that fail, or are killed after their commit, every
\* call takes effect once, at one moment, on the state it has checked, or is
\* refused with reason; what was written is what is read back, through the
\* tracker's statuses, assignees and labels.
THEOREM TrackersImplementLedger == Spec /\ Representable /\ WholeCreates => ImplementsLedger
  <1>1. Representable /\ [Next]_vars => Representable'
    <2> SUFFICES ASSUME Representable, [Next]_vars PROVE Representable'
      OBVIOUS
    <2>1. UNCHANGED kind
      BY DEF Next, Step, Call, Lock, Inspect, Panics, Write, SetStatus, WriteWorker, Rollback, Unlock, List, Show,
             Return, Fails, TimesOut, User, vars
    <2>2. QED
      BY <2>1 DEF Representable, kind
  <1>2. ILInv /\ ILInv' /\ Mapped /\ Representable /\ [Next]_vars
          /\ [\A c \in Clients : WholeCreate(c)]_vars
        => [Abstract!Next]_(Abstract!vars)
    BY RefStep DEF AbsStep
  <1>3. Init => Mapped
    <2> SUFFICES ASSUME Init, NEW t \in Tasks PROVE issue[t].status \notin Unmapped
      BY DEF Mapped
    <2>1. issue[t].status = "absent"
      BY DEF Init, AbsentIssue
    <2>2. QED
      BY <2>1 DEF Unmapped
  <1>4. QED
    BY <1>1, <1>2, <1>3, RefInit, ILInvInit, ILInvStep, MappedStep, PTL
    DEF Spec, WholeCreates, ImplementsLedger, Abstract!Spec
=============================================================================
