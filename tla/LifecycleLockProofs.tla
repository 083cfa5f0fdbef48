------------------------ MODULE LifecycleLockProofs -------------------------
(***************************************************************************)
(* When processes acquire the lock one at a time and no live process       *)
(* stalls for the staleness threshold, the lock is exclusive and a holder  *)
(* never loses it: for any number of processes, any threshold, any retry   *)
(* count, and crashes and failing calls at any point.                      *)
(*                                                                         *)
(* MutualExclusion is not inductive: a second process could be about to    *)
(* write its content or to remove the holder's file.  LInv adds that a     *)
(* process in either position excludes every holder, that the file is the  *)
(* holder's with the stamp it wrote last, and that this stamp is young.    *)
(***************************************************************************)
EXTENDS LifecycleLock, FiniteSetTheorems, TLAPS

Owners == Holding \cup {"release"}
Engaged == Owners \cup {"write", "remove"}

LInv ==
  /\ TypeOK
  /\ late = {}
  /\ \A p \in Procs : Stamped(p) => stamp[p] <= now /\ now - stamp[p] <= MaxStall
  /\ \A p, q \in Procs : pc[p] \in Acquiring /\ pc[q] \in Acquiring => p = q
  /\ \A p \in Procs : pc[p] \in Owners => file.holder = id[p] /\ file.time = stamp[p]
  /\ \A p \in Procs : pc[p] = "write" => file.creator = p /\ file.holder = NoId
  /\ \A p, q \in Procs : pc[p] \in Engaged /\ pc[q] \in Engaged => p = q

Places == {"off"} \cup Alive \cup Ended

\* A process that moves on its own changes its own place only.
LEMMA GotoFacts ==
  ASSUME TypeOK, NEW p \in Procs, NEW l \in Places, Goto(p, l)
  PROVE  /\ pc' \in [Procs -> Places]
         /\ pc'[p] = l
         /\ \A q \in Procs : q # p => pc'[q] = pc[q]
  BY DEF TypeOK, Goto, Places

\* The file of an owner is complete and young: nobody finds it stale.
LEMMA OwnerFile ==
  ASSUME LInv, NEW p \in Procs, pc[p] \in Owners, MaxStall < Staleness
  PROVE  file # NoFile /\ file.holder # NoId /\ ~Stale
  <1>1. file.holder = id[p] /\ file.time = stamp[p] /\ id[p] \in Procs
    BY DEF LInv, TypeOK
  <1>2. file.holder # NoId
    BY <1>1, ProcsAssumption DEF NoId
  <1>3. now - stamp[p] <= MaxStall
    BY DEF LInv, Stamped, Owners, Alive, Holding
  <1>4. now \in Int /\ stamp[p] \in Int
    BY DEF LInv, TypeOK
  <1>5. ~(now - stamp[p] >= Staleness)
    BY <1>3, <1>4, TimesAssumption
  <1>6. QED
    BY <1>1, <1>2, <1>5 DEF Stale, NoFile

\* If one process may acquire at a time, none does when the next one starts.
LEMMA NobodyAcquires ==
  ASSUME MaxContenders = 1, NEW p \in Procs, MayStart(p),
         LInv
  PROVE  \A q \in Procs : pc[q] \notin Acquiring
  <1> DEFINE C == {q \in Procs : pc[q] \in Acquiring}
  <1>1. Cardinality(C) < 1
    BY DEF MayStart
  <1>2. IsFiniteSet(C)
    <2>1. CASE C = {}
      BY <2>1, FS_EmptySet
    <2>2. CASE C # {}
      <3>1. PICK c : c \in C
        BY <2>2
      <3>2. C = {c}
        BY <3>1 DEF LInv
      <3>3. QED
        BY <3>2, FS_Singleton
    <2>3. QED
      BY <2>1, <2>2
  <1>3. Cardinality(C) = 0
    BY <1>1, <1>2, FS_CardinalityType
  <1>4. C = {}
    BY <1>2, <1>3, FS_EmptySet
  <1>5. QED
    BY <1>4

LEMMA LInvInit == Init => LInv
  BY ProcsAssumption, TimesAssumption
  DEF Init, LInv, TypeOK, Stamped, Acquiring, Owners, Engaged, Holding, Alive, NoId

\* A step of one process that leaves the file, the time and the IDs alone and
\* neither starts acquiring nor enters an engaged place from outside.
LEMMA QuietStep ==
  ASSUME LInv, NEW p \in Procs, NEW l \in Places, Goto(p, l),
         UNCHANGED <<now, file, id, stamp, late>>,
         attempt' \in [Procs -> 0..RetryCount],
         l \in Acquiring => pc[p] \in Acquiring,
         l \in Owners => pc[p] \in Owners,
         l \in Engaged => pc[p] \in Engaged,
         l \in Alive \ {"enter"} => Stamped(p),
         l # "write"
  PROVE  LInv'
  <1>1. TypeOK /\ Engaged \subseteq Alive
    BY DEF LInv, Engaged, Owners, Alive, Acquiring, Holding
  <1>2. /\ pc' \in [Procs -> Places]
        /\ pc'[p] = l
        /\ \A q \in Procs : q # p => pc'[q] = pc[q]
    BY <1>1, GotoFacts
  <1>3. TypeOK'
    BY <1>1, <1>2 DEF TypeOK, Places
  <1>4. \A q \in Procs : Stamped(q)' => Stamped(q)
    BY <1>2 DEF Stamped
  <1>5. \A q \in Procs : /\ pc'[q] \in Acquiring => pc[q] \in Acquiring
                         /\ pc'[q] \in Owners => pc[q] \in Owners
                         /\ pc'[q] \in Engaged => pc[q] \in Engaged
                         /\ pc'[q] = "write" => pc[q] = "write"
    BY <1>2
  <1>6. QED
    BY <1>3, <1>4, <1>5 DEF LInv

\* The next attempt of a process that acquires without being engaged any more.
LEMMA NextAttemptFacts ==
  ASSUME LInv, NEW p \in Procs, NextAttempt(p)
  PROVE  /\ attempt' \in [Procs -> 0..RetryCount]
         /\ \E l \in {"create", "exhausted"} : Goto(p, l)
  <1>1. attempt \in [Procs -> 0..RetryCount] /\ RetryCount \in Nat
    BY TimesAssumption DEF LInv, TypeOK
  <1>2. CASE attempt[p] < RetryCount
    <2>1. attempt[p] + 1 \in 0..RetryCount
      BY <1>1, <1>2
    <2>2. QED
      BY <1>1, <1>2, <2>1 DEF NextAttempt
  <1>3. CASE ~(attempt[p] < RetryCount)
    BY <1>1, <1>3 DEF NextAttempt
  <1>4. QED
    BY <1>2, <1>3

\* A step that starts a process when nobody acquires.
LEMMA StartStep ==
  ASSUME LInv, MaxContenders = 1, NEW p \in Procs, MayStart(p), Goto(p, "enter"),
         id' \in [Procs -> Procs], \A q \in Procs : q # p => id'[q] = id[q],
         UNCHANGED <<now, file, stamp, attempt, late>>
  PROVE  LInv'
  <1>1. TypeOK /\ "enter" \in Places
    BY DEF LInv, Places, Alive, Acquiring
  <1>2. /\ pc' \in [Procs -> Places]
        /\ pc'[p] = "enter"
        /\ \A q \in Procs : q # p => pc'[q] = pc[q]
    BY <1>1, GotoFacts
  <1>3. TypeOK'
    BY <1>1, <1>2 DEF TypeOK, Places
  <1>4. \A q \in Procs : pc[q] \notin Acquiring
    BY NobodyAcquires
  <1>5. \A q \in Procs : /\ Stamped(q)' => q # p
                         /\ pc'[q] \in Engaged \cup {"write"} => q # p
                         /\ pc'[q] \in Acquiring => q = p
    BY <1>2, <1>4 DEF Stamped, Engaged, Owners, Holding
  <1>6. Owners \subseteq Engaged
    BY DEF Engaged
  <1>7. QED
    BY <1>2, <1>3, <1>5, <1>6 DEF LInv, Stamped

\* Run and ResumeRun.
LEMMA StartsPreserve ==
  ASSUME LInv, MaxContenders = 1, NEW p \in Procs, Run(p) \/ ResumeRun(p)
  PROVE  LInv'
  <1>1. id \in [Procs -> Procs] /\ attempt \in [Procs -> 0..RetryCount]
    BY DEF LInv, TypeOK
  <1>2. MayStart(p) /\ pc[p] = "off" /\ UNCHANGED <<now, file, stamp, attempt, late>>
    BY DEF Run, ResumeRun, MayStart
  <1>3. CASE Goto(p, "enter") /\ UNCHANGED id
    BY <1>1, <1>2, <1>3, StartStep
  <1>4. CASE Goto(p, "error") /\ UNCHANGED id
    <2>1. /\ "error" \in Places
          /\ "error" \notin Acquiring \cup Owners \cup Engaged \cup Alive
      BY DEF Places, Ended, Acquiring, Owners, Engaged, Holding, Alive
    <2>2. QED
      BY <1>1, <1>2, <1>4, <2>1, QuietStep
  <1>5. CASE /\ file.holder # NoId
             /\ id' = [id EXCEPT ![p] = file.holder]
             /\ Goto(p, "enter")
    <2>1. file.holder \in Procs
      BY <1>5 DEF LInv, TypeOK, Lock, NoFile
    <2>2. /\ id' \in [Procs -> Procs]
          /\ \A q \in Procs : q # p => id'[q] = id[q]
      BY <1>1, <1>5, <2>1
    <2>3. QED
      BY <1>2, <1>5, <2>2, StartStep
  <1>6. QED
    BY <1>3, <1>4, <1>5 DEF Run, ResumeRun

\* Enter stamps a process that has nothing in the file yet.
LEMMA EnterPreserves ==
  ASSUME LInv, NEW p \in Procs, Enter(p)
  PROVE  LInv'
  <1>1. TypeOK /\ "create" \in Places
    BY DEF LInv, Places, Alive, Acquiring
  <1>2. /\ pc' \in [Procs -> Places]
        /\ pc'[p] = "create"
        /\ \A q \in Procs : q # p => pc'[q] = pc[q]
    BY <1>1, GotoFacts DEF Enter
  <1>3. /\ stamp' \in [Procs -> 0..MaxClock]
        /\ stamp'[p] = now
        /\ \A q \in Procs : q # p => stamp'[q] = stamp[q]
    BY <1>1 DEF Enter, TypeOK
  <1>4. TypeOK'
    BY <1>1, <1>2, <1>3 DEF TypeOK, Places, Enter
  <1>5. now \in Int /\ now - now <= MaxStall
    BY <1>1, TimesAssumption DEF TypeOK
  <1>6. (\A q \in Procs : Stamped(q) => stamp[q] <= now /\ now - stamp[q] <= MaxStall)'
    BY <1>2, <1>3, <1>5 DEF LInv, Stamped, Enter
  <1>7. pc[p] \in Acquiring /\ \A q \in Procs : pc'[q] \in Acquiring => pc[q] \in Acquiring
    BY <1>2 DEF Enter, Acquiring
  <1>8. \A q \in Procs : pc'[q] \in Engaged \cup Owners \cup {"write"} => q # p
    BY <1>2 DEF Engaged, Owners, Holding
  <1>9. QED
    BY <1>2, <1>3, <1>4, <1>6, <1>7, <1>8 DEF LInv, Enter

\* No process owns the lock while another is engaged or the file is missing
\* or incomplete.
LEMMA NoOwner ==
  ASSUME LInv, MaxStall < Staleness,
         file = NoFile \/ file.holder = NoId \/ Stale
  PROVE  \A q \in Procs : pc[q] \notin Owners
  BY OwnerFile

\* Creating, writing and removing are done by the only acquiring process and
\* while nobody owns the lock.
LEMMA CreatePreserves ==
  ASSUME LInv, MaxStall < Staleness, NEW p \in Procs, TryCreate(p)
  PROVE  LInv'
  <1>1. TypeOK /\ {"write", "read"} \subseteq Places /\ pc[p] \in Acquiring /\ Stamped(p)
    BY DEF LInv, TryCreate, Places, Alive, Acquiring, Stamped
  <1>2. CASE file # NoFile /\ UNCHANGED file /\ Goto(p, "read")
    <2>1. "read" \notin Owners \cup Engaged
      BY DEF Owners, Engaged, Holding
    <2>2. UNCHANGED <<now, file, id, stamp, attempt, late>>
      BY <1>2 DEF TryCreate
    <2>3. attempt' \in [Procs -> 0..RetryCount]
      BY <1>1, <2>2 DEF TypeOK
    <2>4. QED
      BY <1>1, <1>2, <2>1, <2>2, <2>3, QuietStep
  <1>3. CASE /\ file = NoFile
             /\ file' = [creator |-> p, holder |-> NoId, time |-> 0]
             /\ Goto(p, "write")
    <2>1. /\ pc' \in [Procs -> Places]
          /\ pc'[p] = "write"
          /\ \A q \in Procs : q # p => pc'[q] = pc[q]
      BY <1>1, <1>3, GotoFacts
    <2>2. UNCHANGED <<now, id, stamp, attempt, late>>
      BY DEF TryCreate
    <2>3. file' \in Lock
      BY <1>3, TimesAssumption DEF Lock
    <2>4. TypeOK'
      BY <1>1, <2>1, <2>2, <2>3 DEF TypeOK, Places
    <2>5. \A q \in Procs : q # p => pc[q] \notin Acquiring
      BY <1>1 DEF LInv
    <2>6. \A q \in Procs : pc[q] \notin Owners
      BY <1>3, NoOwner
    <2>7. \A q \in Procs : q # p => pc'[q] \notin Engaged \cup Owners \cup {"write"}
      BY <2>1, <2>5, <2>6 DEF Engaged, Acquiring
    <2>8. pc'[p] \notin Owners
      BY <2>1 DEF Owners, Holding
    <2>9. \A q \in Procs : Stamped(q)' => Stamped(q)
      BY <1>1, <2>1 DEF Stamped
    <2>10. file'.creator = p /\ file'.holder = NoId
      BY <1>3
    <2>11. \A q \in Procs : pc'[q] \in Acquiring => q = p
      BY <2>1, <2>5
    <2>12. QED
      BY <2>2, <2>4, <2>7, <2>8, <2>9, <2>10, <2>11 DEF LInv
  <1>4. QED
    BY <1>2, <1>3 DEF TryCreate

\* An engaged process may do anything to the file when it leaves.
LEMMA LeaveStep ==
  ASSUME LInv, NEW p \in Procs, pc[p] \in Engaged, file' \in Lock \cup {NoFile},
         NEW l \in Places \ Engaged, Goto(p, l), l \in Acquiring => pc[p] \in Acquiring,
         UNCHANGED <<now, id, stamp, late>>, attempt' \in [Procs -> 0..RetryCount]
  PROVE  LInv'
  <1>1. TypeOK /\ l \in Places /\ Stamped(p)
    BY DEF LInv, Engaged, Owners, Holding, Stamped, Alive, Acquiring
  <1>2. /\ pc' \in [Procs -> Places]
        /\ pc'[p] = l
        /\ \A q \in Procs : q # p => pc'[q] = pc[q]
    BY <1>1, GotoFacts
  <1>3. TypeOK'
    BY <1>1, <1>2 DEF TypeOK, Places
  <1>4. \A q \in Procs : pc'[q] \notin Engaged
    BY <1>2 DEF LInv
  <1>5. \A q \in Procs : pc'[q] \notin Owners /\ pc'[q] # "write"
    BY <1>4 DEF Engaged
  <1>6. \A q \in Procs : Stamped(q)' => Stamped(q)
    BY <1>1, <1>2 DEF Stamped
  <1>7. \A q \in Procs : pc'[q] \in Acquiring => pc[q] \in Acquiring
    BY <1>2
  <1>8. QED
    BY <1>3, <1>4, <1>5, <1>6, <1>7 DEF LInv

\* An engaged process that stamps the file holds the lock.
LEMMA HoldStep ==
  ASSUME LInv, NEW p \in Procs, pc[p] \in Engaged, file' \in Lock, Goto(p, "held"),
         file'.holder = id[p], file'.time = stamp'[p],
         stamp' \in [Procs -> 0..MaxClock],
         \A q \in Procs : q # p => stamp'[q] = stamp[q],
         stamp'[p] <= now, now - stamp'[p] <= MaxStall,
         UNCHANGED <<now, id, late, attempt>>
  PROVE  LInv'
  <1>1. TypeOK /\ "held" \in Places /\ Stamped(p)
    BY DEF LInv, Engaged, Owners, Holding, Stamped, Alive, Acquiring, Places
  <1>2. /\ pc' \in [Procs -> Places]
        /\ pc'[p] = "held"
        /\ \A q \in Procs : q # p => pc'[q] = pc[q]
    BY <1>1, GotoFacts
  <1>3. TypeOK'
    BY <1>1, <1>2 DEF TypeOK, Places
  <1>4. \A q \in Procs : q # p => pc'[q] \notin Engaged
    BY <1>2 DEF LInv
  <1>5. \A q \in Procs : pc'[q] # "write" /\ (q # p => pc'[q] \notin Owners)
    BY <1>2, <1>4 DEF Engaged
  <1>6. (\A q \in Procs : Stamped(q) => stamp[q] <= now /\ now - stamp[q] <= MaxStall)'
    BY <1>2 DEF LInv, Stamped
  <1>7. \A q \in Procs : pc'[q] \in Acquiring => pc[q] \in Acquiring
    BY <1>2 DEF Acquiring
  <1>8. QED
    BY <1>3, <1>4, <1>5, <1>6, <1>7 DEF LInv

\* Write and WriteFails: the file is still the one the process created.
LEMMA WritesPreserve ==
  ASSUME LInv, NEW p \in Procs, Write(p) \/ WriteFails(p)
  PROVE  LInv'
  <1>1. /\ TypeOK
        /\ pc[p] = "write" /\ pc[p] \in Engaged /\ Stamped(p)
        /\ "error" \in Places \ Engaged /\ "error" \notin Acquiring
    BY DEF LInv, Write, WriteFails, Engaged, Owners, Holding, Stamped, Alive, Acquiring,
           Places, Ended
  <1>2. UNCHANGED <<now, id, stamp, attempt, late>>
    BY DEF Write, WriteFails
  <1>3. attempt' \in [Procs -> 0..RetryCount]
    BY <1>1, <1>2 DEF TypeOK
  <1>4. CASE WriteFails(p)
    BY <1>1, <1>2, <1>3, <1>4, LeaveStep DEF WriteFails
  <1>5. CASE Write(p)
    <2>1. file.creator = p
      BY <1>1 DEF LInv
    <2>2. file' = [file EXCEPT !.holder = id[p], !.time = stamp[p]]
      BY <1>5, <2>1 DEF Write
    <2>3. file \in Lock
      BY <1>1, <2>1, ProcsAssumption DEF TypeOK, NoFile
    <2>4. file' \in Lock /\ file'.holder = id[p] /\ file'.time = stamp[p]
      BY <1>1, <2>2, <2>3 DEF Lock, TypeOK
    <2>5. CASE Goto(p, "error")
      BY <1>1, <1>2, <1>3, <2>4, <2>5, LeaveStep
    <2>6. CASE Goto(p, "held")
      <3>1. stamp[p] <= now /\ now - stamp[p] <= MaxStall
        BY <1>1 DEF LInv
      <3>2. /\ stamp' = stamp
            /\ stamp' \in [Procs -> 0..MaxClock]
            /\ UNCHANGED <<now, id, late, attempt>>
        BY <1>1, <1>2 DEF TypeOK
      <3>3. QED
        BY <1>1, <2>4, <2>6, <3>1, <3>2, HoldStep
    <2>7. QED
      BY <1>5, <2>5, <2>6 DEF Write
  <1>6. QED
    BY <1>4, <1>5

\* Read: what a reader goes on to remove has no owner.
LEMMA ReadPreserves ==
  ASSUME LInv, MaxStall < Staleness, NEW p \in Procs, Read(p)
  PROVE  LInv'
  <1>1. /\ TypeOK /\ pc[p] = "read" /\ pc[p] \in Acquiring /\ Stamped(p)
        /\ UNCHANGED <<now, file, id, stamp, late>>
    BY DEF LInv, Read, Acquiring, Stamped, Alive
  <1>2. /\ {"create", "exhausted", "contended", "remove"} \subseteq Places
        /\ {"create", "exhausted", "contended"} \cap (Engaged \cup Owners) = {}
        /\ {"exhausted", "contended"} \cap (Acquiring \cup Alive) = {}
    BY DEF Places, Alive, Ended, Acquiring, Holding, Owners, Engaged
  <1>3. CASE NextAttempt(p)
    <2>1. PICK l \in {"create", "exhausted"} : Goto(p, l)
      BY <1>3, NextAttemptFacts
    <2>2. attempt' \in [Procs -> 0..RetryCount]
      BY <1>3, NextAttemptFacts
    <2>3. l \in Places /\ l # "write" /\ l \notin Owners /\ l \notin Engaged
      BY <1>2
    <2>4. QED
      BY <1>1, <2>1, <2>2, <2>3, QuietStep
  <1>4. ASSUME file # NoFile, UNCHANGED attempt,
               Goto(p, IF file.holder = NoId \/ Stale THEN "remove" ELSE "contended")
        PROVE  LInv'
    <2>1. attempt' \in [Procs -> 0..RetryCount]
      BY <1>1, <1>4 DEF TypeOK
    <2>2. CASE ~(file.holder = NoId \/ Stale)
      <3>1. Goto(p, "contended") /\ "contended" \in Places /\ "contended" # "write"
        BY <1>2, <1>4, <2>2
      <3>2. "contended" \notin Acquiring \cup Owners \cup Engaged \cup Alive
        BY <1>2
      <3>3. QED
        BY <1>1, <2>1, <3>1, <3>2, QuietStep
    <2>3. CASE file.holder = NoId \/ Stale
      <3>1. Goto(p, "remove")
        BY <1>4, <2>3
      <3>2. /\ pc' \in [Procs -> Places]
            /\ pc'[p] = "remove"
            /\ \A q \in Procs : q # p => pc'[q] = pc[q]
        BY <1>1, <1>2, <3>1, GotoFacts
      <3>3. TypeOK'
        BY <1>1, <2>1, <3>2 DEF TypeOK, Places
      <3>4. \A q \in Procs : pc[q] \notin Owners
        BY <2>3, NoOwner
      <3>5. \A q \in Procs : q # p => pc[q] \notin Acquiring
        BY <1>1 DEF LInv
      <3>6. \A q \in Procs : q # p => pc'[q] \notin Engaged \cup Acquiring \cup {"write"}
        BY <3>2, <3>4, <3>5 DEF Engaged, Acquiring
      <3>7. \A q \in Procs : pc'[q] \notin Owners /\ pc'[q] # "write"
        BY <3>2, <3>4, <3>6 DEF Owners, Holding
      <3>8. \A q \in Procs : Stamped(q)' => Stamped(q)
        BY <1>1, <3>2 DEF Stamped
      <3>9. QED
        BY <1>1, <3>3, <3>6, <3>7, <3>8 DEF LInv
    <2>4. QED
      BY <2>2, <2>3
  <1>5. QED
    BY <1>3, <1>4 DEF Read

\* RemoveStale, and a call of Acquire that fails.
LEMMA RemovalsPreserve ==
  ASSUME LInv, NEW p \in Procs, RemoveStale(p) \/ CallFails(p)
  PROVE  LInv'
  <1>1. /\ TypeOK /\ UNCHANGED <<now, id, stamp, late>>
        /\ pc[p] \in {"create", "read", "remove"} /\ pc[p] \in Acquiring
    BY DEF LInv, RemoveStale, CallFails, Acquiring
  <1>2. /\ {"create", "exhausted", "error"} \subseteq Places \ Engaged
        /\ "error" \notin Acquiring \cup Owners \cup Engaged \cup Alive
    BY DEF Places, Alive, Ended, Acquiring, Holding, Owners, Engaged
  <1>3. CASE RemoveStale(p)
    <2>1. PICK l \in {"create", "exhausted"} : Goto(p, l)
      BY <1>3, NextAttemptFacts DEF RemoveStale
    <2>2. attempt' \in [Procs -> 0..RetryCount]
      BY <1>3, NextAttemptFacts DEF RemoveStale
    <2>3. pc[p] \in Engaged /\ file' = NoFile
      BY <1>3 DEF RemoveStale, Engaged
    <2>4. QED
      BY <1>1, <1>2, <2>1, <2>2, <2>3, LeaveStep
  <1>4. CASE CallFails(p)
    <2>1. UNCHANGED <<now, file, id, stamp, late>> /\ Goto(p, "error")
      BY <1>4 DEF CallFails
    <2>2. attempt' \in [Procs -> 0..RetryCount]
      BY <1>1, <1>4 DEF CallFails, TypeOK
    <2>3. QED
      BY <1>2, <2>1, <2>2, QuietStep
  <1>5. QED
    BY <1>3, <1>4

\* Everything an owner does, and a crash.
LEMMA OwnersPreserve ==
  ASSUME LInv, NEW p \in Procs,
         RefreshRead(p) \/ RefreshWrite(p) \/ RunEnds(p) \/ Release(p) \/ Crash(p)
  PROVE  LInv'
  <1>1. /\ TypeOK /\ UNCHANGED <<now, id, attempt, late>>
        /\ pc[p] \in Alive
        /\ attempt' \in [Procs -> 0..RetryCount]
    BY DEF LInv, TypeOK, RefreshRead, RefreshWrite, RunEnds, Release, Crash, Alive, Holding
  <1>2. /\ {"refresh", "release", "done", "crashed"} \subseteq Places
        /\ {"refresh", "release"} \subseteq Owners
        /\ Owners \subseteq Engaged
        /\ Owners \subseteq Alive \ {"enter"}
        /\ {"refresh", "release"} \cap Acquiring = {}
        /\ {"done", "crashed"} \cap (Acquiring \cup Owners \cup Engaged \cup Alive) = {}
    BY DEF Places, Alive, Ended, Acquiring, Holding, Owners, Engaged
  <1>3. ASSUME pc[p] \in Owners, UNCHANGED <<file, stamp>>,
               NEW l \in {"refresh", "release"}, Goto(p, l)
        PROVE  LInv'
    <2>1. l \in Places /\ l \notin Acquiring /\ l # "write"
          /\ pc[p] \in Engaged /\ Stamped(p)
      BY <1>2, <1>3 DEF Stamped
    <2>2. QED
      BY <1>1, <1>3, <2>1, QuietStep
  <1>4. ASSUME UNCHANGED <<file, stamp>>, NEW l \in {"done", "crashed"}, Goto(p, l)
        PROVE  LInv'
    <2>1. l \in Places /\ l \notin Acquiring \cup Owners \cup Engaged \cup Alive /\ l # "write"
      BY <1>2, <1>4
    <2>2. QED
      BY <1>1, <1>4, <2>1, QuietStep
  <1>5. CASE RefreshRead(p)
    BY <1>3, <1>5 DEF RefreshRead, Owners, Holding
  <1>6. CASE RunEnds(p)
    BY <1>3, <1>6 DEF RunEnds, Owners, Holding
  <1>7. CASE Crash(p)
    BY <1>4, <1>7 DEF Crash
  <1>8. CASE Release(p)
    <2>1. pc[p] \in Engaged /\ "done" \in Places \ Engaged /\ "done" \notin Acquiring
      BY <1>2, <1>8 DEF Release, Owners
    <2>2. file' \in Lock \cup {NoFile} /\ Goto(p, "done") /\ UNCHANGED stamp
      BY <1>1, <1>8 DEF Release, TypeOK
    <2>3. QED
      BY <1>1, <2>1, <2>2, LeaveStep
  <1>9. CASE RefreshWrite(p)
    <2>1. pc[p] \in Owners /\ pc[p] \in Engaged
      BY <1>2, <1>9 DEF RefreshWrite
    <2>2. CASE UNCHANGED <<file, stamp>> /\ Goto(p, "release")
      BY <1>3, <2>1, <2>2
    <2>3. CASE /\ file' = [creator |-> p, holder |-> id[p], time |-> now]
               /\ stamp' = [stamp EXCEPT ![p] = now]
               /\ Goto(p, "held")
      <3>1. now \in 0..MaxClock /\ id[p] \in Procs /\ stamp \in [Procs -> 0..MaxClock]
        BY <1>1 DEF TypeOK
      <3>2. /\ stamp' \in [Procs -> 0..MaxClock] /\ stamp'[p] = now
            /\ \A q \in Procs : q # p => stamp'[q] = stamp[q]
        BY <2>3, <3>1
      <3>3. stamp'[p] <= now /\ now - stamp'[p] <= MaxStall
        BY <3>1, <3>2, TimesAssumption
      <3>4. file' \in Lock /\ file'.holder = id[p] /\ file'.time = stamp'[p]
        BY <2>3, <3>1, <3>2 DEF Lock
      <3>5. QED
        BY <1>1, <2>1, <2>3, <3>2, <3>3, <3>4, HoldStep
    <2>4. QED
      BY <1>9, <2>2, <2>3 DEF RefreshWrite
  <1>10. QED
    BY <1>5, <1>6, <1>7, <1>8, <1>9

\* Time passes, but not so much that a live process becomes late.
LEMMA TickPreserves ==
  ASSUME LInv, MaxStall < Staleness, TimePasses
  PROVE  LInv'
  <1>1. TypeOK /\ now \in 0..MaxClock /\ now' = now + 1 /\ now < MaxClock
    BY DEF LInv, TypeOK, TimePasses
  <1>2. UNCHANGED <<file, pc, id, stamp, attempt>>
    BY DEF TimePasses
  <1>3. \A p \in Procs : Stamped(p) => stamp[p] <= now' /\ now' - stamp[p] <= MaxStall
    <2>1. TAKE p \in Procs
    <2>2. HAVE Stamped(p)
    <2>3. stamp[p] <= now /\ stamp[p] \in 0..MaxClock
      BY <1>1, <2>2 DEF LInv, TypeOK
    <2>4. QED
      BY <1>1, <2>2, <2>3 DEF TimePasses
  <1>4. late' = {}
    <2>1. \A p \in Procs : Stamped(p) => ~(now' - stamp[p] >= Staleness)
      <3>1. TAKE p \in Procs
      <3>2. HAVE Stamped(p)
      <3>3. now' - stamp[p] <= MaxStall /\ stamp[p] \in Int /\ now' \in Int
        BY <1>1, <1>3, <3>2 DEF TypeOK
      <3>4. QED
        BY <3>3, TimesAssumption
    <2>2. QED
      BY <2>1 DEF TimePasses, LInv
  <1>5. TypeOK'
    BY <1>1, <1>2, <1>4, TimesAssumption DEF TypeOK
  <1>6. QED
    BY <1>2, <1>3, <1>4, <1>5 DEF LInv, Stamped

LEMMA LInvStep ==
  ASSUME MaxContenders = 1, MaxStall < Staleness, LInv, [Next]_vars
  PROVE  LInv'
  <1>1. CASE TimePasses
    BY <1>1, TickPreserves
  <1>2. ASSUME NEW p \in Procs, Run(p) \/ ResumeRun(p)
        PROVE  LInv'
    BY <1>2, StartsPreserve
  <1>3. ASSUME NEW p \in Procs, Enter(p) \/ TryCreate(p) \/ Read(p)
        PROVE  LInv'
    BY <1>3, EnterPreserves, CreatePreserves, ReadPreserves
  <1>4. ASSUME NEW p \in Procs, Write(p) \/ WriteFails(p)
        PROVE  LInv'
    BY <1>4, WritesPreserve
  <1>5. ASSUME NEW p \in Procs, RemoveStale(p) \/ CallFails(p)
        PROVE  LInv'
    BY <1>5, RemovalsPreserve
  <1>6. ASSUME NEW p \in Procs,
               RefreshRead(p) \/ RefreshWrite(p) \/ RunEnds(p) \/ Release(p) \/ Crash(p)
        PROVE  LInv'
    BY <1>6, OwnersPreserve
  <1>7. CASE UNCHANGED vars
    BY <1>7 DEF vars, LInv, TypeOK, Stamped
  <1>8. QED
    BY <1>1, <1>2, <1>3, <1>4, <1>5, <1>6, <1>7 DEF Next

\* BVV-S-01: Acquire, Refresh and Release exclude a second holder as long as
\* starts on a branch are serialized and a live holder refreshes in time.
THEOREM LockExclusive ==
  ASSUME MaxContenders = 1, MaxStall < Staleness
  PROVE  Spec => []MutualExclusion
  <1>1. LInv => MutualExclusion
    BY DEF LInv, MutualExclusion, Engaged, Owners
  <1>2. LInv /\ [Next]_vars => LInv'
    BY LInvStep
  <1>3. QED
    BY <1>1, <1>2, LInvInit, PTL DEF Spec

\* BVV-L-02: under the same conditions Refresh always finds its own lock, with
\* the stamp it wrote last and younger than the threshold.
THEOREM HolderNeverLosesLock ==
  ASSUME MaxContenders = 1, MaxStall < Staleness
  PROVE  Spec => []HolderKeepsLock
  <1>1. LInv => HolderKeepsLock
    BY OwnerFile DEF LInv, HolderKeepsLock, Owners
  <1>2. LInv /\ [Next]_vars => LInv'
    BY LInvStep
  <1>3. QED
    BY <1>1, <1>2, LInvInit, PTL DEF Spec

-----------------------------------------------------------------------------
(* How often Acquire goes around its loop *)

\* A process that goes around a second time does so with the file gone, and
\* nobody is left who could create it again.
RetryInv ==
  \A p \in Procs :
    /\ pc[p] \in {"off", "enter", "read", "remove"} => attempt[p] = 0
    /\ pc[p] = "create" => attempt[p] = 0 \/ file = NoFile
    /\ pc[p] # "exhausted"

\* Only the process that acquires and a holder write to the lock's name, so to
\* a process that is about to create it a missing file stays missing.
LEMMA MissingStaysMissing ==
  ASSUME LInv, MaxStall < Staleness, Next, file = NoFile,
         NEW p \in Procs, pc[p] = "create", pc'[p] = "create"
  PROVE  file' = NoFile
  <1>1. \A q \in Procs : pc[q] \notin Owners
    BY NoOwner
  <1>2. \A q \in Procs : pc[q] \in Acquiring => q = p
    BY DEF LInv, Acquiring
  <1>3. ASSUME NEW q \in Procs, TryCreate(q) PROVE FALSE
    <2>1. q = p /\ TypeOK
      BY <1>2, <1>3 DEF TryCreate, Acquiring, LInv
    <2>2. pc'[p] \in {"write", "read"}
      BY <1>3, <2>1 DEF TryCreate, Goto, TypeOK
    <2>3. QED
      BY <2>2
  <1>4. ASSUME NEW q \in Procs, Write(q) PROVE FALSE
    BY <1>2, <1>4 DEF Write, Acquiring
  <1>5. ASSUME NEW q \in Procs, RefreshWrite(q) PROVE FALSE
    BY <1>1, <1>5 DEF RefreshWrite, Owners, Holding
  <1>6. QED
    BY <1>3, <1>4, <1>5
    DEF Next, TimePasses, Run, ResumeRun, Enter, WriteFails, Read, RemoveStale, CallFails, RefreshRead,
        RunEnds, Release, Crash

\* A step of p keeps RetryInv if it leaves p where the invariant wants it.
LEMMA RetryStep ==
  ASSUME LInv, MaxStall < Staleness, RetryInv, Next, NEW p \in Procs,
         NEW l \in Places \ {"exhausted"}, Goto(p, l),
         \A q \in Procs : q # p => attempt'[q] = attempt[q],
         l \in {"off", "enter", "read", "remove"} => attempt'[p] = 0,
         l = "create" => attempt'[p] = 0 \/ file' = NoFile
  PROVE  RetryInv'
  <1>1. /\ pc'[p] = l
        /\ \A q \in Procs : q # p => pc'[q] = pc[q]
    BY GotoFacts DEF LInv
  <1>2. \A q \in Procs : q # p /\ pc[q] = "create" /\ file = NoFile => file' = NoFile
    BY <1>1, MissingStaysMissing
  <1>3. QED
    BY <1>1, <1>2 DEF RetryInv

\* The first attempt has a successor, with the file gone.
LEMMA RetryNextAttempt ==
  ASSUME LInv, MaxStall < Staleness, RetryCount >= 1, RetryInv, Next, NEW p \in Procs,
         pc[p] \in {"read", "remove"}, NextAttempt(p), file' = NoFile
  PROVE  RetryInv'
  <1>1. attempt[p] = 0 /\ attempt[p] < RetryCount
    BY TimesAssumption DEF RetryInv
  <1>2. attempt' = [attempt EXCEPT ![p] = @ + 1] /\ Goto(p, "create")
    BY <1>1 DEF NextAttempt
  <1>3. \A q \in Procs : q # p => attempt'[q] = attempt[q]
    BY <1>2 DEF LInv, TypeOK
  <1>4. "create" \in Places \ {"exhausted"}
    BY DEF Places, Alive, Acquiring
  <1>5. QED
    BY <1>2, <1>3, <1>4, RetryStep

LEMMA RetryInvStep ==
  ASSUME MaxStall < Staleness, RetryCount >= 1, LInv, RetryInv, [Next]_vars
  PROVE  RetryInv'
  <1>1. CASE TimePasses \/ UNCHANGED vars
    BY <1>1 DEF TimePasses, vars, RetryInv
  <1>2. ASSUME Next, NEW p \in Procs, UNCHANGED attempt,
               NEW l \in Places \ {"exhausted", "create", "off"}, Goto(p, l),
               l \in {"enter", "read", "remove"} => attempt[p] = 0
        PROVE  RetryInv'
    BY <1>2, RetryStep
  <1>3. {"enter", "write", "read", "remove", "held", "refresh", "release", "done",
         "contended", "error", "crashed"} \subseteq Places \ {"exhausted", "create", "off"}
    BY DEF Places, Alive, Acquiring, Holding, Ended
  <1>4. ASSUME Next, NEW p \in Procs, Run(p) \/ ResumeRun(p) PROVE RetryInv'
    <2>1. UNCHANGED attempt /\ attempt[p] = 0
      BY <1>4 DEF Run, ResumeRun, MayStart, RetryInv
    <2>2. Goto(p, "enter") \/ Goto(p, "error")
      BY <1>4 DEF Run, ResumeRun
    <2>3. QED
      BY <1>2, <1>3, <1>4, <2>1, <2>2
  <1>5. ASSUME Next, NEW p \in Procs, Enter(p) PROVE RetryInv'
    <2>1. UNCHANGED attempt /\ attempt[p] = 0 /\ Goto(p, "create")
      BY <1>5 DEF Enter, RetryInv
    <2>2. "create" \in Places \ {"exhausted"}
      BY DEF Places, Alive, Acquiring
    <2>3. QED
      BY <1>5, <2>1, <2>2, RetryStep
  <1>6. ASSUME Next, NEW p \in Procs, TryCreate(p) PROVE RetryInv'
    <2>1. UNCHANGED attempt
      BY <1>6 DEF TryCreate
    <2>2. Goto(p, "write") \/ (Goto(p, "read") /\ attempt[p] = 0)
      BY <1>6 DEF TryCreate, RetryInv
    <2>3. QED
      BY <1>2, <1>3, <1>6, <2>1, <2>2
  <1>7. ASSUME Next, NEW p \in Procs, Read(p) PROVE RetryInv'
    <2>1. CASE file = NoFile /\ NextAttempt(p)
      <3>1. file' = NoFile /\ pc[p] = "read"
        BY <1>7, <2>1 DEF Read
      <3>2. QED
        BY <1>7, <2>1, <3>1, RetryNextAttempt
    <2>2. CASE UNCHANGED attempt /\ (Goto(p, "remove") \/ Goto(p, "contended"))
      <3>1. attempt[p] = 0
        BY <1>7 DEF Read, RetryInv
      <3>2. QED
        BY <1>2, <1>3, <1>7, <2>2, <3>1
    <2>3. QED
      BY <1>7, <2>1, <2>2 DEF Read
  <1>8. ASSUME Next, NEW p \in Procs, RemoveStale(p) PROVE RetryInv'
    BY <1>8, RetryNextAttempt DEF RemoveStale
  <1>9. ASSUME Next, NEW p \in Procs,
               \/ Write(p) \/ WriteFails(p) \/ CallFails(p) \/ RefreshRead(p)
               \/ RefreshWrite(p) \/ RunEnds(p) \/ Release(p) \/ Crash(p)
        PROVE  RetryInv'
    <2>1. UNCHANGED attempt
      BY <1>9 DEF Write, WriteFails, CallFails, RefreshRead, RefreshWrite, RunEnds, Release, Crash
    <2>2. \E l \in {"held", "error", "refresh", "release", "done", "crashed"} : Goto(p, l)
      BY <1>9 DEF Write, WriteFails, CallFails, RefreshRead, RefreshWrite, RunEnds, Release, Crash
    <2>3. QED
      BY <1>2, <1>3, <1>9, <2>1, <2>2
  <1>10. QED
    BY <1>1, <1>4, <1>5, <1>6, <1>7, <1>8, <1>9 DEF Next

\* BVV-ERR-06: with a retry count of at least one Acquire never gives up with
\* its attempts used up, whatever the previous holder left behind: abandoned,
\* half-written and just released locks are all taken over in the second round.
THEOREM AcquireNeverExhausted ==
  ASSUME MaxContenders = 1, MaxStall < Staleness
  PROVE  Spec => []OneRetryIsEnough
  <1>1. CASE RetryCount >= 1
    <2>1. RetryInv => OneRetryIsEnough
      BY DEF RetryInv, OneRetryIsEnough
    <2>2. LInv /\ [Next]_vars => LInv'
      BY LInvStep
    <2>3. LInv /\ RetryInv /\ [Next]_vars => RetryInv'
      BY <1>1, RetryInvStep
    <2>4. Init => RetryInv
      BY DEF Init, RetryInv
    <2>5. QED
      BY <2>1, <2>2, <2>3, <2>4, LInvInit, PTL DEF Spec
  <1>2. CASE ~(RetryCount >= 1)
    <2>1. OneRetryIsEnough
      BY <1>2 DEF OneRetryIsEnough
    <2>2. QED
      BY <2>1, PTL
  <1>3. QED
    BY <1>1, <1>2
=============================================================================
