----------------------- MODULE GraphValidationProofs -----------------------
(***************************************************************************)
(* ValidateLifecycleGraph is exact on every graph, of any size: its        *)
(* verdict is the first requirement the definitions of GraphValidation     *)
(* find violated, the edge it reports lies on a cycle, and a graph it      *)
(* accepts starts at the plan task and ends at the gate.                   *)
(*                                                                         *)
(* The invariant says how far each search has got.  Depth-first: what is   *)
(* black has no cycle and depends on black only; the stack is the gray     *)
(* path, each entry depending on all before it; a dependency already       *)
(* looked at is black or the next entry.  Breadth-first: what is reached   *)
(* is really connected, and what is reached and no longer queued has had   *)
(* all its neighbours reached.                                             *)
(***************************************************************************)
EXTENDS GraphValidation, SequenceTheorems, TLAPS

\* The roles are in order: the rest of the validation depends on them.
RolesOK ==
  /\ \E p \in Nodes : Planners = {p}
  /\ \A t \in Nodes : role[t] # "unrecognized"

Black == {t \in Nodes : color[t] = "black"}

\* Every set of black tasks has one that depends on no other of the set.
BlackSorted ==
  \A S \in SUBSET Nodes : (S # {} /\ S \subseteq Black) => \E x \in S : Forward(x) \cap S = {}

BlackClosed == \A t \in Black : Forward(t) \subseteq Black

\* The gray tasks are those on the stack, each there once.
GrayStack ==
  /\ \A i \in 1..Len(stack) : color[stack[i]] = "gray"
  /\ \A t \in Nodes : color[t] = "gray" => \E i \in 1..Len(stack) : stack[i] = t
  /\ \A i, j \in 1..Len(stack) : stack[i] = stack[j] => i = j

\* The stack is a path of dependencies.
StackPath ==
  /\ \A i \in 1..Len(stack) : i + 1 \in 1..Len(stack) => stack[i+1] \in Forward(stack[i])
  /\ \A i, j \in 1..Len(stack) : i <= j => DependsOn(stack[i], stack[j])

\* What a visit has looked at is done, or is being visited by the next call.
LookedAt ==
  /\ \A t \in Nodes : rest[t] \subseteq Forward(t)
  /\ \A t \in Nodes : color[t] = "white" => rest[t] = Forward(t)
  /\ \A i \in 1..Len(stack) : \A d \in Forward(stack[i]) \ rest[stack[i]] :
       d \in Black \/ (i + 1 \in 1..Len(stack) /\ d = stack[i+1])

DfsInv == BlackSorted /\ BlackClosed /\ GrayStack /\ StackPath /\ LookedAt

ForwardInv ==
  \E g \in Nodes :
    /\ Gates = {g}
    /\ g \in reached /\ queue \subseteq reached
    /\ \A t \in reached : DependsOn(g, t)
    /\ \A t \in reached \ queue : Forward(t) \subseteq reached

ReverseInv ==
  \E p \in Nodes :
    /\ Planners = {p}
    /\ p \in reached /\ queue \subseteq reached
    /\ \A t \in reached : DependsOn(t, p)
    /\ \A t \in reached \ queue : Backward(t) \subseteq reached

\* How far the validation has got.
VInv ==
  /\ GvTypeOK
  /\ check # "done" => verdict = "none"
  /\ check = "roles" => stack = <<>> /\ \A t \in Nodes : color[t] = "white"
  /\ check \in {"cycle", "gates", "verifiers", "orphans"} => RolesOK
  /\ check = "cycle" => DfsInv
  /\ check \in {"gates", "verifiers", "orphans"} => Acyclic
  /\ check = "verifiers" => ForwardInv
  /\ check = "orphans" => WellGated /\ ReverseInv
  /\ check = "done" => VerdictExact

-----------------------------------------------------------------------------
(* Facts about the definitions *)

\* No step changes the graph, so none changes what is said of it.
LEMMA GraphKept ==
  ASSUME UNCHANGED input
  PROVE  /\ Planners' = Planners /\ Gates' = Gates /\ Verifiers' = Verifiers
         /\ \A t : Forward(t)' = Forward(t)
         /\ \A t : Backward(t)' = Backward(t)
         /\ \A a, b : DependsOn(a, b)' = DependsOn(a, b)
         /\ Acyclic' = Acyclic /\ WellGated' = WellGated /\ Rooted' = Rooted
         /\ RolesOK' = RolesOK /\ Expected' = Expected
  <1>1. role' = role /\ deps' = deps
    BY DEF input
  <1>2. Planners' = Planners /\ Gates' = Gates /\ Verifiers' = Verifiers
    BY <1>1 DEF Planners, Gates, Verifiers
  <1>3. \A t : Forward(t)' = Forward(t)
    BY <1>1 DEF Forward
  <1>4. \A t : Backward(t)' = Backward(t)
    BY <1>3 DEF Backward
  <1>5. \A S : Closed(S)' = Closed(S)
    BY <1>3 DEF Closed
  <1>6. \A a, b : DependsOn(a, b)' = DependsOn(a, b)
    BY <1>5 DEF DependsOn
  <1>7. Acyclic' = Acyclic
    BY <1>3 DEF Acyclic
  <1>8. WellGated' = WellGated /\ Rooted' = Rooted
    BY <1>1, <1>2, <1>6 DEF WellGated, Rooted
  <1>9. RolesOK' = RolesOK
    BY <1>1, <1>2 DEF RolesOK
  <1>10. Expected' = Expected
    BY <1>1, <1>2, <1>7, <1>8 DEF Expected
  <1>11. QED
    BY <1>2, <1>3, <1>4, <1>6, <1>7, <1>8, <1>9, <1>10

\* With the roles in order, what is expected is decided by the graph.
LEMMA ExpectedOfGraph ==
  ASSUME RolesOK
  PROVE  Expected = IF ~Acyclic THEN "TG-08"
                    ELSE IF ~WellGated THEN "TG-09"
                    ELSE IF ~Rooted THEN "TG-10" ELSE "valid"
  <1>1. Planners # {}
    BY DEF RolesOK
  <1>2. \E p \in Nodes : Planners = {p}
    BY DEF RolesOK
  <1>3. ~ \E t \in Nodes : role[t] = "unrecognized"
    BY DEF RolesOK
  <1>4. QED
    BY <1>1, <1>2, <1>3 DEF Expected

LEMMA DependsOnSelf ==
  ASSUME NEW a \in Nodes
  PROVE  DependsOn(a, a)
  BY DEF DependsOn

\* One more dependency at the far end, and one more at the near end.
LEMMA DependsOnNext ==
  ASSUME NEW a, NEW b, NEW d, DependsOn(a, b), d \in Forward(b)
  PROVE  DependsOn(a, d)
  BY DEF DependsOn, Closed

LEMMA DependsOnPrevious ==
  ASSUME NEW a, NEW b, NEW d, DependsOn(b, d), b \in Forward(a)
  PROVE  DependsOn(a, d)
  BY DEF DependsOn, Closed

LEMMA ForwardTasks ==
  ASSUME NEW t
  PROVE  Forward(t) \subseteq Nodes
  BY DEF Forward

-----------------------------------------------------------------------------
(* GvInit *)

LEMMA InitVInv == GvInit => VInv
  <1> SUFFICES ASSUME GvInit PROVE VInv
    OBVIOUS
  <1>1. PICK in \in Inputs : role = in.role /\ deps = in.deps
    BY DEF GvInit
  <1>2. role \in [Nodes -> Role] /\ deps \in [Nodes -> SUBSET (Nodes \cup Foreign)]
    BY <1>1, InputsAssumption
  <1>3. stack = <<>> /\ cycle = <<>> /\ stack \in Seq(Nodes) /\ cycle \in Seq(Nodes)
    BY DEF GvInit
  <1>4. GvTypeOK
    BY <1>2, <1>3 DEF GvInit, GvTypeOK
  <1>5. QED
    BY <1>3, <1>4 DEF GvInit, VInv

-----------------------------------------------------------------------------
(* The role checks *)

LEMMA CheckRolesVInv ==
  ASSUME VInv, CheckRoles
  PROVE  VInv'
  <1> USE DEF CheckRoles, Answer
  <1>0. UNCHANGED input /\ UNCHANGED <<color, stack, cycle, reached, queue>>
    BY DEF bfs
  <1>1. GvTypeOK'
    <2>2. rest' \in [Nodes -> SUBSET Nodes]
      BY ForwardTasks DEF VInv, GvTypeOK
    <2>3. QED
      BY <1>0, <2>2 DEF VInv, GvTypeOK, input
  <1>2. CASE Planners = {} /\ check' = "done" /\ verdict' = "valid"
    <2>1. Expected = "valid"
      BY <1>2 DEF Expected
    <2>2. VerdictExact'
      BY <1>0, <1>2, <2>1, GraphKept DEF VerdictExact, CycleReal
    <2>3. QED
      BY <1>1, <1>2, <2>2 DEF VInv
  <1>3. CASE /\ Planners # {} /\ ~ \E p \in Nodes : Planners = {p}
             /\ check' = "done" /\ verdict' = "TG-10"
    <2>1. Expected = "TG-10"
      BY <1>3 DEF Expected
    <2>2. VerdictExact'
      BY <1>0, <1>3, <2>1, GraphKept DEF VerdictExact, CycleReal
    <2>3. QED
      BY <1>1, <1>3, <2>2 DEF VInv
  <1>4. CASE /\ \E p \in Nodes : Planners = {p}
             /\ \E t \in Nodes : role[t] = "unrecognized"
             /\ check' = "done" /\ verdict' = "TG-07"
    <2>1. Expected = "TG-07"
      BY <1>4 DEF Expected
    <2>2. VerdictExact'
      BY <1>0, <1>4, <2>1, GraphKept DEF VerdictExact, CycleReal
    <2>3. QED
      BY <1>1, <1>4, <2>2 DEF VInv
  <1>5. CASE /\ \E p \in Nodes : Planners = {p}
             /\ \A t \in Nodes : role[t] # "unrecognized"
             /\ rest' = [t \in Nodes |-> Forward(t)]
             /\ check' = "cycle"
             /\ UNCHANGED verdict
    <2>1. stack' = <<>> /\ Len(stack') = 0 /\ \A t \in Nodes : color'[t] = "white"
      BY <1>0 DEF VInv
    <2>2. Black' = {}
      BY <2>1 DEF Black
    <2>3. BlackSorted' /\ BlackClosed'
      BY <2>2 DEF BlackSorted, BlackClosed
    <2>4. GrayStack' /\ StackPath'
      BY <2>1 DEF GrayStack, StackPath
    <2>5. LookedAt'
      BY <1>0, <1>5, <2>1, GraphKept DEF LookedAt
    <2>6. RolesOK'
      BY <1>0, <1>5, GraphKept DEF RolesOK
    <2>7. QED
      BY <1>1, <1>5, <2>3, <2>4, <2>5, <2>6 DEF VInv, DfsInv
  <1>6. CASE check' = "done" /\ verdict' = "store"
    BY <1>1, <1>6 DEF VInv, VerdictExact, CycleReal
  <1>7. QED
    BY <1>2, <1>3, <1>4, <1>5, <1>6

-----------------------------------------------------------------------------
(* firstCycle *)

LEMMA StartVInv ==
  ASSUME VInv, VisitRoot
  PROVE  VInv'
  <1>0. /\ check = "cycle" /\ stack = <<>> /\ GvTypeOK /\ RolesOK /\ DfsInv
        /\ UNCHANGED input /\ UNCHANGED <<check, rest, cycle, reached, queue, verdict>>
    BY DEF VisitRoot, VInv, bfs
  <1>1. PICK t \in White : color' = [color EXCEPT ![t] = "gray"] /\ stack' = <<t>>
    BY DEF VisitRoot
  <1>2. t \in Nodes /\ color[t] = "white"
    BY <1>1 DEF White
  <1>3. stack' \in Seq(Nodes) /\ Len(stack') = 1 /\ stack'[1] = t
    BY <1>1, <1>2
  <1>4. \A u \in Nodes : color'[u] = IF u = t THEN "gray" ELSE color[u]
    BY <1>0, <1>1 DEF GvTypeOK
  <1>5. GvTypeOK'
    BY <1>0, <1>1, <1>2, <1>3 DEF GvTypeOK, input
  <1>6. Black' = Black
    BY <1>2, <1>4 DEF Black
  <1>7. BlackSorted' /\ BlackClosed'
    BY <1>0, <1>6, GraphKept DEF DfsInv, BlackSorted, BlackClosed
  <1>8. \A u \in Nodes : color[u] # "gray"
    BY <1>0 DEF DfsInv, GrayStack
  <1>9. GrayStack'
    BY <1>2, <1>3, <1>4, <1>8 DEF GrayStack
  <1>10. StackPath'
    <2>1. DependsOn(t, t)'
      BY <1>0, <1>2, GraphKept, DependsOnSelf
    <2>2. QED
      BY <1>3, <2>1 DEF StackPath
  <1>11. LookedAt'
    <2>1. rest[t] = Forward(t)
      BY <1>0, <1>2 DEF DfsInv, LookedAt
    <2>2. QED
      BY <1>0, <1>2, <1>3, <1>4, <2>1, GraphKept DEF DfsInv, LookedAt
  <1>12. QED
    BY <1>0, <1>5, <1>7, <1>9, <1>10, <1>11, GraphKept DEF VInv, DfsInv

\* The entry on top of the stack.
LEMMA TopOfStack ==
  ASSUME GvTypeOK, stack # <<>>
  PROVE  Len(stack) \in Nat /\ Len(stack) >= 1 /\ stack[Len(stack)] \in Nodes
  BY EmptySeq, LenProperties, ElementOfSeq DEF GvTypeOK

\* A gray dependency is on the stack, and closes a cycle from there to the top.
LEMMA GrayIsCycle ==
  ASSUME GvTypeOK, DfsInv, stack # <<>>,
         NEW d \in rest[stack[Len(stack)]], color[d] = "gray"
  PROVE  /\ d \in Forward(stack[Len(stack)])
         /\ DependsOn(d, stack[Len(stack)])
         /\ ~Acyclic
  <1> DEFINE n == Len(stack)
             x == stack[n]
  <1>1. n \in Nat /\ n >= 1 /\ x \in Nodes
    BY TopOfStack
  <1>2. d \in Forward(x) /\ d \in Nodes
    BY <1>1, ForwardTasks DEF DfsInv, LookedAt
  <1>3. PICK j \in 1..n : stack[j] = d
    BY <1>2 DEF DfsInv, GrayStack
  <1>4. DependsOn(d, x)
    BY <1>1, <1>3 DEF DfsInv, StackPath
  <1>5. ~Acyclic
    <2> DEFINE S == {stack[k] : k \in j..n}
    <2>1. S \in SUBSET Nodes
      BY <1>1, ElementOfSeq DEF GvTypeOK
    <2>2. S # {}
      <3>1. j \in j..n
        BY <1>1, <1>3
      <3>2. stack[j] \in S
        BY <3>1
      <3>3. QED
        BY <3>2
    <2>3. ASSUME NEW k \in j..n
          PROVE  Forward(stack[k]) \cap S # {}
      <3>1. CASE k = n
        BY <1>1, <1>2, <1>3, <3>1
      <3>2. CASE k # n
        <4>1. k \in 1..n /\ k + 1 \in 1..n /\ k + 1 \in j..n
          BY <1>1, <1>3, <2>3, <3>2
        <4>2. stack[k+1] \in Forward(stack[k])
          BY <4>1 DEF DfsInv, StackPath
        <4>3. QED
          BY <4>1, <4>2
      <3>3. QED
        BY <3>1, <3>2
    <2>4. \A y \in S : Forward(y) \cap S # {}
      BY <2>3
    <2> HIDE DEF S
    <2>5. QED
      BY <2>1, <2>2, <2>4 DEF Acyclic
  <1>6. QED
    BY <1>2, <1>4, <1>5

LEMMA VisitVInv ==
  ASSUME VInv, Visit
  PROVE  VInv'
  <1> DEFINE n == Len(stack)
             x == stack[n]
  <1>0. /\ check = "cycle" /\ stack # <<>> /\ GvTypeOK /\ RolesOK /\ DfsInv /\ verdict = "none"
        /\ UNCHANGED input /\ UNCHANGED <<reached, queue>>
    BY DEF Visit, VInv, bfs
  <1>1. n \in Nat /\ n >= 1 /\ x \in Nodes
    BY <1>0, TopOfStack
  <1>2. PICK d \in rest[x] :
          /\ rest' = [rest EXCEPT ![x] = @ \ {d}]
          /\ \/ /\ color[d] = "gray" /\ cycle' = <<x, d>> /\ Answer("TG-08")
                /\ UNCHANGED <<color, stack>>
             \/ /\ color[d] = "white" /\ color' = [color EXCEPT ![d] = "gray"]
                /\ stack' = Append(stack, d) /\ UNCHANGED <<check, cycle, verdict>>
             \/ /\ color[d] = "black" /\ UNCHANGED <<check, color, stack, cycle, verdict>>
    BY DEF Visit
  <1>3. d \in Nodes /\ d \in Forward(x)
    BY <1>0, <1>1, <1>2, ForwardTasks DEF DfsInv, LookedAt
  <1>4. /\ rest' \in [Nodes -> SUBSET Nodes]
        /\ \A t \in Nodes : rest'[t] = IF t = x THEN rest[x] \ {d} ELSE rest[t]
    BY <1>0, <1>1, <1>2 DEF GvTypeOK
  <1>5. CASE color[d] = "gray" /\ cycle' = <<x, d>> /\ Answer("TG-08")
             /\ UNCHANGED <<color, stack>>
    <2>1. cycle' \in Seq(Nodes) /\ cycle'[1] = x /\ cycle'[2] = d
      BY <1>1, <1>3, <1>5
    <2>2. GvTypeOK'
      BY <1>0, <1>4, <1>5, <2>1 DEF GvTypeOK, Answer, input
    <2>3. DependsOn(d, x) /\ ~Acyclic
      BY <1>0, <1>5, GrayIsCycle
    <2>4. Expected = "TG-08"
      BY <1>0, <2>3, ExpectedOfGraph
    <2>5. CycleReal'
      <3>1. d \in Forward(x)' /\ DependsOn(d, x)'
        BY <1>0, <1>3, <1>5, <2>3, GraphKept
      <3>2. (cycle[2] \in Forward(cycle[1]) /\ DependsOn(cycle[2], cycle[1]))'
        BY <2>1, <3>1, <1>3, <1>0, <2>3, <1>5 DEF Forward, DependsOn, Closed, input
      <3>3. QED
        BY <3>2 DEF CycleReal
    <2>6. VerdictExact'
      BY <1>0, <1>5, <2>4, <2>5, GraphKept DEF VerdictExact, Answer
    <2>7. QED
      BY <1>5, <2>2, <2>6 DEF VInv, Answer
  <1>6. CASE color[d] = "white" /\ color' = [color EXCEPT ![d] = "gray"]
             /\ stack' = Append(stack, d) /\ UNCHANGED <<check, cycle, verdict>>
    <2>1. /\ stack' \in Seq(Nodes) /\ Len(stack') = n + 1
          /\ \A i \in 1..n : stack'[i] = stack[i]
          /\ stack'[n+1] = d
      BY <1>0, <1>3, <1>6, AppendProperties DEF GvTypeOK
    <2>2. \A u \in Nodes : color'[u] = IF u = d THEN "gray" ELSE color[u]
      BY <1>0, <1>3, <1>6 DEF GvTypeOK
    <2>3. GvTypeOK'
      BY <1>0, <1>3, <1>4, <1>6, <2>1 DEF GvTypeOK, input
    <2>4. Black' = Black
      BY <1>3, <1>6, <2>2 DEF Black
    <2>5. BlackSorted' /\ BlackClosed'
      BY <1>0, <2>4, GraphKept DEF DfsInv, BlackSorted, BlackClosed
    <2>6. \A i \in 1..n : stack[i] \in Nodes /\ color[stack[i]] = "gray" /\ stack[i] # d
      BY <1>0, <1>6, ElementOfSeq DEF DfsInv, GrayStack, GvTypeOK
    <2>7. GrayStack'
      <3>1. \A i \in 1..n+1 : color'[stack'[i]] = "gray"
        <4> TAKE i \in 1..n+1
        <4>1. CASE i \in 1..n
          BY <2>1, <2>2, <2>6, <4>1
        <4>2. CASE i = n + 1
          BY <1>3, <2>1, <2>2, <4>2
        <4>3. QED
          BY <1>1, <4>1, <4>2
      <3>2. \A t \in Nodes : color'[t] = "gray" => \E i \in 1..n+1 : stack'[i] = t
        <4> SUFFICES ASSUME NEW t \in Nodes, color'[t] = "gray"
                     PROVE  \E i \in 1..n+1 : stack'[i] = t
          OBVIOUS
        <4>1. CASE t = d
          BY <1>1, <2>1, <4>1
        <4>2. CASE t # d
          <5>1. color[t] = "gray"
            BY <2>2, <4>2
          <5>2. PICK i \in 1..n : stack[i] = t
            BY <1>0, <5>1 DEF DfsInv, GrayStack
          <5>3. i \in 1..n+1 /\ stack'[i] = t
            BY <1>1, <2>1, <5>2
          <5>4. QED
            BY <5>3
        <4>3. QED
          BY <4>1, <4>2
      <3>3. \A i, j \in 1..n+1 : stack'[i] = stack'[j] => i = j
        <4> TAKE i, j \in 1..n+1
        <4>1. CASE i \in 1..n /\ j \in 1..n
          BY <1>0, <2>1, <4>1 DEF DfsInv, GrayStack
        <4>2. CASE i = n + 1 \/ j = n + 1
          BY <1>1, <2>1, <2>6, <4>2
        <4>3. QED
          BY <1>1, <4>1, <4>2
      <3>4. QED
        BY <2>1, <3>1, <3>2, <3>3 DEF GrayStack
    <2>8. StackPath'
      <3>1. \A i \in 1..n+1 : i + 1 \in 1..n+1 => stack'[i+1] \in Forward(stack'[i])
        <4> SUFFICES ASSUME NEW i \in 1..n+1, i + 1 \in 1..n+1
                     PROVE  stack'[i+1] \in Forward(stack'[i])
          OBVIOUS
        <4>1. CASE i = n
          BY <1>1, <1>3, <2>1, <4>1
        <4>2. CASE i # n
          <5>1. i \in 1..n /\ i + 1 \in 1..n
            BY <1>1, <4>2
          <5>2. stack[i+1] \in Forward(stack[i])
            BY <1>0, <5>1 DEF DfsInv, StackPath
          <5>3. QED
            BY <2>1, <5>1, <5>2
        <4>3. QED
          BY <4>1, <4>2
      <3>2. \A i, j \in 1..n+1 : i <= j => DependsOn(stack'[i], stack'[j])
        <4> SUFFICES ASSUME NEW i \in 1..n+1, NEW j \in 1..n+1, i <= j
                     PROVE  DependsOn(stack'[i], stack'[j])
          OBVIOUS
        <4>1. CASE j \in 1..n
          <5>1. i \in 1..n
            BY <1>1, <4>1
          <5>2. QED
            BY <1>0, <2>1, <4>1, <5>1 DEF DfsInv, StackPath
        <4>2. CASE j = n + 1 /\ i \in 1..n
          <5>1. DependsOn(stack[i], x)
            BY <1>0, <1>1, <4>2 DEF DfsInv, StackPath
          <5>2. DependsOn(stack[i], d)
            BY <1>3, <5>1, DependsOnNext
          <5>3. QED
            BY <2>1, <4>2, <5>2
        <4>3. CASE i = n + 1 /\ j = n + 1
          BY <1>3, <2>1, <4>3, DependsOnSelf
        <4>4. QED
          BY <1>1, <4>1, <4>2, <4>3
      <3>3. QED
        BY <1>0, <2>1, <3>1, <3>2, GraphKept DEF StackPath
    <2>9. LookedAt'
      <3>1. \A t \in Nodes : rest'[t] \subseteq Forward(t)
        BY <1>0, <1>4 DEF DfsInv, LookedAt
      <3>2. color[x] = "gray" /\ \A t \in Nodes : color'[t] = "white" => color[t] = "white" /\ t # x
        BY <1>1, <2>2, <2>6
      <3>3. \A t \in Nodes : color'[t] = "white" => rest'[t] = Forward(t)
        BY <1>0, <1>4, <3>2 DEF DfsInv, LookedAt
      <3>4. ASSUME NEW i \in 1..n+1, NEW e \in Forward(stack'[i]) \ rest'[stack'[i]]
            PROVE  e \in Black \/ (i + 1 \in 1..n+1 /\ e = stack'[i+1])
        <4>1. CASE i = n + 1
          <5>1. rest'[d] = Forward(d)
            BY <1>0, <1>3, <1>4, <1>6, <3>2 DEF DfsInv, LookedAt
          <5>2. QED
            BY <2>1, <3>4, <4>1, <5>1
        <4>2. CASE i = n
          <5>1. stack'[i] = x /\ stack'[i+1] = d /\ i + 1 \in 1..n+1
            BY <1>1, <2>1, <4>2
          <5>2. e = d \/ e \in Forward(x) \ rest[x]
            BY <1>1, <1>4, <3>4, <5>1
          <5>3. e \in Forward(x) \ rest[x] => e \in Black
            BY <1>0, <1>1, <4>2 DEF DfsInv, LookedAt
          <5>4. QED
            BY <5>1, <5>2, <5>3
        <4>3. CASE i \in 1..n /\ i # n
          <5>1. i + 1 \in 1..n /\ i + 1 \in 1..n+1 /\ stack'[i] = stack[i] /\ stack'[i+1] = stack[i+1]
            BY <1>1, <2>1, <4>3
          <5>2. stack[i] \in Nodes /\ stack[i] # x
            BY <1>0, <1>1, <2>6, <4>3 DEF DfsInv, GrayStack
          <5>3. e \in Forward(stack[i]) \ rest[stack[i]]
            BY <1>4, <3>4, <5>1, <5>2
          <5>4. QED
            BY <1>0, <4>3, <5>1, <5>3 DEF DfsInv, LookedAt
        <4>4. QED
          BY <1>1, <4>1, <4>2, <4>3
      <3>5. QED
        BY <1>0, <2>1, <2>4, <3>1, <3>3, <3>4, GraphKept DEF LookedAt
    <2>10. QED
      BY <1>0, <1>6, <2>3, <2>5, <2>7, <2>8, <2>9, GraphKept DEF VInv, DfsInv
  <1>7. CASE color[d] = "black" /\ UNCHANGED <<check, color, stack, cycle, verdict>>
    <2>1. GvTypeOK'
      BY <1>0, <1>4, <1>7 DEF GvTypeOK, input
    <2>2. Black' = Black /\ d \in Black
      BY <1>3, <1>7 DEF Black
    <2>3. BlackSorted' /\ BlackClosed'
      BY <1>0, <2>2, GraphKept DEF DfsInv, BlackSorted, BlackClosed
    <2>4. GrayStack'
      BY <1>0, <1>7 DEF DfsInv, GrayStack
    <2>5. StackPath'
      BY <1>0, <1>7, GraphKept DEF DfsInv, StackPath
    <2>6. LookedAt'
      <3>1. color[x] = "gray"
        BY <1>0, <1>1 DEF DfsInv, GrayStack
      <3>2. \A t \in Nodes : rest'[t] \subseteq Forward(t)
        BY <1>0, <1>4 DEF DfsInv, LookedAt
      <3>3. \A t \in Nodes : color'[t] = "white" => rest'[t] = Forward(t)
        BY <1>0, <1>4, <1>7, <3>1 DEF DfsInv, LookedAt
      <3>4. ASSUME NEW i \in 1..n, NEW e \in Forward(stack[i]) \ rest'[stack[i]]
            PROVE  e \in Black \/ (i + 1 \in 1..n /\ e = stack[i+1])
        <4>1. stack[i] \in Nodes
          BY <1>0, ElementOfSeq DEF GvTypeOK
        <4>2. e = d \/ e \in Forward(stack[i]) \ rest[stack[i]]
          BY <1>1, <1>4, <3>4, <4>1
        <4>3. QED
          BY <1>0, <2>2, <4>2 DEF DfsInv, LookedAt
      <3>5. QED
        BY <1>0, <1>7, <2>2, <3>2, <3>3, <3>4, GraphKept DEF LookedAt
    <2>7. QED
      BY <1>0, <1>7, <2>1, <2>3, <2>4, <2>5, <2>6, GraphKept DEF VInv, DfsInv
  <1>8. QED
    BY <1>2, <1>5, <1>6, <1>7

LEMMA FinishVInv ==
  ASSUME VInv, VisitReturns
  PROVE  VInv'
  <1> DEFINE n == Len(stack)
             x == stack[n]
  <1>0. /\ check = "cycle" /\ stack # <<>> /\ GvTypeOK /\ RolesOK /\ DfsInv
        /\ UNCHANGED input /\ UNCHANGED <<check, rest, cycle, reached, queue, verdict>>
        /\ rest[x] = {} /\ color' = [color EXCEPT ![x] = "black"]
        /\ stack' = SubSeq(stack, 1, n - 1)
    BY DEF VisitReturns, VInv, bfs
  <1>1. n \in Nat /\ n >= 1 /\ x \in Nodes
    BY <1>0, TopOfStack
  <1>2. /\ stack' \in Seq(Nodes) /\ Len(stack') = n - 1
        /\ \A i \in 1..n-1 : stack'[i] = stack[i]
    <2>1. 1 \in Int /\ n - 1 \in Int /\ \A i \in 1..n-1 : stack[i] \in Nodes
      BY <1>0, <1>1, ElementOfSeq DEF GvTypeOK
    <2>2. /\ SubSeq(stack, 1, n-1) \in Seq(Nodes)
          /\ Len(SubSeq(stack, 1, n-1)) = IF 1 <= n-1 THEN n-1-1+1 ELSE 0
          /\ \A i \in 1..n-1-1+1 : SubSeq(stack, 1, n-1)[i] = stack[1+i-1]
      BY <2>1, SubSeqProperties
    <2>3. n-1-1+1 = n-1 /\ (IF 1 <= n-1 THEN n-1-1+1 ELSE 0) = n-1
      <3>1. \A k \in Nat : k >= 1 => k-1-1+1 = k-1 /\ (IF 1 <= k-1 THEN k-1-1+1 ELSE 0) = k-1
        OBVIOUS
      <3>2. QED
        BY <1>1, <3>1
    <2>4. \A i \in 1..n-1 : 1+i-1 = i
      BY <1>1
    <2>5. Len(stack') = n - 1
      BY <1>0, <2>2, <2>3
    <2>6. QED
      BY <1>0, <2>2, <2>3, <2>4, <2>5
  <1>3. \A u \in Nodes : color'[u] = IF u = x THEN "black" ELSE color[u]
    BY <1>0, <1>1 DEF GvTypeOK
  <1>4. GvTypeOK'
    BY <1>0, <1>1, <1>2 DEF GvTypeOK, input
  <1>5. color[x] = "gray" /\ x \notin Black
    BY <1>0, <1>1 DEF DfsInv, GrayStack, Black
  <1>6. Black' = Black \cup {x}
    BY <1>1, <1>3 DEF Black
  <1>7. Forward(x) \subseteq Black
    <2>1. n + 1 \notin 1..n /\ n \in 1..n
      BY <1>1
    <2>2. QED
      BY <1>0, <2>1 DEF DfsInv, LookedAt
  <1>8. BlackClosed'
    BY <1>0, <1>6, <1>7, GraphKept DEF DfsInv, BlackClosed
  <1>9. BlackSorted'
    <2> SUFFICES ASSUME NEW S \in SUBSET Nodes, S # {}, S \subseteq Black \cup {x}
                 PROVE  \E y \in S : Forward(y) \cap S = {}
      BY <1>0, <1>6, GraphKept DEF BlackSorted
    <2>1. CASE S \ {x} = {}
      BY <1>5, <1>7, <2>1
    <2>2. CASE S \ {x} # {}
      <3>1. S \ {x} \in SUBSET Nodes /\ S \ {x} \subseteq Black
        OBVIOUS
      <3>2. PICK y \in S \ {x} : Forward(y) \cap (S \ {x}) = {}
        BY <1>0, <2>2, <3>1 DEF DfsInv, BlackSorted
      <3>3. Forward(y) \subseteq Black
        BY <1>0, <3>1, <3>2 DEF DfsInv, BlackClosed
      <3>4. QED
        BY <1>5, <3>2, <3>3
    <2>3. QED
      BY <2>1, <2>2
  <1>10. \A i \in 1..n-1 : stack[i] \in Nodes /\ stack[i] # x /\ i \in 1..n
    BY <1>0, <1>1, ElementOfSeq DEF DfsInv, GrayStack, GvTypeOK
  <1>11. GrayStack'
    <2>1. \A i \in 1..n-1 : color'[stack'[i]] = "gray"
      BY <1>0, <1>2, <1>3, <1>10 DEF DfsInv, GrayStack
    <2>2. ASSUME NEW t \in Nodes, color'[t] = "gray"
          PROVE  \E i \in 1..n-1 : stack'[i] = t
      <3>1. t # x /\ color[t] = "gray"
        BY <1>3, <2>2
      <3>2. PICK i \in 1..n : stack[i] = t
        BY <1>0, <3>1 DEF DfsInv, GrayStack
      <3>3. i \in 1..n-1
        BY <1>1, <3>1, <3>2
      <3>4. QED
        BY <1>2, <3>2, <3>3
    <2>3. \A i, j \in 1..n-1 : stack'[i] = stack'[j] => i = j
      BY <1>0, <1>2, <1>10 DEF DfsInv, GrayStack
    <2>4. QED
      BY <1>2, <2>1, <2>2, <2>3 DEF GrayStack
  <1>12. StackPath'
    <2>1. \A i \in 1..n-1 : i + 1 \in 1..n-1 => stack'[i+1] \in Forward(stack'[i])
      BY <1>0, <1>2, <1>10 DEF DfsInv, StackPath
    <2>2. \A i, j \in 1..n-1 : i <= j => DependsOn(stack'[i], stack'[j])
      BY <1>0, <1>2, <1>10 DEF DfsInv, StackPath
    <2>3. QED
      BY <1>0, <1>2, <2>1, <2>2, GraphKept DEF StackPath
  <1>13. LookedAt'
    <2>1. \A t \in Nodes : rest'[t] \subseteq Forward(t)
      BY <1>0 DEF DfsInv, LookedAt
    <2>2. \A t \in Nodes : color'[t] = "white" => rest'[t] = Forward(t)
      BY <1>0, <1>3 DEF DfsInv, LookedAt
    <2>3. ASSUME NEW i \in 1..n-1, NEW e \in Forward(stack[i]) \ rest[stack[i]]
          PROVE  e \in Black \cup {x} \/ (i + 1 \in 1..n-1 /\ e = stack[i+1])
      <3>1. e \in Black \/ (i + 1 \in 1..n /\ e = stack[i+1])
        BY <1>0, <1>10, <2>3 DEF DfsInv, LookedAt
      <3>2. i + 1 = n \/ i + 1 \in 1..n-1
        BY <1>1
      <3>3. QED
        BY <3>1, <3>2
    <2>4. ASSUME NEW i \in 1..n-1, i + 1 \in 1..n-1
          PROVE  stack'[i+1] = stack[i+1]
      BY <1>2, <2>4
    <2>5. QED
      BY <1>0, <1>2, <1>6, <2>1, <2>2, <2>3, <2>4, GraphKept DEF LookedAt
  <1>14. QED
    BY <1>0, <1>4, <1>8, <1>9, <1>11, <1>12, <1>13, GraphKept DEF VInv, DfsInv

LEMMA NoCycleVInv ==
  ASSUME VInv, NoCycle
  PROVE  VInv'
  <1>0. /\ check = "cycle" /\ stack = <<>> /\ White = {} /\ GvTypeOK /\ RolesOK /\ DfsInv
        /\ verdict = "none" /\ check' = "gates" /\ UNCHANGED input
        /\ UNCHANGED <<color, stack, rest, cycle, reached, queue, verdict>>
    BY DEF NoCycle, VInv, dfs, bfs
  <1>1. Black = Nodes
    <2>1. Len(stack) = 0
      BY <1>0
    <2>2. \A t \in Nodes : color[t] # "gray" /\ color[t] # "white"
      BY <1>0, <2>1 DEF DfsInv, GrayStack, White
    <2>3. QED
      BY <1>0, <2>2 DEF Black, GvTypeOK
  <1>2. Acyclic
    BY <1>0, <1>1 DEF DfsInv, BlackSorted, Acyclic
  <1>3. GvTypeOK'
    BY <1>0 DEF GvTypeOK, input
  <1>4. QED
    BY <1>0, <1>2, <1>3, GraphKept DEF VInv

-----------------------------------------------------------------------------
(* bfsReach *)

LEMMA CheckGatesVInv ==
  ASSUME VInv, CheckGates
  PROVE  VInv'
  <1>0. /\ check = "gates" /\ GvTypeOK /\ RolesOK /\ Acyclic /\ verdict = "none"
        /\ UNCHANGED input /\ UNCHANGED <<color, stack, rest, cycle>>
    BY DEF CheckGates, VInv, dfs
  <1>1. CASE ~(\E g \in Nodes : Gates = {g}) /\ check' = "done" /\ verdict' = "TG-09"
             /\ UNCHANGED <<reached, queue>>
    <2>1. ~WellGated
      BY <1>1 DEF WellGated
    <2>2. Expected = "TG-09"
      BY <1>0, <2>1, ExpectedOfGraph
    <2>3. VerdictExact'
      BY <1>0, <1>1, <2>2, GraphKept DEF VerdictExact, CycleReal
    <2>4. GvTypeOK'
      BY <1>0, <1>1 DEF GvTypeOK, input
    <2>5. QED
      BY <1>1, <2>3, <2>4 DEF VInv
  <1>2. CASE (\E g \in Nodes : Gates = {g}) /\ reached' = Gates /\ queue' = Gates
             /\ check' = "verifiers" /\ UNCHANGED verdict
    <2>1. GvTypeOK'
      BY <1>0, <1>2 DEF GvTypeOK, input, Gates
    <2>2. PICK g \in Nodes : Gates = {g}
      BY <1>2
    <2>3. ForwardInv'
      <3>1. Gates' = {g} /\ reached' = {g} /\ queue' = {g}
        BY <1>0, <1>2, <2>2, GraphKept
      <3>2. DependsOn(g, g)'
        BY <1>0, <2>2, GraphKept, DependsOnSelf
      <3>3. QED
        BY <3>1, <3>2 DEF ForwardInv
    <2>4. QED
      BY <1>0, <1>2, <2>1, <2>3, GraphKept DEF VInv
  <1>3. QED
    BY <1>1, <1>2 DEF CheckGates, Answer, bfs

LEMMA ReachForwardVInv ==
  ASSUME VInv, ReachForward
  PROVE  VInv'
  <1>0. /\ check = "verifiers" /\ GvTypeOK /\ RolesOK /\ Acyclic /\ ForwardInv
        /\ UNCHANGED input /\ UNCHANGED <<check, color, stack, rest, cycle, verdict>>
    BY DEF ReachForward, VInv, dfs
  <1>1. PICK cur \in queue : /\ reached' = reached \cup Forward(cur)
                             /\ queue' = (queue \ {cur}) \cup (Forward(cur) \ reached)
    BY DEF ReachForward
  <1>2. Forward(cur) \subseteq Nodes
    BY ForwardTasks
  <1>3. GvTypeOK'
    BY <1>0, <1>1, <1>2 DEF GvTypeOK, input
  <1>4. PICK g \in Nodes : /\ Gates = {g} /\ g \in reached /\ queue \subseteq reached
                           /\ \A t \in reached : DependsOn(g, t)
                           /\ \A t \in reached \ queue : Forward(t) \subseteq reached
    BY <1>0 DEF ForwardInv
  <1>5. ASSUME NEW t \in reached'
        PROVE  DependsOn(g, t)
    <2>1. CASE t \in reached
      BY <1>4, <2>1
    <2>2. CASE t \in Forward(cur)
      BY <1>4, <2>2, DependsOnNext
    <2>3. QED
      BY <1>1, <1>5, <2>1, <2>2
  <1>6. ASSUME NEW t \in reached' \ queue'
        PROVE  Forward(t) \subseteq reached'
    BY <1>1, <1>4, <1>6
  <1>7. ForwardInv'
    BY <1>0, <1>1, <1>4, <1>5, <1>6, GraphKept DEF ForwardInv
  <1>8. QED
    BY <1>0, <1>3, <1>7, GraphKept DEF VInv

\* The forward search is over: what it reached is what the gate depends on.
LEMMA CheckVerifiersVInv ==
  ASSUME VInv, CheckVerifiers
  PROVE  VInv'
  <1>0. /\ check = "verifiers" /\ queue = {} /\ GvTypeOK /\ RolesOK /\ Acyclic /\ ForwardInv
        /\ verdict = "none" /\ UNCHANGED input /\ UNCHANGED <<color, stack, rest, cycle>>
    BY DEF CheckVerifiers, VInv, dfs
  <1>1. PICK g \in Nodes : /\ Gates = {g} /\ g \in reached
                           /\ \A t \in reached : DependsOn(g, t)
                           /\ \A t \in reached \ queue : Forward(t) \subseteq reached
    BY <1>0 DEF ForwardInv
  <1>2. reached \in SUBSET Nodes /\ Closed(reached)
    BY <1>0, <1>1 DEF Closed, GvTypeOK
  <1>3. CASE ~(Verifiers \subseteq reached) /\ check' = "done" /\ verdict' = "TG-09"
             /\ UNCHANGED <<reached, queue>>
    <2>1. PICK v \in Verifiers : v \notin reached
      BY <1>3
    <2>2. ~DependsOn(g, v)
      BY <1>1, <1>2, <2>1 DEF DependsOn
    <2>3. ~WellGated
      BY <1>1, <2>1, <2>2 DEF WellGated
    <2>4. Expected = "TG-09"
      BY <1>0, <2>3, ExpectedOfGraph
    <2>5. VerdictExact'
      BY <1>0, <1>3, <2>4, GraphKept DEF VerdictExact, CycleReal
    <2>6. GvTypeOK'
      BY <1>0, <1>3 DEF GvTypeOK, input
    <2>7. QED
      BY <1>3, <2>5, <2>6 DEF VInv
  <1>4. CASE Verifiers \subseteq reached /\ reached' = Planners /\ queue' = Planners
             /\ check' = "orphans" /\ UNCHANGED verdict
    <2>1. WellGated
      BY <1>1, <1>4 DEF WellGated
    <2>2. GvTypeOK'
      BY <1>0, <1>4 DEF GvTypeOK, input, Planners
    <2>3. PICK p \in Nodes : Planners = {p}
      BY <1>0 DEF RolesOK
    <2>4. ReverseInv'
      <3>1. Planners' = {p} /\ reached' = {p} /\ queue' = {p}
        BY <1>0, <1>4, <2>3, GraphKept
      <3>2. DependsOn(p, p)'
        BY <1>0, <2>3, GraphKept, DependsOnSelf
      <3>3. QED
        BY <3>1, <3>2 DEF ReverseInv
    <2>5. QED
      BY <1>0, <1>4, <2>1, <2>2, <2>4, GraphKept DEF VInv
  <1>5. QED
    BY <1>3, <1>4 DEF CheckVerifiers, Answer, bfs

LEMMA ReachReverseVInv ==
  ASSUME VInv, ReachReverse
  PROVE  VInv'
  <1>0. /\ check = "orphans" /\ GvTypeOK /\ RolesOK /\ Acyclic /\ WellGated /\ ReverseInv
        /\ UNCHANGED input /\ UNCHANGED <<check, color, stack, rest, cycle, verdict>>
    BY DEF ReachReverse, VInv, dfs
  <1>1. PICK cur \in queue : /\ reached' = reached \cup Backward(cur)
                             /\ queue' = (queue \ {cur}) \cup (Backward(cur) \ reached)
    BY DEF ReachReverse
  <1>2. Backward(cur) \subseteq Nodes
    BY DEF Backward
  <1>3. GvTypeOK'
    BY <1>0, <1>1, <1>2 DEF GvTypeOK, input
  <1>4. PICK p \in Nodes : /\ Planners = {p} /\ p \in reached /\ queue \subseteq reached
                           /\ \A t \in reached : DependsOn(t, p)
                           /\ \A t \in reached \ queue : Backward(t) \subseteq reached
    BY <1>0 DEF ReverseInv
  <1>5. ASSUME NEW t \in reached'
        PROVE  DependsOn(t, p)
    <2>1. CASE t \in reached
      BY <1>4, <2>1
    <2>2. CASE t \in Backward(cur)
      <3>1. cur \in Forward(t)
        BY <2>2 DEF Backward
      <3>2. QED
        BY <1>4, <3>1, DependsOnPrevious
    <2>3. QED
      BY <1>1, <1>5, <2>1, <2>2
  <1>6. ASSUME NEW t \in reached' \ queue'
        PROVE  Backward(t) \subseteq reached'
    BY <1>1, <1>4, <1>6
  <1>7. ReverseInv'
    BY <1>0, <1>1, <1>4, <1>5, <1>6, GraphKept DEF ReverseInv
  <1>8. QED
    BY <1>0, <1>3, <1>7, GraphKept DEF VInv

\* The reverse search is over: what it did not reach does not depend on the plan.
LEMMA CheckOrphansVInv ==
  ASSUME VInv, CheckOrphans
  PROVE  VInv'
  <1> DEFINE AllReached == \A t \in Nodes \ Planners : role[t] # "escalation" => t \in reached
  <1>0. /\ check = "orphans" /\ queue = {} /\ GvTypeOK /\ RolesOK /\ Acyclic /\ WellGated /\ ReverseInv
        /\ check' = "done" /\ verdict' = IF AllReached THEN "valid" ELSE "TG-10"
        /\ UNCHANGED input /\ UNCHANGED <<color, stack, rest, cycle, reached, queue>>
    BY DEF CheckOrphans, Answer, VInv, dfs, bfs
  <1>1. PICK p \in Nodes : /\ Planners = {p} /\ p \in reached
                           /\ \A t \in reached : DependsOn(t, p)
                           /\ \A t \in reached \ queue : Backward(t) \subseteq reached
    BY <1>0 DEF ReverseInv
  <1>2. Closed(Nodes \ reached)
    <2> SUFFICES ASSUME NEW t \in Nodes \ reached, NEW d \in Forward(t)
                 PROVE  d \in Nodes \ reached
      BY DEF Closed
    <2>1. d \in Nodes /\ t \in Backward(d)
      BY ForwardTasks DEF Backward
    <2>2. QED
      BY <1>0, <1>1, <2>1
  <1>3. \A t \in Nodes : t \in reached <=> DependsOn(t, p)
    <2> SUFFICES ASSUME NEW t \in Nodes, t \notin reached PROVE ~DependsOn(t, p)
      BY <1>1
    <2>1. Nodes \ reached \in SUBSET Nodes /\ t \in Nodes \ reached /\ p \notin Nodes \ reached
      BY <1>1
    <2>2. QED
      BY <1>2, <2>1 DEF DependsOn
  <1>4. Rooted <=> AllReached
    BY <1>1, <1>3 DEF Rooted
  <1>5. Expected = IF AllReached THEN "valid" ELSE "TG-10"
    BY <1>0, <1>4, ExpectedOfGraph
  <1>6. VerdictExact'
    <2>1. verdict' = Expected'
      BY <1>0, <1>5, GraphKept
    <2>2. verdict' # "TG-08"
      BY <1>0
    <2>3. QED
      BY <2>1, <2>2 DEF VerdictExact, CycleReal
  <1>7. GvTypeOK'
    BY <1>0 DEF GvTypeOK, input
  <1>8. QED
    BY <1>0, <1>6, <1>7 DEF VInv

-----------------------------------------------------------------------------
(* The theorems *)

LEMMA StutterVInv ==
  ASSUME VInv, UNCHANGED gvVars
  PROVE  VInv'
  <1>0. /\ UNCHANGED input
        /\ UNCHANGED <<check, color, stack, rest, cycle, reached, queue, verdict>>
    BY DEF gvVars, dfs, bfs
  <1>1. GvTypeOK'
    BY <1>0 DEF VInv, GvTypeOK, input
  <1>2. Black' = Black
    BY <1>0 DEF Black
  <1>3. check = "cycle" => DfsInv'
    <2> SUFFICES ASSUME DfsInv PROVE DfsInv'
      BY DEF VInv
    <2>1. BlackSorted' /\ BlackClosed'
      BY <1>0, <1>2, GraphKept DEF DfsInv, BlackSorted, BlackClosed
    <2>2. GrayStack' /\ StackPath'
      BY <1>0, GraphKept DEF DfsInv, GrayStack, StackPath
    <2>3. LookedAt'
      BY <1>0, <1>2, GraphKept DEF DfsInv, LookedAt
    <2>4. QED
      BY <2>1, <2>2, <2>3 DEF DfsInv
  <1>4. check = "verifiers" => ForwardInv'
    BY <1>0, GraphKept DEF VInv, ForwardInv
  <1>5. check = "orphans" => ReverseInv'
    BY <1>0, GraphKept DEF VInv, ReverseInv
  <1>6. VerdictExact => VerdictExact'
    BY <1>0, GraphKept DEF VerdictExact, CycleReal, Forward, DependsOn, Closed, input
  <1>7. QED
    BY <1>0, <1>1, <1>3, <1>4, <1>5, <1>6, GraphKept DEF VInv

\* Every state of a validation satisfies the invariant of the searches.
THEOREM ValidationInvariant == GvSpec => []VInv
  <1>1. VInv /\ [GvNext]_gvVars => VInv'
    BY CheckRolesVInv, StartVInv, VisitVInv, FinishVInv, NoCycleVInv, CheckGatesVInv,
       ReachForwardVInv, CheckVerifiersVInv, ReachReverseVInv, CheckOrphansVInv, StutterVInv
    DEF GvNext, Decided
  <1>2. QED
    BY InitVInv, <1>1, PTL DEF GvSpec

\* ValidateLifecycleGraph is exact on every graph: with any number of tasks and
\* any dependencies its verdict is the first requirement of BVV-TG-07..10 that
\* the graph violates, and the edge it reports with TG-08 lies on a cycle.
THEOREM ValidationExact == GvSpec => []VerdictExact
  <1>1. VInv => VerdictExact
    BY DEF VInv, VerdictExact, CycleReal
  <1>2. QED
    BY <1>1, ValidationInvariant, PTL
=============================================================================
