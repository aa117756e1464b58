--------------------------- MODULE TestGrid_proofs ---------------------------
(***************************************************************************)
(* Proofs about TestGrid, for any nodes, client threads and                *)
(* specifications, with all the failures: its types, and that the counter  *)
(* of the client covers what is outstanding, so that the wait does not     *)
(* return early; that every run still to come is with a node; and, when    *)
(* nothing fails, that the counter is exact and the load is run exactly.   *)
(***************************************************************************)
EXTENDS TestGrid, LeastNumbers

Steps == [members : Seq(Nodes), vusers : Nat, repeat : Nat]

(* The share of a member is a number of virtual users. *)
LEMMA LoadTyped ==
  ASSUME NEW members \in Seq(Nodes), NEW vusers \in Nat, NEW n \in NamesOf(members)
  PROVE  distributeLoad(members, vusers)[n] \in Nat
<1> DEFINE k == Len(members)
<1>1. k \in Nat /\ k > 0
  BY DEF NamesOf
<1>2. vusers \div k \in Nat /\ vusers % k \in Nat
  BY <1>1
<1> HIDE DEF k
<1>3. \A i : ShareAt(i, k, vusers) \in Nat
  BY <1>2 DEF ShareAt
<1> QED
  BY <1>3 DEF distributeLoad, k

(* Every node that some step uses gets an instruction, that of the last    *)
(* such step, with numbers of virtual users and repetitions.               *)
LEMMA TasksTyped ==
  ASSUME NEW steps \in Seq(Steps), NEW names \in Seq(Nodes)
  PROVE  /\ DOMAIN distributeTasks(steps, names) \subseteq Nodes
         /\ \A n \in DOMAIN distributeTasks(steps, names) :
              /\ distributeTasks(steps, names)[n].vusers \in Nat
              /\ distributeTasks(steps, names)[n].repeat \in Nat
<1> DEFINE Members(i) == StepMembers(steps[i], names)
           Uses(i, n) == n \in NamesOf(Members(i))
           d == distributeTasks(steps, names)
<1>1. Len(steps) \in Nat /\ \A i \in 1..Len(steps) : steps[i] \in Steps
  OBVIOUS
<1>2. \A i \in 1..Len(steps) : Members(i) \in Seq(Nodes)
  BY <1>1 DEF StepMembers, Steps
<1>3. DOMAIN d = UNION {NamesOf(Members(i)) : i \in 1..Len(steps)}
  BY DEF distributeTasks
<1>4. DOMAIN d \subseteq Nodes
  BY <1>2, <1>3 DEF NamesOf
<1>5. ASSUME NEW n \in DOMAIN d PROVE d[n].vusers \in Nat /\ d[n].repeat \in Nat
  <2> DEFINE i == CHOOSE j \in 1..Len(steps) :
                    Uses(j, n) /\ \A k \in (j+1)..Len(steps) : ~Uses(k, n)
             T == {j \in 1..Len(steps) : Uses(j, n)}
  <2>1. T \in SUBSET (1..Len(steps)) /\ T # {}
    BY <1>3, <1>5
  <2>2. PICK x \in T : \A y \in T : y <= x
    <3> HIDE DEF T
    <3> QED
      BY <1>1, <2>1, GreatestNumber
  <2>3. x \in 1..Len(steps) /\ Uses(x, n)
    BY <2>2
  <2>4. \A k \in (x+1)..Len(steps) : ~Uses(k, n)
    <3> SUFFICES ASSUME NEW k \in (x+1)..Len(steps), Uses(k, n) PROVE FALSE
      OBVIOUS
    <3>1. k \in Int /\ k >= x + 1 /\ k <= Len(steps) /\ x \in Int /\ 1 <= x
      BY <1>1, <2>3
    <3>2. k \in T
      BY <1>1, <3>1
    <3>3. k <= x
      BY <2>2, <3>2
    <3> QED
      BY <3>1, <3>3
  <2>5. i \in 1..Len(steps) /\ Uses(i, n)
    BY <2>3, <2>4
  <2>6. d[n] = [step |-> i, vusers |-> distributeLoad(Members(i), steps[i].vusers)[n],
                repeat |-> steps[i].repeat]
    BY <1>3, <1>5 DEF distributeTasks
  <2> HIDE DEF i
  <2>7. distributeLoad(Members(i), steps[i].vusers)[n] \in Nat
    BY <1>1, <1>2, <2>5, LoadTyped DEF Steps
  <2>8. steps[i].repeat \in Nat
    BY <1>1, <2>5 DEF Steps
  <2> QED
    BY <2>6, <2>7, <2>8
<1> QED
  BY <1>4, <1>5
-----------------------------------------------------------------------------
(* The types.  The units of a job are counted by its task, so TypeOK needs *)
(* that a thread that has come to a round has the tasks of all rounds, and *)
(* that jobs are of rounds it has come to.                                 *)
Known == Outstanding \cup received

Distributed ==
  \A t \in Threads :
    /\ pc[t] = "idle" => round[t] = 0
    /\ pc[t] \in {"submit", "count"} => round[t] > 0
    /\ round[t] > 0 => tasks[t] = Tasks(t)
    /\ pc[t] # "count" => uncounted[t] = {}
    /\ \A m, n \in uncounted[t] : m = n
    /\ pending[t] \cup uncounted[t] \subseteq DOMAIN tasks[t]

Come == \A u \in Known : u[1] \in Jobs /\ u[1][2] <= round[u[1][1]]

TypeInv == TypeOK /\ Distributed /\ Come

LEMMA JobsAre ==
  /\ \A job \in Jobs : /\ job[1] \in Threads /\ job[2] \in Rounds(job[1]) /\ job[3] \in Nodes
                       /\ job = <<job[1], job[2], job[3]>>
  /\ \A t \in Threads : \A r \in Rounds(t), n \in Nodes : <<t, r, n>> \in Jobs
BY DEF Jobs

LEMMA UnitsAre ==
  ASSUME NEW job, NEW u \in UnitsOf(job)
  PROVE  u[1] = job
BY DEF UnitsOf

LEMMA TasksAre ==
  ASSUME TypeOK, NEW t \in Threads
  PROVE  /\ DOMAIN Tasks(t) \subseteq Nodes
         /\ \A n \in DOMAIN Tasks(t) : Tasks(t)[n].vusers \in Nat /\ Tasks(t)[n].repeat \in Nat
<1>1. Specifications[t] \in Seq(Steps) /\ memberNames[t] \in Seq(Nodes)
  BY GridAssumption DEF GridAssumption, Steps, TypeOK
<1> QED
  BY <1>1, TasksTyped DEF Tasks

(* A job has finitely many units. *)
LEMMA TripleFinite ==
  ASSUME NEW A, NEW B, NEW C, IsFiniteSet(A), IsFiniteSet(B), IsFiniteSet(C)
  PROVE  IsFiniteSet(A \X B \X C)
<1> DEFINE f == [p \in (A \X B) \X C |-> <<p[1][1], p[1][2], p[2]>>]
<1>1. f \in Surjection((A \X B) \X C, A \X B \X C)
  <2>1. f \in [(A \X B) \X C -> A \X B \X C]
    OBVIOUS
  <2>2. \A x \in A \X B \X C : \E p \in (A \X B) \X C : f[p] = x
    <3> SUFFICES ASSUME NEW x \in A \X B \X C PROVE \E p \in (A \X B) \X C : f[p] = x
      OBVIOUS
    <3>1. x = <<x[1], x[2], x[3]>> /\ x[1] \in A /\ x[2] \in B /\ x[3] \in C
      OBVIOUS
    <3>2. <<<<x[1], x[2]>>, x[3]>> \in (A \X B) \X C
      BY <3>1
    <3>3. f[<<<<x[1], x[2]>>, x[3]>>] = x
      BY <3>1, <3>2
    <3> QED
      BY <3>2, <3>3
  <2> QED
    BY <2>1, <2>2 DEF Surjection
<1>2. IsFiniteSet((A \X B) \X C)
  BY FS_Product
<1> QED
  BY <1>1, <1>2, FS_Surjection

LEMMA UnitsFinite ==
  ASSUME TypeOK, Distributed, NEW t \in Threads, round[t] > 0, NEW r, NEW n \in DOMAIN tasks[t]
  PROVE  IsFiniteSet(UnitsOf(<<t, r, n>>))
<1> DEFINE job == <<t, r, n>>
<1>1. TaskOf(job).vusers \in Nat /\ TaskOf(job).repeat \in Nat
  BY TasksAre DEF Distributed, TaskOf, NodeOf
<1> HIDE DEF job
<1>2. IsFiniteSet({job}) /\ IsFiniteSet(1..TaskOf(job).vusers) /\ IsFiniteSet(1..TaskOf(job).repeat)
  <2>1. \A k \in Nat : IsFiniteSet(1..k)
    BY FS_Interval
  <2> QED
    BY <1>1, <2>1, FS_Singleton
<1>3. IsFiniteSet({job} \X (1..TaskOf(job).vusers) \X (1..TaskOf(job).repeat))
  BY <1>2, TripleFinite
<1> QED
  BY <1>3 DEF UnitsOf, job

LEMMA UncountedFinite ==
  ASSUME TypeOK, Distributed, NEW t \in Threads
  PROVE  IsFiniteSet(Uncounted(t))
<1>1. CASE uncounted[t] = {}
  BY <1>1, FS_EmptySet DEF Uncounted
<1>2. CASE uncounted[t] # {}
  <2>1. PICK n \in uncounted[t] : uncounted[t] = {n}
    BY <1>2 DEF Distributed
  <2>2. Uncounted(t) = UnitsOf(<<t, round[t], n>>)
    BY <2>1 DEF Uncounted
  <2>3. round[t] > 0 /\ n \in DOMAIN tasks[t]
    BY <1>2 DEF Distributed
  <2> QED
    BY <2>2, <2>3, UnitsFinite
<1> QED
  BY <1>1, <1>2

(* A step that changes no tasks, and adds no units but of jobs that the    *)
(* thread has come to.                                                     *)
LEMMA UnitsStay ==
  ASSUME TypeInv, UNCHANGED <<tasks, round>>,
         \A u \in Known' : \/ u \in Known
                          \/ \E job \in Jobs : u \in UnitsOf(job) /\ job[2] <= round[job[1]]
  PROVE  Come' /\ \A u \in Known' : u \in UnitsOf(u[1])'
<1>1. \A job : UnitsOf(job)' = UnitsOf(job)
  BY DEF UnitsOf, TaskOf, NodeOf
<1>2. \A u \in Known : u \in UnitsOf(u[1]) /\ u[1] \in Jobs /\ u[1][2] <= round[u[1][1]]
  BY DEF TypeInv, TypeOK, Come, Known
<1>3. \A u \in Known' : u \in UnitsOf(u[1]) /\ u[1] \in Jobs /\ u[1][2] <= round[u[1][1]]
  BY <1>2, UnitsAre
<1>4. Come'
  BY <1>3 DEF Come
<1> QED
  BY <1>1, <1>3, <1>4

LEMMA NextStepTyped ==
  ASSUME TypeInv, NEW t \in Threads, NextStep(t)
  PROVE  TypeInv'
<1> USE DEF nodeVars
<1>1. CASE ~(round[t] < Len(Specifications[t]))
  <2>1. pc' = [pc EXCEPT ![t] = "wait"] /\ pc[t] = "nextStep"
        /\ UNCHANGED <<memberNames, tasks, round, pending, uncounted, testsToRun, metricVars,
                       connected, alive, inbox, scheduled, running, todo, flight>>
    BY <1>1 DEF NextStep, Goto
  <2>2. Known' = Known
    BY <2>1 DEF Known, Outstanding, received, metricVars
  <2>3. Come' /\ \A u \in Known' : u \in UnitsOf(u[1])'
    BY <2>1, <2>2, UnitsStay
  <2>4. TypeOK'
    BY <2>1, <2>3 DEF TypeInv, TypeOK, Known
  <2>5. Distributed'
    BY <2>1 DEF TypeInv, TypeOK, Distributed, Tasks
  <2> QED
    BY <2>3, <2>4, <2>5 DEF TypeInv
<1>2. CASE round[t] < Len(Specifications[t])
  <2>1. /\ pc' = [pc EXCEPT ![t] = "submit"] /\ pc[t] = "nextStep"
        /\ round' = [round EXCEPT ![t] = @ + 1]
        /\ tasks' = [tasks EXCEPT ![t] = Tasks(t)]
        /\ pending' = [pending EXCEPT ![t] = DOMAIN Tasks(t)]
        /\ UNCHANGED <<memberNames, uncounted, testsToRun, metricVars,
                       connected, alive, inbox, scheduled, running, todo, flight>>
    BY <1>2 DEF NextStep, Goto
  <2>2. TypeOK /\ Distributed /\ Come
    BY DEF TypeInv
  <2>3. \A s \in Threads : Tasks(s)' = Tasks(s)
    BY <2>1 DEF Tasks
  <2>4. round' \in [Threads -> Nat] /\ \A s \in Threads : round[s] <= round'[s]
    BY <2>1, <2>2 DEF TypeOK
  <2>5. round'[t] \in Rounds(t)
    <3>1. Len(Specifications[t]) \in Nat
      BY GridAssumption DEF GridAssumption
    <3> QED
      BY <1>2, <2>1, <2>2, <3>1 DEF TypeOK, Rounds
  <2>6. Known' = Known
    BY <2>1 DEF Known, Outstanding, received, metricVars
  <2>7. Come'
    BY <2>2, <2>4, <2>6, JobsAre DEF Come, TypeOK, Rounds
  <2>8. \A u \in Known : u \in UnitsOf(u[1])'
    <3> SUFFICES ASSUME NEW u \in Known PROVE u \in UnitsOf(u[1])'
      OBVIOUS
    <3>1. u \in UnitsOf(u[1]) /\ u[1] \in Jobs /\ u[1][2] <= round[u[1][1]]
      BY <2>2 DEF Known, TypeOK, Come
    <3>2. u[1][1] \in Threads /\ u[1][2] \in Rounds(u[1][1])
      BY <3>1, JobsAre
    <3>3. round[u[1][1]] > 0
      BY <2>2, <3>1, <3>2 DEF TypeOK, Rounds
    <3>4. tasks[u[1][1]] = Tasks(u[1][1])
      BY <2>2, <3>2, <3>3 DEF Distributed
    <3>5. TaskOf(u[1])' = TaskOf(u[1])
      <4>1. CASE u[1][1] = t
        <5>1. tasks'[u[1][1]] = tasks[u[1][1]] \/ t \notin DOMAIN tasks
          BY <2>1, <3>4, <4>1
        <5> QED
          BY <2>1, <3>4, <4>1, <5>1 DEF TaskOf, NodeOf
      <4>2. CASE u[1][1] # t
        BY <2>1, <4>2 DEF TaskOf, NodeOf
      <4> QED
        BY <4>1, <4>2
    <3> QED
      BY <3>1, <3>5 DEF UnitsOf
  <2>9. TypeOK'
    <3>1. pending' \in [Threads -> SUBSET Nodes]
      BY <2>1, <2>2, TasksAre DEF TypeOK
    <3> QED
      BY <2>1, <2>2, <2>4, <2>5, <2>6, <2>8, <3>1 DEF TypeOK, Known
  <2>10. Distributed'
    <3> SUFFICES ASSUME NEW s \in Threads
                 PROVE  /\ pc'[s] = "idle" => round'[s] = 0
                        /\ pc'[s] \in {"submit", "count"} => round'[s] > 0
                        /\ round'[s] > 0 => tasks'[s] = Tasks(s)'
                        /\ pc'[s] # "count" => uncounted'[s] = {}
                        /\ \A m, n \in uncounted'[s] : m = n
                        /\ pending'[s] \cup uncounted'[s] \subseteq DOMAIN tasks'[s]
      BY DEF Distributed
    <3>1. CASE s = t
      <4>1. pc'[t] = "submit" /\ tasks'[t] = Tasks(t) /\ pending'[t] = DOMAIN Tasks(t)
            /\ round'[t] > 0 /\ uncounted'[t] = uncounted[t]
        BY <2>1, <2>2, <2>5 DEF TypeOK, Rounds
      <4>2. uncounted[t] = {}
        BY <2>1, <2>2 DEF Distributed
      <4> QED
        BY <2>3, <3>1, <4>1, <4>2
    <3>2. CASE s # t
      BY <2>1, <2>2, <2>3, <3>2 DEF TypeOK, Distributed
    <3> QED
      BY <3>1, <3>2
  <2> QED
    BY <2>7, <2>9, <2>10 DEF TypeInv
<1> QED
  BY <1>1, <1>2

LEMMA SendTyped ==
  ASSUME TypeInv, NEW t \in Threads, NEW n \in Nodes, Send(t, n)
  PROVE  TypeInv'
<1> DEFINE job == <<t, round[t], n>>
<1>1. TypeOK /\ Distributed
  BY DEF TypeInv
<1>2. /\ pc[t] = "submit" /\ n \in pending[t]
      /\ UNCHANGED <<memberNames, tasks, round, testsToRun, metricVars, connected, alive,
                     scheduled, running, flight>>
  BY DEF Send
<1>3. job \in Jobs /\ round[t] > 0 /\ n \in DOMAIN tasks[t]
  <2>1. round[t] > 0 /\ n \in DOMAIN tasks[t]
    BY <1>1, <1>2 DEF Distributed
  <2>2. round[t] \in Rounds(t)
    BY <1>1, <2>1 DEF TypeOK
  <2> QED
    BY <2>1, <2>2, JobsAre
<1>4. \A s \in Threads : Tasks(s)' = Tasks(s)
  BY <1>2 DEF Tasks
<1>5. CASE n \in alive /\ connected
  <2>1. /\ inbox' = [inbox EXCEPT ![n] = Append(@, job)]
        /\ todo' = todo \cup UnitsOf(job)
        /\ pending' = [pending EXCEPT ![t] = @ \ {n}]
        /\ uncounted' = [uncounted EXCEPT ![t] = {n}]
        /\ pc' = [pc EXCEPT ![t] = "count"]
    BY <1>5 DEF Send, Goto
  <2>2. \A u \in Known' : u \in Known \/ u \in UnitsOf(job)
    BY <1>2, <2>1 DEF Known, Outstanding, received, metricVars
  <2>3. job[2] <= round[job[1]]
    BY <1>1 DEF TypeOK
  <2> HIDE DEF job
  <2>4. Come' /\ \A u \in Known' : u \in UnitsOf(u[1])'
    BY <1>2, <1>3, <2>2, <2>3, UnitsStay
  <2>5. inbox' \in [Nodes -> Seq(Jobs)]
    BY <1>1, <1>3, <2>1 DEF TypeOK
  <2>6. TypeOK'
    BY <1>1, <1>2, <2>1, <2>4, <2>5 DEF TypeOK, Known
  <2>7. Distributed'
    BY <1>1, <1>2, <1>3, <1>4, <2>1 DEF TypeOK, Distributed
  <2> QED
    BY <2>4, <2>6, <2>7 DEF TypeInv
<1>6. CASE ~(n \in alive /\ connected)
  <2>1. pc' = [pc EXCEPT ![t] = "failed"] /\ UNCHANGED <<inbox, todo, pending, uncounted>>
    BY <1>6 DEF Send, Goto
  <2>2. Known' = Known
    BY <1>2, <2>1 DEF Known, Outstanding, received, metricVars
  <2>3. Come' /\ \A u \in Known' : u \in UnitsOf(u[1])'
    BY <1>2, <2>2, UnitsStay
  <2>4. TypeOK'
    BY <1>1, <1>2, <2>1, <2>3 DEF TypeOK, Known
  <2>5. Distributed'
    BY <1>1, <1>2, <1>4, <2>1 DEF TypeOK, Distributed
  <2> QED
    BY <2>3, <2>4, <2>5 DEF TypeInv
<1> QED
  BY <1>5, <1>6

(* The other steps of a client thread change no units. *)
LEMMA ClientTyped ==
  ASSUME TypeInv, NEW t \in Threads,
         Run(t) \/ Count(t) \/ Submitted(t) \/ waitUntilAllTestsFinished(t),
         testsToRun' \in Int
  PROVE  TypeInv'
<1> USE DEF nodeVars
<1>1. TypeOK /\ Distributed
  BY DEF TypeInv
<1>2. UNCHANGED <<tasks, round, pending, metricVars, connected, alive, inbox, scheduled, running,
                  todo, flight>>
  BY DEF Run, Count, Submitted, waitUntilAllTestsFinished
<1>3. Known' = Known
  BY <1>2 DEF Known, Outstanding, received, metricVars
<1>4. Come' /\ \A u \in Known' : u \in UnitsOf(u[1])'
  BY <1>2, <1>3, UnitsStay
<1>5. CASE Run(t)
  <2>1. PICK names \in topology : memberNames' = [memberNames EXCEPT ![t] = names]
    BY <1>5 DEF Run
  <2>2. PICK next \in {"failed", "nextStep"} : pc' = [pc EXCEPT ![t] = next]
    BY <1>5 DEF Run, Goto
  <2>3. pc[t] = "idle" /\ UNCHANGED <<uncounted, testsToRun>>
    BY <1>5 DEF Run
  <2>4. names \in Seq(Nodes)
    <3>1. alive \in SUBSET Nodes /\ IsFiniteSet(Nodes)
      BY <1>1, GridAssumption DEF TypeOK, GridAssumption
    <3>2. Cardinality(alive) \in Nat
      BY <3>1, FS_Subset, FS_CardinalityType
    <3>3. names \in [1..Cardinality(alive) -> alive]
      BY DEF topology
    <3> QED
      BY <3>1, <3>2, <3>3
  <2>5. TypeOK'
    BY <1>1, <1>2, <1>4, <2>1, <2>2, <2>3, <2>4 DEF TypeOK, Known
  <2>6. Distributed'
    <3> SUFFICES ASSUME NEW s \in Threads
                 PROVE  /\ pc'[s] = "idle" => round[s] = 0
                        /\ pc'[s] \in {"submit", "count"} => round[s] > 0
                        /\ round[s] > 0 => tasks[s] = Tasks(s)'
                        /\ pc'[s] # "count" => uncounted[s] = {}
                        /\ \A m, n \in uncounted[s] : m = n
                        /\ pending[s] \cup uncounted[s] \subseteq DOMAIN tasks[s]
      BY <1>2, <2>3 DEF Distributed
    <3>1. CASE s = t
      BY <1>1, <2>2, <2>3, <3>1 DEF TypeOK, Distributed
    <3>2. CASE s # t
      BY <1>1, <2>1, <2>2, <3>2 DEF TypeOK, Distributed, Tasks
    <3> QED
      BY <3>1, <3>2
  <2> QED
    BY <1>4, <2>5, <2>6 DEF TypeInv
<1>6. CASE Count(t) \/ Submitted(t) \/ waitUntilAllTestsFinished(t)
  <2>1. PICK next \in {"submit", "nextStep", "done"} : pc' = [pc EXCEPT ![t] = next]
    BY <1>6 DEF Count, Submitted, waitUntilAllTestsFinished, Goto
  <2>2. /\ UNCHANGED memberNames
        /\ (next = "submit" => pc[t] = "count" /\ uncounted' = [uncounted EXCEPT ![t] = {}])
        /\ (next # "submit" => UNCHANGED uncounted /\ pc[t] # "count")
    BY <1>1, <1>6, <2>1 DEF Count, Submitted, waitUntilAllTestsFinished, Goto, TypeOK
  <2>3. TypeOK'
    BY <1>1, <1>2, <1>4, <2>1, <2>2 DEF TypeOK, Known
  <2>4. Distributed'
    BY <1>1, <1>2, <2>1, <2>2 DEF TypeOK, Distributed, Tasks
  <2> QED
    BY <1>4, <2>3, <2>4 DEF TypeInv
<1> QED
  BY <1>5, <1>6

(* The other steps change no client thread and add no units. *)
LEMMA OthersTyped ==
  ASSUME TypeInv, UNCHANGED clientVars, Known' \subseteq Known,
         testsToRun' \in Int, connected' \in BOOLEAN, alive' \subseteq Nodes,
         inbox' \in [Nodes -> Seq(Jobs)], scheduled' \cup running' \subseteq Jobs
  PROVE  TypeInv'
<1> USE DEF clientVars
<1>1. TypeOK /\ Distributed
  BY DEF TypeInv
<1>2. Come' /\ \A u \in Known' : u \in UnitsOf(u[1])'
  BY UnitsStay
<1>3. TypeOK'
  BY <1>1, <1>2 DEF TypeOK, Known
<1>4. Distributed'
  BY <1>1 DEF Distributed, Tasks
<1> QED
  BY <1>2, <1>3, <1>4 DEF TypeInv

LEMMA TypeInvNext == TypeInv /\ [Next]_vars => TypeInv'
<1> SUFFICES ASSUME TypeInv, [Next]_vars PROVE TypeInv'
  OBVIOUS
<1> USE DEF nodeVars
<1>1. TypeOK
  BY DEF TypeInv
<1>2. \A n \in Nodes : inbox[n] # <<>> => Head(inbox[n]) \in Jobs /\ Tail(inbox[n]) \in Seq(Jobs)
  BY <1>1 DEF TypeOK
<1>3. ASSUME NEW t \in Threads, ClientStep(t) PROVE TypeInv'
  <2>1. CASE NextStep(t) \/ \E n \in Nodes : Send(t, n)
    BY <2>1, NextStepTyped, SendTyped
  <2>2. ASSUME Count(t) PROVE testsToRun' \in Int
    <3>1. testsToRun' = testsToRun + Cardinality(Uncounted(t))
      BY <2>2 DEF Count
    <3>2. IsFiniteSet(Uncounted(t))
      BY UncountedFinite DEF TypeInv
    <3>3. Cardinality(Uncounted(t)) \in Nat
      BY <3>2, FS_CardinalityType
    <3> QED
      BY <1>1, <3>1, <3>3 DEF TypeOK
  <2>3. CASE Run(t) \/ Count(t) \/ Submitted(t) \/ waitUntilAllTestsFinished(t)
    <3>1. testsToRun' \in Int
      BY <1>1, <2>2, <2>3 DEF Run, Submitted, waitUntilAllTestsFinished, TypeOK
    <3> QED
      BY <2>3, <3>1, ClientTyped
  <2> QED
    BY <1>3, <2>1, <2>3 DEF ClientStep
<1>4. ASSUME NEW n \in Nodes, SetUpFails(n) PROVE TypeInv'
  <2>1. Known' \subseteq Known
    BY <1>4 DEF SetUpFails, Known, Outstanding, received, metricVars
  <2> QED
    BY <1>1, <1>2, <1>4, <2>1, OthersTyped DEF SetUpFails, CanHandle, TypeOK
<1>5. ASSUME NEW n \in Nodes, Crash(n) PROVE TypeInv'
  <2>1. Known' \subseteq Known
    BY <1>5 DEF Crash, Known, Outstanding, received, metricVars
  <2>2. inbox' \in [Nodes -> Seq(Jobs)]
    <3>1. <<>> \in Seq(Jobs)
      OBVIOUS
    <3> QED
      BY <1>1, <1>5, <3>1 DEF Crash, TypeOK
  <2> QED
    BY <1>1, <1>5, <2>1, <2>2, OthersTyped DEF Crash, TypeOK
<1>6. ASSUME NEW u \in flight, receive(u) PROVE TypeInv'
  <2>1. Known' \subseteq Known
    BY <1>6 DEF receive, Known, Outstanding, received, metricVars
  <2> QED
    BY <1>1, <1>6, <2>1, OthersTyped DEF receive, TypeOK
<1>7. CASE disconnect
  <2>1. Known' \subseteq Known
    BY <1>7 DEF disconnect, Known, Outstanding, received, metricVars
  <2> QED
    BY <1>1, <1>7, <2>1, OthersTyped DEF disconnect, TypeOK
<1>8. ASSUME NEW n \in Nodes, NodeStep(n) PROVE TypeInv'
  <2>1. CASE ExecNow(n)
    <3>1. Known' \subseteq Known
      BY <2>1 DEF ExecNow, Known, Outstanding, received, metricVars
    <3> QED
      BY <1>1, <1>2, <2>1, <3>1, OthersTyped DEF ExecNow, CanHandle, TypeOK
  <2>2. CASE ExecLater(n)
    <3>1. Known' \subseteq Known
      BY <2>2 DEF ExecLater, Known, Outstanding, received, metricVars
    <3> QED
      BY <1>1, <1>2, <2>2, <3>1, OthersTyped DEF ExecLater, CanHandle, TypeOK
  <2>3. ASSUME NEW job \in scheduled, TimerFires(job) PROVE TypeInv'
    <3>1. Known' \subseteq Known
      BY <2>3 DEF TimerFires, Known, Outstanding, received, metricVars
    <3> QED
      BY <1>1, <2>3, <3>1, OthersTyped DEF TimerFires, TypeOK
  <2>4. ASSUME NEW job \in running, JobEnds(job) PROVE TypeInv'
    <3>1. Known' \subseteq Known
      BY <2>4 DEF JobEnds, Known, Outstanding, received, metricVars
    <3>2. inbox' \in [Nodes -> Seq(Jobs)]
      <4>1. \A q \in Seq(Jobs) : (IF q # <<>> /\ Head(q) = job THEN Tail(q) ELSE q) \in Seq(Jobs)
        OBVIOUS
      <4>2. inbox' = [inbox EXCEPT ![NodeOf(job)] =
                        IF @ # <<>> /\ Head(@) = job THEN Tail(@) ELSE @]
        BY <2>4 DEF JobEnds
      <4> QED
        BY <1>1, <4>1, <4>2 DEF TypeOK
    <3> QED
      BY <1>1, <2>4, <3>1, <3>2, OthersTyped DEF JobEnds, TypeOK
  <2>5. ASSUME NEW job \in running, NEW v, RunOnce(job, v) PROVE TypeInv'
    <3>1. Known' \subseteq Known
      BY <2>5 DEF RunOnce, RunsOf, Known, Outstanding, received, metricVars
    <3> QED
      BY <1>1, <2>5, <3>1, OthersTyped DEF RunOnce, TypeOK
  <2>6. ASSUME NEW job \in running, NEW v, PublishFails(job, v) PROVE TypeInv'
    <3>1. Known' \subseteq Known
      BY <2>6 DEF PublishFails, Known, Outstanding, received, metricVars
    <3> QED
      BY <1>1, <2>6, <3>1, OthersTyped DEF PublishFails, TypeOK
  <2> QED
    BY <1>8, <2>1, <2>2, <2>3, <2>4, <2>5, <2>6 DEF NodeStep
<1>9. CASE UNCHANGED vars
  <2>1. Known' \subseteq Known /\ UNCHANGED clientVars
    BY <1>9 DEF vars, Known, Outstanding, received, metricVars, clientVars
  <2> QED
    BY <1>1, <1>9, <2>1, OthersTyped DEF vars, TypeOK
<1>10. ASSUME NEW u \in updating, updateMetrics(u) PROVE TypeInv'
  <2>1. Known' \subseteq Known
    BY <1>10 DEF updateMetrics, Known, Outstanding, received
  <2> QED
    BY <1>1, <1>10, <2>1, OthersTyped DEF updateMetrics, TypeOK
<1> QED
  BY <1>3, <1>4, <1>5, <1>6, <1>7, <1>8, <1>9, <1>10 DEF Next

(* Every reachable state is well typed, and all that is outstanding or     *)
(* received are units of jobs that a client has submitted.                 *)
THEOREM TypeCorrect == Spec => [](TypeOK /\ TypeInv)
<1>1. Init => TypeInv
  BY DEF Init, TypeInv, TypeOK, Distributed, Come, Known, Outstanding, received, metricVars
<1>2. TypeInv => TypeOK
  BY DEF TypeInv
<1> QED
  BY <1>1, <1>2, TypeInvNext, PTL DEF Spec
-----------------------------------------------------------------------------
(* The counter.  A unit is either to be run or reported, never both; and a *)
(* job that is outstanding has been sent, so that no unit is sent twice.   *)
AllUncounted == UNION {Uncounted(t) : t \in Threads}

Sent == \A u \in Outstanding : u[1][2] = round[u[1][1]] => u[1][3] \notin pending[u[1][1]]

Intact == alive = Nodes /\ connected

(* What the counter, once all is counted, promises too much. *)
Surplus == testsToRun + Cardinality(AllUncounted) - Cardinality(Outstanding)

CountInv == /\ IsFiniteSet(Outstanding) /\ IsFiniteSet(AllUncounted)
            /\ todo \cap flight = {} /\ Sent
            /\ ~CanFail => Intact
            /\ Surplus >= 0 /\ (~CanFail /\ ~Deadline => Surplus = 0)

LEMMA SurplusIs ==
  ASSUME TypeOK, IsFiniteSet(Outstanding), IsFiniteSet(AllUncounted)
  PROVE  /\ testsToRun \in Int /\ Cardinality(Outstanding) \in Nat /\ Cardinality(AllUncounted) \in Nat
         /\ Surplus \in Int
         /\ CounterCoversOutstanding <=> Surplus >= 0
<1>1. testsToRun \in Int /\ Cardinality(Outstanding) \in Nat /\ Cardinality(AllUncounted) \in Nat
  BY FS_CardinalityType DEF TypeOK
<1> QED
  BY <1>1 DEF CounterCoversOutstanding, Surplus, AllUncounted

LEMMA UncountedIs ==
  ASSUME NEW t, NEW u \in Uncounted(t)
  PROVE  u[1][1] = t
<1>1. PICK m \in uncounted[t] : u \in UnitsOf(<<t, round[t], m>>)
  BY DEF Uncounted
<1>2. u[1] = <<t, round[t], m>>
  BY <1>1, UnitsAre
<1> QED
  BY <1>2

LEMMA SubsetCounts ==
  ASSUME NEW S, IsFiniteSet(S), NEW T \in SUBSET S
  PROVE  IsFiniteSet(T) /\ Cardinality(T) \in Nat /\ Cardinality(T) <= Cardinality(S)
BY FS_Subset, FS_CardinalityType

LEMMA UnionCounts ==
  ASSUME NEW S, IsFiniteSet(S), NEW T, IsFiniteSet(T)
  PROVE  /\ IsFiniteSet(S \cup T)
         /\ Cardinality(S) \in Nat /\ Cardinality(T) \in Nat /\ Cardinality(S \cup T) \in Nat
         /\ Cardinality(S \cup T) <= Cardinality(S) + Cardinality(T)
         /\ S \cap T = {} => Cardinality(S \cup T) = Cardinality(S) + Cardinality(T)
<1>1. /\ IsFiniteSet(S \cup T)
      /\ Cardinality(S \cup T) = Cardinality(S) + Cardinality(T) - Cardinality(S \cap T)
  BY FS_Union
<1>2. IsFiniteSet(S \cap T)
  BY FS_Intersection
<1>3. /\ Cardinality(S) \in Nat /\ Cardinality(T) \in Nat /\ Cardinality(S \cup T) \in Nat
      /\ Cardinality(S \cap T) \in Nat
  BY <1>1, <1>2, FS_CardinalityType
<1>4. S \cap T = {} => Cardinality(S \cap T) = 0
  BY FS_EmptySet
<1> QED
  BY <1>1, <1>3, <1>4

(* A step that neither sends nor counts, and by which what is outstanding  *)
(* only shrinks, if at all.                                                *)
LEMMA ShrinkingCovers ==
  ASSUME TypeInv, CountInv, TypeInv', UNCHANGED testsToRun, AllUncounted' = AllUncounted,
         Outstanding' \subseteq Outstanding, ~CanFail /\ ~Deadline => Outstanding' = Outstanding,
         (todo \cap flight)' = {}, Sent', ~CanFail => Intact'
  PROVE  CountInv'
<1>1. IsFiniteSet(Outstanding) /\ IsFiniteSet(AllUncounted)
  BY DEF CountInv
<1>2. IsFiniteSet(Outstanding') /\ Cardinality(Outstanding') \in Nat
      /\ Cardinality(Outstanding') <= Cardinality(Outstanding)
  BY <1>1, SubsetCounts
<1>3. /\ testsToRun \in Int /\ Cardinality(Outstanding) \in Nat /\ Cardinality(AllUncounted) \in Nat
      /\ Surplus \in Int
  BY <1>1, SurplusIs DEF TypeInv
<1>4. Surplus' >= Surplus /\ Surplus' \in Int /\ (Outstanding' = Outstanding => Surplus' = Surplus)
  BY <1>2, <1>3 DEF Surplus
<1> QED
  BY <1>1, <1>2, <1>3, <1>4 DEF CountInv

LEMMA SendCovers ==
  ASSUME TypeInv, CountInv, NEW t \in Threads, NEW n \in Nodes, Send(t, n), n \in alive, connected
  PROVE  CountInv'
<1> DEFINE job == <<t, round[t], n>>
           U == UnitsOf(job)
<1>1. TypeOK /\ Distributed
  BY DEF TypeInv
<1>2. /\ pc[t] = "submit" /\ n \in pending[t]
      /\ UNCHANGED <<tasks, round, testsToRun, flight>>
      /\ todo' = todo \cup U
      /\ pending' = [pending EXCEPT ![t] = @ \ {n}]
      /\ uncounted' = [uncounted EXCEPT ![t] = {n}]
  BY DEF Send
<1>3. round[t] > 0 /\ n \in DOMAIN tasks[t] /\ uncounted[t] = {}
  BY <1>1, <1>2 DEF Distributed
<1>4. IsFiniteSet(U)
  BY <1>1, <1>3, UnitsFinite
<1>5. \A u \in U : u[1] = job
  BY UnitsAre
<1> HIDE DEF U
<1>6. \A u \in Outstanding : u[1] # job
  BY <1>2 DEF CountInv, Sent
<1>7. AllUncounted' = AllUncounted \cup U
  <2>1. \A s \in Threads : Uncounted(s)' = IF s = t THEN U ELSE Uncounted(s)
    <3>1. \A j : UnitsOf(j)' = UnitsOf(j)
      BY <1>2 DEF UnitsOf, TaskOf, NodeOf
    <3>2. Uncounted(t)' = U
      BY <1>1, <1>2, <3>1 DEF Uncounted, U, TypeOK
    <3>3. ASSUME NEW s \in Threads, s # t PROVE Uncounted(s)' = Uncounted(s)
      <4>1. uncounted'[s] = uncounted[s] /\ round'[s] = round[s]
        BY <1>1, <1>2, <3>3 DEF TypeOK
      <4> QED
        BY <3>1, <4>1 DEF Uncounted
    <3> QED
      BY <3>2, <3>3
  <2>2. Uncounted(t) = {}
    BY <1>3 DEF Uncounted
  <2> QED
    BY <2>1, <2>2 DEF AllUncounted
<1>8. AllUncounted \cap U = {}
  <2> SUFFICES ASSUME NEW u \in U, NEW s \in Threads, u \in Uncounted(s) PROVE FALSE
    BY DEF AllUncounted
  <2>1. s # t
    BY <1>3 DEF Uncounted
  <2>2. u[1][1] = s
    BY UncountedIs
  <2> QED
    BY <1>5, <2>1, <2>2
<1>9. Outstanding' = Outstanding \cup U
  BY <1>2 DEF Outstanding
<1>10. /\ testsToRun \in Int /\ Surplus \in Int
       /\ IsFiniteSet(Outstanding) /\ IsFiniteSet(AllUncounted)
  BY <1>1, SurplusIs DEF CountInv
<1>11. /\ IsFiniteSet(Outstanding') /\ IsFiniteSet(AllUncounted')
       /\ Cardinality(Outstanding') = Cardinality(Outstanding) + Cardinality(U)
       /\ Cardinality(AllUncounted') = Cardinality(AllUncounted) + Cardinality(U)
  <2>1. Outstanding \cap U = {}
    BY <1>5, <1>6
  <2> QED
    BY <1>4, <1>7, <1>8, <1>9, <1>10, <2>1, UnionCounts
<1>12. /\ Cardinality(Outstanding) \in Nat /\ Cardinality(AllUncounted) \in Nat
       /\ Cardinality(U) \in Nat
  BY <1>4, <1>10, FS_CardinalityType
<1>13. Surplus' = Surplus
  BY <1>2, <1>10, <1>11, <1>12 DEF Surplus
<1>14. (todo \cap flight)' = {}
  BY <1>2, <1>5, <1>6 DEF CountInv, Outstanding
<1>15. Sent'
  <2> SUFFICES ASSUME NEW u \in Outstanding', u[1][2] = round[u[1][1]]
               PROVE  u[1][3] \notin pending'[u[1][1]]
    BY <1>2 DEF Sent
  <2>1. CASE u \in Outstanding
    <3>1. u[1][3] \notin pending[u[1][1]] /\ u[1] \in Jobs
      BY <2>1 DEF CountInv, Sent, TypeInv, Come, Known
    <3>2. u[1][1] \in Threads
      BY <3>1, JobsAre
    <3> QED
      BY <1>1, <1>2, <3>1, <3>2 DEF TypeOK
  <2>2. CASE u \in U
    BY <1>1, <1>2, <1>5, <2>2 DEF TypeOK
  <2> QED
    BY <1>9, <2>1, <2>2
<1>16. ~CanFail => Intact'
  BY DEF CountInv, Intact, Send
<1> QED
  BY <1>11, <1>13, <1>14, <1>15, <1>16 DEF CountInv

LEMMA CountCovers ==
  ASSUME TypeInv, CountInv, NEW t \in Threads, Count(t)
  PROVE  CountInv'
<1> DEFINE U == Uncounted(t)
<1>1. TypeOK /\ Distributed
  BY DEF TypeInv
<1>2. /\ testsToRun' = testsToRun + Cardinality(U)
      /\ uncounted' = [uncounted EXCEPT ![t] = {}]
      /\ UNCHANGED <<tasks, round, pending, todo, flight>>
  BY DEF Count
<1>3. AllUncounted = AllUncounted' \cup U
  <2>1. \A j : UnitsOf(j)' = UnitsOf(j)
    BY <1>2 DEF UnitsOf, TaskOf, NodeOf
  <2>2. Uncounted(t)' = {}
    BY <1>1, <1>2 DEF Uncounted, TypeOK
  <2>3. ASSUME NEW s \in Threads, s # t PROVE Uncounted(s)' = Uncounted(s)
    <3>1. uncounted'[s] = uncounted[s] /\ round'[s] = round[s]
      BY <1>1, <1>2, <2>3 DEF TypeOK
    <3> QED
      BY <2>1, <3>1 DEF Uncounted
  <2> QED
    BY <2>2, <2>3 DEF AllUncounted
<1>4. AllUncounted' \cap U = {}
  <2> SUFFICES ASSUME NEW s \in Threads, NEW u \in Uncounted(s)', u \in U PROVE FALSE
    BY DEF AllUncounted
  <2>1. s # t
    BY <1>1, <1>2 DEF Uncounted, TypeOK
  <2>2. u \in Uncounted(s)
    <3>1. uncounted'[s] = uncounted[s] /\ round'[s] = round[s]
      BY <1>1, <1>2, <2>1 DEF TypeOK
    <3>2. \A j : UnitsOf(j)' = UnitsOf(j)
      BY <1>2 DEF UnitsOf, TaskOf, NodeOf
    <3> QED
      BY <3>1, <3>2 DEF Uncounted
  <2> QED
    BY <2>1, <2>2, UncountedIs
<1> HIDE DEF U
<1>5. /\ testsToRun \in Int /\ Surplus \in Int
      /\ IsFiniteSet(Outstanding) /\ IsFiniteSet(AllUncounted)
  BY <1>1, SurplusIs DEF CountInv
<1>6. IsFiniteSet(AllUncounted') /\ IsFiniteSet(U)
  BY <1>3, <1>5, SubsetCounts
<1>7. /\ Cardinality(AllUncounted) = Cardinality(AllUncounted') + Cardinality(U)
      /\ Cardinality(AllUncounted') \in Nat /\ Cardinality(U) \in Nat
  BY <1>3, <1>4, <1>6, UnionCounts
<1>8. Outstanding' = Outstanding /\ Cardinality(Outstanding) \in Nat
  BY <1>2, <1>5, FS_CardinalityType DEF Outstanding
<1>9. Surplus' = Surplus
  BY <1>2, <1>5, <1>7, <1>8 DEF Surplus
<1>10. (todo \cap flight)' = {} /\ Sent' /\ (~CanFail => Intact')
  BY <1>2 DEF CountInv, Sent, Outstanding, Intact, Count, nodeVars
<1> QED
  BY <1>5, <1>6, <1>8, <1>9, <1>10 DEF CountInv

LEMMA ReceiveCovers ==
  ASSUME TypeInv, CountInv, NEW u \in flight, receive(u)
  PROVE  CountInv'
<1>1. /\ flight' = flight \ {u} /\ testsToRun' = testsToRun - 1
      /\ UNCHANGED <<tasks, round, pending, uncounted, todo>>
  BY DEF receive, clientVars
<1>2. AllUncounted' = AllUncounted
  BY <1>1 DEF AllUncounted, Uncounted, UnitsOf, TaskOf, NodeOf
<1>3. Outstanding' = Outstanding \ {u} /\ u \in Outstanding
  BY <1>1 DEF Outstanding, CountInv
<1>4. /\ testsToRun \in Int /\ Surplus \in Int
      /\ IsFiniteSet(Outstanding) /\ IsFiniteSet(AllUncounted)
      /\ Cardinality(Outstanding) \in Nat /\ Cardinality(AllUncounted) \in Nat
  BY SurplusIs DEF CountInv, TypeInv
<1>5. IsFiniteSet(Outstanding') /\ Cardinality(Outstanding') = Cardinality(Outstanding) - 1
  BY <1>3, <1>4, FS_RemoveElement
<1>6. Surplus' = Surplus
  BY <1>1, <1>2, <1>4, <1>5 DEF Surplus
<1>7. (todo \cap flight)' = {} /\ Sent' /\ (~CanFail => Intact')
  BY <1>1, <1>3 DEF CountInv, Sent, Outstanding, Intact, receive, nodeVars
<1> QED
  BY <1>2, <1>4, <1>5, <1>6, <1>7 DEF CountInv

LEMMA NextStepCovers ==
  ASSUME TypeInv, TypeInv', CountInv, NEW t \in Threads, NextStep(t), round[t] < Len(Specifications[t])
  PROVE  CountInv'
<1>1. TypeOK /\ Distributed /\ Come
  BY DEF TypeInv
<1>2. /\ pc[t] = "nextStep"
      /\ round' = [round EXCEPT ![t] = @ + 1] /\ tasks' = [tasks EXCEPT ![t] = Tasks(t)]
      /\ pending' = [pending EXCEPT ![t] = DOMAIN Tasks(t)]
      /\ UNCHANGED <<uncounted, testsToRun, todo, flight>>
  BY DEF NextStep
<1>3. AllUncounted' = AllUncounted
  <2>1. Uncounted(t)' = {} /\ Uncounted(t) = {}
    BY <1>1, <1>2 DEF Uncounted, Distributed
  <2>2. ASSUME NEW s \in Threads, s # t PROVE Uncounted(s)' = Uncounted(s)
    <3>1. uncounted'[s] = uncounted[s] /\ round'[s] = round[s] /\ tasks'[s] = tasks[s]
      BY <1>1, <1>2, <2>2 DEF TypeOK
    <3>2. \A n : UnitsOf(<<s, round[s], n>>)' = UnitsOf(<<s, round[s], n>>)
      BY <1>1, <1>2, <2>2, <3>1 DEF UnitsOf, TaskOf, NodeOf, TypeOK
    <3> QED
      BY <3>1, <3>2 DEF Uncounted
  <2> QED
    BY <2>1, <2>2 DEF AllUncounted
<1>4. Outstanding' = Outstanding /\ (todo \cap flight)' = {}
  BY <1>2 DEF Outstanding, CountInv
<1>5. Sent'
  <2> SUFFICES ASSUME NEW u \in Outstanding, u[1][2] = round'[u[1][1]]
               PROVE  u[1][3] \notin pending'[u[1][1]]
    BY <1>4 DEF Sent
  <2>1. u[1] \in Jobs /\ u[1][2] <= round[u[1][1]]
    BY <1>1 DEF Come, Known
  <2>2. u[1][1] \in Threads
    BY <2>1, JobsAre
  <2>3. u[1][1] # t
    BY <1>1, <1>2, <2>1, <2>2 DEF TypeOK
  <2> QED
    BY <1>1, <1>2, <2>2, <2>3 DEF CountInv, Sent, TypeOK
<1>6. ~CanFail => Intact'
  BY DEF CountInv, Intact, NextStep, nodeVars
<1> QED
  BY <1>2, <1>3, <1>4, <1>5, <1>6, ShrinkingCovers

LEMMA CountInvNext == TypeInv /\ TypeInv' /\ CountInv /\ [Next]_vars => CountInv'
<1> SUFFICES ASSUME TypeInv, TypeInv', CountInv, [Next]_vars PROVE CountInv'
  OBVIOUS
<1> USE DEF nodeVars, clientVars
<1>1. TypeOK /\ Distributed
  BY DEF TypeInv
<1>2. ASSUME UNCHANGED <<tasks, round, uncounted, testsToRun, pending>>,
             Outstanding' \subseteq Outstanding, ~CanFail /\ ~Deadline => Outstanding' = Outstanding,
             (todo \cap flight)' = {}, CanFail \/ UNCHANGED <<alive, connected>>
      PROVE  CountInv'
  <2>1. AllUncounted' = AllUncounted
    BY <1>2 DEF AllUncounted, Uncounted, UnitsOf, TaskOf, NodeOf
  <2>2. Sent' /\ (~CanFail => Intact')
    BY <1>2 DEF CountInv, Sent, Intact
  <2> QED
    BY <1>2, <2>1, <2>2, ShrinkingCovers
<1>3. ASSUME UNCHANGED <<tasks, round, uncounted, testsToRun, pending, todo, flight, alive, connected>>
      PROVE  CountInv'
  BY <1>2, <1>3 DEF Outstanding, CountInv
<1>4. ASSUME NEW t \in Threads, ClientStep(t) PROVE CountInv'
  <2>1. CASE Run(t) \/ Submitted(t) \/ waitUntilAllTestsFinished(t)
    BY <1>3, <2>1 DEF Run, Submitted, waitUntilAllTestsFinished
  <2>2. CASE Count(t)
    BY <2>2, CountCovers
  <2>3. ASSUME NEW n \in Nodes, Send(t, n) PROVE CountInv'
    <3>1. CASE n \in alive /\ connected
      BY <2>3, <3>1, SendCovers
    <3>2. CASE ~(n \in alive /\ connected)
      BY <1>3, <2>3, <3>2 DEF Send
    <3> QED
      BY <3>1, <3>2
  <2>4. CASE NextStep(t)
    <3>1. CASE ~(round[t] < Len(Specifications[t]))
      BY <1>3, <2>4, <3>1 DEF NextStep
    <3>2. CASE round[t] < Len(Specifications[t])
      BY <2>4, <3>2, NextStepCovers
    <3> QED
      BY <3>1, <3>2
  <2> QED
    BY <1>4, <2>1, <2>2, <2>3, <2>4 DEF ClientStep
<1>5. ASSUME NEW n \in Nodes, SetUpFails(n) PROVE CountInv'
  BY <1>2, <1>5 DEF SetUpFails, Outstanding, CountInv
<1>6. ASSUME NEW n \in Nodes, Crash(n) PROVE CountInv'
  BY <1>2, <1>6 DEF Crash, Outstanding, CountInv
<1>7. ASSUME NEW u \in flight, receive(u) PROVE CountInv'
  BY <1>7, ReceiveCovers
<1>8. CASE disconnect
  BY <1>2, <1>8 DEF disconnect, Outstanding, CountInv
<1>9. ASSUME NEW n \in Nodes, NodeStep(n) PROVE CountInv'
  <2>1. CASE ExecNow(n) \/ ExecLater(n)
    BY <1>3, <2>1 DEF ExecNow, ExecLater
  <2>2. ASSUME NEW job, TimerFires(job) \/ JobEnds(job) PROVE CountInv'
    BY <1>3, <2>2 DEF TimerFires, JobEnds
  <2>3. ASSUME NEW job, NEW v, RunOnce(job, v) PROVE CountInv'
    <3>1. PICK u \in RunsOf(job, v) : /\ flight' = flight \cup {u}
                                      /\ \/ todo' = todo \ {u}
                                         \/ Deadline /\ todo' = todo \ RunsOf(job, v)
      BY <2>3 DEF RunOnce
    <3>2. u \in todo
      BY DEF RunsOf
    <3>3. UNCHANGED <<tasks, round, uncounted, testsToRun, pending, alive, connected>>
      BY <2>3 DEF RunOnce
    <3>4. Outstanding' \subseteq Outstanding /\ (todo \cap flight)' = {}
      BY <3>1, <3>2 DEF Outstanding, CountInv
    <3>5. ~Deadline => Outstanding' = Outstanding
      BY <3>1, <3>2 DEF Outstanding
    <3> QED
      BY <1>2, <3>3, <3>4, <3>5
  <2>4. ASSUME NEW job, NEW v, PublishFails(job, v) PROVE CountInv'
    <3>1. CanFail
      BY <2>4 DEF PublishFails, CountInv, Intact
    <3> QED
      BY <1>2, <2>4, <3>1 DEF PublishFails, Outstanding, CountInv
  <2> QED
    BY <1>9, <2>1, <2>2, <2>3, <2>4 DEF NodeStep
<1>10. CASE UNCHANGED vars
  BY <1>3, <1>10 DEF vars
<1>11. ASSUME NEW u \in updating, updateMetrics(u) PROVE CountInv'
  BY <1>3, <1>11 DEF updateMetrics
<1> QED
  BY <1>4, <1>5, <1>6, <1>7, <1>8, <1>9, <1>10, <1>11 DEF Next

LEMMA InitCounts == Init => CountInv
<1> SUFFICES ASSUME Init PROVE CountInv
  OBVIOUS
<1>1. Outstanding = {} /\ AllUncounted = {} /\ testsToRun = 0 /\ todo = {}
  BY DEF Init, Outstanding, AllUncounted, Uncounted
<1>2. IsFiniteSet({}) /\ Cardinality({}) = 0
  BY FS_EmptySet
<1>3. Surplus = 0
  BY <1>1, <1>2 DEF Surplus
<1> QED
  BY <1>1, <1>2, <1>3 DEF CountInv, Sent, Init, Intact

(* The counter of the client never promises more than is true, however     *)
(* submissions, updates, crashes, failures and deadlines interleave.       *)
THEOREM TheCounterCovers == Spec => []CounterCoversOutstanding
<1>1. TypeInv /\ CountInv => CounterCoversOutstanding
  BY SurplusIs DEF CountInv, TypeInv
<1> QED
  BY <1>1, InitCounts, CountInvNext, TypeCorrect, PTL DEF Spec

(* When nothing fails and no deadline cuts repetitions short, the counter  *)
(* never promises too much either: it comes to zero with the last update,  *)
(* however updates overtake the counting.                                  *)
CounterExact ==
  ~CanFail /\ ~Deadline =>
    testsToRun + Cardinality(UNION {Uncounted(t) : t \in Threads}) = Cardinality(Outstanding)

(* The counter is exact in every reachable state, for any number of nodes, *)
(* threads and runs.                                                       *)
THEOREM TheCounterIsExact == Spec => []CounterExact
<1>1. TypeInv /\ CountInv => CounterExact
  <2> SUFFICES ASSUME TypeInv, CountInv, ~CanFail, ~Deadline
               PROVE  testsToRun + Cardinality(AllUncounted) = Cardinality(Outstanding)
    BY DEF CounterExact, AllUncounted
  <2>1. /\ testsToRun \in Int /\ Cardinality(Outstanding) \in Nat
        /\ Cardinality(AllUncounted) \in Nat /\ Surplus = 0
    BY SurplusIs DEF CountInv, TypeInv
  <2> QED
    BY <2>1 DEF Surplus
<1> QED
  BY <1>1, InitCounts, CountInvNext, TypeCorrect, PTL DEF Spec

LEMMA NothingOutstanding ==
  ASSUME TypeInv, CountInv, testsToRun = 0, \A t \in Threads : uncounted[t] = {}
  PROVE  Outstanding = {}
<1>1. AllUncounted = {}
  BY DEF AllUncounted, Uncounted
<1>2. Cardinality(AllUncounted) = 0
  BY <1>1, FS_EmptySet
<1>3. IsFiniteSet(Outstanding) /\ Surplus >= 0 /\ Cardinality(Outstanding) \in Nat
  BY FS_CardinalityType DEF CountInv
<1>4. Cardinality(Outstanding) = 0
  BY <1>2, <1>3 DEF Surplus
<1> QED
  BY <1>3, <1>4, FS_EmptySet

(* The wait of a client thread returns only when nothing is outstanding -  *)
(* unless some thread has sent an instruction that it has not counted yet. *)
THEOREM TheWaitIsRight == Spec => WaitReturnsOnlyWhenFinished
<1> DEFINE Right == \A t \in Threads :
                      /\ pc[t] = "wait" /\ pc'[t] = "done"
                      /\ \A s \in Threads : uncounted[s] = {}
                      => Outstanding = {}
<1>1. TypeInv /\ CountInv /\ [Next]_vars => [Right]_vars
  <2> SUFFICES ASSUME TypeInv, CountInv, Next, NEW t \in Threads,
                      pc[t] = "wait", pc'[t] = "done", \A s \in Threads : uncounted[s] = {}
               PROVE  Outstanding = {}
    OBVIOUS
  <2>1. testsToRun = 0
    <3> USE DEF nodeVars, clientVars
    <3>1. TypeOK
      BY DEF TypeInv
    <3>2. PICK s \in Threads : ClientStep(s)
      <4>1. pc' # pc
        OBVIOUS
      <4>2. ASSUME NEW n \in Nodes, NodeStep(n) \/ SetUpFails(n) \/ Crash(n) PROVE pc' = pc
        BY <4>2 DEF NodeStep, SetUpFails, Crash, ExecNow, ExecLater, TimerFires, JobEnds,
                    RunOnce, PublishFails
      <4>3. disconnect \/ (\E u \in flight : receive(u)) \/ (\E u \in updating : updateMetrics(u))
            => pc' = pc
        BY DEF disconnect, receive, updateMetrics
      <4> QED
        BY <4>1, <4>2, <4>3 DEF Next
    <3>3. PICK next \in {"failed", "nextStep", "submit", "wait", "count", "done"} :
            pc' = [pc EXCEPT ![s] = next] /\ (next = "done" => testsToRun = 0)
      <4>1. CASE Run(s) \/ Count(s) \/ Submitted(s) \/ waitUntilAllTestsFinished(s) \/ NextStep(s)
        BY <4>1 DEF Run, Count, Submitted, waitUntilAllTestsFinished, NextStep, Goto
      <4>2. ASSUME NEW n \in Nodes, Send(s, n)
            PROVE  \E next \in {"failed", "count"} : pc' = [pc EXCEPT ![s] = next]
        BY <4>2 DEF Send, Goto
      <4> QED
        BY <3>2, <4>1, <4>2 DEF ClientStep
    <3>4. s = t /\ next = "done"
      BY <3>1, <3>3 DEF TypeOK
    <3> QED
      BY <3>3, <3>4
  <2> QED
    BY <2>1, NothingOutstanding
<1> QED
  BY <1>1, InitCounts, CountInvNext, TypeCorrect, PTL DEF Spec, WaitReturnsOnlyWhenFinished
-----------------------------------------------------------------------------
(* The shares of the members of a step: the virtual users of the i-th of k *)
(* members follow those of the ones before it, and together they are all.  *)
LEMMA Multiples ==
  ASSUME NEW q \in Nat, NEW i \in Nat, NEW j \in Nat, i < j
  PROVE  i * q <= (j - 1) * q /\ i * q \in Nat /\ (j - 1) * q \in Nat
OBVIOUS

LEMMA Quotient ==
  ASSUME NEW a \in Nat, NEW k \in Nat \ {0}
  PROVE  /\ a \div k \in Nat /\ a % k \in 0..(k - 1)
         /\ a = k * (a \div k) + (a % k)
OBVIOUS

LEMMA SharesFollow ==
  ASSUME NEW k \in Nat \ {0}, NEW a \in Nat
  PROVE  /\ \A i \in 1..k : ShareAt(i, k, a) \in Nat
         /\ \A i \in 1..k : \A v \in 1..ShareAt(i, k, a) : (i - 1) * (a \div k) + v \in 1..a
         /\ \A i, j \in 1..k : i < j =>
              \A v \in 1..ShareAt(i, k, a), w \in 1..ShareAt(j, k, a) :
                (i - 1) * (a \div k) + v < (j - 1) * (a \div k) + w
         /\ \A x \in 1..a : \E i \in 1..k : \E v \in 1..ShareAt(i, k, a) :
              x = (i - 1) * (a \div k) + v
<1> DEFINE q == a \div k
           m == a % k
<1>1. q \in Nat /\ m \in Nat /\ a = k * q + m
  BY Quotient
<1>2. \A i \in 1..k : ShareAt(i, k, a) = IF i < k THEN q ELSE q + m
  BY DEF ShareAt
<1> HIDE DEF q, m
<1>3. k * q = (k - 1) * q + q /\ (k - 1) * q \in Nat
  BY <1>1
<1>4. ASSUME NEW i \in 1..k, i < k
      PROVE  i * q <= (k - 1) * q /\ i * q = (i - 1) * q + q /\ (i - 1) * q \in Nat
  BY <1>1, <1>4
<1>5. ASSUME NEW i \in 1..k, NEW v \in 1..ShareAt(i, k, a)
      PROVE  (i - 1) * q + v \in 1..a
  <2>1. CASE i = k
    BY <1>1, <1>2, <1>3, <2>1
  <2>2. CASE i < k
    BY <1>1, <1>2, <1>3, <1>4, <2>2
  <2> QED
    BY <2>1, <2>2
<1>6. ASSUME NEW i \in 1..k, NEW j \in 1..k, i < j,
             NEW v \in 1..ShareAt(i, k, a), NEW w \in 1..ShareAt(j, k, a)
      PROVE  (i - 1) * q + v < (j - 1) * q + w
  <2>1. v \in Int /\ v <= q /\ w \in Int /\ 1 <= w
    BY <1>1, <1>2, <1>6
  <2>2. i * q <= (j - 1) * q /\ i * q \in Nat /\ (j - 1) * q \in Nat
    BY <1>1, <1>6, Multiples
  <2>3. i * q = (i - 1) * q + q /\ (i - 1) * q \in Nat
    BY <1>1, <1>4, <1>6
  <2> QED
    BY <1>1, <2>1, <2>2, <2>3
<1>7. ASSUME NEW x \in 1..a
      PROVE  \E i \in 1..k : \E v \in 1..ShareAt(i, k, a) : x = (i - 1) * q + v
  <2>1. CASE x > (k - 1) * q
    <3>1. x - (k - 1) * q \in 1..(q + m) /\ k \in 1..k
      BY <1>1, <1>3, <2>1
    <3> QED
      BY <1>2, <1>3, <3>1
  <2>2. CASE x <= (k - 1) * q
    <3>1. q \in Nat \ {0}
      BY <1>1, <2>2
    <3> DEFINE b == (x - 1) \div q
               c == (x - 1) % q
    <3>2. b \in Nat /\ c \in 0..(q - 1) /\ x - 1 = q * b + c
      <4>1. x - 1 \in Nat
        OBVIOUS
      <4> QED
        BY <3>1, <4>1, Quotient
    <3> HIDE DEF b, c
    <3>3. b < k - 1
      <4> SUFFICES ASSUME b >= k - 1 PROVE FALSE
        BY <3>2
      <4>1. (k - 1) * q <= b * q
        BY <1>1, <3>2, Multiples
      <4> QED
        BY <1>1, <1>3, <2>2, <3>2, <4>1
    <3>4. b + 1 \in 1..k /\ c + 1 \in 1..ShareAt(b + 1, k, a) /\ x = ((b + 1) - 1) * q + (c + 1)
      BY <1>1, <1>2, <3>1, <3>2, <3>3
    <3> QED
      BY <3>4
  <2> QED
    BY <1>1, <1>3, <2>1, <2>2
<1> QED
  BY <1>1, <1>2, <1>5, <1>6, <1>7 DEF q

(* A member that is named once gets the share of its place. *)
LEMMA LoadOfAPlace ==
  ASSUME NEW members \in Seq(Nodes), IsInjective(members), NEW i \in 1..Len(members), NEW a
  PROVE  distributeLoad(members, a)[members[i]] = ShareAt(i, Len(members), a)
<1> DEFINE n == members[i]
           Is(j) == members[j] = n /\ \A l \in (j+1)..Len(members) : members[l] # n
           last == CHOOSE j \in 1..Len(members) : Is(j)
<1>1. DOMAIN members = 1..Len(members) /\ Len(members) \in Nat
  OBVIOUS
<1>2. n \in NamesOf(members)
  BY DEF NamesOf
<1>3. Is(i)
  BY <1>1 DEF IsInjective
<1>4. last \in 1..Len(members) /\ Is(last)
  BY <1>3
<1>5. last = i
  BY <1>1, <1>4 DEF IsInjective
<1>6. distributeLoad(members, a)[n] = ShareAt(last, Len(members), a)
  BY <1>2 DEF distributeLoad
<1> QED
  BY <1>5, <1>6

(* The units of a step that names no node twice are as many as it asks     *)
(* for: they are numbered by virtual user and repetition.                  *)
StepUnits(t, members, a, repeat) ==
  UNION {{<<t, 1, n>>} \X (1..distributeLoad(members, a)[n]) \X (1..repeat) : n \in NamesOf(members)}

LEMMA UnitsOfAStep ==
  ASSUME NEW members \in Seq(Nodes), IsInjective(members), members # <<>>,
         NEW a \in Nat, NEW repeat \in Nat, NEW t
  PROVE  Cardinality(StepUnits(t, members, a, repeat)) = a * repeat
<1> DEFINE R == StepUnits(t, members, a, repeat)
           k == Len(members)
           q == a \div k
           load == distributeLoad(members, a)
           Place == [n \in NamesOf(members) |-> CHOOSE i \in 1..k : members[i] = n]
           D == (1..a) \X (1..repeat)
           f == [u \in R |-> <<(Place[u[1][3]] - 1) * q + u[2], u[3]>>]
<1>1. k \in Nat \ {0} /\ DOMAIN members = 1..k
  OBVIOUS
<1>2. \A n \in NamesOf(members) : Place[n] \in 1..k /\ members[Place[n]] = n
  BY DEF NamesOf
<1>3. \A i \in 1..k : members[i] \in NamesOf(members) /\ Place[members[i]] = i
  BY <1>1, <1>2 DEF IsInjective, NamesOf
<1>4. \A i \in 1..k : load[members[i]] = ShareAt(i, k, a)
  BY LoadOfAPlace
<1> HIDE DEF R, load, Place
<1>5. \A u \in R : /\ u = <<u[1], u[2], u[3]>> /\ u[1] = <<t, 1, u[1][3]>>
                   /\ u[1][3] \in NamesOf(members) /\ u[3] \in 1..repeat
                   /\ u[2] \in 1..load[u[1][3]]
                   /\ u[2] \in 1..ShareAt(Place[u[1][3]], k, a)
  <2> SUFFICES ASSUME NEW u \in R
               PROVE  /\ u = <<u[1], u[2], u[3]>> /\ u[1] = <<t, 1, u[1][3]>>
                      /\ u[1][3] \in NamesOf(members) /\ u[3] \in 1..repeat
                      /\ u[2] \in 1..load[u[1][3]]
                      /\ u[2] \in 1..ShareAt(Place[u[1][3]], k, a)
    OBVIOUS
  <2>1. PICK n \in NamesOf(members) : u \in {<<t, 1, n>>} \X (1..load[n]) \X (1..repeat)
    BY DEF R, StepUnits, load
  <2>2. u = <<<<t, 1, n>>, u[2], u[3]>> /\ u[2] \in 1..load[n] /\ u[3] \in 1..repeat
    BY <2>1
  <2>3. load[n] = ShareAt(Place[n], k, a)
    BY <1>2, <1>4
  <2> QED
    BY <2>2, <2>3
<1>6. q \in Nat
  BY <1>1, Quotient
<1>7. f \in [R -> D]
  <2> SUFFICES ASSUME NEW u \in R PROVE f[u] \in D
    OBVIOUS
  <2>1. Place[u[1][3]] \in 1..k /\ u[2] \in 1..ShareAt(Place[u[1][3]], k, a) /\ u[3] \in 1..repeat
    BY <1>2, <1>5
  <2>2. (Place[u[1][3]] - 1) * q + u[2] \in 1..a
    BY <1>1, <2>1, SharesFollow
  <2> QED
    BY <2>1, <2>2
<1>8. ASSUME NEW u \in R, NEW w \in R, f[u] = f[w] PROVE u = w
  <2> DEFINE i == Place[u[1][3]]
             j == Place[w[1][3]]
  <2>1. /\ i \in 1..k /\ u[2] \in 1..ShareAt(i, k, a) /\ members[i] = u[1][3]
        /\ j \in 1..k /\ w[2] \in 1..ShareAt(j, k, a) /\ members[j] = w[1][3]
    BY <1>2, <1>5
  <2>2. (i - 1) * q + u[2] = (j - 1) * q + w[2] /\ u[3] = w[3]
    BY <1>8
  <2> HIDE DEF i, j
  <2>3. /\ \A x \in 1..k : ShareAt(x, k, a) \in Nat
        /\ (i - 1) * q + u[2] \in 1..a /\ (j - 1) * q + w[2] \in 1..a
        /\ i < j => (i - 1) * q + u[2] < (j - 1) * q + w[2]
        /\ j < i => (j - 1) * q + w[2] < (i - 1) * q + u[2]
    BY <1>1, <2>1, SharesFollow
  <2>4. i = j
    <3> DEFINE x == (i - 1) * q + u[2]
               y == (j - 1) * q + w[2]
    <3>1. x = y /\ x \in Int /\ (i < j => x < y) /\ (j < i => y < x)
      BY <2>2, <2>3
    <3>2. i \in Int /\ j \in Int
      BY <1>1, <2>1
    <3> HIDE DEF x, y
    <3> QED
      BY <3>1, <3>2
  <2>5. u[2] = w[2]
    <3>1. i - 1 \in Nat /\ u[2] \in Int /\ w[2] \in Int
      BY <2>1
    <3> HIDE DEF q
    <3>2. (i - 1) * q \in Int
      BY <1>6, <3>1
    <3> QED
      BY <2>2, <2>4, <3>1, <3>2
  <2>6. u[1] = <<t, 1, u[1][3]>> /\ w[1] = <<t, 1, w[1][3]>> /\ u[1][3] = w[1][3]
    BY <1>5, <2>1, <2>4
  <2>7. u[1] = w[1]
    BY <2>6
  <2> QED
    BY <1>5, <2>2, <2>5, <2>7
<1>9. ASSUME NEW d \in D PROVE \E u \in R : f[u] = d
  <2>1. d = <<d[1], d[2]>> /\ d[1] \in 1..a /\ d[2] \in 1..repeat
    OBVIOUS
  <2>2. PICK i \in 1..k : \E v \in 1..ShareAt(i, k, a) : d[1] = (i - 1) * q + v
    BY <1>1, <2>1, SharesFollow
  <2>3. PICK v \in 1..ShareAt(i, k, a) : d[1] = (i - 1) * q + v
    BY <2>2
  <2> DEFINE u == <<<<t, 1, members[i]>>, v, d[2]>>
  <2>4. u \in R
    <3>1. members[i] \in NamesOf(members) /\ v \in 1..load[members[i]]
      BY <1>3, <1>4, <2>3
    <3> QED
      BY <2>1, <3>1 DEF R, StepUnits, load
  <2>5. f[u] = <<(Place[members[i]] - 1) * q + v, d[2]>>
    BY <2>4
  <2> QED
    BY <1>3, <2>1, <2>3, <2>4, <2>5
<1>10. IsFiniteSet(D) /\ Cardinality(D) = a * repeat
  <2>1. /\ IsFiniteSet(1..a) /\ Cardinality(1..a) = a
        /\ IsFiniteSet(1..repeat) /\ Cardinality(1..repeat) = repeat
    <3>1. \A m \in Nat : IsFiniteSet(1..m) /\ Cardinality(1..m) = m
      BY FS_Interval
    <3> QED
      BY <3>1
  <2>2. IsFiniteSet(D) /\ Cardinality(D) = Cardinality(1..a) * Cardinality(1..repeat)
    BY <2>1, FS_Product
  <2> HIDE DEF D
  <2> QED
    BY <2>1, <2>2
<1>11. f \in Injection(R, D) /\ f \in Surjection(R, D)
  <2>1. \A u, w \in R : f[u] = f[w] => u = w
    BY <1>8
  <2>2. \A d \in D : \E u \in R : f[u] = d
    BY <1>9
  <2> HIDE DEF f, D
  <2>3. DOMAIN f = R
    BY <1>7
  <2> QED
    BY <1>7, <2>1, <2>2, <2>3 DEF Injection, Surjection, IsInjective
<1> HIDE DEF f, D
<1>12. Cardinality(R) = a * repeat
  BY <1>10, <1>11, FS_Injection
<1> QED
  BY <1>12 DEF R
-----------------------------------------------------------------------------
(* What is run.  When nothing fails and no deadline cuts repetitions       *)
(* short, no unit of an instruction that was sent is ever lost.            *)
Submitting ==
  \A t \in Threads :
    /\ pc[t] \notin {"idle", "failed"} => memberNames[t] # <<>> /\ IsInjective(memberNames[t])
    /\ pc[t] \in {"idle", "nextStep", "wait", "done"} => pending[t] = {}
    /\ pc[t] \in {"wait", "done"} => round[t] = Len(Specifications[t])

Kept ==
  \A t \in Threads : \A r \in 1..round[t] : \A n \in DOMAIN tasks[t] :
    (r = round[t] => n \notin pending[t]) => UnitsOf(<<t, r, n>>) \subseteq Known

OfTasks == \A u \in Known : u[1][3] \in DOMAIN tasks[u[1][1]]

Finished == (\A t \in Threads : pc[t] = "done") => Outstanding = {}

ExactInv == ~CanFail /\ ~Deadline => Submitting /\ Kept /\ OfTasks /\ Finished

(* The topology names every node that is alive once. *)
LEMMA TopologyIs ==
  ASSUME NEW names \in topology, alive \subseteq Nodes, alive # {}
  PROVE  names # <<>> /\ IsInjective(names)
<1> DEFINE k == Cardinality(alive)
<1>1. k \in Nat /\ k # 0 /\ names \in [1..k -> alive]
  <2>1. IsFiniteSet(alive)
    BY GridAssumption, FS_Subset DEF GridAssumption
  <2> QED
    BY <2>1, FS_EmptySet, FS_CardinalityType DEF topology
<1>2. ASSUME NEW p \in 1..Len(MemberOrder), NEW q \in 1..Len(MemberOrder), p < q
      PROVE  MemberOrder[p] # MemberOrder[q]
  <2> DEFINE I == 1..Len(MemberOrder)
  <2>1. MemberOrder \in Surjection(I, Nodes)
    BY GridAssumption DEF GridAssumption, NamesOf, Surjection
  <2>2. IsFiniteSet(I) /\ Cardinality(I) = Cardinality(Nodes)
    <3>1. Len(MemberOrder) \in Nat /\ Len(MemberOrder) = Cardinality(Nodes)
      BY GridAssumption DEF GridAssumption
    <3> QED
      BY <3>1, FS_Interval
  <2>3. MemberOrder \in Injection(I, Nodes)
    BY <2>1, <2>2, FS_Surjection
  <2> QED
    BY <1>2, <2>3 DEF Injection, IsInjective
<1>3. \A n \in alive : ~JoinedBefore(n, n)
  BY <1>2 DEF JoinedBefore
<1>4. \A i, j \in 1..k : i < j => JoinedBefore(names[i], names[j])
  BY DEF topology
<1> HIDE DEF k
<1>5. ASSUME NEW i \in 1..k, NEW j \in 1..k, names[i] = names[j] PROVE i = j
  BY <1>1, <1>3, <1>4, <1>5
<1> QED
  BY <1>1, <1>5 DEF IsInjective

(* A step that neither distributes a step of the specification nor sends.  *)
LEMMA UnitsKept ==
  ASSUME Kept, OfTasks, UNCHANGED <<tasks, round, pending>>, Known' = Known
  PROVE  Kept' /\ OfTasks'
<1>1. \A job : UnitsOf(job)' = UnitsOf(job)
  BY DEF UnitsOf, TaskOf, NodeOf
<1> QED
  BY <1>1 DEF Kept, OfTasks

LEMMA NextStepExact ==
  ASSUME TypeInv, Submitting, Kept, OfTasks, NEW t \in Threads, NextStep(t),
         round[t] < Len(Specifications[t])
  PROVE  Submitting' /\ Kept' /\ OfTasks'
<1>1. /\ pc' = [pc EXCEPT ![t] = "submit"] /\ pc[t] = "nextStep"
      /\ round' = [round EXCEPT ![t] = @ + 1]
      /\ tasks' = [tasks EXCEPT ![t] = Tasks(t)]
      /\ pending' = [pending EXCEPT ![t] = DOMAIN Tasks(t)]
      /\ UNCHANGED <<memberNames, metricVars, todo, flight>>
  BY DEF NextStep, Goto
<1>2. TypeOK /\ Distributed /\ Come
  BY DEF TypeInv
<1>3. Known' = Known
  BY <1>1 DEF Known, Outstanding, received, metricVars
<1>4. Submitting'
  <2> SUFFICES ASSUME NEW s \in Threads
               PROVE  /\ pc'[s] \notin {"idle", "failed"} =>
                           memberNames[s] # <<>> /\ IsInjective(memberNames[s])
                      /\ pc'[s] \in {"idle", "nextStep", "wait", "done"} => pending'[s] = {}
                      /\ pc'[s] \in {"wait", "done"} => round'[s] = Len(Specifications[s])
    BY <1>1 DEF Submitting
  <2>1. CASE s = t
    BY <1>1, <1>2, <2>1 DEF Submitting, TypeOK
  <2>2. CASE s # t
    BY <1>1, <1>2, <2>2 DEF Submitting, TypeOK
  <2> QED
    BY <2>1, <2>2
<1>5. /\ tasks'[t] = Tasks(t) /\ pending'[t] = DOMAIN Tasks(t) /\ round'[t] = round[t] + 1
      /\ round[t] \in Nat /\ (round[t] > 0 => tasks[t] = Tasks(t)) /\ pending[t] = {}
  BY <1>1, <1>2 DEF TypeOK, Distributed, Submitting
<1>6. \A s \in Threads : s # t => tasks'[s] = tasks[s] /\ round'[s] = round[s] /\ pending'[s] = pending[s]
  BY <1>1, <1>2 DEF TypeOK
<1>7. OfTasks'
  <2> SUFFICES ASSUME NEW u \in Known PROVE u[1][3] \in DOMAIN tasks'[u[1][1]]
    BY <1>3 DEF OfTasks
  <2>1. /\ u[1][1] \in Threads /\ u[1][2] \in Rounds(u[1][1]) /\ u[1][2] <= round[u[1][1]]
        /\ u[1][3] \in DOMAIN tasks[u[1][1]]
    BY <1>2, JobsAre DEF Come, OfTasks
  <2>2. u[1][1] = t => round[t] > 0
    BY <1>5, <2>1 DEF Rounds
  <2> QED
    BY <1>5, <1>6, <2>1, <2>2
<1>8. Kept'
  <2> SUFFICES ASSUME NEW s \in Threads, NEW r \in 1..round'[s], NEW n \in DOMAIN tasks'[s],
                      r = round'[s] => n \notin pending'[s]
               PROVE  UnitsOf(<<s, r, n>>)' \subseteq Known
    BY <1>3 DEF Kept
  <2>1. CASE s = t
    <3>1. r # round[t] + 1 /\ r \in 1..round[t] /\ round[t] > 0
      BY <1>5, <2>1
    <3>2. tasks'[t] = tasks[t] /\ n \in DOMAIN tasks[t] /\ n \notin pending[t]
      BY <1>5, <2>1, <3>1
    <3>3. UnitsOf(<<t, r, n>>) \subseteq Known
      BY <3>1, <3>2 DEF Kept
    <3>4. UnitsOf(<<t, r, n>>)' = UnitsOf(<<t, r, n>>)
      BY <3>2 DEF UnitsOf, TaskOf, NodeOf
    <3> QED
      BY <2>1, <3>3, <3>4
  <2>2. CASE s # t
    <3>1. tasks'[s] = tasks[s] /\ round'[s] = round[s] /\ pending'[s] = pending[s]
      BY <1>6, <2>2
    <3>2. UnitsOf(<<s, r, n>>)' = UnitsOf(<<s, r, n>>)
      BY <3>1 DEF UnitsOf, TaskOf, NodeOf
    <3> QED
      BY <3>1, <3>2 DEF Kept
  <2> QED
    BY <2>1, <2>2
<1> QED
  BY <1>4, <1>7, <1>8

LEMMA SendExact ==
  ASSUME TypeInv, Submitting, Kept, OfTasks, NEW t \in Threads, NEW n \in Nodes, Send(t, n),
         n \in alive, connected
  PROVE  Submitting' /\ Kept' /\ OfTasks'
<1> DEFINE job == <<t, round[t], n>>
<1>1. /\ pc' = [pc EXCEPT ![t] = "count"] /\ pc[t] = "submit" /\ n \in pending[t]
      /\ todo' = todo \cup UnitsOf(job)
      /\ pending' = [pending EXCEPT ![t] = @ \ {n}]
      /\ UNCHANGED <<memberNames, tasks, round, metricVars, flight>>
  BY DEF Send, Goto
<1>2. TypeOK /\ Distributed /\ Come
  BY DEF TypeInv
<1>3. Known' = Known \cup UnitsOf(job)
  BY <1>1 DEF Known, Outstanding, received, metricVars
<1>4. Submitting'
  BY <1>1, <1>2 DEF Submitting, TypeOK
<1>5. \A j : UnitsOf(j)' = UnitsOf(j)
  BY <1>1 DEF UnitsOf, TaskOf, NodeOf
<1>6. n \in DOMAIN tasks[t]
  BY <1>1, <1>2 DEF Distributed
<1>7. OfTasks'
  <2>1. \A u \in UnitsOf(job) : u[1] = job
    BY UnitsAre
  <2>2. \A u \in UnitsOf(job) : u[1][1] = t /\ u[1][3] = n
    BY <2>1
  <2> QED
    BY <1>1, <1>3, <1>6, <2>2 DEF OfTasks
<1>8. Kept'
  <2> SUFFICES ASSUME NEW s \in Threads, NEW r \in 1..round[s], NEW m \in DOMAIN tasks[s],
                      r = round[s] => m \notin pending'[s]
               PROVE  UnitsOf(<<s, r, m>>) \subseteq Known'
    BY <1>1, <1>5 DEF Kept
  <2>1. CASE s = t /\ r = round[t] /\ m = n
    BY <1>3, <2>1
  <2>2. CASE ~(s = t /\ r = round[t] /\ m = n)
    <3>1. r = round[s] => m \notin pending[s]
      BY <1>1, <1>2, <2>2 DEF TypeOK
    <3> QED
      BY <1>3, <3>1 DEF Kept
  <2> QED
    BY <2>1, <2>2
<1> QED
  BY <1>4, <1>7, <1>8

(* The other steps of a client thread. *)
LEMMA ClientExact ==
  ASSUME TypeInv, Intact, Submitting, NEW t \in Threads,
         \/ Run(t) \/ Count(t) \/ Submitted(t) \/ waitUntilAllTestsFinished(t)
         \/ (NextStep(t) /\ ~(round[t] < Len(Specifications[t])))
  PROVE  Submitting' /\ UNCHANGED <<tasks, round, pending>> /\ Known' = Known
<1>1. TypeOK
  BY DEF TypeInv
<1>2. UNCHANGED <<tasks, round, pending, metricVars, todo, flight>>
  BY DEF Run, Count, Submitted, waitUntilAllTestsFinished, NextStep
<1>3. Known' = Known
  BY <1>2 DEF Known, Outstanding, received, metricVars
<1>4. CASE Run(t)
  <2>1. PICK names \in topology : memberNames' = [memberNames EXCEPT ![t] = names]
    BY <1>4 DEF Run
  <2>2. pc' = [pc EXCEPT ![t] = IF alive = {} THEN "failed" ELSE "nextStep"] /\ pc[t] = "idle"
    BY <1>4 DEF Run, Goto
  <2>3. alive # {} => names # <<>> /\ IsInjective(names)
    BY <1>1, TopologyIs DEF TypeOK
  <2>4. pending[t] = {}
    BY <2>2 DEF Submitting
  <2> QED
    BY <1>1, <1>2, <1>3, <2>1, <2>2, <2>3, <2>4 DEF Submitting, TypeOK
<1>5. CASE Count(t) \/ Submitted(t) \/ waitUntilAllTestsFinished(t)
  BY <1>1, <1>2, <1>3, <1>5
  DEF Submitting, TypeOK, Count, Submitted, waitUntilAllTestsFinished, Goto
<1>6. CASE NextStep(t) /\ ~(round[t] < Len(Specifications[t]))
  <2>1. pc[t] = "nextStep" /\ pc' = [pc EXCEPT ![t] = "wait"] /\ UNCHANGED memberNames
    BY <1>6 DEF NextStep, Goto
  <2>2. round[t] = Len(Specifications[t])
    <3>1. Len(Specifications[t]) \in Nat
      BY GridAssumption DEF GridAssumption
    <3>2. round[t] \in 1..Len(Specifications[t]) \cup {0}
      BY <1>1 DEF TypeOK, Rounds
    <3>3. ~(round[t] < Len(Specifications[t]))
      BY <1>6
    <3> QED
      BY <3>1, <3>2, <3>3
  <2> QED
    BY <1>1, <1>2, <1>3, <2>1, <2>2 DEF Submitting, TypeOK
<1> QED
  BY <1>2, <1>3, <1>4, <1>5, <1>6

(* Steps of the nodes and of the channel lose nothing. *)
LEMMA OthersExact ==
  ASSUME TypeInv, Submitting, Kept, OfTasks, Finished, UNCHANGED clientVars,
         Known' = Known, Outstanding' \subseteq Outstanding
  PROVE  Submitting' /\ Kept' /\ OfTasks' /\ Finished'
<1>1. UNCHANGED <<pc, memberNames, tasks, round, pending>>
  BY DEF clientVars
<1>2. Submitting' /\ Finished'
  BY <1>1 DEF Submitting, Finished
<1> QED
  BY <1>1, <1>2, UnitsKept

LEMMA ExactNext == TypeInv /\ CountInv /\ ExactInv /\ [Next]_vars => ExactInv'
<1> SUFFICES ASSUME TypeInv, CountInv, ~CanFail, ~Deadline, [Next]_vars,
                    Submitting, Kept, OfTasks, Finished
             PROVE  Submitting' /\ Kept' /\ OfTasks' /\ Finished'
  BY DEF ExactInv
<1> USE DEF nodeVars
<1>1. TypeOK /\ Distributed /\ Intact
  BY DEF TypeInv, CountInv
<1>2. ASSUME NEW t \in Threads, ClientStep(t)
      PROVE  Submitting' /\ Kept' /\ OfTasks' /\ Finished'
  <2>2. Submitting' /\ Kept' /\ OfTasks'
    <3>1. ASSUME NEW n \in Nodes, Send(t, n) PROVE Submitting' /\ Kept' /\ OfTasks'
      BY <1>1, <3>1, SendExact DEF Intact
    <3>2. CASE NextStep(t) /\ round[t] < Len(Specifications[t])
      BY <3>2, NextStepExact
    <3>3. CASE \/ Run(t) \/ Count(t) \/ Submitted(t) \/ waitUntilAllTestsFinished(t)
               \/ (NextStep(t) /\ ~(round[t] < Len(Specifications[t])))
      BY <1>1, <3>3, ClientExact, UnitsKept
    <3> QED
      BY <1>2, <3>1, <3>2, <3>3 DEF ClientStep
  <2>3. Finished'
    <3>1. CASE waitUntilAllTestsFinished(t)
      <4> SUFFICES ASSUME \A s \in Threads : pc'[s] = "done" PROVE Outstanding' = {}
        BY DEF Finished
      <4>1. /\ pc' = [pc EXCEPT ![t] = "done"] /\ pc[t] = "wait" /\ testsToRun = 0
            /\ UNCHANGED <<todo, flight>>
        BY <3>1 DEF waitUntilAllTestsFinished, Goto
      <4>2. \A s \in Threads : pc[s] # "count"
        BY <1>1, <4>1 DEF TypeOK
      <4>3. \A s \in Threads : uncounted[s] = {}
        BY <1>1, <4>2 DEF Distributed
      <4> QED
        BY <4>1, <4>3, NothingOutstanding DEF Outstanding
    <3>2. CASE ~waitUntilAllTestsFinished(t)
      <4>1. PICK next \in {"failed", "nextStep", "submit", "wait", "count"} :
              pc' = [pc EXCEPT ![t] = next]
        BY <1>2, <3>2 DEF ClientStep, Run, NextStep, Count, Submitted, Send, Goto
      <4>2. pc'[t] # "done"
        BY <1>1, <4>1 DEF TypeOK
      <4> QED
        BY <4>2 DEF Finished
    <3> QED
      BY <3>1, <3>2
  <2> QED
    BY <2>2, <2>3
<1>3. ASSUME NEW u \in flight, receive(u)
      PROVE  Submitting' /\ Kept' /\ OfTasks' /\ Finished'
  <2>1. Known' = Known /\ Outstanding' \subseteq Outstanding
    BY <1>3 DEF receive, Known, Outstanding, received, metricVars
  <2>3. UNCHANGED clientVars
    BY <1>3 DEF receive
  <2> QED
    BY <2>1, <2>3, OthersExact
<1>4. ASSUME NEW n \in Nodes, NodeStep(n)
      PROVE  Submitting' /\ Kept' /\ OfTasks' /\ Finished'
  <2>1. UNCHANGED clientVars
    BY <1>4 DEF NodeStep, ExecNow, ExecLater, TimerFires, JobEnds, RunOnce, PublishFails
  <2>2. Known' = Known /\ Outstanding' \subseteq Outstanding
    <3>1. CASE ExecNow(n) \/ ExecLater(n)
      BY <3>1 DEF ExecNow, ExecLater, Known, Outstanding, received, metricVars
    <3>2. ASSUME NEW job, TimerFires(job) \/ JobEnds(job)
          PROVE  Known' = Known /\ Outstanding' \subseteq Outstanding
      BY <3>2 DEF TimerFires, JobEnds, Known, Outstanding, received, metricVars
    <3>3. ASSUME NEW job, NEW v, RunOnce(job, v)
          PROVE  Known' = Known /\ Outstanding' \subseteq Outstanding
      <4>1. PICK u \in RunsOf(job, v) : flight' = flight \cup {u} /\ todo' = todo \ {u}
        BY <3>3 DEF RunOnce
      <4>2. u \in todo /\ UNCHANGED metricVars
        BY <3>3 DEF RunsOf, RunOnce
      <4> QED
        BY <4>1, <4>2 DEF Known, Outstanding, received, metricVars
    <3>4. ASSUME NEW job, NEW v, PublishFails(job, v) PROVE FALSE
      BY <1>1, <3>4 DEF PublishFails, Intact
    <3> QED
      BY <1>4, <3>1, <3>2, <3>3, <3>4 DEF NodeStep
  <2> QED
    BY <2>1, <2>2, OthersExact
<1>5. \A n \in Nodes : ~SetUpFails(n) /\ ~Crash(n)
  BY DEF SetUpFails, Crash
<1>6. ~disconnect
  BY DEF disconnect
<1>7. CASE UNCHANGED vars
  <2>1. UNCHANGED clientVars /\ Known' = Known /\ Outstanding' = Outstanding
    BY <1>7 DEF vars, clientVars, Known, Outstanding, received, metricVars
  <2> QED
    BY <2>1, OthersExact
<1>8. ASSUME NEW u \in updating, updateMetrics(u)
      PROVE  Submitting' /\ Kept' /\ OfTasks' /\ Finished'
  <2>1. Known' = Known /\ Outstanding' \subseteq Outstanding
    BY <1>8 DEF updateMetrics, Known, Outstanding, received
  <2>2. UNCHANGED clientVars
    BY <1>8 DEF updateMetrics
  <2> QED
    BY <2>1, <2>2, OthersExact
<1> QED
  BY <1>2, <1>3, <1>4, <1>5, <1>6, <1>7, <1>8 DEF Next

(* When all threads have come back, what was received is, for each thread, *)
(* round and node with an instruction, all the units of that instruction.  *)
LEMMA ReceivedIs ==
  ASSUME TypeInv, Submitting, Kept, OfTasks, Finished, \A t \in Threads : pc[t] = "done",
         NEW t \in Threads, NEW u
  PROVE  u \in received /\ u[1][1] = t
         <=> \E r \in Rounds(t), n \in DOMAIN tasks[t] : u \in UnitsOf(<<t, r, n>>)
<1>1. TypeOK /\ Distributed /\ Come
  BY DEF TypeInv
<1>2. Known = received /\ round[t] = Len(Specifications[t]) /\ pending[t] = {}
  BY DEF Known, Finished, Submitting
<1>3. ASSUME u \in received, u[1][1] = t
      PROVE  \E r \in Rounds(t), n \in DOMAIN tasks[t] : u \in UnitsOf(<<t, r, n>>)
  <2>1. /\ u[1] = <<t, u[1][2], u[1][3]>> /\ u[1][2] \in Rounds(t)
        /\ u[1][3] \in DOMAIN tasks[t] /\ u \in UnitsOf(u[1])
    BY <1>1, <1>2, <1>3, JobsAre DEF Come, OfTasks, TypeOK
  <2> QED
    BY <2>1
<1>4. ASSUME NEW r \in Rounds(t), NEW n \in DOMAIN tasks[t], u \in UnitsOf(<<t, r, n>>)
      PROVE  u \in received /\ u[1][1] = t
  <2>1. UnitsOf(<<t, r, n>>) \subseteq Known
    BY <1>2 DEF Kept, Rounds
  <2>2. u[1] = <<t, r, n>>
    BY <1>4, UnitsAre
  <2> QED
    BY <1>2, <1>4, <2>1, <2>2
<1> QED
  BY <1>3, <1>4

LEMMA ExactWhenDone ==
  ASSUME TypeInv, ExactInv
  PROVE  LoadExact
<1> SUFFICES ASSUME ~CanFail, ~Deadline, \A s \in Threads : pc[s] = "done", NEW t \in Threads,
                    Len(Specifications[t]) = 1, IsInjective(Specifications[t][1].members)
             PROVE  Cardinality({u \in received : u[1][1] = t})
                    = Specifications[t][1].vusers * Specifications[t][1].repeat
  <2>1. updating = {} => metrics = received
    BY DEF received
  <2> QED
    BY <2>1 DEF LoadExact
<1> DEFINE step == Specifications[t][1]
           members == StepMembers(step, memberNames[t])
           R == {u \in received : u[1][1] = t}
<1>1. TypeOK /\ Distributed /\ Submitting /\ Kept /\ OfTasks /\ Finished
  BY DEF TypeInv, ExactInv
<1>2. /\ Specifications[t] \in Seq(Steps) /\ step \in Steps
      /\ step.members \in Seq(Nodes) /\ step.vusers \in Nat /\ step.repeat \in Nat
  <2>1. Specifications[t] \in Seq(Steps)
    BY GridAssumption DEF GridAssumption, Steps
  <2>2. step \in Steps
    BY <2>1
  <2> QED
    BY <2>1, <2>2 DEF Steps
<1>3. members \in Seq(Nodes) /\ members # <<>> /\ IsInjective(members)
  <2>1. memberNames[t] \in Seq(Nodes) /\ memberNames[t] # <<>> /\ IsInjective(memberNames[t])
    BY <1>1 DEF TypeOK, Submitting
  <2> QED
    BY <1>2, <2>1 DEF StepMembers
<1>4. tasks[t] = distributeTasks(Specifications[t], memberNames[t])
  BY <1>1 DEF Distributed, Submitting, Tasks
<1>5. /\ DOMAIN tasks[t] = NamesOf(members)
      /\ \A n \in NamesOf(members) : /\ tasks[t][n].vusers = distributeLoad(members, step.vusers)[n]
                                     /\ tasks[t][n].repeat = step.repeat
  <2> DEFINE Uses(i, n) == n \in NamesOf(StepMembers(Specifications[t][i], memberNames[t]))
  <2>1. UNION {NamesOf(StepMembers(Specifications[t][i], memberNames[t])) :
                 i \in 1..Len(Specifications[t])} = NamesOf(members)
    OBVIOUS
  <2>2. DOMAIN tasks[t] = NamesOf(members)
    BY <1>4, <2>1 DEF distributeTasks
  <2>3. ASSUME NEW n \in NamesOf(members)
        PROVE  /\ tasks[t][n].vusers = distributeLoad(members, step.vusers)[n]
               /\ tasks[t][n].repeat = step.repeat
    <3> DEFINE i == CHOOSE j \in 1..Len(Specifications[t]) :
                      Uses(j, n) /\ \A k \in (j+1)..Len(Specifications[t]) : ~Uses(k, n)
    <3>1. i = 1
      OBVIOUS
    <3>2. tasks[t][n] =
            [step |-> i,
             vusers |-> distributeLoad(StepMembers(Specifications[t][i], memberNames[t]),
                                       Specifications[t][i].vusers)[n],
             repeat |-> Specifications[t][i].repeat]
      BY <1>4, <2>1 DEF distributeTasks
    <3> HIDE DEF i
    <3> QED
      BY <3>1, <3>2
  <2> QED
    BY <2>2, <2>3
<1>6. R = StepUnits(t, members, step.vusers, step.repeat)
  <2>1. \A u : u \in R <=> \E r \in Rounds(t), n \in DOMAIN tasks[t] : u \in UnitsOf(<<t, r, n>>)
    BY <1>1, ReceivedIs
  <2>2. Rounds(t) = {1}
    BY DEF Rounds
  <2>3. R = UNION {UnitsOf(<<t, 1, n>>) : n \in NamesOf(members)}
    <3> HIDE DEF R, members
    <3> QED
      BY <1>5, <2>1, <2>2
  <2>4. ASSUME NEW n \in NamesOf(members)
        PROVE  UnitsOf(<<t, 1, n>>) = {<<t, 1, n>>} \X (1..distributeLoad(members, step.vusers)[n])
                                                    \X (1..step.repeat)
    BY <1>5 DEF UnitsOf, TaskOf, NodeOf
  <2> HIDE DEF members, step, R
  <2> QED
    BY <2>3, <2>4 DEF StepUnits
<1> HIDE DEF members, R, step
<1>7. Cardinality(R) = step.vusers * step.repeat
  BY <1>2, <1>3, <1>6, UnitsOfAStep
<1> QED
  BY <1>7 DEF R, step

LEMMA InitExact == Init => ExactInv
<1> SUFFICES ASSUME Init PROVE Submitting /\ Kept /\ OfTasks /\ Finished
  BY DEF ExactInv
<1>1. Known = {} /\ Outstanding = {}
  BY DEF Init, Known, Outstanding, received, metricVars
<1> QED
  BY <1>1 DEF Init, Submitting, Kept, OfTasks, Finished

(* The load is split exactly: a specification of one step that names no    *)
(* node twice has been run and counted as often as it asks, when nothing   *)
(* fails and all client threads have come back from their wait; and the    *)
(* metrics have it once nothing is between the counter and them.           *)
THEOREM TheLoadIsExact == Spec => []LoadExact
BY InitExact, InitCounts, CountInvNext, TypeCorrect, ExactNext, ExactWhenDone, PTL DEF Spec

AllDone == \A t \in Threads : pc[t] = "done"

(* When nothing fails and every client thread has come back, what was      *)
(* counted off is every run of every instruction of every round, each of   *)
(* them once: also of specifications of several steps, whose tasks are     *)
(* sent again for each step.  And it is what the metrics have, once no     *)
(* thread of the channel is between the counter and the metrics.           *)
EveryRunReported ==
  ~CanFail /\ ~Deadline /\ AllDone =>
    /\ received = UNION {UnitsOf(job) : job \in {j \in Jobs : NodeOf(j) \in DOMAIN tasks[j[1]]}}
    /\ updating = {} => metrics = received

(* Every run of every round has been reported when all clients are done,   *)
(* and gets into the metrics.                                              *)
THEOREM EveryRunIsReported == Spec => []EveryRunReported
<1>1. TypeInv /\ ExactInv => EveryRunReported
  <2> SUFFICES ASSUME TypeInv, ExactInv, ~CanFail, ~Deadline, AllDone, NEW u
               PROVE  u \in received
                      <=> \E job \in Jobs : NodeOf(job) \in DOMAIN tasks[job[1]] /\ u \in UnitsOf(job)
    <3>1. updating = {} => metrics = received
      BY DEF received
    <3> QED
      BY <3>1 DEF EveryRunReported
  <2>1. TypeOK /\ Come /\ Submitting /\ Kept /\ OfTasks /\ Finished
    BY DEF TypeInv, ExactInv
  <2>2. ASSUME u \in received
        PROVE  \E job \in Jobs : NodeOf(job) \in DOMAIN tasks[job[1]] /\ u \in UnitsOf(job)
    BY <2>1, <2>2 DEF TypeOK, Come, OfTasks, Known, NodeOf
  <2>3. ASSUME NEW job \in Jobs, NodeOf(job) \in DOMAIN tasks[job[1]], u \in UnitsOf(job)
        PROVE  u \in received
    <3>1. /\ job = <<job[1], job[2], job[3]>> /\ job[1] \in Threads /\ job[2] \in Rounds(job[1])
          /\ job[3] \in DOMAIN tasks[job[1]]
      BY <2>3, JobsAre DEF NodeOf
    <3>2. u \in UnitsOf(<<job[1], job[2], job[3]>>)
      BY <2>3, <3>1
    <3>3. \E r \in Rounds(job[1]), n \in DOMAIN tasks[job[1]] : u \in UnitsOf(<<job[1], r, n>>)
      BY <3>1, <3>2
    <3>4. \A s \in Threads : pc[s] = "done"
      BY DEF AllDone
    <3> QED
      BY <2>1, <3>1, <3>3, <3>4, ReceivedIs
  <2> QED
    BY <2>2, <2>3
<1> QED
  BY <1>1, InitExact, InitCounts, CountInvNext, TypeCorrect, ExactNext, PTL DEF Spec
-----------------------------------------------------------------------------
(* A run is in one place at a time: still to come, in an update on its way *)
(* (CountInv), or reported; and in the metrics, once it has been there, it *)
(* is not counted or recorded again, whatever fails (JGroupsClusterClient  *)
(* .java:121-122).                                                         *)
EachRunOnce ==
  Outstanding \cap received = {} /\ updating \cap metrics = {} /\ todo \cap flight = {}

(* What is known of the round under way was sent, and is not pending.      *)
SentOnce == \A u \in Known : u[1][2] = round[u[1][1]] => u[1][3] \notin pending[u[1][1]]

OnceInv == SentOnce /\ Outstanding \cap received = {} /\ updating \cap metrics = {}

LEMMA SentOnceStays ==
  ASSUME SentOnce, Known' \subseteq Known, UNCHANGED <<round, pending>>
  PROVE  SentOnce'
BY DEF SentOnce

LEMMA OnceNext == TypeInv /\ CountInv /\ OnceInv /\ [Next]_vars => OnceInv'
<1> SUFFICES ASSUME TypeInv, CountInv, OnceInv, [Next]_vars PROVE OnceInv'
  OBVIOUS
<1> USE DEF nodeVars, clientVars, metricVars
<1>1. TypeOK /\ Come /\ SentOnce /\ todo \cap flight = {}
  BY DEF TypeInv, CountInv, OnceInv
<1>2. ASSUME UNCHANGED <<round, pending, metricVars>>, Outstanding' \subseteq Outstanding
      PROVE  OnceInv'
  <2>1. Known' \subseteq Known
    BY <1>2 DEF Known, received
  <2> QED
    BY <1>1, <1>2, <2>1, SentOnceStays DEF OnceInv, received
<1>3. ASSUME NEW t \in Threads, NextStep(t), round[t] < Len(Specifications[t]) PROVE OnceInv'
  <2>1. /\ round' = [round EXCEPT ![t] = @ + 1] /\ UNCHANGED <<todo, flight, metricVars>>
        /\ pending' = [pending EXCEPT ![t] = DOMAIN Tasks(t)]
    BY <1>3 DEF NextStep
  <2>2. Known' = Known /\ Outstanding' = Outstanding /\ received' = received
    BY <2>1 DEF Known, Outstanding, received
  <2>3. SentOnce'
    <3> SUFFICES ASSUME NEW u \in Known, u[1][2] = round'[u[1][1]]
                 PROVE  u[1][3] \notin pending'[u[1][1]]
      BY <2>2 DEF SentOnce
    <3>1. u[1][1] \in Threads /\ u[1][2] <= round[u[1][1]] /\ round[u[1][1]] \in Nat
      BY <1>1, JobsAre DEF Come, TypeOK
    <3>2. u[1][1] # t
      BY <1>1, <2>1, <3>1 DEF TypeOK
    <3> QED
      BY <1>1, <2>1, <3>1, <3>2 DEF SentOnce, TypeOK
  <2> QED
    BY <2>1, <2>2, <2>3 DEF OnceInv
<1>4. ASSUME NEW t \in Threads, NEW n \in Nodes, Send(t, n), n \in alive, connected PROVE OnceInv'
  <2> DEFINE job == <<t, round[t], n>>
  <2>1. /\ todo' = todo \cup UnitsOf(job) /\ UNCHANGED <<round, flight, metricVars>>
        /\ pending' = [pending EXCEPT ![t] = @ \ {n}] /\ n \in pending[t]
    BY <1>4 DEF Send
  <2>2. \A u \in UnitsOf(job) : u[1] = job
    BY UnitsAre
  <2>3. \A u \in UnitsOf(job) : u[1][1] = t /\ u[1][2] = round[t] /\ u[1][3] = n
    BY <2>2
  <2>4. UnitsOf(job) \cap Known = {}
    BY <1>1, <2>1, <2>3 DEF SentOnce
  <2> HIDE DEF job
  <2>5. /\ Outstanding' = Outstanding \cup UnitsOf(job) /\ received' = received
        /\ Known' = Known \cup UnitsOf(job)
    BY <2>1 DEF Outstanding, received, Known
  <2>6. SentOnce'
    <3> SUFFICES ASSUME NEW u \in Known', u[1][2] = round[u[1][1]]
                 PROVE  u[1][3] \notin pending'[u[1][1]]
      BY <2>1 DEF SentOnce
    <3>1. CASE u \in UnitsOf(job)
      BY <1>1, <2>1, <2>3, <3>1 DEF TypeOK
    <3>2. CASE u \in Known
      <4>1. u[1][3] \notin pending[u[1][1]] /\ u[1][1] \in Threads
        BY <1>1, <3>2, JobsAre DEF SentOnce, Come
      <4> QED
        BY <1>1, <2>1, <4>1 DEF TypeOK
    <3> QED
      BY <2>5, <3>1, <3>2
  <2> QED
    BY <2>1, <2>4, <2>5, <2>6 DEF OnceInv, Known
<1>5. ASSUME NEW t \in Threads, ClientStep(t) PROVE OnceInv'
  <2>1. CASE Run(t) \/ Count(t) \/ Submitted(t) \/ waitUntilAllTestsFinished(t)
    BY <1>2, <2>1 DEF Run, Count, Submitted, waitUntilAllTestsFinished, Outstanding
  <2>2. CASE NextStep(t) /\ ~(round[t] < Len(Specifications[t]))
    BY <1>2, <2>2 DEF NextStep, Outstanding
  <2>3. ASSUME NEW n \in Nodes, Send(t, n), ~(n \in alive /\ connected) PROVE OnceInv'
    BY <1>2, <2>3 DEF Send, Outstanding
  <2> QED
    BY <1>3, <1>4, <1>5, <2>1, <2>2, <2>3 DEF ClientStep
<1>6. ASSUME NEW u \in flight, receive(u) PROVE OnceInv'
  <2>1. /\ flight' = flight \ {u} /\ updating' = updating \cup {u}
        /\ UNCHANGED <<round, pending, metrics, todo>>
    BY <1>6 DEF receive
  <2>2. u \notin received /\ u \notin todo
    BY <1>1 DEF OnceInv, Outstanding
  <2>3. Known' \subseteq Known
    BY <2>1 DEF Known, Outstanding, received
  <2> QED
    BY <1>1, <2>1, <2>2, <2>3, SentOnceStays DEF OnceInv, Outstanding, received
<1>7. ASSUME NEW u \in updating, updateMetrics(u) PROVE OnceInv'
  <2>1. /\ updating' = updating \ {u} /\ metrics' = metrics \cup {u}
        /\ UNCHANGED <<round, pending, todo, flight>>
    BY <1>7 DEF updateMetrics
  <2>2. received' = received /\ Outstanding' = Outstanding /\ Known' = Known
    BY <2>1 DEF Known, Outstanding, received
  <2> QED
    BY <1>1, <2>1, <2>2, SentOnceStays DEF OnceInv
<1>8. ASSUME NEW n \in Nodes, SetUpFails(n) \/ Crash(n) PROVE OnceInv'
  BY <1>2, <1>8 DEF SetUpFails, Crash, Outstanding
<1>9. ASSUME NEW n \in Nodes, NodeStep(n) PROVE OnceInv'
  <2>1. CASE ExecNow(n) \/ ExecLater(n)
    BY <1>2, <2>1 DEF ExecNow, ExecLater, Outstanding
  <2>2. ASSUME NEW job, NEW v, TimerFires(job) \/ JobEnds(job) \/ PublishFails(job, v)
        PROVE  OnceInv'
    BY <1>2, <2>2 DEF TimerFires, JobEnds, PublishFails, Outstanding
  <2>3. ASSUME NEW job, NEW v, RunOnce(job, v) PROVE OnceInv'
    <3>1. UNCHANGED <<round, pending, metricVars>> /\ Outstanding' \subseteq Outstanding
      BY <2>3 DEF RunOnce, RunsOf, Outstanding
    <3> QED
      BY <1>2, <3>1
  <2>4. CASE \E job \in running :
               NodeOf(job) = n /\ (JobEnds(job) \/ \E v \in Vusers(job) : RunOnce(job, v) \/ PublishFails(job, v))
    BY <2>2, <2>3, <2>4
  <2> QED
    BY <1>9, <2>1, <2>2, <2>4 DEF NodeStep
<1>10. CASE disconnect \/ UNCHANGED vars
  BY <1>2, <1>10 DEF disconnect, vars, Outstanding
<1> QED
  BY <1>5, <1>6, <1>7, <1>8, <1>9, <1>10 DEF Next

(* In every reachable state each run is in one place, and is never         *)
(* recorded twice.                                                         *)
THEOREM EachRunIsOnce == Spec => []EachRunOnce
<1>1. Init => OnceInv
  BY DEF Init, OnceInv, SentOnce, Known, Outstanding, received
<1>2. CountInv /\ OnceInv => EachRunOnce
  BY DEF CountInv, OnceInv, EachRunOnce
<1> QED
  BY <1>1, <1>2, OnceNext, InitCounts, CountInvNext, TypeCorrect, PTL DEF Spec
-----------------------------------------------------------------------------
(* Nothing is stranded: whatever fails, each run still to come is with a   *)
(* node that is alive, its instruction on the way, waiting for its time or *)
(* being run.                                                              *)
WithNode(job) == /\ NodeOf(job) \in alive
                 /\ job \in running \cup scheduled \cup ToSet(inbox[NodeOf(job)])

NothingStranded == \A u \in todo : WithNode(u[1])

LEMMA QueueIs ==
  ASSUME NEW S, NEW q \in Seq(S)
  PROVE  /\ \A x \in S : ToSet(Append(q, x)) = ToSet(q) \cup {x}
         /\ q # <<>> => Head(q) \in S /\ Tail(q) \in Seq(S) /\ ToSet(q) \subseteq {Head(q)} \cup ToSet(Tail(q))
<1>1. ASSUME NEW x \in S PROVE ToSet(Append(q, x)) = ToSet(q) \cup {x}
  <2>1. DOMAIN q = 1..Len(q) /\ Len(q) \in Nat
        /\ DOMAIN Append(q, x) = 1..(Len(q) + 1)
        /\ \A i \in 1..(Len(q) + 1) : Append(q, x)[i] = IF i = Len(q) + 1 THEN x ELSE q[i]
    OBVIOUS
  <2>2. \A y : y \in ToSet(Append(q, x)) => y \in ToSet(q) \cup {x}
    BY <2>1 DEF ToSet
  <2>3. \A y \in ToSet(q) : y \in ToSet(Append(q, x))
    <3> SUFFICES ASSUME NEW i \in 1..Len(q) PROVE q[i] \in ToSet(Append(q, x))
      BY <2>1 DEF ToSet
    <3>1. i \in 1..(Len(q) + 1) /\ Append(q, x)[i] = q[i]
      BY <2>1
    <3> QED
      BY <2>1, <3>1 DEF ToSet
  <2>4. x \in ToSet(Append(q, x))
    <3>1. Len(q) + 1 \in 1..(Len(q) + 1)
      BY <2>1
    <3> QED
      BY <2>1, <3>1 DEF ToSet
  <2> QED
    BY <2>2, <2>3, <2>4
<1>2. ASSUME q # <<>>
      PROVE  ToSet(q) \subseteq {Head(q)} \cup ToSet(Tail(q))
  <2>1. /\ DOMAIN q = 1..Len(q) /\ Len(q) \in Nat \ {0} /\ Head(q) = q[1]
        /\ DOMAIN Tail(q) = 1..(Len(q) - 1)
        /\ \A i \in 1..(Len(q) - 1) : Tail(q)[i] = q[i + 1]
    BY <1>2
  <2> SUFFICES ASSUME NEW i \in 1..Len(q), i # 1 PROVE q[i] \in ToSet(Tail(q))
    BY <2>1 DEF ToSet
  <2>2. i - 1 \in 1..(Len(q) - 1) /\ (i - 1) + 1 = i
    BY <2>1
  <2>3. Tail(q)[i - 1] = q[i] /\ i - 1 \in DOMAIN Tail(q)
    BY <2>1, <2>2
  <2> QED
    BY <2>3 DEF ToSet
<1>3. q # <<>> => Head(q) \in S /\ Tail(q) \in Seq(S)
  OBVIOUS
<1> QED
  BY <1>1, <1>2, <1>3

LEMMA StrandedNext == TypeInv /\ NothingStranded /\ [Next]_vars => NothingStranded'
<1> SUFFICES ASSUME TypeInv, NothingStranded, [Next]_vars, NEW u \in todo'
             PROVE  WithNode(u[1])'
  BY DEF NothingStranded
<1> USE DEF nodeVars, clientVars
<1> DEFINE j == u[1]
           m == NodeOf(j)
<1>1. inbox \in [Nodes -> Seq(Jobs)] /\ alive \subseteq Nodes
  BY DEF TypeInv, TypeOK
<1>2. ASSUME NEW n \in Nodes, inbox[n] # <<>>
      PROVE  ToSet(inbox[n]) \subseteq {Head(inbox[n])} \cup ToSet(Tail(inbox[n]))
  BY <1>1, <1>2, QueueIs
<1>3. u \in todo => m \in alive /\ m \in Nodes /\ j \in running \cup scheduled \cup ToSet(inbox[m])
  BY <1>1 DEF NothingStranded, WithNode
<1>4. ASSUME UNCHANGED <<alive, inbox, scheduled, running>>, u \in todo
      PROVE  WithNode(j)'
  BY <1>3, <1>4 DEF WithNode, NodeOf
<1>5. ASSUME NEW t \in Threads, ClientStep(t) PROVE WithNode(j)'
  <2>1. CASE Run(t) \/ NextStep(t) \/ Count(t) \/ Submitted(t) \/ waitUntilAllTestsFinished(t)
    BY <1>4, <2>1 DEF Run, NextStep, Count, Submitted, waitUntilAllTestsFinished
  <2>2. ASSUME NEW n \in Nodes, Send(t, n) PROVE WithNode(j)'
    <3> DEFINE job == <<t, round[t], n>>
    <3>1. CASE ~(n \in alive /\ connected)
      BY <1>4, <2>2, <3>1 DEF Send
    <3>2. CASE n \in alive /\ connected
      <4>1. /\ inbox' = [inbox EXCEPT ![n] = Append(@, job)]
            /\ todo' = todo \cup UnitsOf(job) /\ UNCHANGED <<alive, scheduled, running>>
        BY <2>2, <3>2 DEF Send
      <4>2. job \in Jobs
        <5>1. round[t] \in Rounds(t)
          BY <2>2 DEF TypeInv, TypeOK, Distributed, Send
        <5> QED
          BY <5>1, JobsAre
      <4>3. inbox'[n] = Append(inbox[n], job) /\ \A k \in Nodes \ {n} : inbox'[k] = inbox[k]
        BY <1>1, <4>1
      <4> HIDE DEF job
      <4>4. ToSet(inbox'[n]) = ToSet(inbox[n]) \cup {job}
        BY <1>1, <4>2, <4>3, QueueIs
      <4>5. CASE u \in todo
        BY <1>3, <4>1, <4>3, <4>4, <4>5 DEF WithNode
      <4>6. CASE u \in UnitsOf(job)
        <5>1. j = job /\ m = n
          BY <4>6, UnitsAre DEF NodeOf, job
        <5> QED
          BY <3>2, <4>1, <4>4, <5>1 DEF WithNode
      <4> QED
        BY <4>1, <4>5, <4>6
    <3> QED
      BY <3>1, <3>2
  <2> QED
    BY <1>5, <2>1, <2>2 DEF ClientStep
<1>6. ASSUME NEW n \in Nodes, SetUpFails(n) \/ ExecLater(n) PROVE WithNode(j)'
  <2>1. /\ inbox[n] # <<>> /\ inbox' = [inbox EXCEPT ![n] = Tail(@)]
        /\ u \in todo /\ UNCHANGED <<alive, running>>
        /\ \/ j # Head(inbox[n]) /\ UNCHANGED scheduled
           \/ scheduled' = scheduled \cup {Head(inbox[n])}
    BY <1>6 DEF SetUpFails, ExecLater, CanHandle
  <2>2. inbox'[n] = Tail(inbox[n]) /\ \A k \in Nodes \ {n} : inbox'[k] = inbox[k]
    BY <1>1, <2>1
  <2> QED
    BY <1>2, <1>3, <2>1, <2>2 DEF WithNode
<1>7. ASSUME NEW n \in Nodes, Crash(n) PROVE WithNode(j)'
  <2>1. u \in todo /\ m # n
    BY <1>7 DEF Crash, UnitsAt
  <2>2. inbox'[m] = inbox[m] /\ alive' = alive \ {n}
        /\ (j \in running => j \in running') /\ (j \in scheduled => j \in scheduled')
    BY <1>1, <1>7, <2>1 DEF Crash
  <2> QED
    BY <1>3, <2>1, <2>2 DEF WithNode
<1>8. CASE \/ disconnect \/ \E w \in flight : receive(w)
           \/ \E w \in updating : updateMetrics(w)
  BY <1>4, <1>8 DEF disconnect, receive, updateMetrics
<1>9. ASSUME NEW n \in Nodes, NodeStep(n) PROVE WithNode(j)'
  <2>1. CASE ExecNow(n)
    <3>1. u \in todo /\ UNCHANGED <<alive, inbox, scheduled>> /\ running \subseteq running'
      BY <2>1 DEF ExecNow
    <3> QED
      BY <1>3, <3>1 DEF WithNode
  <2>2. CASE ExecLater(n)
    BY <1>6, <2>2
  <2>3. ASSUME NEW job \in scheduled, TimerFires(job) PROVE WithNode(j)'
    <3>1. /\ u \in todo /\ UNCHANGED <<alive, inbox>>
          /\ scheduled' = scheduled \ {job} /\ running' = running \cup {job}
      BY <2>3 DEF TimerFires
    <3> QED
      BY <1>3, <3>1 DEF WithNode
  <2>4. ASSUME NEW job \in running, JobEnds(job) PROVE WithNode(j)'
    <3>1. /\ u \in todo /\ UNCHANGED <<alive, scheduled>> /\ running' = running \ {job} /\ j # job
          /\ inbox' = [inbox EXCEPT ![NodeOf(job)] = IF @ # <<>> /\ Head(@) = job THEN Tail(@) ELSE @]
      BY <2>4 DEF JobEnds
    <3>2. m \in Nodes /\ inbox'[m] \in {inbox[m], Tail(inbox[m])}
          /\ (inbox'[m] # inbox[m] => inbox[m] # <<>> /\ Head(inbox[m]) = job)
      BY <1>1, <1>3, <3>1
    <3>3. j \in ToSet(inbox[m]) => j \in ToSet(inbox'[m])
      BY <1>2, <3>1, <3>2
    <3> QED
      BY <1>3, <3>1, <3>3 DEF WithNode
  <2>5. ASSUME NEW job, NEW v, RunOnce(job, v) \/ PublishFails(job, v) PROVE WithNode(j)'
    BY <1>4, <2>5 DEF RunOnce, PublishFails
  <2> QED
    BY <1>9, <2>1, <2>2, <2>3, <2>4, <2>5 DEF NodeStep
<1>10. CASE UNCHANGED vars
  BY <1>4, <1>10 DEF vars
<1> QED
  BY <1>5, <1>6, <1>7, <1>8, <1>9, <1>10 DEF Next

(* No outstanding run of a reachable state is out of every node's sight.    *)
THEOREM NothingIsStranded == Spec => []NothingStranded
<1>1. Init => NothingStranded
  BY DEF Init, NothingStranded
<1> QED
  BY <1>1, StrandedNext, TypeCorrect, PTL DEF Spec

(* As long as the counter is not zero and everything sent is counted, there *)
(* is an update on its way or a run that a living node has still to do:     *)
(* when nothing fails, no client waits for nothing.                         *)
WaitsForSomething ==
  ~CanFail /\ ~Deadline /\ testsToRun # 0 /\ (\A t \in Threads : uncounted[t] = {}) =>
    flight # {} \/ \E u \in todo : WithNode(u[1])

(* In no reachable state the clients wait for nothing: the safety part of  *)
(* WaitReturns.                                                            *)
THEOREM TheWaitIsForSomething == Spec => []WaitsForSomething
<1>1. TypeInv /\ CountInv /\ NothingStranded => WaitsForSomething
  <2> SUFFICES ASSUME TypeInv, CountInv, NothingStranded, ~CanFail, ~Deadline, testsToRun # 0,
                      \A t \in Threads : uncounted[t] = {}, Outstanding = {}
               PROVE  FALSE
    BY DEF WaitsForSomething, NothingStranded, Outstanding
  <2>1. AllUncounted = {}
    BY DEF AllUncounted, Uncounted
  <2>2. Cardinality(AllUncounted) = 0 /\ Cardinality(Outstanding) = 0
    BY <2>1, FS_EmptySet
  <2>3. testsToRun \in Int /\ Surplus = 0
    BY SurplusIs DEF CountInv, TypeInv
  <2> QED
    BY <2>2, <2>3 DEF Surplus
<1> QED
  BY <1>1, InitCounts, CountInvNext, TypeCorrect, NothingIsStranded, PTL DEF Spec
=============================================================================
