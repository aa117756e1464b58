------------------------------ MODULE TestGrid ------------------------------
(***************************************************************************)
(* The test grid over JGroups (src/hazelcast-proto): a client distributes  *)
(* a test specification to the nodes of the cluster, the nodes run the     *)
(* virtual users and report each single run back, and the client waits     *)
(* until a counter of outstanding runs is zero.                            *)
(*                                                                         *)
(* A unit <<job, vuser, rep>> is one run of the test by one virtual user;  *)
(* a job <<thread, round, node>> is one NodeInstruction.  run() submits    *)
(* the whole specification once for each of its steps: the rounds.         *)
(*                                                                         *)
(* Client threads (HTTP requests, the main thread of a benchmark) share    *)
(* one JGroupsClusterClient and its counter testsToRun.  A message is sent *)
(* before the counter is raised, updates come back on other threads, nodes *)
(* may crash, fail to set up a test or reach the deadline of the schedule. *)
(***************************************************************************)
EXTENDS TaskDistribution, SequencesExt

CONSTANTS
  Nodes,         \* the test nodes
  MemberOrder,   \* the nodes in the order in which they joined the cluster
  Threads,       \* the client threads that call DistributedTestRunner.run
  Specifications, \* Specifications[t]: the specification that thread t runs
  Deadline,      \* whether the schedules have an "until" that may be reached
  Delayed,       \* whether the schedules have a "from", perhaps in the future
  CanFail        \* whether nodes crash, set-up fails, the client disconnects

ASSUME GridAssumption ==
  /\ IsFiniteSet(Nodes) /\ MemberOrder \in Seq(Nodes)
  /\ NamesOf(MemberOrder) = Nodes /\ Len(MemberOrder) = Cardinality(Nodes)
  /\ Deadline \in BOOLEAN /\ Delayed \in BOOLEAN /\ CanFail \in BOOLEAN
  /\ \A t \in Threads :
       Specifications[t] \in Seq([members : Seq(Nodes), vusers : Nat, repeat : Nat])

VARIABLES
  pc,            \* pc[t]: where client thread t is
  memberNames,   \* memberNames[t]: the topology when run() started
  tasks,         \* tasks[t]: the instruction for each node
  round,         \* round[t]: the iteration of run() over the steps
  pending,       \* pending[t]: the tasks of this round not yet submitted
  uncounted,     \* uncounted[t]: the node sent to but not counted, if any
  testsToRun,    \* the client's counter
  updating,      \* units counted off the counter, not yet in the metrics
  metrics,       \* the units that the metrics have
  connected,     \* whether the client is in the cluster
  alive,         \* the nodes in the cluster's view
  inbox,         \* inbox[n]: jobs on their way to n, the head being handled
  scheduled,     \* jobs waiting for a Timer
  running,       \* jobs whose virtual users are running
  todo,          \* units submitted and not yet run
  flight         \* units run, with their TestUpdate on its way

clientVars == <<pc, memberNames, tasks, round, pending, uncounted>>
nodeVars == <<alive, inbox, scheduled, running>>
metricVars == <<updating, metrics>>
vars == <<pc, memberNames, tasks, round, pending, uncounted, testsToRun, updating, metrics,
          connected, alive, inbox, scheduled, running, todo, flight>>

Rounds(t) == 1..Len(Specifications[t])
Jobs == UNION {{t} \X Rounds(t) \X Nodes : t \in Threads}
NodeOf(job) == job[3]

Tasks(t) == distributeTasks(Specifications[t], memberNames[t])
TaskOf(job) == tasks[job[1]][NodeOf(job)]
UnitsOf(job) == {job} \X (1..TaskOf(job).vusers) \X (1..TaskOf(job).repeat)
UnitsAt(n) == {u \in todo \cup flight : NodeOf(u[1]) = n}

Uncounted(t) == UNION {UnitsOf(<<t, round[t], n>>) : n \in uncounted[t]}

Init ==
  /\ pc = [t \in Threads |-> "idle"]
  /\ memberNames = [t \in Threads |-> <<>>]
  /\ tasks = [t \in Threads |-> <<>>]
  /\ round = [t \in Threads |-> 0]
  /\ pending = [t \in Threads |-> {}]
  /\ uncounted = [t \in Threads |-> {}]
  /\ testsToRun = 0
  /\ updating = {} /\ metrics = {}
  /\ connected = TRUE
  /\ alive = Nodes
  /\ inbox = [n \in Nodes |-> <<>>]
  /\ scheduled = {}
  /\ running = {}
  /\ todo = {}
  /\ flight = {}

Goto(t, label) == pc' = [pc EXCEPT ![t] = label]
-----------------------------------------------------------------------------
(* The client. *)

JoinedBefore(m, n) ==
  \E i, j \in 1..Len(MemberOrder) : i < j /\ MemberOrder[i] = m /\ MemberOrder[j] = n

(* The one sequence of the nodes in the view, in the order they joined. *)
topology == {s \in [1..Cardinality(alive) -> alive] :
               \A i, j \in 1..Cardinality(alive) : i < j => JoinedBefore(s[i], s[j])}

(* run() reads the topology once; an empty grid is an exception. *)
Run(t) ==
  /\ pc[t] = "idle" /\ connected
  /\ \E names \in topology : memberNames' = [memberNames EXCEPT ![t] = names]
  /\ Goto(t, IF alive = {} THEN "failed" ELSE "nextStep")
  /\ UNCHANGED <<tasks, round, pending, uncounted, testsToRun, metricVars, connected, nodeVars, todo, flight>>

(* Mutant of NextStep: one iteration too many. *)
MutOneStepTooMany(t) ==
  /\ pc[t] = "nextStep"
  /\ IF round[t] <= Len(Specifications[t])
     THEN /\ round' = [round EXCEPT ![t] = @ + 1]
          /\ tasks' = [tasks EXCEPT ![t] = Tasks(t)]
          /\ pending' = [pending EXCEPT ![t] = DOMAIN Tasks(t)]
          /\ Goto(t, "submit")
     ELSE /\ Goto(t, "wait")
          /\ UNCHANGED <<tasks, round, pending>>
  /\ UNCHANGED <<memberNames, uncounted, testsToRun, metricVars, connected, nodeVars, todo, flight>>

(* The next step of the specification: all of it is distributed again. *)
NextStep(t) ==
  /\ pc[t] = "nextStep"
  /\ IF round[t] < Len(Specifications[t])
     THEN /\ round' = [round EXCEPT ![t] = @ + 1]
          /\ tasks' = [tasks EXCEPT ![t] = Tasks(t)]
          /\ pending' = [pending EXCEPT ![t] = DOMAIN Tasks(t)]
          /\ Goto(t, "submit")
     ELSE /\ Goto(t, "wait")
          /\ UNCHANGED <<tasks, round, pending>>
  /\ UNCHANGED <<memberNames, uncounted, testsToRun, metricVars, connected, nodeVars, todo, flight>>

(* submitToGrid sends the instructions in the order of a HashMap.  The     *)
(* address is looked up in the view of now: a node that has left the       *)
(* cluster since the topology was read ends run() with an exception.       *)
Send(t, n) ==
  /\ pc[t] = "submit" /\ n \in pending[t]
  /\ LET job == <<t, round[t], n>> IN
     IF n \in alive /\ connected
     THEN /\ inbox' = [inbox EXCEPT ![n] = Append(@, job)]
          /\ todo' = todo \cup UnitsOf(job)
          /\ pending' = [pending EXCEPT ![t] = @ \ {n}]
          /\ uncounted' = [uncounted EXCEPT ![t] = {n}]
          /\ Goto(t, "count")
     ELSE /\ Goto(t, "failed")
          /\ UNCHANGED <<inbox, todo, pending, uncounted>>
  /\ UNCHANGED <<memberNames, tasks, round, testsToRun, metricVars, connected, alive,
                 scheduled, running, flight>>

(* Mutant of Count: repetitions are not counted. *)
MutCountVusers(t) ==
  /\ pc[t] = "count"
  /\ testsToRun' = testsToRun + Cardinality({u \in Uncounted(t) : u[3] = 1})
  /\ uncounted' = [uncounted EXCEPT ![t] = {}]
  /\ Goto(t, "submit")
  /\ UNCHANGED <<memberNames, tasks, round, pending, metricVars, connected, nodeVars, todo, flight>>

(* Mutant of Count: the load of the whole step is counted for each node. *)
MutCountWholeStep(t) ==
  /\ pc[t] = "count"
  /\ LET step == Specifications[t][round[t]] IN
       testsToRun' = testsToRun + step.vusers * step.repeat
  /\ uncounted' = [uncounted EXCEPT ![t] = {}]
  /\ Goto(t, "submit")
  /\ UNCHANGED <<memberNames, tasks, round, pending, metricVars, connected, nodeVars, todo, flight>>

(* Only then is the counter raised. *)
Count(t) ==
  /\ pc[t] = "count"
  /\ testsToRun' = testsToRun + Cardinality(Uncounted(t))
  /\ uncounted' = [uncounted EXCEPT ![t] = {}]
  /\ Goto(t, "submit")
  /\ UNCHANGED <<memberNames, tasks, round, pending, metricVars, connected, nodeVars, todo, flight>>

Submitted(t) ==
  /\ pc[t] = "submit" /\ pending[t] = {}
  /\ Goto(t, "nextStep")
  /\ UNCHANGED <<memberNames, tasks, round, pending, uncounted, testsToRun, metricVars, connected,
                 nodeVars, todo, flight>>

(* waitUntilAllTestsFinished polls the counter. *)
waitUntilAllTestsFinished(t) ==
  /\ pc[t] = "wait" /\ testsToRun = 0
  /\ Goto(t, "done")
  /\ UNCHANGED <<memberNames, tasks, round, pending, uncounted, testsToRun, metricVars, connected,
                 nodeVars, todo, flight>>

(* An update arrives on a thread of the channel, which first counts it ... *)
receive(u) ==
  /\ u \in flight
  /\ flight' = flight \ {u}
  /\ testsToRun' = testsToRun - 1
  /\ updating' = updating \cup {u}
  /\ UNCHANGED <<clientVars, metrics, connected, nodeVars, todo>>

(* ... and then puts it into the metrics: a client may be back by then.    *)
updateMetrics(u) ==
  /\ u \in updating
  /\ updating' = updating \ {u} /\ metrics' = metrics \cup {u}
  /\ UNCHANGED <<clientVars, testsToRun, connected, nodeVars, todo, flight>>

(* The client leaves when its threads are through; updates are lost then. *)
disconnect ==
  /\ CanFail /\ connected
  /\ \A t \in Threads : pc[t] \in {"done", "failed"}
  /\ connected' = FALSE
  /\ flight' = {}
  /\ UNCHANGED <<clientVars, testsToRun, metricVars, nodeVars, todo>>
-----------------------------------------------------------------------------
(* The nodes.  The messages of the client are handled one at a time: the   *)
(* next one has to wait for the virtual users of the one before, unless    *)
(* its schedule starts later, on a Timer.                                  *)

CanHandle(n) == inbox[n] # <<>> /\ Head(inbox[n]) \notin running

ExecNow(n) ==
  /\ CanHandle(n)
  /\ running' = running \cup {Head(inbox[n])}
  /\ UNCHANGED <<clientVars, testsToRun, metricVars, connected, alive, inbox,
                 scheduled, todo, flight>>

ExecLater(n) ==
  /\ CanHandle(n) /\ Delayed
  /\ scheduled' = scheduled \cup {Head(inbox[n])}
  /\ inbox' = [inbox EXCEPT ![n] = Tail(@)]
  /\ UNCHANGED <<clientVars, testsToRun, metricVars, connected, alive, running, todo, flight>>

(* The class or its classpath is not found: the exception is logged and    *)
(* nothing is reported to the client.                                      *)
SetUpFails(n) ==
  /\ CanFail /\ CanHandle(n)
  /\ inbox' = [inbox EXCEPT ![n] = Tail(@)]
  /\ todo' = {u \in todo : u[1] # Head(inbox[n])}
  /\ UNCHANGED <<clientVars, testsToRun, metricVars, connected, alive, scheduled, running, flight>>

TimerFires(job) ==
  /\ job \in scheduled
  /\ scheduled' = scheduled \ {job}
  /\ running' = running \cup {job}
  /\ UNCHANGED <<clientVars, testsToRun, metricVars, connected, alive, inbox, todo, flight>>

RunsOf(job, v) == {u \in todo : u[1] = job /\ u[2] = v}

(* A virtual user runs the test once more and publishes the result, pass   *)
(* or fail; once the deadline is past it does not repeat the test.         *)
RunOnce(job, v) ==
  /\ job \in running /\ connected
  /\ \E u \in RunsOf(job, v) :
       /\ \A w \in RunsOf(job, v) : u[3] <= w[3]
       /\ flight' = flight \cup {u}
       /\ \/ todo' = todo \ {u}
          \/ Deadline /\ todo' = todo \ RunsOf(job, v)
  /\ UNCHANGED <<clientVars, testsToRun, metricVars, connected, nodeVars>>

(* The client is gone: publishing the result and publishing the error both *)
(* throw, which ends the virtual user.                                     *)
PublishFails(job, v) ==
  /\ job \in running /\ ~connected
  /\ RunsOf(job, v) # {}
  /\ todo' = todo \ RunsOf(job, v)
  /\ UNCHANGED <<clientVars, testsToRun, metricVars, connected, nodeVars, flight>>

(* Mutant of JobEnds: the handler does not return. *)
MutHandlerHangs(job) ==
  /\ job \in running
  /\ \A u \in todo : u[1] # job
  /\ running' = running \ {job}
  /\ UNCHANGED <<clientVars, testsToRun, metricVars, connected, alive, inbox, scheduled, todo, flight>>

(* invokeAll returns when every virtual user has ended. *)
JobEnds(job) ==
  /\ job \in running
  /\ \A u \in todo : u[1] # job
  /\ running' = running \ {job}
  /\ inbox' = [inbox EXCEPT ![NodeOf(job)] =
                 IF @ # <<>> /\ Head(@) = job THEN Tail(@) ELSE @]
  /\ UNCHANGED <<clientVars, testsToRun, metricVars, connected, alive, scheduled, todo, flight>>

(* A node dies with its jobs and some of the updates it has sent. *)
Crash(n) ==
  /\ CanFail /\ n \in alive
  /\ alive' = alive \ {n}
  /\ inbox' = [inbox EXCEPT ![n] = <<>>]
  /\ scheduled' = {job \in scheduled : NodeOf(job) # n}
  /\ running' = {job \in running : NodeOf(job) # n}
  /\ todo' = todo \ UnitsAt(n)
  /\ \E lost \in SUBSET UnitsAt(n) : flight' = flight \ lost
  /\ UNCHANGED <<clientVars, testsToRun, metricVars, connected>>
-----------------------------------------------------------------------------
Vusers(job) == 1..TaskOf(job).vusers

ClientStep(t) == \/ Run(t) \/ NextStep(t) \/ Count(t) \/ Submitted(t)
                 \/ waitUntilAllTestsFinished(t)
                 \/ \E n \in Nodes : Send(t, n)

NodeStep(n) == \/ ExecNow(n) \/ ExecLater(n)
               \/ \E job \in scheduled : NodeOf(job) = n /\ TimerFires(job)
               \/ \E job \in running :
                    /\ NodeOf(job) = n
                    /\ \/ JobEnds(job)
                       \/ \E v \in Vusers(job) : RunOnce(job, v) \/ PublishFails(job, v)

Next == \/ \E t \in Threads : ClientStep(t)
        \/ \E n \in Nodes : NodeStep(n) \/ SetUpFails(n) \/ Crash(n)
        \/ \E u \in flight : receive(u)
        \/ \E u \in updating : updateMetrics(u)
        \/ disconnect

Spec == Init /\ [][Next]_vars

(* Client threads and node threads keep running, and JGroups delivers what *)
(* was sent.  Nothing forces a crash, a failure or the disconnect.         *)
Fairness == /\ \A t \in Threads : WF_vars(ClientStep(t))
            /\ \A n \in Nodes : WF_vars(NodeStep(n))
            /\ WF_vars(\E u \in flight : receive(u))
            /\ WF_vars(\E u \in updating : updateMetrics(u))

FairSpec == Spec /\ Fairness
-----------------------------------------------------------------------------
Outstanding == todo \cup flight
received == updating \cup metrics

TypeOK ==
  /\ pc \in [Threads -> {"idle", "nextStep", "submit", "count", "wait", "done", "failed"}]
  /\ memberNames \in [Threads -> Seq(Nodes)] /\ DOMAIN tasks = Threads
  /\ round \in [Threads -> Nat] /\ \A t \in Threads : round[t] \in Rounds(t) \cup {0}
  /\ pending \in [Threads -> SUBSET Nodes]
  /\ uncounted \in [Threads -> SUBSET Nodes]
  /\ testsToRun \in Int
  /\ connected \in BOOLEAN
  /\ alive \subseteq Nodes
  /\ inbox \in [Nodes -> Seq(Jobs)]
  /\ scheduled \cup running \subseteq Jobs
  /\ \A u \in Outstanding \cup received : u \in UnitsOf(u[1])

(* The counter of the client never promises more than is true: however     *)
(* submissions, updates, crashes, dropped instructions and deadlines       *)
(* interleave, it is at least the number of runs that are still to come,   *)
(* once the instruction being sent is counted.  (It may be negative: an    *)
(* update can overtake addAndGet, JGroupsClusterClient.java:90-92.)        *)
CounterCoversOutstanding ==
  testsToRun + Cardinality(UNION {Uncounted(t) : t \in Threads}) >= Cardinality(Outstanding)

(* waitUntilAllTestsFinished returns only when every run of every          *)
(* submitted instruction has been reported - unless at that moment another *)
(* thread of the client is between sending an instruction and counting it. *)
WaitReturnsOnlyWhenFinished ==
  [][\A t \in Threads :
       /\ pc[t] = "wait" /\ pc'[t] = "done"
       /\ \A s \in Threads : uncounted[s] = {}
       => Outstanding = {}]_vars

(* When nothing fails and every client thread has come back from its wait, *)
(* each specification of one step has been run and counted exactly as      *)
(* often as it asks: the load is split over the nodes without losing or    *)
(* duplicating a virtual user - unless the step names a node twice, which  *)
(* then gets the last of its shares.  The metrics have all these runs as   *)
(* soon as no thread is left between the counter and the metrics; a client *)
(* that is back may be too early for the last ones, which is why           *)
(* ClusteringTest sleeps before it looks (JGroupsClusterClient.java        *)
(* :121-122, ClusteringTest.java:58).                                      *)
LoadExact ==
  ~CanFail /\ ~Deadline /\ (\A t \in Threads : pc[t] = "done") =>
    \A t \in Threads :
      LET step == Specifications[t][1] IN
        Len(Specifications[t]) = 1 /\ IsInjective(step.members) =>
          /\ Cardinality({u \in received : u[1][1] = t}) = step.vusers * step.repeat
          /\ updating = {} =>
               Cardinality({u \in metrics : u[1][1] = t}) = step.vusers * step.repeat

(* A client thread that has found nodes gets through its wait, and the     *)
(* runs it has waited for get into the metrics, provided no node fails and *)
(* no deadline cuts the repetitions short (otherwise the counter stays     *)
(* above zero for ever: there is no timeout).                              *)
WaitReturns ==
  \A t \in Threads :
    pc[t] = "nextStep" ~> pc[t] = "done" /\ \A u \in received : u[1][1] = t => u \in metrics

(* A node works off what it was sent and is ready for the next client,     *)
(* whatever fails: no instruction blocks the handler for ever.             *)
NodesGetIdle ==
  \A n \in Nodes : inbox[n] # <<>> ~> inbox[n] = <<>> /\ \A u \in todo : NodeOf(u[1]) # n
=============================================================================
