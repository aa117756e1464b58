# Specifications of ERICtaf_proto

The repository is a collection of prototypes around TAF, a test automation
framework: services, dashboards, plug-ins, sample projects and test ware that
share little code. Most of it is user interface, samples and sequential tools.
The specifications here are about the parts that have logic of their own that
is concurrent, distributed or fails half way:

| Part | Code | Modules |
|---|---|---|
| Test data locks | `taf-data-management` | `RecordLocks`, `RecordLeases`, `RecordLocks_proofs` |
| Test grid over JGroups | `hazelcast-proto` (`shared`, `test-runner`, `test-node`) | `TaskDistribution`, `TestGrid`, `TestGrid_proofs` |
| Dashboards of the visualization engine | `akka-proto` | `VEDashboard`, `VEDashboard_proofs` |
| Event server of the visualization engine | `VisualizationEngineApp/server` | `EiffelVersions`, `VEServer`, `VEServer_proofs`, `VEDelivery_proofs` |
| Page of the visualization engine | `VisualizationEngineApp/root`, `akka-proto/ve-plugins` | `VEPage`, `VEPage_proofs` |
| Log parser | `tmsupport-plugin` | `LogParser`, `LogParser_proofs` |

`LeastNumbers` has the facts about natural numbers, among them induction in the
form the provers can use, that several of the proofs share.

Each specification has an `MC` module with the definitions of its small
instances, and one `.cfg` per run. `PROJECT.json` maps the definitions to lines
of code, and lists the runs, the hazards and the theorems. Operators named
`Mut...` are plausible bugs of the operator that follows them; each property is
known to fail when its definition is replaced by one of them. They are not part
of the specification.

To check a run: `tlc -config RecordLocks_safety.cfg MCRecordLocks`; to check the
proofs of a module: `tlapm RecordLocks_proofs.tla`.

# 1. Inventory

## Test data locks (`taf-data-management`)

*State.* Four MongoDB collections: `locks`, `dataSourceExecutions` (what a lock
has selected), `dataRecordLocks` (one entry for each locked record, with an
`expireAt`), `dataRecords`. The service keeps nothing in memory.

*Operations.* `LockDataService.createLock` selects records, stores the
selection, the lock and the entries, and undoes all of that in its catch block;
`releaseLock` removes the entries of a lock; MongoDB removes entries whose
`expireAt` is past.

*Interaction.* Test runs call it over REST, many at once. Exclusion rests on a
unique index over `dataRecordId`, and the timeout on a TTL index
(`InitialChangelog.java:32-33`).

*Hard.* No transaction: an ordered bulk insert that interleaves with others,
duplicate keys half way, calls that fail although they were applied, crashes,
late releases, expiry entry by entry.

*Correct when* granted locks are disjoint and held while they last; a refused
request leaves nothing; nobody frees what is another's; competitors do not all
refuse each other; nothing is blocked for ever.

## Test grid (`hazelcast-proto`)

*State.* In the client, a counter `testsToRun` shared by all its threads; in a
node, a queue of instructions, timers, and thread pools of virtual users.

*Operations.* `DistributedTestRunner.run` distributes a specification
(`TaskDistribution`) and submits it (`JGroupsClusterClient.submitToGrid`);
`JGroupsClusterNode.receive` starts the virtual users (`ThreadPoolTestEngine`,
`TestRun`), each run of which is published back; `waitUntilAllTestsFinished`
polls the counter.

*Interaction.* JGroups messages; nodes handle a client's messages one by one.

*Hard.* A message is sent before it is counted; the counter is shared; nodes
crash, fail to set up, reach the deadline or lose the client, and nothing of
that is ever reported; the wait has no timeout.

*Correct when* the load is split exactly, the wait ends, and not too early; a
node becomes idle again.

## Dashboards (`akka-proto`)

*State.* A master actor with a map of dashboard actors by session; a router
with two unsynchronised `HashMultimap`s, inverse to each other, and an event
hierarchy in each route; mailboxes.

*Operations.* connect, subscribe, unsubscribe, disconnect and direct answers
from the web side; events from the message bus.

*Interaction.* Web callbacks and plug-ins tell the master; the master forwards
to dashboards, which change the router on their own threads while the master
iterates over it.

*Hard.* The races on the router; exceptions that make Akka restart an actor,
which stops all children of the master while its map and the router live on;
answers that come after the disconnect.

*Correct when* the tables stay inverse, a clean disconnect leaves nothing, a
session gets what it asked for, in order, once, and nothing else, and the
master always gets through its mailbox.

## Event server (`VisualizationEngineApp/server`)

*State.* The master's turn; the workers; in each worker the rooms of socket.io,
copied through a Redis store.

*Operations.* events are handed to workers in turn; dead workers are replaced;
sockets subscribe and unsubscribe; `EventHandler.process` chooses the version of
an event and emits it to the rooms that match.

*Hard.* A worker dies before the master hears of it, and `cluster.workers` and
the `exit` event learn of it separately: events go to a worker that is gone, and
when no worker is left the next event ends the master. The rooms of a worker lag
behind or are empty after a replacement; ids grow while the turn does not; one
topic that throws keeps an event from others; versions are compared as strings
of digits.

*Correct when* the master finds a worker as long as it knows one, the load is
even, rooms converge, events reach whom the worker knows, once, in the right
version.

## Page (`VisualizationEngineApp/root`)

*State.* The regions (charts) the user has created, the topics each watches, one
collection of events for all of them with the regions each event is for, what
each chart holds, and the Jira epics that were asked for or have come. On the
server, the routes of the page's session.

*Operations.* The user creates and removes regions, adds and removes topics, and
has a tree map load an epic; the socket brings events and answers.

*Interaction.* One socket: requests to the dashboard server, events and answers
back. `TafEventProcessor` sends the test executions, `JiraEpicActor` the epics.

*Hard.* Topics are shared between regions, and the server is told of the first
and of the last region only; regions go while events for them are on their way,
and their handlers stay; several regions wait for one answer, which may be an
error or not come; the connection is lost, or the session's dashboard actor is
stopped behind its back, and the page does not notice.

*Correct when* the server routes what some region watches and nothing else,
events find the regions that watch by then, and no other, the charts agree with
the collection, and who asked for an epic gets it or is shown an error, unless
the answer is lost.

## Log parser (`tmsupport-plugin`)

*State.* The log, a copy of it, one reader of the copy with the number of the
next part, and for each thread its part and the statuses of its lines.

*Operations.* `LogParserParser` counts the lines; `LogParserStatusComputer`
copies the log, starts a thread for every part, waits for them for an hour,
sorts them by the numbers of their parts, collects the statuses and closes the
reader; then the log is read again and shown, the lines that matched a rule are
looked up on StackOverflow, and `LogParserPublisher` sets the result of the
build.

*Interaction.* The threads share the reader, which they lock, and hand over
their results in fields, without synchronisation. The lock inside the reader is
also the one that its `close` takes. The lookups go over the network.

*Hard.* The order in which the threads get the reader; threads that are still
running after the wait; a log that is longer when it is copied, and when it is
shown, than when it was counted; reads that fail half way through a part or a
line, and reads that hang with the lock; lookups, made just when the log has
something to report, that fail before the build has its result; a build that
Jenkins interrupts.

*Correct when* each line has its own status, none is lost or made up, an error
fails the build unless something ended the parse before, and the parse ends
unless a read or a lookup hangs.

## What else there is

| Part | State and operations | Hard |
|---|---|---|
| Feed of the TAF dashboard (`taf-dashboard`) | queues of SSE clients, ring buffer of the snapshot | threads that wait for ever |
| Confidence meter (`taf-rule-engine`) | statuses of stories and tests | integer shares |
| Deployment dashboard | static table of thread groups | unsynchronised map, removal while iterating |
| Metrics (`taf-metrics`) | samples go from RabbitMQ to MySQL | five inserts without a transaction |
| Grid over Hazelcast | the grid's other transport | listeners that pile up |
| CDB reporter | runs test ware and joins the reports | lost reports |

Smaller hazards, most of them of parts that are not modelled, are left out of the
list in `PROJECT.json`: `finishExecution` reads and saves a whole document
(`ExecutionDataService.java:33`); new data sources are inserted into another
collection than the one that is read (`DataSourceRepository.java:36`); a sample
is five inserts, with look-ups by name alone (`DbWriter.java:66,104`);
`ThreadManager.removeAll` removes while it iterates (line 36); the Hazelcast
client adds a listener per submit (line 68); unreadable reports are left out
(`RunTree.java:186`); shares are integer quotients (`ConfidenceMeter.java:36`);
a source of the dashboard's feed that is closed waits for a message that may
never come (`SseQueueServlet.java:60`). `VEServer` has three more, which nothing
forbids: an event is lost when a worker dies before it has taken it from its
pipe, or has died and is still in `cluster.workers` (`server.js:52`); after
deaths one worker may get the turns of several (`server.js:53`); and events that
different workers handle may come out of order (`EventHandler.js:76`).

All of them, and the samples, user interfaces and test ware, are components in
`PROJECT.json` with the reason why they are not modelled.

# 2. The modules and the code

## RecordLocks

One action is one call to MongoDB of the thread that serves a request, because
that is where requests interleave. `pc[r]` is the place in `createLock`:

    new -> insertLock -> lockRecords -> saveLock -> granted
                 \           |           /
                  deleteExecution -> deleteLock -> deleteEntries -> refused

`InsertEntry` is one document of the bulk insert, `DuplicateKey` its end by the
unique index, `EntriesInserted` and `SaveLock` the rest of `lockRecords`. The
lower row is the catch block. `FaultInCreate` and `FaultInCatch` are calls that
throw, each with and without having been applied; `Crash` ends all the threads.
`Tick` and `ExpireEntry` are the clock and the TTL monitor, which takes expired
entries one at a time and whenever it likes.

Abstractions. A data record is a number, its place in the natural order in
which `find` returns them (`IsNext`); the predicates are the set `Selections`.
The `expireAt`s of the entries of a lock differ by the milliseconds it takes to
build the list; here they share one timer, which counts down. A lock document
stays after release and expiry, as in the code. Left out: a bulk insert that
MongoDB goes on with after the connection broke (at most the entry under way is
applied), and a POST that brings an id of its own.

`RecordLeases` is what clients are promised: leases that start in one step, if
nothing overlaps, and end. `ImplementsLeases` maps the requests with
`Active(r)` - granted, not released, not timed out - to leases.

## TestGrid

A *unit* is one run of the test by one virtual user; a *job* is one
`NodeInstruction`. `todo` are the units that were submitted and not yet run,
`flight` those whose update is on its way; an update is first taken off the
counter (`receive`, the unit is then in `updating`) and put into the metrics after
that (`updateMetrics`, `metrics`). The waiter polls the counter, so it can be back
before the metrics have the last runs: they are complete soon after, not at once,
and the tests sleep for half a second before they look. `received` is both sets.
The counter is apart from these sets, and the properties relate them.
`Send` and `Count` are two steps since `submitToGrid` sends first and adds
after. `Run` reads the topology, `NextStep` is the loop over the steps, which
submits the *whole* specification each time, as the code does. `ExecNow`,
`ExecLater`, `TimerFires`, `RunOnce` and `JobEnds` are the engine of a node; the
handler of an instruction that starts at once blocks the ones after it.
`SetUpFails`, `PublishFails`, `Crash` and `disconnect` are the failures.

`TaskDistribution` has the arithmetic: quotients, the remainder for the last
member, and the map keyed by node alone, in which a later step overwrites an
earlier one.

Left out: think time, which only delays; results (pass, fail and error count
alike); and nodes that join during a run, which nobody sends to.

## VEDashboard

`mailbox` is the master's, `inbox[s]` that of dashboard `s`. The handlers of the
master are one step each but for publishing, which visits one subscription per
step (`StartPublish`, `Visit`, `EndPublish`). A handler of a dashboard is one
step per access to one of the two multimaps. `MasterFails` and `RestartMaster`
are Akka's default supervision: the message is lost, the children stop, the
new instance gets the same map and router. A restarted dashboard has a new
consumer, so consumers are `<<session, incarnation>>`.

`Router` says how the uses of the router overlap: `"serial"` - not at all;
`"steps"` - access by access; `"racy"` - also with lost updates of the
unsynchronised maps, where two threads update one at once. In all but
`"serial"`, the iteration may miss entries or throw when the map changes
under it. What the map does under a race is a choice among these outcomes;
a corrupted table (an endless loop in a resize) is left out.

The match of a JSON path is the relation `Matching`. The hierarchy of a route
may forget an event at any time but during a publish (it expires after five
minutes).

`Application` installs `TafEventProcessor` unless the property `app.barebone` is
set; `Init` chooses among the values of `Barebone`. Without the processor each
subscription that accepts an event is sent it. With it, `Visit` asks the
processor once per subscription: `Remembered` is its map of the events of running
test cases, and `IsExecution` says when a verdict gets a test execution, namely
while its test case, suite and job step are all in the map. The case leaves the
map then, so only the first subscription visited is sent something, and of
everything else nothing is sent (`ServerResponseSerializer` drops a null). An
event without a type throws in the processor; that a verdict without a result
code does too is left out.

## VEServer

One handler is one step, since JavaScript runs it to completion. `newEvent` is
the master's hand-over to the worker whose turn it is by `cluster.workers`
(`workers`). A death takes three steps: the process ends (`dies`), with its
sockets and all that was on its way to it; the master's channel to it closes
(`channelCloses`), until when it still gets events, which are lost; and the
master hears of it and forks another (`exit`). The last two come in any order.
When `workers` is empty, `getNextWorker` returns `undefined`, the send throws,
and the master ends (`ended`): nobody hands over events or replaces workers any
more. `subscribe`,
`unsubscribe` and `disconnect` change the rooms of the socket's worker and
publish to the others, which `Hear` in order; `process` is
`EventHandler.process`. `Emissions` are the rooms an event may go to: when a
topic throws, what came before it in the order in which the rooms were made,
and not `all`. `EiffelVersions` is `getLatestSupportedVersion`.

socket.io and its Redis store are external: modelled from how the code uses
them. The match of a topic is the table `Verdict`. The connection to RabbitMQ is
left out: events come in any order, each once.

## VEPage

A callback of the page or of the server is one step. `watched` is
`watchedSubscriptions`: `subscribeToServer` and `unsubscribeToServer` change it
and append to `requests` what `news` and the loop over the topics nobody watches
any more make the page send; `incoming` is the other direction. `collection` has
for each execution its newest result and its destination, and `shown` what the
charts were given: `handleRouterMessage` merges into the collection, and `Given`
is the change handler of the charts, which looks at the destination then.
`retrieveJiraData`, `handleJiraMessage` and `Rebuilt` are the tree map and its
epics; that `handleJiraMessage` answers the first region that waits is what the
loop around the `FIXME` at `CommunicationHandler.js:81` does. An error ends the
waiting too, and is shown in the dialogs of all regions (`errors`).
`handleRequest`, `answer` and `publish` are the dashboard server as this page
sees it. `masterRestarts` stops the session's dashboard: requests are dead
letters from then on, as is what Jira answers, while its routes stay and go on
giving events, for the map of the master and the router keep what they have.
`answer` gives the structure of any epic, an error for any epic (whatever
exception Jira's client has), or nothing, when `JiraEpicActor` throws; `lost`
remembers for which epics that has happened. `reconnect` is a lost connection,
after which the session is a new one and the page still believes it has its
topics.

Abstractions. What a chart does with a result is left out: it holds the last one
it was given, as the tree map does. (The pie chart, for one, counts how often it
is given something, so that a repeated test run counts twice.) The order of the
server's hash table is a constant, `Rank`, since `TafEventProcessor` gives an
event to the first route that matches. A request goes through service, master,
dashboard and router in one step: what overlaps there, and the updates that the
router's tables may lose, are in `VEDashboard`. That an answer of Jira is cached
for ten minutes is left open.

## LogParser

A line is its status. `countLines`, `copyTo`, `execute`, `awaitTermination`,
`sortRunners`, `getLineStatusMatches`, `close`, `parseLogBody`, `lookUp` and
`judge` are the parser, in this order. A thread enters the reader (`beginRead`,
one thread at a time) and leaves it with its part (`readLogPart`), so that one
may hang in between; `parse` is the rest of its `run`. `readFails` reads some
lines and ends the thread (the part stays null and is dereferenced). The read
fails before a line or in the middle of one; `BufferedReader` then forgets the
beginning of the line, and the next thread reads the rest as a line of its own,
which may have any status (`cutLine`): `stream` is the copy as the reader gives
it, `cut` the lines where the two differ. `late` are the threads that had not
ended when the wait was over: what the parser sees of their fields is a choice
between the old value and the new, and statuses that it does not see are a
`NullPointerException` (`statusesAreNull`). `close` takes the lock that a
thread in a read holds. `lookupFails` is a lookup on StackOverflow that fails:
an `IOException` leaves no list to add to the others, and `perform` catches the
`NullPointerException`; the exception for a status other than 200 passes through
it (`StackOverflowServiceImpl.java:193-199`). `interrupted` is Jenkins stopping
the build, `copyFails` and `ioException` are the other failures. `write` is the
log growing by a line at any time.

The model shows four things that no property forbids. A thread that is late, or a
lookup that fails, may abort the build, and a failed copy throws through
`perform`, though a comment says that a failure to parse should not fail the
build (`LogParserPublisher.java:100-103`, in a handler that none of them
reaches). A build with an error whose lookup fails is thus aborted and not
failed. A thread that hangs in a read keeps the parser in `close`, behind the
wait that was to end after an hour. And a read that fails moves the parts after
it, so that their lines get the statuses of other lines, without a word to the
user. `OwnLine` is about the lines before the failure; `NoErrorInvented` holds
for all.

Abstractions. Sections, links and the HTML are left out; so are warnings, whose
count makes a build unstable the way errors make it fail, and infos: a line with
a status other than `ERROR` is `"NONE"`, and may be looked up all the same. A
line is written as a whole. A part that is seen by the parser without
synchronisation is taken to be seen with its number. Between two lines of a part
the lock inside the reader is free for a moment, in which the parser may close
it; the thread then dies of its next read, when nobody waits for it any more.

# 3. The runs

| Run | Instance | Question |
|---|---|---|
| `record_locks` | 3 requests, 2 records, timeouts 0 and 1, 1 fault, crashes | Do granted locks exclude each other, do refused ones leave nothing, is it a lease service? |
| `record_locks_liveness` | 2 requests, 2 records, 1 fault, crashes | Is every request answered, does every entry go? |
| `grid_clients` | 2 nodes, 2 client threads, delayed starts | Is the load exact; does the wait end, and not early? |
| `grid_failures` | 2 nodes, 2 client threads, 2 steps, crashes, deadlines | Is the counter ever too low; do nodes get idle? |
| `ve_steps` | 2 sessions, 2 messages of which 1 is malformed or has no type, a late answer, failing sends, with and without processor | Do the tables agree, does a disconnect leave nothing? |
| `ve_racy` | 2 sessions, an event, its child and a malformed message, a late answer, failing sends, lost updates | What still holds of delivery, and does the master live? |
| `ve_serial` | 2 sessions; a job step, a suite, a test case and its verdict; with and without processor | Does each request take effect when nothing overlaps? |
| `ve_server_events` | 1 socket, 2 events, 2 workers, 2 deaths | Does the master find a worker, do rooms agree, are versions right, does an event reach the socket once? |
| `ve_server_deep` | 1 socket, 1 event | Finding 1 |
| `ve_server_highest` | 1 event | Finding 2 |
| `ve_page` | 3 regions, 2 of them tree maps, 2 topics, 1 execution with 2 results, 1 epic, 2 clicks, 2 events, 1 lost connection, restarts of the master, errors and lost answers | Do routes, collection and charts follow the regions; who gets what when regions go? |
| `log_parts` | every log of at most 4 lines, parts of 2, up to 3 threads, 2 failures, reads and lookups that hang, an interrupt | Has each line its own status, and the build its right result; does the parse end? |

Bounds, and why they are enough. *Locks*: a conflict needs two requests, and
three are one that holds, one that cleans up and one that comes between; two
records give bulk inserts that fail half way, and selections that overlap, are
equal or empty. A timeout of 0 expires in the middle of the insert, 1 after.
One fault puts a failure at each call; the liveness run has two requests because
each is answered whatever the others do. *Grid*: two nodes make remainders, a
load smaller than the members, and overlapping steps; two threads share the
counter. *Dashboards*: one route with two sessions is what a race on the maps
needs; a message and its child are what the hierarchy needs, and a verdict with
its three ancestors what the response processor needs. `Earlier` orders the
message bus where the order is not the question: in `ve_racy` the malformed
message comes first, and what follows meets a restarted master. `MaxMail` bounds
the mailbox of the master, which is unbounded in Akka: a request waits, in the
model, before it is told. With 1, the handlers of dashboards still overlap with
the master's next message. `MaxRequests` of 2 is a subscribe and an unsubscribe;
it is 1 where the run is about events. *Event server*: one death of two workers
brings the master's turn to an id that is dead, two leave it without a worker
when they come at once, and without the first ids when they come one after the
other; two events meet each of these, before and after. The proofs have any
numbers of deaths and events, and also events that cannot be parsed, of which the
run has none. *Page*: two
regions share a topic, and two tree maps wait for the same epic (others do not
touch it: the proofs have any number); two results for one execution are a
merge; two clicks are what it takes to share or to take back, besides creating
and removing regions, which are free. Restarts need no bound, since there is one
for each connection. *Log*: parts of two lines can be full, half full or
empty, with up to three of them; two failures put one behind the other. The
proofs have logs and parts of any length.

Deadlock is not checked: every instance ends when its requests, events and
faults are used up.

## Fairness

- `RecordLocks`: a thread that serves a request goes on (`WF` on its next call),
  time passes, and the TTL monitor comes back, as MongoDB documents it. A client
  need never release.
- `TestGrid`: client and node threads run, JGroups delivers, and the thread of the
  channel that has an update goes on to the metrics. No fairness for
  crashes, set-up failures, or the disconnect. Virtual users of a node share one
  condition: some step of the node is taken as long as one is possible; each of
  them uses up a unit, so none is starved for ever.
- `VEDashboard`: the dispatcher gives each actor with mail a thread, and a closed
  socket is noticed. Browsers and plug-ins need not do anything.
- `VEServer`: worker processes run, and the store delivers to those that live.
- `VEPage`: the socket delivers in both directions, and `JiraEpicActor` comes to
  an end with every question, if not to an answer. The user need not do anything,
  and events need not come.
- `LogParser`: the thread of the parser runs, and its wait ends after an hour.
  The threads need not run, and StackOverflow need not answer: `Ends` says which
  of these keep the parse from its end.

## What the properties say

The comment before each of them says it in words. Where the code does not give
what one would wish, the property is stated for what it does give:

- `CounterCoversOutstanding` has `>=`: after a crash or a deadline the counter
  stays above zero, and the wait then never ends. `WaitReturns` is checked
  without failures only.
- `WaitReturnsOnlyWhenFinished` excepts the moment between sending and counting
  in another thread; the counter may be zero there though a run is outstanding.
- `LoadExact` is about specifications of one step (see `NextStep`) that name no
  node twice.
- `LeavesNothing` is about the consumer that was disconnected; those of earlier
  incarnations stay in the router.
- `SubscriptionTakesEffect` and its companions are checked for `"serial"` and
  without failures. With overlap or a restart of the master they do not hold:
  dashboards that were stopped stay in the map, and their requests are lost.
- `RoomsAgree` and `EvenlyShared` are for workers none of which has died.
- `EventsReachSubscribers` gives each subscriber its event only without the
  response processor. With it, of the subscriptions that accept a verdict one is
  served, the first under the iterator; if the socket of that one has closed,
  the test execution is lost for all.
- `SomeoneIsNotRefused` is for requests that select something, without faults.
- `EventsReachSockets` is about the rooms the worker knows: a replacement knows
  none of those before it.
- `RoutesFollow` is about a session whose dashboard is alive; when the master
  has restarted, requests are lost and routes stay. The routes of what is watched
  are promised until a connection is lost, since the page does not subscribe
  again; that there are no others, after it too.
- `FirstAskerAnswered` is about the first region that waits for an epic; the
  others wait until they ask again. The run follows one of the two tree maps,
  which are alike (`TheFirstIsAnswered`). A region whose answer is lost waits
  until somebody asks again, and the property says that nothing else makes it
  wait.
- `CollectionAgrees` excepts a tree map that was built after the event came.
- `RightResult` excepts threads that were late, and, for failing the build,
  reads that failed; and a parse that an interrupt or a lookup has ended, of which
  it says that the build is aborted or the exception passed on.
- `NoErrorInvented` counts the rest of a line that a failed read has cut among
  the lines that may be shown as errors.
- `Ends` excepts a lookup without an answer, and a thread that hangs in a read
  and so keeps the reader from being closed. One that hangs elsewhere, in the
  pattern of a rule for example, keeps nobody.
- `AlwaysAWorker` excepts the time in which all workers are dead at once.

## Findings

1. `EventHandler.js:103`: a topic with a key inside a part that the event lacks
   throws, and the exception ends `process` before the later topics and `all`
   are served. The unit tests say the event is sent to the subscribers on `all`,
   and that a key that is not there is no match. Run `ve_server_deep`.
2. `EventHandler.js:92`: versions are compared as the digits without dots, so
   2.1.1.0.10 is taken for higher than 2.1.1.1.6. The unit test asks for the
   highest supported version. Run `ve_server_highest`.

# 4. Proofs

The theorems are about `Spec`, the specification without fairness, for all
values of the constants that the `ASSUME`s of the modules allow. TLC evaluates
these in its runs; they ask that the sets that are counted are finite and that
numbers are numbers, and bound nothing.

| Module | Theorem | Property |
|---|---|---|
| `RecordLocks_proofs` | `TypeCorrect` | `TypeOK` |
| | `LocksHeld`, `LocksExclude` | `HeldWhileActive`, `MutualExclusion` |
| | `LocksImplementLeases` | `ImplementsLeases` |
| | `TheRefusedLeaveNothing` | `RefusedLeavesNothing` |
| | `TheirOwnIsFreed` | `FreesOnlyItsOwn` |
| | `SomebodyWins` | `SomeoneIsNotRefused` |
| `TestGrid_proofs` | `TypeCorrect` | `TypeOK` |
| | `TheCounterCovers` | `CounterCoversOutstanding` |
| | `TheWaitIsRight` | `WaitReturnsOnlyWhenFinished` |
| | `TheLoadIsExact` | `LoadExact` |
| | `TheCounterIsExact`, `EveryRunIsReported`, `TheWaitIsForSomething` | if nothing fails |
| | `NothingIsStranded`, `EachRunIsOnce` | also with failures |
| `VEDashboard_proofs` | `TypeCorrect` | `TypeOK` |
| | `TheTablesAgree`, `NothingIsLeft` | `TablesAgree`, `LeavesNothing`, if `Router # "racy"` |
| | `OrderedDelivery` | `DeliveredInOrder` |
| | `TheHierarchyIsFollowed` | `FollowsHierarchy` |
| | `NoSubscriberIsSkipped` | `ServesSubscribers` (in the module) |
| | `EveryVerdictIsSent` | `SendsVerdicts` (in the module) |
| | `NoRequestIsLost` | `KeepsRequests` (in the module) |
| `VEServer_proofs` | `TypeCorrect` | `TypeOK` |
| | `TheMasterHasAWorker` | `AlwaysAWorker` |
| | `TheTurnsAreEven` | `EvenlyShared` |
| | `TheRoomsAgree` | `RoomsAgree` |
| | `TheHighestIsEmitted` | `HighestOfItsShape` |
| `VEDelivery_proofs` | `NobodyHearsTwice` | `NoDuplicates` |
| | `NoEventIsLost` | `NothingIsLost` (in the module) |
| `VEPage_proofs` | `TypeCorrect` | `TypeOK` |
| | `RoutesFollowTheRegions` | `RoutesFollow` |
| | `TheCollectionAgrees` | `CollectionAgrees` |
| | `TheRemovedGetNothing` | `RemovedGetsNothing` |
| | `NobodyWaitsInVain`, `TheFirstIsServed` | `AnswerIsDue`, `FirstStaysFirst` (in the module) |
| `LogParser_proofs` | `OwnLines` | `OwnLine` |
| | `JudgedByItsLog` | `RightResult` |
| | `NoErrors` | `NoErrorInvented` |

Each of them rests on an inductive invariant, of which the property is the part
one wants to see, and on a step lemma with one case per action.

*Locks.* `MutualExclusion` is not inductive: it says nothing of a request that
is still inserting, which the next two steps may make granted. `LockInv` adds
that an entry is unique by its record (`OneEntryPerRecord`), that a request that
has not timed out, been released or begun to clean up has an entry for each
record that is no longer in `todo` (`HoldsWhatItInserted`), that it gets to
`saveLock` only with nothing left to insert, and that a release comes after the
grant. The cases that matter are those that remove entries: a clean-up and a
release remove those of a request that claims nothing any more, and expiry
those whose timer is zero. The refinement uses the same: at `SaveLock` the
records of the new lease are in no other lease. `Undone` says which documents
are gone at each place of the catch block. `RaceInv` is about who wins: of the
requests that were refused, each had met an entry of a record that another one
inserted before, and records are inserted in their order. Whoever is stopped
was stopped by one that had got further, so that finitely many requests cannot
all be refused.

*Grid.* `CountInv` relates the counter to the units: to keep
`CounterCoversOutstanding` it needs that what is still to be run and what is on
its way are disjoint, and that what was sent in this round is no longer pending
(`Sent`), so that no unit is sent twice; all of it is finite. The types have the
rest: what is outstanding or received belongs to jobs that were submitted
(`Come`), as the distribution made them (`Distributed`). When nothing fails the
inequality is an equality (`CounterExact`), because only a crash, a deadline or a
client that is gone takes a unit away unreported. `ExactInv` follows the
submission: every unit of an instruction that has been sent is outstanding or
received (`Kept`), what is known belongs to a task (`OfTasks`), and nothing is
outstanding when all clients are done (`Finished`). For `LoadExact` the units
received, which are those of the metrics once nothing is between the counter and
the metrics, are then counted: the shares of the members add up to the virtual users
asked for (`SharesFollow`, `UnitsOfAStep`), whatever the remainder. And
`NothingStranded` is about where a unit is that is still to be run: its
instruction is in the inbox of a node that lives, has a timer, or is running
there. `OnceInv` extends the disjointness to what was reported (`EachRunOnce`).

*Dashboards.* `TablesInv` follows each session's handler from access to access:
which consumer it is, which of the two tables it has changed, and that a request
in its mailbox comes from the session's own life. `LeavingInv` says that nothing
of a session is left when its disconnect has been handled, and that the messages
that could bring something back are gone or go to a dead actor. `OrderInv` is
about events: the bus has each once, the mailbox of the master holds them in its
order, and what was given to a session is in order and before the ones to come;
`CacheInv` has for every event of a hierarchy the line of its ancestors. The
first two exclude lost updates, with which they are false. `ServedInv` is about
the iterator of a publish: the open sessions it has been at were sent the event,
or the processor has nothing left to send, and if the uses of the router do not overlap the tables are not changed under
it. `KeptInv` is about the requests of a session in the mailbox: each comes
after its connect and before its disconnect, so that the master, when it gets
there, has the session in its map, and the session's actor has not ended by
itself. That a request has taken effect when it leaves the dashboard is then
what `TablesInv` says of the second access.

*Event server.* That there is a worker for the turn while the table has one
follows from the table being finite: the least of its ids from the turn on, or
else the greatest, exists. Part of the types is that the living and the dead that
were not replaced yet are together as many as there are processors, and that
the table has all that live (`ProcessesOK`); when it is empty nobody lives, so
that all of them are dead at once, and so it stays when the master has ended of
it. As long as nobody has died the shares follow the turn: those before it have
one more (`Shared`); ids only grow, so that once one has died the first ones are
never complete again (`EvenInv`). `RoomsInv` says
that applying what a worker has still to hear, in order, to what it knows, gives
the rooms of the worker that has the socket. `DeliveryInv` says that an event is on one pipe or with one
worker, that an emit on its way to a worker is for an event that was handled
elsewhere, and that a socket that has an event for a topic is at a worker that
will not be told of it again. `NothingIsLost` needs the types alone: what a worker
owes a socket (`Due`) stays so until it is an emit on its way (`Underway`) or is
given, and an emit on its way until it is given. That versions of one shape are
compared correctly is a fact about numbers: joining the digits of such versions
keeps their order (`HigherIsGreater`).

*Page.* `Follows` says of each topic that its route, once the requests on their
way are handled (`Routed`), is there if and only if a region watches, and
`CollectionInv` that only regions that live watch. Requests about one topic
alternate in effect and not in kind, so the argument is about the last one
(`Last`). `AnswerIsDue` says that the answer a region waits for is under way or
lost: it is inductive as it stands, since the page asks Jira in the step in which
it begins to wait, and stops waiting only when an answer has come.
`FirstStaysFirst` is a fact about steps: only an answer for the epic ends the
line, and what it does to the first in line is what the answer says.

*Log.* `Reads` has for each thread what its state says of its part, and that no
two have the same; `Streamed` that the reader gives the lines of the copy but for
those that were cut, none of which is among the lines read before a failure;
`OwnInv` that the reader stands where its next part begins,
and that each thread has the lines of its number, unless a read failed before;
`Gathering` that what is kept comes from the thread that is sorted under the
number. `Complete` counts: as many threads have a part as parts were given out,
so that after the wait, when as many threads as were needed have read, all of
them have come; `Ended` carries that through the sorting, the close and the
lookups to the judgement of the build. The
arithmetic of parts (`PartOf`, `PartsApart`) shows that `lines/linesPerThread+1`
parts are enough. For `NoErrorInvented`, `ReadOnce` says where in the copy a
thread has read, that no two have read the same place, and the theorem maps
each line that is shown as an error to a place of its own, in the copy an error
or cut (a pigeonhole).

`LeastNumbers` has the least number principle for sets of natural numbers, from
the well-foundedness of their order; it stands where an induction would.
`SetInduction` is induction for the members of a set instead of an operator, and
`RecursionExists` says that a recursive function whose recursion ends exists and
satisfies its equation. What `Tens` and `Joined` come to for every version is
proved with these.

Only model-checked are the liveness properties, which rest on fairness and are
out of the prover's reach. Of several, the safety part is proved, namely that
what must come stays due until it has come, so that what TLC adds is only that
the steps are taken:

| Liveness property | Safety part |
|---|---|
| `WaitReturns` | `TheWaitIsForSomething`, `NothingIsStranded` |
| `EventsReachSockets` | `NoEventIsLost` |
| `EventsReachSubscribers` | `NoSubscriberIsSkipped`, `EveryVerdictIsSent` |
| `SubscriptionTakesEffect`, `ClosedIsForgotten` | `NoRequestIsLost` |
| `FirstAskerAnswered` | `NobodyWaitsInVain`, `TheFirstIsServed` |
| `EveryRequestAnswered`, `EveryEntryExpires`, `NodesGetIdle`, `EveryEventHandled`, `Ends` | none |

The properties of this table that a proof module defines were checked by TLC on
the instances of the runs before they were proved.

# 5. Not modelled

Most of the lines of the repository are not its own: copies of jQuery, d3, the
Timeline and other libraries, in several places each, and generated
documentation. The rest that is left out is listed as components in
`PROJECT.json` with its reason. In short:

- user interfaces, samples, test ware and exercises have no state that outlives
  a call, or belong to the systems they test;
- REST services other than the locks read or write one document of MongoDB per
  call (`taf-data-management`), or one table (`taf-metrics`), one after the
  other;
- command line tools and importers are sequential conversions of documents;
- the grid over Hazelcast shares the distribution and the engine of the nodes
  with the one over JGroups, and its wait does nothing;
- the feed of the TAF dashboard is one producer and a blocking queue for each
  client, the confidence meter a sum of integer shares that its tests call.

If the project grows, these last two come first: the feed with the closed source
that waits for ever, the meter as pure operators with the shares of a story
adding up to no more than the whole. Between `VEDashboard` and `VEPage`, the test
executions that the one puts together from events are taken as given in the
other.
