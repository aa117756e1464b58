------------------------------- MODULE VEPage -------------------------------
(***************************************************************************)
(* The page of the visualization engine in a browser                       *)
(* (src/VisualizationEngineApp/root) and the session it has with the       *)
(* dashboard server (VEDashboard).  The regions of the page share one      *)
(* socket and one collection of events: CommunicationHandler.js tells the  *)
(* server of a topic when its first region subscribes and when its last    *)
(* one leaves, and gives every event that comes to the regions that watch  *)
(* its topic by then.                                                      *)
(*                                                                         *)
(* An event is a test execution, sent by TafEventProcessor: it has an id,  *)
(* and comes again with another result when the test is run again.  A tree *)
(* map (widgets/TreeMap) shows the results on top of the structure of an   *)
(* epic, which the page asks Jira for.  A callback is one step: JavaScript *)
(* runs it to completion.                                                  *)
(*                                                                         *)
(* The session may lose its server side without a word: when the master    *)
(* actor restarts, its dashboards stop, but its map keeps them and the     *)
(* router keeps their routes.  What races in the router's tables is the    *)
(* subject of VEDashboard, and left out here.                              *)
(***************************************************************************)
EXTENDS Integers, Sequences, FiniteSets

CONSTANTS
  Regions,       \* the regions (charts) the user may create
  TreeMaps,      \* those of them that are tree maps
  Topics,        \* the topics
  JiraTopic,     \* the topic of all test executions, which a tree map watches
  Executions,    \* the test executions, by id
  Results,       \* their results
  Epics,         \* the Jira epics
  Matching,      \* the pairs <<topic, execution>> that match
  Rank,          \* Rank[t]: where the server's hash table has the route of t
  MaxClicks,     \* bound: subscriptions and epics the user adds or removes
  MaxEvents,     \* bound: events that are sent to the page
  MaxDrops       \* bound: how often the connection is lost

ASSUME PageAssumption ==
  /\ TreeMaps \subseteq Regions /\ IsFiniteSet(Topics) /\ JiraTopic \in Topics
  /\ Matching \subseteq Topics \X Executions /\ "none" \notin Results
  /\ Rank \in [Topics -> Nat] /\ \A t, u \in Topics : Rank[t] = Rank[u] => t = u
  /\ MaxClicks \in Nat /\ MaxEvents \in Nat /\ MaxDrops \in Nat

VARIABLES
  life,          \* life[r]: "new", "active" or "gone"
  subList,       \* subList[r]: the topics that its settings dialog lists
  watched,       \* watched[r]: watchedSubscriptions, the topics it watches
  collection,    \* collection[x]: the model of execution x and its destination
  shown,         \* shown[r][x]: the result of x that the region's chart holds
  built,         \* the tree maps that have been built
  jiraRequests,  \* jiraRequests[e]: the regions that wait for epic e
  jiraCollection,\* the epics that have come
  errors,        \* the epics for which the dialogs have shown an error
  requests,      \* the socket, from the page to the server ...
  incoming,      \* ... and back
  routes,        \* the topics the server has a route to this session for
  dashboard,     \* "alive", or "stopped": the actor of this session
  looked,        \* looked[e]: requests for epic e that Jira is busy with
  lost,          \* the epics for which a request or an answer has been lost
  clicks, events, drops

page == <<life, subList, watched, collection, shown, built, jiraRequests, jiraCollection, errors>>
server == <<routes, dashboard, looked, lost>>
counters == <<clicks, events, drops>>
vars == <<life, subList, watched, collection, shown, built, jiraRequests, jiraCollection, errors,
          requests, incoming, routes, dashboard, looked, lost, clicks, events, drops>>

Absent == [result |-> "none", destination |-> {}]

Init ==
  /\ life = [r \in Regions |-> "new"]
  /\ subList = [r \in Regions |-> {}] /\ watched = [r \in Regions |-> {}]
  /\ collection = [x \in Executions |-> Absent]
  /\ shown = [r \in Regions |-> [x \in Executions |-> "none"]] /\ built = {}
  /\ jiraRequests = [e \in Epics |-> <<>>] /\ jiraCollection = {} /\ errors = {}
  /\ requests = <<>> /\ incoming = <<>>
  /\ routes = {} /\ dashboard = "alive" /\ looked = [e \in Epics |-> 0] /\ lost = {}
  /\ clicks = 0 /\ events = 0 /\ drops = 0
-----------------------------------------------------------------------------
(* CommunicationHandler: the topics that are watched. *)

Request(kind, of) == [kind |-> kind, of |-> of]

isWatched(w, t) == \E r \in Regions : t \in w[r]

(* What the server is told when a region subscribes to t. *)
news(t) == IF isWatched(watched, t) THEN <<>> ELSE <<Request("subscribe", t)>>

(* Region r joins the topic, in a callback that has sent the requests      *)
(* before.                                                                 *)
subscribeToServer(r, t, before) ==
  /\ watched' = [watched EXCEPT ![r] = @ \cup {t}]
  /\ requests' = requests \o before \o news(t)

(* Every order in which the elements of S can stand. *)
Orders(S) == {s \in [1..Cardinality(S) -> S] : \A t \in S : \E i \in DOMAIN s : s[i] = t}

(* Mutant of unsubscribeToServer: it does not look at the other regions. *)
MutUnsubscribeAnyway(r, gone) ==
  /\ watched' = [watched EXCEPT ![r] = @ \ gone]
  /\ \E s \in Orders(gone) :
       requests' = requests \o [i \in DOMAIN s |-> Request("unsubscribe", s[i])]

(* Region r leaves the topics.  Of those that nobody watches any more, the *)
(* server is told one by one.                                              *)
unsubscribeToServer(r, gone) ==
  /\ watched' = [watched EXCEPT ![r] = @ \ gone]
  /\ \E s \in Orders({t \in gone : ~isWatched(watched', t)}) :
       requests' = requests \o [i \in DOMAIN s |-> Request("unsubscribe", s[i])]
-----------------------------------------------------------------------------
(* The user. *)

createRegion(r) ==
  /\ life[r] = "new"
  /\ life' = [life EXCEPT ![r] = "active"]
  /\ UNCHANGED <<subList, watched, collection, shown, built, jiraRequests, jiraCollection,
                 errors, requests, incoming, server, counters>>

Click(r) == life[r] = "active" /\ clicks < MaxClicks /\ clicks' = clicks + 1

addSubscription(r, t) ==
  /\ Click(r) /\ r \notin TreeMaps /\ t \notin subList[r]
  /\ subscribeToServer(r, t, <<>>)
  /\ subList' = [subList EXCEPT ![r] = @ \cup {t}]
  /\ UNCHANGED <<life, collection, shown, built, jiraRequests, jiraCollection, errors,
                 incoming, server, events, drops>>

removeSubscription(r, t) ==
  /\ Click(r) /\ t \in subList[r]
  /\ unsubscribeToServer(r, {t})
  /\ subList' = [subList EXCEPT ![r] = @ \ {t}]
  /\ UNCHANGED <<life, collection, shown, built, jiraRequests, jiraCollection, errors,
                 incoming, server, events, drops>>

(* A region whose model changes is given it again. *)
Given(models) ==
  [r \in Regions |-> [x \in Executions |->
     IF models[x] # collection[x] /\ r \in models[x].destination
     THEN models[x].result ELSE shown[r][x]]]

(* The models of region r alone go, silently; it is taken out of others.   *)
deleteByDestination(r) ==
  [x \in Executions |->
     IF collection[x].destination = {r} THEN Absent
     ELSE [collection[x] EXCEPT !.destination = @ \ {r}]]

(* Mutant of removeRegion: the topics stay watched. *)
MutStayWatching(r) ==
  /\ life[r] = "active"
  /\ life' = [life EXCEPT ![r] = "gone"]
  /\ collection' = deleteByDestination(r) /\ shown' = Given(collection')
  /\ UNCHANGED <<subList, watched, requests, built, jiraRequests, jiraCollection, errors,
                 incoming, server, counters>>

(* The region stops, but its handlers stay with the page's event bus.      *)
removeRegion(r) ==
  /\ life[r] = "active"
  /\ life' = [life EXCEPT ![r] = "gone"]
  /\ unsubscribeToServer(r, watched[r])
  /\ collection' = deleteByDestination(r) /\ shown' = Given(collection')
  /\ UNCHANGED <<subList, built, jiraRequests, jiraCollection, errors, incoming, server,
                 counters>>

(* 'newJiraData': the tree map starts again, without results. *)
Rebuilt(r) ==
  /\ built' = built \cup {r}
  /\ shown' = [shown EXCEPT ![r] = [x \in Executions |-> "none"]]

(* Mutant of offersJira: every region's dialog has the button. *)
MutOffersJira(r) == TRUE

offersJira(r) == r \in TreeMaps

(* "Load JIRA data": an epic that has come before is taken from the page,  *)
(* any other is asked for; then the region watches the test executions.    *)
retrieveJiraData(r, e) ==
  /\ Click(r) /\ offersJira(r)
  /\ IF e \in jiraCollection
     THEN /\ Rebuilt(r) /\ subscribeToServer(r, JiraTopic, <<>>)
          /\ UNCHANGED jiraRequests
     ELSE /\ subscribeToServer(r, JiraTopic, <<Request("jiraEpic", e)>>)
          /\ jiraRequests' = [jiraRequests EXCEPT ![e] = Append(@, r)]
          /\ UNCHANGED <<shown, built>>
  /\ UNCHANGED <<life, subList, collection, jiraCollection, errors, incoming, server, events,
                 drops>>
-----------------------------------------------------------------------------
(* CommunicationHandler: what the socket brings. *)

Receive == incoming' = Tail(incoming)

(* Mutant of setDestination: whoever has been on the page. *)
MutEverSubscribed(t) == {r \in Regions : life[r] # "new" /\ t \in watched[r] \cup subList[r]}

setDestination(t) == {r \in Regions : t \in watched[r]}

(* Mutant of handleRouterMessage: a merge tells nobody. *)
MutSilentMerge ==
  /\ incoming # <<>> /\ Head(incoming).sender = "router"
  /\ Receive
  /\ LET m == Head(incoming) IN
     /\ collection' = [collection EXCEPT ![m.execution] =
           [result |-> m.result, destination |-> setDestination(m.topic)]]
     /\ shown' = IF collection[m.execution] = Absent THEN Given(collection') ELSE shown
  /\ UNCHANGED <<life, subList, watched, built, jiraRequests, jiraCollection, errors, requests,
                 server, counters>>

(* The model of an execution that came before takes the new result, and    *)
(* the regions that watch the topic now in place of those of before.       *)
handleRouterMessage ==
  /\ incoming # <<>> /\ Head(incoming).sender = "router"
  /\ Receive
  /\ LET m == Head(incoming) IN
     collection' = [collection EXCEPT ![m.execution] =
       [result |-> m.result, destination |-> setDestination(m.topic)]]
  /\ shown' = Given(collection')
  /\ UNCHANGED <<life, subList, watched, built, jiraRequests, jiraCollection, errors, requests,
                 server, counters>>

(* Mutant of Answered: the last region that asked. *)
MutAnswerLast(e) == jiraRequests[e][Len(jiraRequests[e])]

(* The destination of the answer.  Each region that waits is put beneath   *)
(* what the message has, so the first one stays there: the others, in the  *)
(* words of the code a FIXME, wait until they ask again.                   *)
Answered(e) == Head(jiraRequests[e])

(* The structure of an epic is kept and builds the tree map; an error is   *)
(* shown in the dialogs of all regions.  Either way nobody waits any more. *)
handleJiraMessage ==
  /\ incoming # <<>> /\ Head(incoming).sender = "jira"
  /\ Receive
  /\ LET m == Head(incoming)  e == m.epic IN
     /\ jiraRequests' = [jiraRequests EXCEPT ![e] = <<>>]
     /\ \/ jiraRequests[e] = <<>> /\ UNCHANGED <<jiraCollection, built, shown, errors>>
        \/ /\ jiraRequests[e] # <<>> /\ m.error
           /\ errors' = errors \cup {e} /\ UNCHANGED <<jiraCollection, built, shown>>
        \/ /\ jiraRequests[e] # <<>> /\ ~m.error
           /\ Rebuilt(Answered(e)) /\ jiraCollection' = jiraCollection \cup {e}
           /\ UNCHANGED errors
  /\ UNCHANGED <<life, subList, watched, collection, requests, server, counters>>
-----------------------------------------------------------------------------
(* The server, and the connection to it. *)

(* A subscription goes to the session's dashboard, by way of the master,   *)
(* and is a dead letter when that is stopped; a question to Jira does not. *)
handleRequest ==
  /\ requests # <<>>
  /\ requests' = Tail(requests)
  /\ LET m == Head(requests) IN
     \/ /\ m.kind = "subscribe" /\ UNCHANGED looked
        /\ routes' = IF dashboard = "alive" THEN routes \cup {m.of} ELSE routes
     \/ /\ m.kind = "unsubscribe" /\ UNCHANGED looked
        /\ routes' = IF dashboard = "alive" THEN routes \ {m.of} ELSE routes
     \/ m.kind = "jiraEpic" /\ looked' = [looked EXCEPT ![m.of] = @ + 1] /\ UNCHANGED routes
  /\ UNCHANGED <<page, incoming, dashboard, lost, counters>>

(* JiraEpicActor sends the structure of the epic, or an error, which any   *)
(* failure of Jira gives.  Or nothing comes: the actor throws, or the      *)
(* answer does not find the dashboard.                                     *)
answer(e) ==
  /\ looked[e] > 0
  /\ looked' = [looked EXCEPT ![e] = @ - 1]
  /\ \/ /\ dashboard = "alive" /\ UNCHANGED lost
        /\ \E error \in BOOLEAN :
             incoming' = Append(incoming, [sender |-> "jira", epic |-> e, error |-> error])
     \/ lost' = lost \cup {e} /\ UNCHANGED incoming
  /\ UNCHANGED <<page, requests, routes, dashboard, counters>>

(* The master restarts, after a malformed event or an answer for a session *)
(* that is closed.  It stops the dashboards, and keeps them in its map.    *)
masterRestarts ==
  /\ dashboard = "alive" /\ dashboard' = "stopped"
  /\ UNCHANGED <<page, requests, incoming, routes, looked, lost, counters>>

(* TafEventProcessor gives the test execution to the first route that      *)
(* matches and forgets it: the others get nothing.  (When that is the      *)
(* route of another browser, this one gets nothing at all.)                *)
publish(x, result) ==
  /\ events < MaxEvents /\ events' = events + 1
  /\ \E t \in routes :
       /\ <<t, x>> \in Matching
       /\ \A u \in routes : <<u, x>> \in Matching => Rank[t] <= Rank[u]
       /\ incoming' = Append(incoming, [sender |-> "router", topic |-> t, execution |-> x,
                                        result |-> result])
  /\ UNCHANGED <<page, requests, server, clicks, drops>>

(* A question for epic e, or Jira's answer to one, is under way.           *)
UnderWay(e) ==
  \/ \E i \in DOMAIN requests : requests[i].kind = "jiraEpic" /\ requests[i].of = e
  \/ looked[e] > 0
  \/ \E i \in DOMAIN incoming : incoming[i].sender = "jira" /\ incoming[i].epic = e

(* The connection is lost and made again: it is a new session, and ext/    *)
(* socket.js has no handler that would subscribe or ask again.             *)
reconnect ==
  /\ drops < MaxDrops /\ drops' = drops + 1
  /\ requests' = <<>> /\ incoming' = <<>>
  /\ routes' = {} /\ dashboard' = "alive" /\ looked' = [e \in Epics |-> 0]
  /\ lost' = lost \cup {e \in Epics : UnderWay(e)}
  /\ UNCHANGED <<page, clicks, events>>
-----------------------------------------------------------------------------
Next ==
  \/ \E r \in Regions :
       \/ createRegion(r) \/ removeRegion(r)
       \/ \E t \in Topics : addSubscription(r, t) \/ removeSubscription(r, t)
       \/ \E e \in Epics : retrieveJiraData(r, e)
  \/ handleRouterMessage \/ handleJiraMessage \/ handleRequest
  \/ masterRestarts \/ reconnect
  \/ \E e \in Epics : answer(e)
  \/ \E x \in Executions, result \in Results : publish(x, result)

Spec == Init /\ [][Next]_vars

(* The socket delivers in both directions, and JiraEpicActor comes to an   *)
(* end with every question, if not to an answer.                           *)
Fairness ==
  /\ WF_vars(handleRequest) /\ WF_vars(handleRouterMessage) /\ WF_vars(handleJiraMessage)
  /\ \A e \in Epics : WF_vars(answer(e))

FairSpec == Spec /\ Fairness
-----------------------------------------------------------------------------
Requests == [kind : {"subscribe", "unsubscribe"}, of : Topics]
            \cup [kind : {"jiraEpic"}, of : Epics]
Messages == [sender : {"router"}, topic : Topics, execution : Executions, result : Results]
            \cup [sender : {"jira"}, epic : Epics, error : BOOLEAN]

(* Only tree maps ask for epics and are built, and what is on its way or   *)
(* held has a result or none.                                              *)
TypeOK ==
  /\ life \in [Regions -> {"new", "active", "gone"}]
  /\ subList \in [Regions -> SUBSET Topics] /\ watched \in [Regions -> SUBSET Topics]
  /\ collection \in [Executions -> [result : Results \cup {"none"}, destination : SUBSET Regions]]
  /\ shown \in [Regions -> [Executions -> Results \cup {"none"}]] /\ built \subseteq TreeMaps
  /\ jiraRequests \in [Epics -> Seq(TreeMaps)] /\ jiraCollection \subseteq Epics
  /\ errors \subseteq Epics
  /\ requests \in Seq(Requests) /\ incoming \in Seq(Messages)
  /\ routes \subseteq Topics /\ dashboard \in {"alive", "stopped"}
  /\ looked \in [Epics -> Nat] /\ lost \subseteq Epics
  /\ clicks \in 0..MaxClicks /\ events \in 0..MaxEvents /\ drops \in 0..MaxDrops

(* Request i is the last one on its way to the server that is about t. *)
About(i, t) == requests[i].kind # "jiraEpic" /\ requests[i].of = t
Last(i, t) == /\ i \in DOMAIN requests /\ About(i, t)
              /\ \A j \in DOMAIN requests : About(j, t) => j <= i

(* The server has a route for t once it has got what is on its way. *)
WillRoute(t) ==
  \/ \E i \in DOMAIN requests : Last(i, t) /\ requests[i].kind = "subscribe"
  \/ t \in routes /\ \A i \in DOMAIN requests : ~About(i, t)

(* The requests of all regions, by whatever route their topics came and    *)
(* went, add up: as long as the dashboard of the session is alive, the     *)
(* server has or will have routes for topics that some region watches, for *)
(* no other, and for each of them until a connection is lost.  (When the   *)
(* master restarts the dashboard stops: requests are lost from then on,    *)
(* and the routes stay as they are.)                                       *)
RoutesFollow ==
  dashboard = "alive" =>
    \A t \in Topics : /\ WillRoute(t) => isWatched(watched, t)
                      /\ isWatched(watched, t) /\ drops = 0 => WillRoute(t)

DestinationsLive ==
  \A x \in Executions : \A r \in collection[x].destination : life[r] = "active"

ShownIsHeld ==
  \A x \in Executions : \A r \in collection[x].destination :
    \/ shown[r][x] = collection[x].result
    \/ r \in built /\ shown[r][x] = "none"

(* The collection that the regions share agrees with them.  No event waits *)
(* there for a region that is gone, also not one that was on its way when  *)
(* it was removed; and what a chart holds of an execution is what the      *)
(* collection has, as long as the region is its destination: a merge       *)
(* reaches every chart.  (A tree map may miss it once it is built, which   *)
(* drops what came before the answer from Jira.)                           *)
CollectionAgrees == DestinationsLive /\ ShownIsHeld

(* A region that is removed is given no event any more, though its         *)
(* handlers are still there and events for it may be on their way.         *)
RemovedGetsNothing ==
  [][\A r \in Regions, x \in Executions :
       life[r] = "gone" => shown'[r][x] \in {shown[r][x], "none"}]_vars

FirstInLine(r, e) == jiraRequests[e] # <<>> /\ Head(jiraRequests[e]) = r

(* A region that is the first to ask for an epic is served, however many   *)
(* others ask for it meanwhile: it is built, or the error is shown.  If it *)
(* still waits with no answer under way, then one has been lost, with the  *)
(* connection, in JiraEpicActor or on the way to a stopped dashboard.      *)
FirstAskerAnswered(r, e) ==
  FirstInLine(r, e) ~> \/ r \in built \/ e \in errors
                       \/ FirstInLine(r, e) /\ ~UnderWay(e) /\ e \in lost
=============================================================================
