----------------------------- MODULE VEDashboard -----------------------------
(***************************************************************************)
(* The dashboard server of the visualization engine (src/akka-proto).      *)
(*                                                                         *)
(* Browsers open sessions, subscribe to topics and receive the events that *)
(* match, or descend from an event that did.  Every request goes through   *)
(* the mailbox of DashboardMasterActor, which keeps one DashboardActor per *)
(* session and routes the events itself, with EiffelMessageRouter.  The    *)
(* master iterates over the router's two HashMultimaps while the dashboard *)
(* actors, on other threads of the dispatcher, change them.                *)
(*                                                                         *)
(* An exception in an actor makes Akka restart it.  The master's restart   *)
(* stops all its children; the map of the sessions and the router live on. *)
(* A restarted dashboard has a new DashboardConsumer: <<session, number>>. *)
(***************************************************************************)
EXTENDS Integers, Sequences, SequencesExt

CONSTANTS
  Sessions, Topics, Messages,
  Matching,      \* the pairs <<topic, message>> where the topic's path matches
  Parent,        \* Parent[m]: the parent event of m, itself if it has none
  Earlier,       \* Earlier[m]: the messages that come before m on the message bus
  Malformed,     \* the messages that are no Eiffel messages
  Kind,          \* Kind[m]: what the response processor takes m for
  MaxRequests,   \* bound: subscribe and unsubscribe requests of one session
  MaxMail,       \* bound: length of the master's mailbox
  Plugins,       \* the sessions that plug-ins answer, perhaps too late
  SendThrows,    \* whether sending to a closed session throws
  Barebone,      \* the values the server's property app.barebone may have
  Router         \* how uses of the router overlap: "serial", "steps", "racy"

ASSUME DashboardAssumption ==
  /\ Matching \subseteq Topics \X Messages /\ Malformed \subseteq Messages
  /\ Parent \in [Messages -> Messages] /\ Earlier \in [Messages -> SUBSET Messages]
  /\ Kind \in [Messages -> {"verdict", "finished", "untyped", "other"}]
  /\ MaxRequests \in Nat /\ MaxMail \in Nat
  /\ Plugins \subseteq Sessions /\ SendThrows \in BOOLEAN /\ Barebone \subseteq BOOLEAN
  /\ Router \in {"serial", "steps", "racy"}

VARIABLES
  link,          \* link[s]: the socket of session s
  asked,         \* asked[s]: how many requests it has made
  answered,      \* the sessions a plug-in has answered
  bus,           \* the messages that have come from the message bus, in order
  mailbox,       \* the master's mailbox, the head being handled
  master,        \* "ready", "publishing" the head, or "failed"
  visited,       \* the subscriptions visited by the publish under way
  changed,       \* whether routeConsumers has changed under that publish
  dashboards,    \* the sessions in the master's map
  actor,         \* actor[s]: the life of the DashboardActor
  incarnation,   \* incarnation[s]: how often it was restarted
  inbox,         \* inbox[s]: its mailbox
  step,          \* step[s]: where its handler is
  leaving,       \* leaving[s]: topics that disconnect still has to remove
  routeConsumers, consumerRoutes, \* the router: <<topic, consumer>> and back
  eventIdCache,  \* eventIdCache[t]: the event hierarchy of the route of t
  barebone,      \* whether the server runs without its response processor
  incompleteEvents, \* the events that the processor remembers
  delivered      \* delivered[s]: what the session was sent

client == <<link, asked, answered, bus>>
routing == <<master, visited, changed, dashboards>>
children == <<actor, incarnation, inbox, step, leaving>>
tables == <<routeConsumers, consumerRoutes, eventIdCache>>
output == <<barebone, incompleteEvents, delivered>>
vars == <<link, asked, answered, bus, mailbox, master, visited, changed, dashboards, actor,
          incarnation, inbox, step, leaving, routeConsumers, consumerRoutes, eventIdCache,
          barebone, incompleteEvents, delivered>>

Consumer(s) == <<s, incarnation[s]>>

Init ==
  /\ link = [s \in Sessions |-> "new"]
  /\ asked = [s \in Sessions |-> 0]
  /\ answered = {}
  /\ bus = <<>>
  /\ mailbox = <<>>
  /\ master = "ready" /\ visited = {} /\ changed = FALSE
  /\ dashboards = {}
  /\ actor = [s \in Sessions |-> "none"]
  /\ incarnation = [s \in Sessions |-> 0]
  /\ inbox = [s \in Sessions |-> <<>>]
  /\ step = [s \in Sessions |-> "idle"]
  /\ leaving = [s \in Sessions |-> {}]
  /\ routeConsumers = {} /\ consumerRoutes = {}
  /\ eventIdCache = [t \in Topics |-> {}]
  /\ barebone \in Barebone /\ incompleteEvents = {}
  /\ delivered = [s \in Sessions |-> <<>>]
-----------------------------------------------------------------------------
(* The callbacks of the web server and of the plug-ins: each of them tells *)
(* the master.                                                             *)

Tell(kind, of) ==
  /\ Len(mailbox) < MaxMail
  /\ mailbox' = Append(mailbox, [kind |-> kind, of |-> of])

onConnect(s) ==
  /\ link[s] = "new"
  /\ link' = [link EXCEPT ![s] = "open"]
  /\ Tell("connect", s)
  /\ UNCHANGED <<asked, answered, bus, routing, children, tables, output>>

onMessage(s, kind, t) ==
  /\ link[s] = "open" /\ asked[s] < MaxRequests
  /\ asked' = [asked EXCEPT ![s] = @ + 1]
  /\ Tell(kind, <<s, t>>)
  /\ UNCHANGED <<link, answered, bus, routing, children, tables, output>>

(* The socket closes; the callback comes later. *)
Close(s) ==
  /\ link[s] = "open"
  /\ link' = [link EXCEPT ![s] = "closed"]
  /\ UNCHANGED <<asked, answered, bus, mailbox, routing, children, tables, output>>

onDisconnect(s) ==
  /\ link[s] = "closed"
  /\ link' = [link EXCEPT ![s] = "gone"]
  /\ Tell("disconnect", s)
  /\ UNCHANGED <<asked, answered, bus, routing, children, tables, output>>

(* A plug-in answers a request of the session, whenever it is ready. *)
directPublish(s) ==
  /\ s \in Plugins \ answered /\ link[s] # "new"
  /\ answered' = answered \cup {s}
  /\ Tell("answer", s)
  /\ UNCHANGED <<link, asked, bus, routing, children, tables, output>>

publish(m) ==
  /\ m \notin ToSet(bus) /\ Earlier[m] \subseteq ToSet(bus)
  /\ bus' = Append(bus, m)
  /\ Tell("publish", m)
  /\ UNCHANGED <<link, asked, answered, routing, children, tables, output>>
-----------------------------------------------------------------------------
(* DashboardMasterActor. *)

MidHandler(s) == step[s] # "idle"

Mail(kind) == master = "ready" /\ mailbox # <<>> /\ Head(mailbox).kind = kind

(* A message to an actor that has stopped becomes a dead letter. *)
Forward(s, kind, t) ==
  inbox' = [inbox EXCEPT ![s] = IF actor[s] \in {"alive", "failed"}
                                THEN Append(@, [kind |-> kind, topic |-> t]) ELSE @]

(* Mutant of Connect: the session is not put into the map. *)
MutForgetSession ==
  /\ Mail("connect")
  /\ actor' = [actor EXCEPT ![Head(mailbox).of] = "alive"]
  /\ mailbox' = Tail(mailbox)
  /\ UNCHANGED <<client, routing, incarnation, inbox, step, leaving, tables, output>>

Connect ==
  /\ Mail("connect")
  /\ LET s == Head(mailbox).of IN
       /\ actor' = [actor EXCEPT ![s] = "alive"]
       /\ dashboards' = dashboards \cup {s}
  /\ mailbox' = Tail(mailbox)
  /\ UNCHANGED <<client, master, visited, changed, incarnation, inbox, step, leaving, tables, output>>

Propagate(kind) ==
  /\ Mail(kind)
  /\ LET s == Head(mailbox).of[1] IN
     IF s \in dashboards THEN Forward(s, kind, Head(mailbox).of[2]) ELSE UNCHANGED inbox
  /\ mailbox' = Tail(mailbox)
  /\ UNCHANGED <<client, routing, actor, incarnation, step, leaving, tables, output>>

Disconnect ==
  /\ Mail("disconnect")
  /\ LET s == Head(mailbox).of IN
     IF s \in dashboards THEN Forward(s, "disconnect", {}) ELSE UNCHANGED inbox
  /\ dashboards' = dashboards \ {Head(mailbox).of}
  /\ mailbox' = Tail(mailbox)
  /\ UNCHANGED <<client, master, visited, changed, actor, incarnation, step, leaving, tables, output>>

(* The handler throws: the message is lost, all children are stopped. *)
MasterFails ==
  /\ master' = "failed" /\ visited' = {} /\ changed' = FALSE
  /\ mailbox' = Tail(mailbox)
  /\ actor' = [s \in Sessions |-> IF actor[s] \in {"alive", "failed"} THEN "stopping" ELSE actor[s]]

(* directPublish does not look whether the session is still there. *)
DirectPublish ==
  /\ Mail("answer")
  /\ LET s == Head(mailbox).of IN
     IF s \in dashboards
     THEN /\ Forward(s, "answer", {})
          /\ mailbox' = Tail(mailbox)
          /\ UNCHANGED <<master, visited, changed, actor>>
     ELSE MasterFails /\ UNCHANGED inbox
  /\ UNCHANGED <<client, dashboards, incarnation, step, leaving, tables, output>>

(* router.publish: what cannot be parsed is null from here on, which the   *)
(* router does not expect.                                                 *)
StartPublish ==
  /\ Mail("publish") /\ (Router = "serial" => \A s \in Sessions : ~MidHandler(s))
  /\ IF Head(mailbox).of \in Malformed
     THEN MasterFails
     ELSE /\ master' = "publishing" /\ visited' = {} /\ changed' = FALSE
          /\ UNCHANGED <<mailbox, actor>>
  /\ UNCHANGED <<client, dashboards, incarnation, inbox, step, leaving, tables, output>>

(* Mutant of Accepts: the route of every event's parent is followed. *)
MutAcceptChildren(t, m) == <<t, m>> \in Matching \/ Parent[m] # m

Accepts(t, m) == Parent[m] \in eventIdCache[t] \/ <<t, m>> \in Matching

ToVisit == {p \in routeConsumers \ visited : Accepts(p[1], Head(mailbox).of)}

(* TafEventProcessor: it remembers the events of running test cases, and   *)
(* makes a test execution of the verdict on one whose suite and job step   *)
(* it remembers; all else is suppressed.                                   *)
Remembered(m) ==
  CASE barebone \/ Kind[m] = "untyped"       -> incompleteEvents
    [] ~barebone /\ Kind[m] = "other"         -> incompleteEvents \cup {m}
    [] OTHER                                  -> incompleteEvents \ {Parent[m]}

IsExecution(m) ==
  /\ Kind[m] = "verdict"
  /\ LET testCase == Parent[m]  testSuite == Parent[testCase]  jobStep == Parent[testSuite] IN
     /\ testCase \in incompleteEvents
     /\ testSuite \in incompleteEvents \ {testCase}
     /\ jobStep \in incompleteEvents \ {testCase, testSuite}

Sends(m) == barebone \/ IsExecution(m)

(* The next subscription under the iterator: the processor is called for   *)
(* each (and throws when an event has no type).                            *)
Visit(p) ==
  /\ master = "publishing" /\ p \in ToVisit
  /\ LET m == Head(mailbox).of
         untyped == ~barebone /\ Kind[m] = "untyped"
         closed == link[p[2][1]] # "open" IN
     /\ eventIdCache' = [eventIdCache EXCEPT ![p[1]] = @ \cup {m}]
     /\ incompleteEvents' = Remembered(m)
     /\ \/ /\ Sends(m) /\ ~closed
           /\ delivered' = [delivered EXCEPT ![p[2][1]] = Append(@, [event |-> m, sub |-> p])]
           /\ visited' = visited \cup {p}
           /\ UNCHANGED <<master, changed, mailbox, actor>>
        \/ /\ IF Sends(m) THEN closed /\ ~SendThrows ELSE ~untyped
           /\ visited' = visited \cup {p}
           /\ UNCHANGED <<master, changed, mailbox, actor, delivered>>
        \/ /\ IF Sends(m) THEN closed /\ SendThrows ELSE untyped
           /\ MasterFails
           /\ UNCHANGED delivered
  /\ UNCHANGED <<client, barebone, dashboards, incarnation, inbox, step, leaving,
                 routeConsumers, consumerRoutes>>

(* Mutant of EndPublish: the message is not taken out of the mailbox. *)
MutRedeliver ==
  /\ master = "publishing"
  /\ ToVisit = {} \/ changed
  /\ master' = "ready" /\ visited' = {} /\ changed' = FALSE
  /\ mailbox' \in {mailbox, Tail(mailbox)}
  /\ UNCHANGED <<client, dashboards, children, tables, output>>

(* Mutant of EndPublish: it stops at the first subscription. *)
MutFirstOnly ==
  /\ master = "publishing"
  /\ ToVisit = {} \/ visited # {}
  /\ master' = "ready" /\ visited' = {} /\ changed' = FALSE
  /\ mailbox' = Tail(mailbox)
  /\ UNCHANGED <<client, dashboards, children, tables, output>>

(* The iterator is through.  If the map has changed under it, it may have  *)
(* missed subscriptions ...                                                *)
EndPublish ==
  /\ master = "publishing"
  /\ ToVisit = {} \/ changed
  /\ master' = "ready" /\ visited' = {} /\ changed' = FALSE
  /\ mailbox' = Tail(mailbox)
  /\ UNCHANGED <<client, dashboards, children, tables, output>>

(* ... or it throws. *)
ConcurrentModification ==
  /\ master = "publishing" /\ changed
  /\ MasterFails
  /\ UNCHANGED <<client, dashboards, incarnation, inbox, step, leaving, tables, output>>

(* Mutant of RestartMaster: it waits for the actor of every session.       *)
MutStaySuspended ==
  /\ master = "failed" /\ \A s \in Sessions : actor[s] = "stopped"
  /\ master' = "ready"
  /\ UNCHANGED <<client, mailbox, visited, changed, dashboards, children, tables, output>>

(* The new instance takes over the mailbox, the map and the router once    *)
(* the children of the old one have stopped.                               *)
RestartMaster ==
  /\ master = "failed" /\ \A s \in Sessions : actor[s] # "stopping"
  /\ master' = "ready"
  /\ UNCHANGED <<client, mailbox, visited, changed, dashboards, children, tables, output>>
-----------------------------------------------------------------------------
(* DashboardActor.  A handler that has started goes on when its actor is   *)
(* being stopped.                                                          *)

Handles(s, kind) == actor[s] = "alive" /\ step[s] = "idle" /\ inbox[s] # <<>> /\ Head(inbox[s]).kind = kind

(* What the next access of a dashboard to the router is to. *)
Accesses(s) ==
  CASE step[s] = "second" -> "consumerRoutes"
    [] step[s] = "remove" -> "routeConsumers"
    [] Handles(s, "subscribe") \/ Handles(s, "unsubscribe") -> "routeConsumers"
    [] Handles(s, "disconnect") -> "consumerRoutes"
    [] OTHER -> "none"

MayAccess(s) ==
  Router = "serial" => master # "publishing" /\ \A q \in Sessions \ {s} : ~MidHandler(q)

(* An update of a HashMultimap may be lost when another thread updates it. *)
Outcomes(s, map, old, new) ==
  IF Router = "racy" /\ \E q \in Sessions \ {s} : Accesses(q) = map THEN {old, new} ELSE {new}

(* A route without consumers leaves the map, and its hierarchy with it. *)
UpdateRoutes(s, new) ==
  /\ routeConsumers' \in Outcomes(s, "routeConsumers", routeConsumers, new)
  /\ eventIdCache' = [t \in Topics |-> IF \E p \in routeConsumers' : p[1] = t
                                       THEN eventIdCache[t] ELSE {}]
  /\ changed' = (changed \/ (master = "publishing" /\ routeConsumers' # routeConsumers))

Goto(s, label) == step' = [step EXCEPT ![s] = label]
PopInbox(s) == inbox' = [inbox EXCEPT ![s] = Tail(@)]

Subscribe(s) ==
  /\ Handles(s, "subscribe") /\ MayAccess(s)
  /\ UpdateRoutes(s, routeConsumers \cup {<<Head(inbox[s]).topic, Consumer(s)>>})
  /\ Goto(s, "second")
  /\ UNCHANGED <<client, mailbox, master, visited, dashboards, actor, incarnation, inbox, leaving,
                 consumerRoutes, output>>

Unsubscribe(s) ==
  /\ Handles(s, "unsubscribe") /\ MayAccess(s)
  /\ UpdateRoutes(s, routeConsumers \ {<<Head(inbox[s]).topic, Consumer(s)>>})
  /\ Goto(s, "second")
  /\ UNCHANGED <<client, mailbox, master, visited, dashboards, actor, incarnation, inbox, leaving,
                 consumerRoutes, output>>

(* Mutant of UpdateSecond: unsubscribe forgets the reverse map. *)
MutOneTable(s) ==
  /\ step[s] = "second"
  /\ LET route == <<Consumer(s), Head(inbox[s]).topic>> IN
     consumerRoutes' \in Outcomes(s, "consumerRoutes", consumerRoutes,
       IF Head(inbox[s]).kind = "subscribe" THEN consumerRoutes \cup {route} ELSE consumerRoutes)
  /\ PopInbox(s) /\ Goto(s, "idle")
  /\ UNCHANGED <<client, mailbox, routing, actor, incarnation, leaving, routeConsumers, eventIdCache, output>>

UpdateSecond(s) ==
  /\ step[s] = "second"
  /\ LET route == <<Consumer(s), Head(inbox[s]).topic>> IN
     consumerRoutes' \in Outcomes(s, "consumerRoutes", consumerRoutes,
       IF Head(inbox[s]).kind = "subscribe" THEN consumerRoutes \cup {route}
                                            ELSE consumerRoutes \ {route})
  /\ PopInbox(s) /\ Goto(s, "idle")
  /\ UNCHANGED <<client, mailbox, routing, actor, incarnation, leaving, routeConsumers, eventIdCache, output>>

(* disconnect: all routes of the consumer, one by one, then a PoisonPill. *)
RemoveAll(s) ==
  /\ Handles(s, "disconnect") /\ MayAccess(s)
  /\ LET mine == {p \in consumerRoutes : p[1] = Consumer(s)} IN
     /\ leaving' = [leaving EXCEPT ![s] = {p[2] : p \in mine}]
     /\ consumerRoutes' \in Outcomes(s, "consumerRoutes", consumerRoutes, consumerRoutes \ mine)
  /\ Goto(s, "remove")
  /\ UNCHANGED <<client, mailbox, routing, actor, incarnation, inbox, routeConsumers, eventIdCache, output>>

RemoveRoute(s, t) ==
  /\ step[s] = "remove" /\ t \in leaving[s]
  /\ UpdateRoutes(s, routeConsumers \ {<<t, Consumer(s)>>})
  /\ leaving' = [leaving EXCEPT ![s] = @ \ {t}]
  /\ UNCHANGED <<client, mailbox, master, visited, dashboards, actor, incarnation, inbox, step,
                 consumerRoutes, output>>

SendPoison(s) ==
  /\ step[s] = "remove" /\ leaving[s] = {}
  /\ inbox' = [inbox EXCEPT ![s] = Append(Tail(@), [kind |-> "poison", topic |-> {}])]
  /\ Goto(s, "idle")
  /\ UNCHANGED <<client, mailbox, routing, actor, incarnation, leaving, tables, output>>

(* Mutant of Terminate: the actor ends before it handles its disconnect. *)
MutTerminateEarly(s) ==
  /\ Handles(s, "poison") \/ Handles(s, "disconnect")
  /\ actor' = [actor EXCEPT ![s] = "terminated"]
  /\ inbox' = [inbox EXCEPT ![s] = <<>>]
  /\ UNCHANGED <<client, mailbox, routing, incarnation, step, leaving, tables, output>>

Terminate(s) ==
  /\ Handles(s, "poison")
  /\ actor' = [actor EXCEPT ![s] = "terminated"]
  /\ inbox' = [inbox EXCEPT ![s] = <<>>]
  /\ UNCHANGED <<client, mailbox, routing, incarnation, step, leaving, tables, output>>

(* The answer of a plug-in goes out, or throws and fails the actor. *)
Consume(s) ==
  /\ Handles(s, "answer")
  /\ PopInbox(s)
  /\ actor' = [actor EXCEPT ![s] = IF SendThrows /\ link[s] # "open" THEN "failed" ELSE @]
  /\ UNCHANGED <<client, mailbox, routing, incarnation, step, leaving, tables, output>>

(* The master restarts a failed dashboard: it has a new consumer, and the  *)
(* subscriptions of the old one stay.                                      *)
RestartDashboard(s) ==
  /\ actor[s] = "failed" /\ master = "ready"
  /\ actor' = [actor EXCEPT ![s] = "alive"]
  /\ incarnation' = [incarnation EXCEPT ![s] = @ + 1]
  /\ UNCHANGED <<client, mailbox, routing, inbox, step, leaving, tables, output>>

(* Mutant of StopDashboard: a handler is cut off in the middle. *)
MutStopAtOnce(s) ==
  /\ actor[s] = "stopping"
  /\ actor' = [actor EXCEPT ![s] = "stopped"]
  /\ inbox' = [inbox EXCEPT ![s] = <<>>]
  /\ UNCHANGED <<client, mailbox, routing, incarnation, step, leaving, tables, output>>

StopDashboard(s) ==
  /\ actor[s] = "stopping" /\ step[s] = "idle"
  /\ actor' = [actor EXCEPT ![s] = "stopped"]
  /\ inbox' = [inbox EXCEPT ![s] = <<>>]
  /\ UNCHANGED <<client, mailbox, routing, incarnation, step, leaving, tables, output>>

(* The hierarchy of a route forgets what was not looked up for five        *)
(* minutes (not in the middle of a publish).                               *)
Expire(t) ==
  /\ master # "publishing"
  /\ \E m \in eventIdCache[t] : eventIdCache' = [eventIdCache EXCEPT ![t] = @ \ {m}]
  /\ UNCHANGED <<client, mailbox, routing, children, routeConsumers, consumerRoutes, output>>
-----------------------------------------------------------------------------
MasterStep ==
  \/ Connect \/ Propagate("subscribe") \/ Propagate("unsubscribe") \/ Disconnect
  \/ DirectPublish \/ StartPublish \/ EndPublish \/ ConcurrentModification \/ RestartMaster
  \/ \E p \in routeConsumers : Visit(p)

DashboardStep(s) ==
  \/ Subscribe(s) \/ Unsubscribe(s) \/ UpdateSecond(s)
  \/ RemoveAll(s) \/ SendPoison(s) \/ Terminate(s) \/ \E t \in Topics : RemoveRoute(s, t)
  \/ Consume(s) \/ RestartDashboard(s) \/ StopDashboard(s)

Next ==
  \/ MasterStep
  \/ \E s \in Sessions :
       \/ DashboardStep(s) \/ onConnect(s) \/ Close(s) \/ onDisconnect(s) \/ directPublish(s)
       \/ \E t \in Topics, kind \in {"subscribe", "unsubscribe"} : onMessage(s, kind, t)
  \/ \E m \in Messages : publish(m)
  \/ \E t \in Topics : Expire(t)

Spec == Init /\ [][Next]_vars

(* The dispatcher gives every actor with mail a thread, and a socket that  *)
(* closes is noticed.                                                      *)
Fairness == /\ WF_vars(MasterStep)
            /\ \A s \in Sessions : WF_vars(DashboardStep(s)) /\ WF_vars(onDisconnect(s))

FairSpec == Spec /\ Fairness
-----------------------------------------------------------------------------
Consumers == Sessions \X Nat

(* What the master and a dashboard are sent. *)
Mails == [kind : {"connect", "disconnect", "answer"}, of : Sessions]
         \cup [kind : {"subscribe", "unsubscribe"}, of : Sessions \X Topics]
         \cup [kind : {"publish"}, of : Messages]
Letters == [kind : {"subscribe", "unsubscribe"}, topic : Topics]
           \cup [kind : {"disconnect", "answer", "poison"}, topic : {{}}]

(* Types; a handler that is under way has its message at the head of the   *)
(* mailbox (the master's publish, and the two steps of a dashboard).       *)
TypeOK ==
  /\ link \in [Sessions -> {"new", "open", "closed", "gone"}]
  /\ asked \in [Sessions -> 0..MaxRequests] /\ answered \subseteq Sessions
  /\ bus \in Seq(Messages) /\ mailbox \in Seq(Mails) /\ Len(mailbox) <= MaxMail
  /\ master \in {"ready", "publishing", "failed"} /\ changed \in BOOLEAN
  /\ master = "publishing" => mailbox # <<>> /\ Head(mailbox).kind = "publish"
  /\ dashboards \subseteq Sessions /\ visited \subseteq Topics \X Consumers
  /\ actor \in [Sessions -> {"none", "alive", "failed", "stopping", "stopped", "terminated"}]
  /\ incarnation \in [Sessions -> Nat] /\ leaving \in [Sessions -> SUBSET Topics]
  /\ step \in [Sessions -> {"idle", "second", "remove"}] /\ inbox \in [Sessions -> Seq(Letters)]
  /\ \A s \in Sessions :
       /\ MidHandler(s) => inbox[s] # <<>>
       /\ step[s] = "second" => Head(inbox[s]).kind \in {"subscribe", "unsubscribe"}
       /\ step[s] = "remove" => Head(inbox[s]).kind = "disconnect"
  /\ routeConsumers \subseteq Topics \X Consumers
  /\ consumerRoutes \subseteq Consumers \X Topics
  /\ eventIdCache \in [Topics -> SUBSET Messages]
  /\ barebone \in Barebone /\ incompleteEvents \subseteq Messages
  /\ delivered \in [Sessions -> Seq([event : Messages, sub : Topics \X Consumers])]

Before(m, n) == \E i, j \in 1..Len(bus) : i < j /\ bus[i] = m /\ bus[j] = n

(* The two multimaps of the router are each other's inverse, up to the     *)
(* consumer of an actor that is in the middle of a handler, as long as no  *)
(* update of a HashMultimap is lost: also for the consumers that a restart *)
(* of an actor has left behind.                                            *)
TablesAgree ==
  \A s \in Sessions : ~MidHandler(s) =>
    \A t \in Topics, k \in 0..incarnation[s] :
      <<t, <<s, k>>>> \in routeConsumers <=> <<<<s, k>>, t>> \in consumerRoutes

(* A dashboard that has gone through its disconnect leaves no subscription *)
(* of its consumer in the router, whatever was published, answered or      *)
(* restarted in the meantime (else every later event would be sent to a    *)
(* closed socket, and fail the master).                                    *)
LeavesNothing ==
  \A s \in Sessions : actor[s] = "terminated" =>
    /\ \A p \in routeConsumers : p[2] # Consumer(s)
    /\ \A p \in consumerRoutes : p[1] # Consumer(s)

(* A session receives the events of each of its subscriptions in the order *)
(* in which they came from the message bus, and none of them twice, across *)
(* concurrent changes of the tables, failures and restarts.                *)
DeliveredInOrder ==
  \A s \in Sessions : \A i, j \in DOMAIN delivered[s] : i < j =>
    LET d == delivered[s][i]  e == delivered[s][j] IN
    Before(d.event, e.event) \/ (d.event = e.event /\ d.sub # e.sub)

(* What a session receives on a topic matches the topic or descends, over  *)
(* events that all came before their children, from an event that does:    *)
(* the hierarchy a route remembers does not leak into other topics.        *)
FollowsHierarchy ==
  \A s \in Sessions : \A i \in DOMAIN delivered[s] :
    LET d == delivered[s][i] IN
    \E line \in SUBSET ToSet(bus) :
      /\ d.event \in line
      /\ \A m \in line : \/ <<d.sub[1], m>> \in Matching
                         \/ Parent[m] \in line /\ Before(Parent[m], m)

InMail(kind, of) == \E i \in DOMAIN mailbox : mailbox[i].kind = kind /\ mailbox[i].of = of

(* The master gets through all the events in its mailbox (the message bus  *)
(* brings finitely many), however often it is restarted: by late answers,  *)
(* closed sockets, malformed events or changes of the tables under its     *)
(* iterator.                                                               *)
EveryEventHandled == []<>(\A m \in Messages : ~InMail("publish", m))

(* While no two handlers overlap and nothing fails, a subscription that is *)
(* asked for takes effect ...                                              *)
SubscriptionTakesEffect ==
  \A s \in Sessions, t \in Topics :
    InMail("subscribe", <<s, t>>) ~> <<t, Consumer(s)>> \in routeConsumers

(* ... an event reaches the sessions that are subscribed to its topic and  *)
(* stay so; behind the response processor, the verdict on a test case it   *)
(* knows reaches one of them, if no socket closes ...                      *)
EventsReachSubscribers ==
  \A s \in Sessions, pair \in Matching : LET t == pair[1]  m == pair[2] IN
    mailbox # <<>> /\ Head(mailbox) = [kind |-> "publish", of |-> m] /\ Sends(m)
    /\ <<t, Consumer(s)>> \in routeConsumers
      ~> \/ <<t, Consumer(s)>> \notin routeConsumers \/ link[s] # "open"
         \/ \E i \in DOMAIN delivered[s] :
              delivered[s][i] = [event |-> m, sub |-> <<t, Consumer(s)>>]
         \/ /\ ~barebone
            /\ \E q \in Sessions : \/ link[q] \in {"closed", "gone"}
                                   \/ \E i \in DOMAIN delivered[q] : delivered[q][i].event = m

(* ... and a session that closes is forgotten by the router.               *)
ClosedIsForgotten ==
  \A s \in Sessions :
    link[s] = "closed" ~> /\ s \notin dashboards
                          /\ \A p \in routeConsumers : p[2][1] # s
=============================================================================
