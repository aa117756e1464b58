---------------------------- MODULE VEPage_proofs ----------------------------
(***************************************************************************)
(* Proofs about VEPage, for any regions, topics, executions and epics: its *)
(* types, that the routes of the server follow what is watched, that the   *)
(* collection and the charts agree with the regions that are there, that a *)
(* region that is gone is given nothing, and that a region that asks for   *)
(* an epic does not wait in vain unless an answer is lost.                 *)
(***************************************************************************)
EXTENDS VEPage, FiniteSetTheorems, TLAPS

Models == [Executions -> [result : Results \cup {"none"}, destination : SUBSET Regions]]

(* What the dialogs and regions add to the requests. *)
LEMMA NewsAreRequests ==
  ASSUME NEW t \in Topics
  PROVE  news(t) \in Seq(Requests) /\ <<>> \in Seq(Requests)
<1>1. <<>> \in Seq(Requests) /\ <<Request("subscribe", t)>> \in Seq(Requests)
  BY DEF Requests, Request
<1> QED
  BY <1>1 DEF news

LEMMA NewsTyped ==
  ASSUME NEW t \in Topics, NEW before \in Seq(Requests)
  PROVE  before \o news(t) \in Seq(Requests)
BY NewsAreRequests

(* The requests that unsubscribeToServer adds, one for each topic. *)
LEMMA Unsubscriptions ==
  ASSUME NEW S \in SUBSET Topics, NEW s \in Orders(S)
  PROVE  /\ [i \in DOMAIN s |-> Request("unsubscribe", s[i])] \in Seq(Requests)
         /\ \A t \in S : \E i \in DOMAIN s : s[i] = t
         /\ \A i \in DOMAIN s : s[i] \in S
<1>1. Cardinality(S) \in Nat
  BY PageAssumption, FS_Subset, FS_CardinalityType DEF PageAssumption
<1>2. s \in [1..Cardinality(S) -> S]
  BY DEF Orders
<1>3. \A i \in DOMAIN s : Request("unsubscribe", s[i]) \in Requests
  BY <1>2 DEF Requests, Request
<1>4. [i \in DOMAIN s |-> Request("unsubscribe", s[i])] \in Seq(Requests)
  <2> DEFINE q == [i \in DOMAIN s |-> Request("unsubscribe", s[i])]
  <2>1. DOMAIN q = 1..Cardinality(S)
    BY <1>2
  <2>2. q \in [1..Cardinality(S) -> Requests]
    BY <1>3, <2>1
  <2> HIDE DEF q
  <2>3. q \in Seq(Requests)
    BY <1>1, <2>2
  <2> QED
    BY <2>3 DEF q
<1>5. \A t \in S : \E i \in DOMAIN s : s[i] = t
  BY DEF Orders
<1> QED
  BY <1>2, <1>4, <1>5

LEMMA UnsubscribeTyped ==
  ASSUME TypeOK, NEW r \in Regions, NEW gone \in SUBSET Topics, unsubscribeToServer(r, gone)
  PROVE  watched' \in [Regions -> SUBSET Topics] /\ requests' \in Seq(Requests)
<1>1. watched' = [watched EXCEPT ![r] = @ \ gone]
  BY DEF unsubscribeToServer
<1>2. PICK s \in Orders({t \in gone : ~isWatched(watched', t)}) :
        requests' = requests \o [i \in DOMAIN s |-> Request("unsubscribe", s[i])]
  BY DEF unsubscribeToServer
<1>3. [i \in DOMAIN s |-> Request("unsubscribe", s[i])] \in Seq(Requests)
  BY <1>2, Unsubscriptions
<1>4. requests \in Seq(Requests) /\ watched \in [Regions -> SUBSET Topics]
  BY DEF TypeOK
<1>5. requests' \in Seq(Requests)
  BY <1>2, <1>3, <1>4
<1> QED
  BY <1>1, <1>4, <1>5

LEMMA GivenTyped ==
  ASSUME TypeOK, NEW models \in Models
  PROVE  Given(models) \in [Regions -> [Executions -> Results \cup {"none"}]]
BY DEF Given, Models, TypeOK

LEMMA DeleteTyped ==
  ASSUME TypeOK, NEW r \in Regions
  PROVE  deleteByDestination(r) \in Models
<1> SUFFICES ASSUME NEW x \in Executions
             PROVE  deleteByDestination(r)[x] \in [result : Results \cup {"none"},
                                                   destination : SUBSET Regions]
  BY DEF deleteByDestination, Models
<1>1. collection[x] \in [result : Results \cup {"none"}, destination : SUBSET Regions]
  BY DEF TypeOK
<1>2. CASE collection[x].destination = {r}
  BY <1>2 DEF deleteByDestination, Absent
<1>3. CASE collection[x].destination # {r}
  BY <1>1, <1>3 DEF deleteByDestination
<1> QED
  BY <1>2, <1>3

LEMMA ClickTyped ==
  ASSUME TypeOK, NEW r \in Regions, Click(r)
  PROVE  clicks' \in 0..MaxClicks
<1>1. MaxClicks \in Nat /\ clicks \in 0..MaxClicks
  BY PageAssumption DEF PageAssumption, TypeOK
<1>2. clicks < MaxClicks /\ clicks' = clicks + 1
  BY DEF Click
<1> QED
  BY <1>1, <1>2

(* A step keeps the types. *)
LEMMA TypedNext == TypeOK /\ [Next]_vars => TypeOK'
<1> SUFFICES ASSUME TypeOK, [Next]_vars PROVE TypeOK'
  OBVIOUS
<1> USE DEF page, server, counters
<1>1. ASSUME NEW r \in Regions, createRegion(r) PROVE TypeOK'
  BY <1>1 DEF TypeOK, createRegion
<1>2. ASSUME NEW r \in Regions, NEW t \in Topics, addSubscription(r, t) PROVE TypeOK'
  <2>1. requests \in Seq(Requests) /\ requests \o <<>> \in Seq(Requests)
    BY DEF TypeOK
  <2>2. requests' \in Seq(Requests)
    BY <1>2, <2>1, NewsTyped DEF addSubscription, subscribeToServer
  <2>3. watched' \in [Regions -> SUBSET Topics]
    BY <1>2 DEF addSubscription, subscribeToServer, TypeOK
  <2>4. clicks' \in 0..MaxClicks
    BY <1>2, ClickTyped DEF addSubscription
  <2> QED
    BY <1>2, <2>2, <2>3, <2>4 DEF addSubscription, TypeOK
<1>3. ASSUME NEW r \in Regions, NEW t \in Topics, removeSubscription(r, t) PROVE TypeOK'
  <2>1. unsubscribeToServer(r, {t}) /\ {t} \in SUBSET Topics
    BY <1>3 DEF removeSubscription
  <2>2. watched' \in [Regions -> SUBSET Topics] /\ requests' \in Seq(Requests)
    BY <2>1, UnsubscribeTyped
  <2>3. clicks' \in 0..MaxClicks
    BY <1>3, ClickTyped DEF removeSubscription
  <2> QED
    BY <1>3, <2>2, <2>3 DEF removeSubscription, TypeOK
<1>4. ASSUME NEW r \in Regions, removeRegion(r) PROVE TypeOK'
  <2>1. collection' \in Models
    BY <1>4, DeleteTyped DEF removeRegion
  <2>2. shown' \in [Regions -> [Executions -> Results \cup {"none"}]]
    BY <1>4, <2>1, GivenTyped DEF removeRegion
  <2>3. unsubscribeToServer(r, watched[r]) /\ watched[r] \in SUBSET Topics
    BY <1>4 DEF removeRegion, TypeOK
  <2>4. watched' \in [Regions -> SUBSET Topics] /\ requests' \in Seq(Requests)
    BY <2>3, UnsubscribeTyped
  <2> QED
    BY <1>4, <2>1, <2>2, <2>4 DEF removeRegion, Models, TypeOK
<1>5. ASSUME NEW r \in Regions, NEW e \in Epics, retrieveJiraData(r, e) PROVE TypeOK'
  <2>1. /\ JiraTopic \in Topics
        /\ requests \o <<>> \in Seq(Requests)
        /\ requests \o <<Request("jiraEpic", e)>> \in Seq(Requests)
    BY PageAssumption DEF PageAssumption, TypeOK, Requests, Request
  <2>2. requests' \in Seq(Requests)
    BY <1>5, <2>1, NewsTyped DEF retrieveJiraData, subscribeToServer
  <2>3. watched' \in [Regions -> SUBSET Topics]
    <3>1. watched' = [watched EXCEPT ![r] = @ \cup {JiraTopic}]
      BY <1>5 DEF retrieveJiraData, subscribeToServer
    <3> QED
      BY <2>1, <3>1 DEF TypeOK
  <2>4. clicks' \in 0..MaxClicks
    BY <1>5, ClickTyped DEF retrieveJiraData
  <2>5. r \in TreeMaps
    BY <1>5 DEF retrieveJiraData, offersJira
  <2>6. /\ jiraRequests' \in [Epics -> Seq(TreeMaps)] /\ built' \subseteq TreeMaps
        /\ shown' \in [Regions -> [Executions -> Results \cup {"none"}]]
    <3>1. CASE e \in jiraCollection
      <4>1. Rebuilt(r) /\ UNCHANGED jiraRequests
        BY <1>5, <3>1 DEF retrieveJiraData
      <4> QED
        BY <2>5, <4>1 DEF Rebuilt, TypeOK
    <3>2. CASE e \notin jiraCollection
      <4>1. jiraRequests' = [jiraRequests EXCEPT ![e] = Append(@, r)]
            /\ UNCHANGED <<shown, built>>
        BY <1>5, <3>2 DEF retrieveJiraData
      <4>2. Append(jiraRequests[e], r) \in Seq(TreeMaps)
        BY <2>5 DEF TypeOK
      <4> QED
        BY <4>1, <4>2 DEF TypeOK
    <3> QED
      BY <3>1, <3>2
  <2> QED
    BY <1>5, <2>2, <2>3, <2>4, <2>6 DEF retrieveJiraData, TypeOK
<1>6. CASE handleRouterMessage
  <2>1. Head(incoming) \in Messages /\ incoming' \in Seq(Messages)
    BY <1>6 DEF handleRouterMessage, Receive, TypeOK
  <2>2. Head(incoming).execution \in Executions /\ Head(incoming).result \in Results
    BY <1>6, <2>1 DEF handleRouterMessage, Messages
  <2>3. setDestination(Head(incoming).topic) \subseteq Regions
    BY DEF setDestination
  <2>4. collection' \in Models
    BY <1>6, <2>2, <2>3 DEF handleRouterMessage, Models, TypeOK
  <2>5. shown' \in [Regions -> [Executions -> Results \cup {"none"}]]
    BY <1>6, <2>4, GivenTyped DEF handleRouterMessage
  <2> QED
    BY <1>6, <2>1, <2>4, <2>5 DEF handleRouterMessage, Models, TypeOK
<1>7. CASE handleJiraMessage
  <2>1. Head(incoming) \in Messages /\ incoming' \in Seq(Messages)
    BY <1>7 DEF handleJiraMessage, Receive, TypeOK
  <2>2. Head(incoming).epic \in Epics
    BY <1>7, <2>1 DEF handleJiraMessage, Messages
  <2>3. ASSUME jiraRequests[Head(incoming).epic] # <<>>
        PROVE  Answered(Head(incoming).epic) \in TreeMaps
    BY <2>2, <2>3 DEF Answered, TypeOK
  <2>4. jiraRequests' \in [Epics -> Seq(TreeMaps)]
    BY <1>7, <2>2 DEF handleJiraMessage, TypeOK
  <2>5. /\ built' \subseteq TreeMaps /\ jiraCollection' \subseteq Epics /\ errors' \subseteq Epics
        /\ shown' \in [Regions -> [Executions -> Results \cup {"none"}]]
    <3> DEFINE e == Head(incoming).epic
    <3>1. CASE UNCHANGED <<jiraCollection, built, shown>> /\ (UNCHANGED errors \/ errors' = errors \cup {e})
      BY <2>2, <3>1 DEF TypeOK
    <3>2. CASE /\ jiraRequests[e] # <<>> /\ UNCHANGED errors
               /\ Rebuilt(Answered(e)) /\ jiraCollection' = jiraCollection \cup {e}
      <4>1. Answered(e) \in TreeMaps
        BY <2>3, <3>2
      <4> QED
        BY <2>2, <3>2, <4>1 DEF Rebuilt, TypeOK
    <3> QED
      BY <1>7, <3>1, <3>2 DEF handleJiraMessage
  <2> QED
    BY <1>7, <2>1, <2>4, <2>5 DEF handleJiraMessage, TypeOK
<1>8. CASE handleRequest
  <2>1. Head(requests) \in Requests /\ requests' \in Seq(Requests)
    BY <1>8 DEF handleRequest, TypeOK
  <2>2. routes' \subseteq Topics /\ looked' \in [Epics -> Nat]
    <3> DEFINE m == Head(requests)
    <3>1. /\ m.kind \in {"subscribe", "unsubscribe"} => m.of \in Topics
          /\ m.kind = "jiraEpic" => m.of \in Epics
      BY <2>1 DEF Requests
    <3> HIDE DEF m
    <3>2. \/ m.kind = "subscribe" /\ routes' \in {routes, routes \cup {m.of}} /\ UNCHANGED looked
          \/ m.kind = "unsubscribe" /\ routes' \in {routes, routes \ {m.of}} /\ UNCHANGED looked
          \/ m.kind = "jiraEpic" /\ looked' = [looked EXCEPT ![m.of] = @ + 1] /\ UNCHANGED routes
      BY <1>8 DEF handleRequest, m
    <3>3. routes \subseteq Topics /\ looked \in [Epics -> Nat]
      BY DEF TypeOK
    <3>4. CASE m.kind = "jiraEpic" /\ looked' = [looked EXCEPT ![m.of] = @ + 1] /\ UNCHANGED routes
      <4>1. m.of \in Epics /\ looked[m.of] + 1 \in Nat
        BY <3>1, <3>3, <3>4
      <4> QED
        BY <3>3, <3>4, <4>1
    <3> QED
      BY <3>1, <3>2, <3>3, <3>4
  <2> QED
    BY <1>8, <2>1, <2>2 DEF handleRequest, page, counters, TypeOK
<1>9. ASSUME NEW e \in Epics, answer(e) PROVE TypeOK'
  <2>1. \A error \in BOOLEAN : [sender |-> "jira", epic |-> e, error |-> error] \in Messages
    BY DEF Messages
  <2>2. incoming' \in Seq(Messages)
    <3>1. incoming \in Seq(Messages)
      BY DEF TypeOK
    <3>2. UNCHANGED incoming \/ \E m \in Messages : incoming' = Append(incoming, m)
      BY <1>9, <2>1 DEF answer
    <3> QED
      BY <3>1, <3>2
  <2>3. looked' \in [Epics -> Nat] /\ lost' \subseteq Epics
    <3>1. looked \in [Epics -> Nat] /\ looked[e] > 0 /\ looked' = [looked EXCEPT ![e] = @ - 1]
      BY <1>9 DEF answer, TypeOK
    <3>2. lost' \in {lost, lost \cup {e}} /\ lost \subseteq Epics
      BY <1>9 DEF answer, TypeOK
    <3> QED
      BY <3>1, <3>2
  <2> QED
    BY <1>9, <2>2, <2>3 DEF answer, TypeOK
<1>10. ASSUME NEW x \in Executions, NEW v \in Results, publish(x, v) PROVE TypeOK'
  <2>1. \A t \in Topics :
          [sender |-> "router", topic |-> t, execution |-> x, result |-> v] \in Messages
    BY DEF Messages
  <2> QED
    BY <1>10, <2>1, PageAssumption DEF publish, TypeOK, PageAssumption
<1>11. CASE reconnect
  BY <1>11, PageAssumption DEF reconnect, TypeOK, PageAssumption
<1>12. CASE masterRestarts \/ UNCHANGED vars
  BY <1>12 DEF masterRestarts, vars, TypeOK
<1> QED
  BY <1>1, <1>2, <1>3, <1>4, <1>5, <1>6, <1>7, <1>8, <1>9, <1>10, <1>11, <1>12 DEF Next

(* Every reachable state is well typed: only tree maps wait for epics, and *)
(* the page keeps executions and epics that exist.                         *)
THEOREM TypeCorrect == Spec => []TypeOK
<1>1. Init => TypeOK
  BY PageAssumption DEF Init, TypeOK, Absent
<1> QED
  BY <1>1, TypedNext, PTL DEF Spec
-----------------------------------------------------------------------------
(* The routes.  What WillRoute says of the state, Routed says of any       *)
(* routes and any requests q on their way.                                 *)
AboutIn(q, i, t) == q[i].kind # "jiraEpic" /\ q[i].of = t

Routed(rt, q, t) ==
  \/ \E i \in DOMAIN q : /\ AboutIn(q, i, t) /\ q[i].kind = "subscribe"
                         /\ \A j \in DOMAIN q : AboutIn(q, j, t) => j <= i
  \/ t \in rt /\ \A i \in DOMAIN q : ~AboutIn(q, i, t)

LEMMA WillRouteIsRouted ==
  ASSUME NEW t \in Topics
  PROVE  WillRoute(t) <=> Routed(routes, requests, t)
BY DEF WillRoute, Last, About, Routed, AboutIn

(* Requests that are all about other topics change nothing for t. *)
LEMMA OthersDontMatter ==
  ASSUME NEW rt, NEW t, NEW q \in Seq(Requests), NEW s \in Seq(Requests),
         \A i \in DOMAIN s : ~AboutIn(s, i, t)
  PROVE  Routed(rt, q \o s, t) <=> Routed(rt, q, t)
<1>1. /\ DOMAIN q = 1..Len(q) /\ DOMAIN s = 1..Len(s) /\ DOMAIN (q \o s) = 1..Len(q) + Len(s)
      /\ Len(q) \in Nat /\ Len(s) \in Nat
  OBVIOUS
<1>2. \A i \in 1..Len(q) : (q \o s)[i] = q[i]
  BY <1>1
<1>3. \A i \in DOMAIN (q \o s) : i \notin 1..Len(q) => ~AboutIn(q \o s, i, t)
  BY <1>1 DEF AboutIn
<1>4. \A i \in 1..Len(q) : AboutIn(q \o s, i, t) <=> AboutIn(q, i, t)
  BY <1>2 DEF AboutIn
<1> DEFINE p == q \o s
<1>5. DOMAIN q \subseteq DOMAIN p
  BY <1>1
<1>6. \A i \in DOMAIN p : AboutIn(p, i, t) => i \in DOMAIN q
  BY <1>1, <1>3
<1>7. \A i \in DOMAIN q : p[i] = q[i] /\ (AboutIn(p, i, t) <=> AboutIn(q, i, t))
  BY <1>1, <1>2, <1>4
<1> HIDE DEF p
<1>8. Routed(rt, p, t) <=> Routed(rt, q, t)
  BY <1>5, <1>6, <1>7 DEF Routed
<1> QED
  BY <1>8 DEF p

(* Of requests that all unsubscribe, one about t ends its route. *)
LEMMA UnsubscribedIsNot ==
  ASSUME NEW rt, NEW t, NEW q \in Seq(Requests), NEW s \in Seq(Requests),
         NEW k \in DOMAIN s, AboutIn(s, k, t),
         \A i \in DOMAIN s : s[i].kind = "unsubscribe"
  PROVE  ~Routed(rt, q \o s, t)
<1> DEFINE p == q \o s
<1>1. /\ DOMAIN s = 1..Len(s) /\ DOMAIN p = 1..Len(q) + Len(s)
      /\ Len(q) \in Nat /\ Len(s) \in Nat
  OBVIOUS
<1>2. /\ Len(q) + k \in DOMAIN p /\ AboutIn(p, Len(q) + k, t)
      /\ \A i \in DOMAIN p : i > Len(q) => p[i].kind = "unsubscribe"
  BY <1>1 DEF AboutIn
<1>3. k \in Nat /\ k > 0
  BY <1>1
<1> HIDE DEF p
<1>4. \A i \in DOMAIN p : i \in Int
  BY <1>1
<1>5. ~Routed(rt, p, t)
  BY <1>1, <1>2, <1>3, <1>4 DEF Routed
<1> QED
  BY <1>5 DEF p

(* A last request that subscribes makes the route. *)
LEMMA SubscribedIs ==
  ASSUME NEW rt, NEW t \in Topics, NEW q \in Seq(Requests)
  PROVE  Routed(rt, q \o <<Request("subscribe", t)>>, t)
<1> DEFINE p == q \o <<Request("subscribe", t)>>
<1>1. /\ DOMAIN p = 1..Len(q) + 1 /\ Len(q) \in Nat
      /\ p[Len(q) + 1] = Request("subscribe", t)
  OBVIOUS
<1> HIDE DEF p
<1>2. Routed(rt, p, t)
  BY <1>1 DEF Routed, AboutIn, Request
<1> QED
  BY <1>2 DEF p

(* The server handles the requests in their order, so it comes to the same *)
(* whether a request is on its way or has arrived.                         *)
LEMMA HandledIsTheSame ==
  ASSUME NEW rt, NEW after, NEW t, NEW q \in Seq(Requests), q # <<>>,
         AboutIn(q, 1, t) => (t \in after <=> Head(q).kind = "subscribe"),
         ~AboutIn(q, 1, t) => (t \in after <=> t \in rt)
  PROVE  Routed(after, Tail(q), t) <=> Routed(rt, q, t)
<1> DEFINE p == Tail(q)
<1>1. /\ DOMAIN q = 1..Len(q) /\ Len(q) \in Nat /\ Len(q) > 0 /\ Head(q) = q[1]
      /\ DOMAIN p = 1..Len(q) - 1 /\ \A i \in DOMAIN p : p[i] = q[i + 1]
  OBVIOUS
<1>2. q[1] \in Requests
  BY <1>1
<1> HIDE DEF p
<1>3. \A i \in DOMAIN p : i + 1 \in DOMAIN q /\ (AboutIn(p, i, t) <=> AboutIn(q, i + 1, t))
  BY <1>1 DEF AboutIn
<1>4. \A i \in DOMAIN q : i # 1 => i - 1 \in DOMAIN p /\ (AboutIn(p, i - 1, t) <=> AboutIn(q, i, t))
  BY <1>1 DEF AboutIn
<1>5. CASE \E i \in DOMAIN p : AboutIn(p, i, t)
  <2>1. PICK k \in DOMAIN p : AboutIn(p, k, t)
    BY <1>5
  <2>2. ASSUME NEW i \in DOMAIN p, AboutIn(p, i, t), p[i].kind = "subscribe",
               \A j \in DOMAIN p : AboutIn(p, j, t) => j <= i
        PROVE  Routed(rt, q, t)
    <3>1. i + 1 \in DOMAIN q /\ AboutIn(q, i + 1, t) /\ q[i + 1].kind = "subscribe"
      BY <1>1, <1>3, <2>2
    <3>2. \A j \in DOMAIN q : AboutIn(q, j, t) => j <= i + 1
      BY <1>1, <1>4, <2>2
    <3> QED
      BY <3>1, <3>2 DEF Routed
  <2>3. ASSUME NEW i \in DOMAIN q, AboutIn(q, i, t), q[i].kind = "subscribe",
               \A j \in DOMAIN q : AboutIn(q, j, t) => j <= i
        PROVE  Routed(after, p, t)
    <3>1. k + 1 <= i /\ i # 1
      BY <1>1, <1>3, <2>1, <2>3
    <3>2. i - 1 \in DOMAIN p /\ AboutIn(p, i - 1, t) /\ p[i - 1].kind = "subscribe"
      BY <1>1, <1>4, <2>3, <3>1
    <3>3. \A j \in DOMAIN p : AboutIn(p, j, t) => j <= i - 1
      BY <1>1, <1>3, <2>3
    <3> QED
      BY <3>2, <3>3 DEF Routed
  <2>4. ~(\A i \in DOMAIN p : ~AboutIn(p, i, t)) /\ ~(\A i \in DOMAIN q : ~AboutIn(q, i, t))
    BY <1>3, <2>1
  <2> QED
    BY <2>2, <2>3, <2>4 DEF Routed, p
<1>6. CASE ~(\E i \in DOMAIN p : AboutIn(p, i, t)) /\ AboutIn(q, 1, t)
  <2>1. \A j \in DOMAIN q : AboutIn(q, j, t) => j = 1
    BY <1>4, <1>6
  <2>2. Routed(rt, q, t) <=> q[1].kind = "subscribe"
    BY <1>1, <1>6, <2>1 DEF Routed
  <2>3. Routed(after, p, t) <=> t \in after
    BY <1>6 DEF Routed
  <2> QED
    BY <1>1, <1>6, <2>2, <2>3 DEF p
<1>7. CASE ~(\E i \in DOMAIN p : AboutIn(p, i, t)) /\ ~AboutIn(q, 1, t)
  <2>1. \A j \in DOMAIN q : ~AboutIn(q, j, t)
    BY <1>4, <1>7
  <2> QED
    BY <1>7, <2>1 DEF Routed, p
<1> QED
  BY <1>5, <1>6, <1>7

(* RoutesFollow for one topic, in the terms of Routed. *)
Follows(t) == dashboard = "alive" =>
                /\ Routed(routes, requests, t) => isWatched(watched, t)
                /\ isWatched(watched, t) /\ drops = 0 => Routed(routes, requests, t)

LEMMA RoutesFollowIsFollows == RoutesFollow <=> \A t \in Topics : Follows(t)
BY WillRouteIsRouted DEF RoutesFollow, Follows

(* A subscription: the server is told unless somebody watched before. *)
LEMMA SubscribingFollows ==
  ASSUME TypeOK, NEW r \in Regions, NEW u \in Topics, NEW before \in Seq(Requests),
         \A i \in DOMAIN before : before[i].kind = "jiraEpic",
         subscribeToServer(r, u, before), UNCHANGED <<routes, dashboard, drops>>,
         NEW t \in Topics, Follows(t)
  PROVE  Follows(t)'
<1> DEFINE q == requests \o before
<1>1. /\ watched \in [Regions -> SUBSET Topics] /\ requests \in Seq(Requests)
      /\ watched' = [watched EXCEPT ![r] = @ \cup {u}] /\ requests' = q \o news(u)
  BY DEF TypeOK, subscribeToServer
<1>2. q \in Seq(Requests)
  BY <1>1
<1>3. Routed(routes, q, t) <=> Routed(routes, requests, t)
  BY <1>1, OthersDontMatter DEF AboutIn
<1> HIDE DEF q
<1>4. isWatched(watched', t) <=> isWatched(watched, t) \/ t = u
  BY <1>1 DEF isWatched
<1>5. CASE isWatched(watched, u)
  <2>1. requests' = q
    BY <1>1, <1>2, <1>5 DEF news
  <2> QED
    BY <1>3, <1>4, <1>5, <2>1 DEF Follows
<1>6. CASE ~isWatched(watched, u)
  <2>1. requests' = q \o <<Request("subscribe", u)>>
    BY <1>1, <1>6 DEF news
  <2>2. CASE t = u
    <3>1. Routed(routes, requests', t)
      BY <1>2, <2>1, <2>2, SubscribedIs
    <3> QED
      BY <1>4, <2>2, <3>1 DEF Follows
  <2>3. CASE t # u
    <3>1. <<Request("subscribe", u)>> \in Seq(Requests)
          /\ \A i \in DOMAIN <<Request("subscribe", u)>> :
               ~AboutIn(<<Request("subscribe", u)>>, i, t)
      BY <2>3 DEF AboutIn, Requests, Request
    <3>2. Routed(routes, requests', t) <=> Routed(routes, q, t)
      BY <1>2, <2>1, <3>1, OthersDontMatter
    <3> QED
      BY <1>3, <1>4, <2>3, <3>2 DEF Follows
  <2> QED
    BY <2>2, <2>3
<1> QED
  BY <1>5, <1>6

(* A region leaves topics that it watches, or that nobody watches: the     *)
(* server is told of those that nobody is left for.                        *)
LEMMA UnsubscribingFollows ==
  ASSUME TypeOK, NEW r \in Regions, NEW gone \in SUBSET Topics,
         unsubscribeToServer(r, gone), UNCHANGED <<routes, dashboard, drops>>,
         NEW t \in Topics, Follows(t)
  PROVE  Follows(t)'
<1> DEFINE left == {u \in gone : ~isWatched(watched', u)}
<1>1. /\ watched \in [Regions -> SUBSET Topics] /\ requests \in Seq(Requests)
      /\ watched' = [watched EXCEPT ![r] = @ \ gone]
  BY DEF TypeOK, unsubscribeToServer
<1>2. PICK s \in Orders(left) :
        requests' = requests \o [i \in DOMAIN s |-> Request("unsubscribe", s[i])]
  BY DEF unsubscribeToServer
<1> DEFINE q == [i \in DOMAIN s |-> Request("unsubscribe", s[i])]
<1>3. q \in Seq(Requests) /\ (\A u \in left : \E i \in DOMAIN s : s[i] = u)
      /\ \A i \in DOMAIN s : s[i] \in left
  BY <1>2, Unsubscriptions
<1>4. /\ DOMAIN q = DOMAIN s /\ \A i \in DOMAIN q : q[i].kind = "unsubscribe"
      /\ \A i \in DOMAIN q : AboutIn(q, i, t) <=> s[i] = t
  BY DEF AboutIn, Request
<1>5. requests' = requests \o q
  BY <1>2
<1> HIDE DEF q
<1>6. isWatched(watched', t) => isWatched(watched, t)
  BY <1>1 DEF isWatched
<1>7. t \notin gone => (isWatched(watched', t) <=> isWatched(watched, t))
  BY <1>1 DEF isWatched
<1>8. CASE t \in left
  <2>1. PICK k \in DOMAIN q : AboutIn(q, k, t)
    BY <1>3, <1>4, <1>8
  <2>2. ~Routed(routes, requests', t)
    BY <1>1, <1>3, <1>4, <1>5, <2>1, UnsubscribedIsNot
  <2> QED
    BY <1>8, <2>2 DEF Follows
<1>9. CASE t \notin left
  <2>1. Routed(routes, requests', t) <=> Routed(routes, requests, t)
    <3>1. \A i \in DOMAIN q : ~AboutIn(q, i, t)
      BY <1>3, <1>4, <1>9
    <3> QED
      BY <1>1, <1>3, <1>5, <3>1, OthersDontMatter
  <2>2. isWatched(watched', t) <=> isWatched(watched, t)
    BY <1>6, <1>7, <1>9
  <2> QED
    BY <2>1, <2>2 DEF Follows
<1> QED
  BY <1>8, <1>9

(* The server handles a request. *)
LEMMA HandlingFollows ==
  ASSUME TypeOK, handleRequest, NEW t \in Topics, Follows(t)
  PROVE  Follows(t)'
<1>1. /\ requests \in Seq(Requests) /\ requests # <<>> /\ requests' = Tail(requests)
      /\ UNCHANGED <<watched, dashboard, drops>>
  BY DEF TypeOK, handleRequest, page, counters
<1> SUFFICES ASSUME dashboard = "alive" PROVE Follows(t)'
  BY <1>1 DEF Follows
<1>2. Head(requests) = requests[1] /\ requests[1] \in Requests
  BY <1>1
<1>3. \/ requests[1].kind = "subscribe" /\ routes' = routes \cup {requests[1].of}
      \/ requests[1].kind = "unsubscribe" /\ routes' = routes \ {requests[1].of}
      \/ requests[1].kind = "jiraEpic" /\ routes' = routes
  BY <1>2 DEF handleRequest
<1>4. AboutIn(requests, 1, t) => (t \in routes' <=> Head(requests).kind = "subscribe")
  BY <1>2, <1>3 DEF AboutIn
<1>5. ~AboutIn(requests, 1, t) => (t \in routes' <=> t \in routes)
  BY <1>3 DEF AboutIn
<1>6. Routed(routes', Tail(requests), t) <=> Routed(routes, requests, t)
  BY <1>1, <1>4, <1>5, HandledIsTheSame
<1> QED
  BY <1>1, <1>6 DEF Follows

(* As long as the dashboard of the session is alive, the server has, or    *)
(* will have, routes of topics that some region watches, of no other, and  *)
(* of each of them until a connection is lost.                             *)
THEOREM RoutesFollowTheRegions == Spec => []RoutesFollow
<1>1. Init => RoutesFollow
  <2>1. Init => \A t \in Topics : Follows(t)
    BY DEF Init, Follows, Routed, isWatched
  <2> QED
    BY <2>1, RoutesFollowIsFollows
<1>2. TypeOK /\ RoutesFollow /\ [Next]_vars => RoutesFollow'
  <2> SUFFICES ASSUME TypeOK, RoutesFollow, [Next]_vars, NEW t \in Topics PROVE Follows(t)'
    BY DEF RoutesFollow, Follows, WillRoute, Last, About, Routed, AboutIn
  <2>1. Follows(t)
    BY RoutesFollowIsFollows
  <2> USE DEF page, server, counters
  <2>2. ASSUME NEW r \in Regions, NEW u \in Topics, addSubscription(r, u) PROVE Follows(t)'
    <3>1. subscribeToServer(r, u, <<>>) /\ UNCHANGED <<routes, dashboard, drops>>
      BY <2>2 DEF addSubscription
    <3>2. <<>> \in Seq(Requests) /\ \A i \in DOMAIN <<>> : <<>>[i].kind = "jiraEpic"
      OBVIOUS
    <3> QED
      BY <2>1, <3>1, <3>2, SubscribingFollows
  <2>3. ASSUME NEW r \in Regions, NEW u \in Topics, removeSubscription(r, u) PROVE Follows(t)'
    <3>1. unsubscribeToServer(r, {u}) /\ UNCHANGED <<routes, dashboard, drops>> /\ {u} \in SUBSET Topics
      BY <2>3 DEF removeSubscription
    <3> QED
      BY <2>1, <3>1, UnsubscribingFollows
  <2>4. ASSUME NEW r \in Regions, removeRegion(r) PROVE Follows(t)'
    <3>1. unsubscribeToServer(r, watched[r]) /\ UNCHANGED <<routes, dashboard, drops>>
          /\ watched[r] \in SUBSET Topics
      BY <2>4 DEF removeRegion, TypeOK
    <3> QED
      BY <2>1, <3>1, UnsubscribingFollows
  <2>5. ASSUME NEW r \in Regions, NEW e \in Epics, retrieveJiraData(r, e) PROVE Follows(t)'
    <3>1. JiraTopic \in Topics /\ UNCHANGED <<routes, dashboard, drops>>
      BY <2>5, PageAssumption DEF PageAssumption, retrieveJiraData
    <3>2. <<>> \in Seq(Requests) /\ \A i \in DOMAIN <<>> : <<>>[i].kind = "jiraEpic"
      OBVIOUS
    <3>3. /\ <<Request("jiraEpic", e)>> \in Seq(Requests)
          /\ \A i \in DOMAIN <<Request("jiraEpic", e)>> :
               <<Request("jiraEpic", e)>>[i].kind = "jiraEpic"
      BY DEF Requests, Request
    <3>4. CASE subscribeToServer(r, JiraTopic, <<>>)
      BY <2>1, <3>1, <3>2, <3>4, SubscribingFollows
    <3>5. CASE subscribeToServer(r, JiraTopic, <<Request("jiraEpic", e)>>)
      BY <2>1, <3>1, <3>3, <3>5, SubscribingFollows
    <3> QED
      BY <2>5, <3>4, <3>5 DEF retrieveJiraData
  <2>6. CASE handleRequest
    BY <2>1, <2>6, HandlingFollows
  <2>7. CASE reconnect
    <3>1. routes' = {} /\ requests' = <<>> /\ drops' = drops + 1 /\ drops \in 0..MaxDrops
      BY <2>7 DEF reconnect, TypeOK
    <3>2. MaxDrops \in Nat
      BY PageAssumption DEF PageAssumption
    <3>3. drops' # 0
      BY <3>1, <3>2
    <3> QED
      BY <3>1, <3>3 DEF Follows, Routed
  <2>8. CASE UNCHANGED <<routes, dashboard, requests, watched, drops>>
    BY <2>1, <2>8 DEF Follows, Routed, isWatched, AboutIn
  <2>9. ASSUME NEW r \in Regions, createRegion(r) PROVE UNCHANGED <<routes, dashboard, requests, watched, drops>>
    BY <2>9 DEF createRegion
  <2>10. CASE handleRouterMessage \/ handleJiraMessage
    BY <2>8, <2>10 DEF handleRouterMessage, handleJiraMessage
  <2>11. ASSUME NEW e \in Epics, answer(e) PROVE UNCHANGED <<routes, dashboard, requests, watched, drops>>
    BY <2>11 DEF answer
  <2>12. ASSUME NEW x \in Executions, NEW v \in Results, publish(x, v)
         PROVE  UNCHANGED <<routes, dashboard, requests, watched, drops>>
    BY <2>12 DEF publish
  <2>13. CASE UNCHANGED vars
    BY <2>8, <2>13 DEF vars
  <2>14. CASE masterRestarts
    BY <2>14 DEF masterRestarts, Follows
  <2> QED
    BY <2>2, <2>3, <2>4, <2>5, <2>6, <2>7, <2>8, <2>9, <2>10, <2>11, <2>12, <2>13,
       <2>14 DEF Next
<1> QED
  BY <1>1, <1>2, TypeCorrect, PTL DEF Spec
-----------------------------------------------------------------------------
(* The collection.  The regions that watch a topic are those that are      *)
(* there: this is what keeps events from a region that is gone.            *)
WatchersLive == \A r \in Regions : watched[r] # {} => life[r] = "active"

CollectionInv == WatchersLive /\ DestinationsLive /\ ShownIsHeld

(* Whom a message of the router is for, and who is given it. *)
LEMMA RouterGives ==
  ASSUME TypeOK, WatchersLive, handleRouterMessage
  PROVE  \A x \in Executions : \/ collection'[x] = collection[x]
                               \/ \A r \in collection'[x].destination : r \in Regions /\ life[r] = "active"
<1> DEFINE m == Head(incoming)
<1>1. collection \in Models
  BY DEF TypeOK, Models
<1>2. collection' = [collection EXCEPT ![m.execution] =
        [result |-> m.result, destination |-> setDestination(m.topic)]]
  BY DEF handleRouterMessage
<1>3. \A r \in setDestination(m.topic) : r \in Regions /\ life[r] = "active"
  BY DEF setDestination, WatchersLive
<1> HIDE DEF m
<1> QED
  BY <1>1, <1>2, <1>3 DEF Models

(* A region that is removed is the destination of nothing. *)
LEMMA DeletedIsNoDestination ==
  ASSUME TypeOK, NEW r \in Regions, NEW x \in Executions
  PROVE  deleteByDestination(r)[x].destination = collection[x].destination \ {r}
<1>1. collection[x] \in [result : Results \cup {"none"}, destination : SUBSET Regions]
  BY DEF TypeOK
<1>2. CASE collection[x].destination = {r}
  <2>1. deleteByDestination(r)[x].destination = {}
    BY <1>2 DEF deleteByDestination, Absent
  <2> QED
    BY <1>2, <2>1
<1>3. CASE collection[x].destination # {r}
  <2>1. deleteByDestination(r)[x] = [collection[x] EXCEPT !.destination = @ \ {r}]
    BY <1>3 DEF deleteByDestination
  <2> QED
    BY <1>1, <2>1
<1> QED
  BY <1>2, <1>3

(* When the charts are given the models that change, each one holds what   *)
(* the collection has for it.                                              *)
LEMMA GivenIsHeld ==
  ASSUME TypeOK, ShownIsHeld, collection' \in Models, shown' = Given(collection'),
         UNCHANGED built,
         \A x \in Executions : collection'[x] = collection[x]
                               \/ collection'[x].destination \subseteq Regions
  PROVE  ShownIsHeld'
<1> SUFFICES ASSUME NEW x \in Executions, NEW r \in collection'[x].destination
             PROVE  shown'[r][x] = collection'[x].result \/ (r \in built /\ shown'[r][x] = "none")
  BY DEF ShownIsHeld
<1>1. r \in Regions
  BY DEF Models
<1>2. shown'[r][x] = IF collection'[x] # collection[x] /\ r \in collection'[x].destination
                     THEN collection'[x].result ELSE shown[r][x]
  BY <1>1 DEF Given
<1> QED
  BY <1>2 DEF ShownIsHeld

(* A tree map that is built holds nothing. *)
LEMMA RebuiltIsHeld ==
  ASSUME TypeOK, ShownIsHeld, NEW q, Rebuilt(q), UNCHANGED collection
  PROVE  ShownIsHeld'
<1> SUFFICES ASSUME NEW x \in Executions, NEW r \in collection[x].destination
             PROVE  shown'[r][x] = collection[x].result \/ (r \in built' /\ shown'[r][x] = "none")
  BY DEF ShownIsHeld
<1>1. /\ r \in Regions /\ shown \in [Regions -> [Executions -> Results \cup {"none"}]]
      /\ shown' = [shown EXCEPT ![q] = [y \in Executions |-> "none"]] /\ built' = built \cup {q}
  BY DEF TypeOK, Rebuilt
<1>2. shown[r][x] = collection[x].result \/ (r \in built /\ shown[r][x] = "none")
  BY DEF ShownIsHeld
<1>3. CASE r = q
  BY <1>1, <1>3
<1>4. CASE r # q
  BY <1>1, <1>2, <1>4
<1> QED
  BY <1>3, <1>4

(* No event waits for a region that is gone, and what a chart holds is     *)
(* what the collection has.                                                *)
THEOREM TheCollectionAgrees == Spec => [](WatchersLive /\ CollectionAgrees)
<1>1. Init => CollectionInv
  BY DEF Init, CollectionInv, WatchersLive, DestinationsLive, ShownIsHeld, Absent
<1>2. TypeOK /\ CollectionInv /\ [Next]_vars => CollectionInv'
  <2> SUFFICES ASSUME TypeOK, WatchersLive, DestinationsLive, ShownIsHeld, [Next]_vars
               PROVE  CollectionInv'
    BY DEF CollectionInv
  <2> USE DEF page, server, counters
  <2>1. ASSUME NEW r \in Regions, createRegion(r) PROVE CollectionInv'
    BY <2>1 DEF createRegion, CollectionInv, WatchersLive, DestinationsLive, ShownIsHeld, TypeOK
  <2>2. ASSUME NEW r \in Regions, NEW t \in Topics, addSubscription(r, t) PROVE CollectionInv'
    <3>1. WatchersLive'
      BY <2>2 DEF addSubscription, subscribeToServer, Click, WatchersLive, TypeOK
    <3> QED
      BY <2>2, <3>1 DEF addSubscription, CollectionInv, DestinationsLive, ShownIsHeld
  <2>3. ASSUME NEW r \in Regions, NEW t \in Topics, removeSubscription(r, t) PROVE CollectionInv'
    <3>1. WatchersLive'
      BY <2>3 DEF removeSubscription, unsubscribeToServer, Click, WatchersLive, TypeOK
    <3> QED
      BY <2>3, <3>1 DEF removeSubscription, CollectionInv, DestinationsLive, ShownIsHeld
  <2>4. ASSUME NEW r \in Regions, removeRegion(r) PROVE CollectionInv'
    <3>1. /\ life' = [life EXCEPT ![r] = "gone"] /\ collection' = deleteByDestination(r)
          /\ watched' = [watched EXCEPT ![r] = @ \ watched[r]]
          /\ shown' = Given(collection') /\ UNCHANGED built
      BY <2>4 DEF removeRegion, unsubscribeToServer
    <3>2. WatchersLive'
      BY <3>1 DEF WatchersLive, TypeOK
    <3>3. DestinationsLive'
      <4> SUFFICES ASSUME NEW x \in Executions, NEW d \in collection'[x].destination
                   PROVE  life'[d] = "active"
        BY DEF DestinationsLive
      <4>1. d \in collection[x].destination /\ d # r
        BY <3>1, DeletedIsNoDestination
      <4>2. d \in Regions /\ life[d] = "active"
        BY <4>1 DEF DestinationsLive, TypeOK
      <4> QED
        BY <3>1, <4>1, <4>2 DEF TypeOK
    <3>4. collection' \in Models
      BY <3>1, DeleteTyped
    <3>5. \A x \in Executions : collection'[x].destination \subseteq Regions
      BY <3>4 DEF Models
    <3>6. ShownIsHeld'
      BY <3>1, <3>4, <3>5, GivenIsHeld
    <3> QED
      BY <3>2, <3>3, <3>6 DEF CollectionInv
  <2>5. ASSUME NEW r \in Regions, NEW e \in Epics, retrieveJiraData(r, e) PROVE CollectionInv'
    <3>1. life[r] = "active" /\ UNCHANGED <<life, collection>>
          /\ watched' = [watched EXCEPT ![r] = @ \cup {JiraTopic}]
          /\ (Rebuilt(r) \/ UNCHANGED <<shown, built>>)
      BY <2>5 DEF retrieveJiraData, Click, subscribeToServer
    <3>2. WatchersLive'
      BY <3>1 DEF WatchersLive, TypeOK
    <3>3. DestinationsLive'
      BY <3>1 DEF DestinationsLive
    <3>4. ShownIsHeld'
      BY <3>1, RebuiltIsHeld DEF ShownIsHeld
    <3> QED
      BY <3>2, <3>3, <3>4 DEF CollectionInv
  <2>6. CASE handleRouterMessage
    <3>1. shown' = Given(collection') /\ UNCHANGED <<life, watched, built>>
      BY <2>6 DEF handleRouterMessage
    <3>2. \A x \in Executions : \/ collection'[x] = collection[x]
                                \/ \A r \in collection'[x].destination : r \in Regions /\ life[r] = "active"
      BY <2>6, RouterGives
    <3>3. DestinationsLive'
      BY <3>1, <3>2 DEF DestinationsLive
    <3>4. collection' \in Models
      <4>1. TypeOK'
        BY TypedNext
      <4> QED
        BY <4>1 DEF TypeOK, Models
    <3>5. ShownIsHeld'
      BY <3>1, <3>4, GivenIsHeld DEF Models
    <3> QED
      BY <3>1, <3>3, <3>5 DEF CollectionInv, WatchersLive
  <2>7. CASE handleJiraMessage
    <3>1. UNCHANGED <<life, watched, collection>>
      BY <2>7 DEF handleJiraMessage
    <3>2. Rebuilt(Answered(Head(incoming).epic)) \/ UNCHANGED <<shown, built>>
      BY <2>7 DEF handleJiraMessage
    <3>3. ShownIsHeld'
      BY <3>1, <3>2, RebuiltIsHeld DEF ShownIsHeld
    <3> QED
      BY <3>1, <3>3 DEF CollectionInv, WatchersLive, DestinationsLive
  <2>8. CASE UNCHANGED <<life, watched, collection, shown, built>>
    BY <2>8 DEF CollectionInv, WatchersLive, DestinationsLive, ShownIsHeld
  <2>9. ASSUME NEW e \in Epics, answer(e) PROVE CollectionInv'
    BY <2>8, <2>9 DEF answer
  <2>10. ASSUME NEW x \in Executions, NEW v \in Results, publish(x, v) PROVE CollectionInv'
    BY <2>8, <2>10 DEF publish
  <2>11. CASE handleRequest \/ masterRestarts \/ reconnect
    BY <2>8, <2>11 DEF handleRequest, masterRestarts, reconnect
  <2>12. CASE UNCHANGED vars
    BY <2>8, <2>12 DEF vars
  <2> QED
    BY <2>1, <2>2, <2>3, <2>4, <2>5, <2>6, <2>7, <2>9, <2>10, <2>11, <2>12 DEF Next
<1>3. CollectionInv => WatchersLive /\ CollectionAgrees
  BY DEF CollectionInv, CollectionAgrees
<1> QED
  BY <1>1, <1>2, <1>3, TypeCorrect, PTL DEF Spec

(* A region that is removed is given no event any more. *)
THEOREM TheRemovedGetNothing == Spec => RemovedGetsNothing
<1> DEFINE Silent == \A r \in Regions, x \in Executions :
             life[r] = "gone" => shown'[r][x] \in {shown[r][x], "none"}
<1>1. TypeOK /\ WatchersLive /\ CollectionAgrees /\ [Next]_vars => [Silent]_vars
  <2> SUFFICES ASSUME TypeOK, WatchersLive, DestinationsLive, [Next]_vars,
                      NEW r \in Regions, NEW x \in Executions, life[r] = "gone"
               PROVE  shown'[r][x] \in {shown[r][x], "none"}
    BY DEF CollectionAgrees
  <2> USE DEF page, server, counters
  <2>1. ASSUME NEW q \in Regions, removeRegion(q) PROVE shown'[r][x] = shown[r][x]
    <3>1. collection' = deleteByDestination(q) /\ shown' = Given(collection')
      BY <2>1 DEF removeRegion
    <3>2. r \notin collection'[x].destination
      BY <3>1, DeletedIsNoDestination DEF DestinationsLive
    <3> QED
      BY <3>1, <3>2 DEF Given
  <2>2. CASE handleRouterMessage
    <3>1. shown' = Given(collection')
      BY <2>2 DEF handleRouterMessage
    <3>2. collection'[x] = collection[x] \/ r \notin collection'[x].destination
      BY <2>2, RouterGives
    <3> QED
      BY <3>1, <3>2 DEF Given
  <2>3. ASSUME NEW q, Rebuilt(q) PROVE shown'[r][x] \in {shown[r][x], "none"}
    BY <2>3 DEF Rebuilt, TypeOK
  <2>4. ASSUME NEW q \in Regions, NEW e \in Epics, retrieveJiraData(q, e)
        PROVE  Rebuilt(q) \/ UNCHANGED shown
    BY <2>4 DEF retrieveJiraData
  <2>5. CASE handleJiraMessage
    <3>1. Rebuilt(Answered(Head(incoming).epic)) \/ UNCHANGED shown
      BY <2>5 DEF handleJiraMessage
    <3> QED
      BY <2>3, <3>1
  <2>6. ASSUME NEW q \in Regions, NEW t \in Topics,
               createRegion(q) \/ addSubscription(q, t) \/ removeSubscription(q, t)
        PROVE  UNCHANGED shown
    BY <2>6 DEF createRegion, addSubscription, removeSubscription
  <2>7. ASSUME NEW q \in Regions, createRegion(q) PROVE UNCHANGED shown
    BY <2>7 DEF createRegion
  <2>8. ASSUME NEW e \in Epics, answer(e) PROVE UNCHANGED shown
    BY <2>8 DEF answer
  <2>9. ASSUME NEW y \in Executions, NEW v \in Results, publish(y, v) PROVE UNCHANGED shown
    BY <2>9 DEF publish
  <2>10. handleRequest \/ masterRestarts \/ reconnect \/ UNCHANGED vars => UNCHANGED shown
    BY DEF handleRequest, masterRestarts, reconnect, vars
  <2> QED
    BY <2>1, <2>2, <2>3, <2>4, <2>5, <2>6, <2>7, <2>8, <2>9, <2>10 DEF Next
<1> QED
  BY <1>1, TypeCorrect, TheCollectionAgrees, PTL DEF Spec, RemovedGetsNothing
-----------------------------------------------------------------------------
(* Whoever asks for an epic is answered, unless the answer is lost. *)

InRequests(e) == \E i \in DOMAIN requests : requests[i].kind = "jiraEpic" /\ requests[i].of = e
InIncoming(e) == \E i \in DOMAIN incoming : incoming[i].sender = "jira" /\ incoming[i].epic = e

LEMMA WhatIsUnderWay ==
  ASSUME NEW e
  PROVE  UnderWay(e) <=> InRequests(e) \/ looked[e] > 0 \/ InIncoming(e)
BY DEF UnderWay, InRequests, InIncoming

(* While somebody waits for an epic, a question for it or an answer is     *)
(* under way, unless one has been lost.                                    *)
AnswerIsDue == \A e \in Epics : jiraRequests[e] # <<>> /\ e \notin lost => UnderWay(e)

(* The first one that waits for an epic stays the first until an answer    *)
(* for the epic comes: the structure, which builds it, or an error, which  *)
(* is shown.                                                               *)
FirstStaysFirst ==
  [][\A e \in Epics : jiraRequests[e] # <<>> =>
       \/ jiraRequests'[e] # <<>> /\ Head(jiraRequests'[e]) = Head(jiraRequests[e])
       \/ LET m == Head(incoming) IN
          /\ incoming # <<>> /\ m.sender = "jira" /\ m.epic = e
          /\ IF m.error THEN e \in errors' ELSE Head(jiraRequests[e]) \in built']_vars

LEMMA SequencesAssociate ==
  ASSUME NEW A, NEW a \in Seq(A), NEW b \in Seq(A), NEW c \in Seq(A)
  PROVE  a \o b \o c = a \o (b \o c)
OBVIOUS

(* Requests that come after others take none of them away.                 *)
LEMMA StillAsked ==
  ASSUME TypeOK, NEW e, InRequests(e), NEW q \in Seq(Requests), requests' = requests \o q
  PROVE  InRequests(e)'
<1>1. PICK i \in DOMAIN requests : requests[i].kind = "jiraEpic" /\ requests[i].of = e
  BY DEF InRequests
<1>2. i \in DOMAIN requests' /\ requests'[i] = requests[i]
  BY <1>1 DEF TypeOK
<1> QED
  BY <1>1, <1>2 DEF InRequests

(* Nobody waits for an epic in vain: nobody has lost the answer.           *)
LEMMA StillDue ==
  ASSUME TypeOK, AnswerIsDue, UNCHANGED <<jiraRequests, looked, incoming, lost>>,
         \A e \in Epics : InRequests(e) => InRequests(e)'
  PROVE  AnswerIsDue'
BY DEF AnswerIsDue, UnderWay, InRequests

LEMMA DueNext == TypeOK /\ AnswerIsDue /\ [Next]_vars => AnswerIsDue'
<1> SUFFICES ASSUME TypeOK, AnswerIsDue, [Next]_vars PROVE AnswerIsDue'
  OBVIOUS
<1> USE DEF page, server, counters
<1>1. /\ requests \in Seq(Requests) /\ incoming \in Seq(Messages) /\ looked \in [Epics -> Nat]
      /\ jiraRequests \in [Epics -> Seq(TreeMaps)]
  BY DEF TypeOK
<1>2. ASSUME NEW q \in Seq(Requests), requests' = requests \o q,
             UNCHANGED <<jiraRequests, looked, incoming, lost>>
      PROVE  AnswerIsDue'
  BY <1>2, StillAsked, StillDue
<1>3. ASSUME NEW r \in Regions, NEW gone \in SUBSET Topics, unsubscribeToServer(r, gone),
             UNCHANGED <<jiraRequests, looked, incoming, lost>>
      PROVE  AnswerIsDue'
  <2>1. PICK s \in Orders({t \in gone : ~isWatched(watched', t)}) :
          requests' = requests \o [i \in DOMAIN s |-> Request("unsubscribe", s[i])]
    BY <1>3 DEF unsubscribeToServer
  <2>2. [i \in DOMAIN s |-> Request("unsubscribe", s[i])] \in Seq(Requests)
    BY <2>1, Unsubscriptions
  <2> QED
    BY <1>2, <1>3, <2>1, <2>2
<1>4. ASSUME NEW r \in Regions, NEW t \in Topics, addSubscription(r, t) PROVE AnswerIsDue'
  <2>1. <<>> \in Seq(Requests) /\ news(t) \in Seq(Requests)
    BY NewsAreRequests
  <2>2. requests' = requests \o <<>> \o news(t)
    BY <1>4 DEF addSubscription, subscribeToServer
  <2>3. requests' = requests \o news(t)
    BY <1>1, <2>1, <2>2
  <2> QED
    BY <1>2, <1>4, <2>1, <2>3 DEF addSubscription
<1>5. ASSUME NEW r \in Regions, NEW t \in Topics, removeSubscription(r, t) PROVE AnswerIsDue'
  BY <1>3, <1>5 DEF removeSubscription
<1>6. ASSUME NEW r \in Regions, removeRegion(r) PROVE AnswerIsDue'
  BY <1>3, <1>6 DEF removeRegion, TypeOK
<1>7. ASSUME NEW r \in Regions, NEW e \in Epics, retrieveJiraData(r, e) PROVE AnswerIsDue'
  <2>1. JiraTopic \in Topics /\ UNCHANGED <<looked, incoming, lost>>
    BY <1>7, PageAssumption DEF PageAssumption, retrieveJiraData
  <2> DEFINE n == news(JiraTopic)
             b == <<Request("jiraEpic", e)>>
  <2>2. n \in Seq(Requests) /\ b \in Seq(Requests) /\ <<>> \in Seq(Requests)
    <3>1. b \in Seq(Requests) /\ <<>> \in Seq(Requests)
      BY DEF Requests, Request
    <3> HIDE DEF b
    <3> QED
      BY <2>1, <3>1, NewsAreRequests
  <2>3. b \o n \in Seq(Requests) /\ 1 \in DOMAIN (b \o n) /\ (b \o n)[1] = Request("jiraEpic", e)
    BY <2>2
  <2> HIDE DEF n, b
  <2>4. CASE e \in jiraCollection
    <3>1. requests' = requests \o <<>> \o n /\ UNCHANGED jiraRequests
      BY <1>7, <2>4 DEF retrieveJiraData, subscribeToServer, n
    <3>2. requests' = requests \o n
      BY <1>1, <2>2, <3>1
    <3> QED
      BY <1>2, <2>1, <2>2, <3>1, <3>2
  <2>5. CASE e \notin jiraCollection
    <3>1. requests' = requests \o b \o n /\ jiraRequests' = [jiraRequests EXCEPT ![e] = Append(@, r)]
      BY <1>7, <2>5 DEF retrieveJiraData, subscribeToServer, n, b
    <3>2. requests' = requests \o (b \o n)
      <4>1. b \in Seq(Requests) /\ n \in Seq(Requests) /\ requests \in Seq(Requests)
        BY <1>1, <2>2
      <4>2. requests \o b \o n = requests \o (b \o n)
        BY <4>1, SequencesAssociate
      <4> QED
        BY <3>1, <4>2
    <3>3. InRequests(e)'
      <4> DEFINE k == Len(requests) + 1
      <4>1. k \in DOMAIN (requests \o (b \o n)) /\ (requests \o (b \o n))[k] = (b \o n)[1]
        BY <1>1, <2>3
      <4>2. \E i \in DOMAIN requests' : requests'[i] = Request("jiraEpic", e)
        BY <2>3, <3>2, <4>1
      <4> QED
        BY <4>2 DEF InRequests, Request
    <3>4. \A f \in Epics : f # e => jiraRequests'[f] = jiraRequests[f]
      BY <1>1, <3>1
    <3>5. \A f \in Epics : InRequests(f) => InRequests(f)'
      BY <2>3, <3>2, StillAsked
    <3> QED
      BY <2>1, <3>3, <3>4, <3>5 DEF AnswerIsDue, UnderWay, InRequests, InIncoming
  <2> QED
    BY <2>4, <2>5
<1>8. CASE handleRequest
  <2>1. requests # <<>> /\ requests' = Tail(requests) /\ UNCHANGED <<jiraRequests, incoming, lost>>
    BY <1>8 DEF handleRequest
  <2>2. ASSUME NEW e \in Epics PROVE looked'[e] >= looked[e] /\ looked'[e] \in Nat
    <3>1. UNCHANGED looked \/ \E f \in Epics : looked' = [looked EXCEPT ![f] = @ + 1]
      <4>1. Head(requests) \in Requests
        BY <1>1, <2>1
      <4>2. Head(requests).kind = "jiraEpic" => Head(requests).of \in Epics
        BY <4>1 DEF Requests
      <4> QED
        BY <1>8, <4>2 DEF handleRequest
    <3>2. ASSUME NEW f \in Epics, looked' = [looked EXCEPT ![f] = @ + 1]
          PROVE  looked'[e] = looked[e] \/ looked'[e] = looked[e] + 1
      BY <1>1, <3>2
    <3>3. looked'[e] = looked[e] \/ looked'[e] = looked[e] + 1
      BY <3>1, <3>2
    <3>4. looked[e] \in Nat
      BY <1>1
    <3> QED
      BY <3>3, <3>4
  <2>3. ASSUME NEW e \in Epics, InRequests(e) PROVE InRequests(e)' \/ looked'[e] > 0
    <3>1. PICK i \in DOMAIN requests : requests[i].kind = "jiraEpic" /\ requests[i].of = e
      BY <2>3 DEF InRequests
    <3>2. CASE i = 1
      <4>1. Head(requests).kind = "jiraEpic" /\ Head(requests).of = e
        BY <1>1, <3>1, <3>2
      <4>2. looked' = [looked EXCEPT ![e] = @ + 1]
        BY <1>8, <4>1 DEF handleRequest
      <4> QED
        BY <1>1, <4>2
    <3>3. CASE i # 1
      <4>1. i - 1 \in DOMAIN requests' /\ requests'[i - 1] = requests[i]
        BY <1>1, <2>1, <3>1, <3>3
      <4> QED
        BY <3>1, <4>1 DEF InRequests
    <3> QED
      BY <3>2, <3>3
  <2>4. \A e \in Epics : looked[e] \in Nat
    BY <1>1
  <2> QED
    BY <2>1, <2>2, <2>3, <2>4 DEF AnswerIsDue, UnderWay, InRequests, InIncoming
<1>9. ASSUME NEW e \in Epics, answer(e) PROVE AnswerIsDue'
  <2>1. looked' = [looked EXCEPT ![e] = @ - 1] /\ UNCHANGED <<jiraRequests, requests>>
    BY <1>9 DEF answer
  <2>2. \A f \in Epics : f # e => looked'[f] = looked[f]
    BY <1>1, <2>1
  <2>3. ASSUME NEW x, x.sender = "jira", x.epic = e, incoming' = Append(incoming, x), UNCHANGED lost
        PROVE  AnswerIsDue'
    <3>1. Len(incoming) + 1 \in DOMAIN incoming' /\ incoming'[Len(incoming) + 1] = x
      BY <1>1, <2>3
    <3>2. \A i \in DOMAIN incoming : i \in DOMAIN incoming' /\ incoming'[i] = incoming[i]
      BY <1>1, <2>3
    <3>3. InIncoming(e)'
      BY <2>3, <3>1 DEF InIncoming
    <3>4. \A f \in Epics : InIncoming(f) => InIncoming(f)'
      BY <3>2 DEF InIncoming
    <3> QED
      BY <2>1, <2>2, <2>3, <3>3, <3>4 DEF AnswerIsDue, UnderWay, InIncoming
  <2>4. CASE lost' = lost \cup {e} /\ UNCHANGED incoming
    BY <2>1, <2>2, <2>4 DEF AnswerIsDue, UnderWay
  <2>5. CASE \E error \in BOOLEAN :
               /\ incoming' = Append(incoming, [sender |-> "jira", epic |-> e, error |-> error])
               /\ UNCHANGED lost
    BY <2>3, <2>5
  <2> QED
    BY <1>9, <2>4, <2>5 DEF answer
<1>10. ASSUME incoming # <<>>, incoming' = Tail(incoming), NEW e \in Epics, InIncoming(e),
              Head(incoming).sender = "jira" => Head(incoming).epic # e
       PROVE  InIncoming(e)'
  <2>1. PICK i \in DOMAIN incoming : incoming[i].sender = "jira" /\ incoming[i].epic = e
    BY <1>10 DEF InIncoming
  <2>2. i # 1
    BY <1>1, <1>10, <2>1
  <2>3. i - 1 \in DOMAIN incoming' /\ incoming'[i - 1] = incoming[i]
    BY <1>1, <1>10, <2>1, <2>2
  <2> QED
    BY <2>1, <2>3 DEF InIncoming
<1>11. CASE handleRouterMessage
  <2>1. /\ incoming # <<>> /\ incoming' = Tail(incoming) /\ Head(incoming).sender = "router"
        /\ UNCHANGED <<jiraRequests, requests, looked, lost>>
    BY <1>11 DEF handleRouterMessage, Receive
  <2>2. \A e \in Epics : InIncoming(e) => InIncoming(e)'
    BY <1>10, <2>1
  <2> QED
    BY <2>1, <2>2 DEF AnswerIsDue, UnderWay, InIncoming
<1>12. CASE handleJiraMessage
  <2>1. /\ incoming # <<>> /\ incoming' = Tail(incoming)
        /\ jiraRequests' = [jiraRequests EXCEPT ![Head(incoming).epic] = <<>>]
        /\ UNCHANGED <<requests, looked, lost>>
    BY <1>12 DEF handleJiraMessage, Receive
  <2>2. \A e \in Epics : /\ e = Head(incoming).epic => jiraRequests'[e] = <<>>
                         /\ e # Head(incoming).epic => jiraRequests'[e] = jiraRequests[e]
    BY <1>1, <2>1
  <2>3. \A e \in Epics : e # Head(incoming).epic => (InIncoming(e) => InIncoming(e)')
    BY <1>10, <2>1
  <2> QED
    BY <2>1, <2>2, <2>3 DEF AnswerIsDue, UnderWay, InIncoming
<1>13. ASSUME NEW x \in Executions, NEW v \in Results, publish(x, v) PROVE AnswerIsDue'
  <2>1. (\E m : incoming' = Append(incoming, m)) /\ UNCHANGED <<jiraRequests, requests, looked, lost>>
    BY <1>13 DEF publish
  <2>2. \A i \in DOMAIN incoming : i \in DOMAIN incoming' /\ incoming'[i] = incoming[i]
    BY <1>1, <2>1
  <2>3. \A e \in Epics : InIncoming(e) => InIncoming(e)'
    BY <2>2 DEF InIncoming
  <2> QED
    BY <2>1, <2>3 DEF AnswerIsDue, UnderWay, InIncoming
<1>14. CASE reconnect
  <2>1. lost' = lost \cup {e \in Epics : UnderWay(e)} /\ UNCHANGED jiraRequests
    BY <1>14 DEF reconnect
  <2> QED
    BY <2>1 DEF AnswerIsDue
<1>15. ASSUME (\E r \in Regions : createRegion(r)) \/ masterRestarts \/ UNCHANGED vars
       PROVE  AnswerIsDue'
  <2>1. UNCHANGED <<jiraRequests, looked, incoming, requests, lost>>
    BY <1>15 DEF createRegion, masterRestarts, vars
  <2> QED
    BY <2>1 DEF AnswerIsDue, UnderWay
<1> QED
  BY <1>4, <1>5, <1>6, <1>7, <1>8, <1>9, <1>11, <1>12, <1>13, <1>14, <1>15 DEF Next

(* Whoever waits for an epic has the question, Jira or the answer still    *)
(* before him, for any number of regions and epics, unless one has been    *)
(* lost: with the connection, in JiraEpicActor, or on the way to a         *)
(* dashboard that is stopped.                                              *)
THEOREM NobodyWaitsInVain == Spec => []AnswerIsDue
<1>1. Init => AnswerIsDue
  BY DEF Init, AnswerIsDue
<1> QED
  BY <1>1, DueNext, TypeCorrect, PTL DEF Spec

(* Others that ask for the same epic do not take the place of the region   *)
(* that asked first: it stays first until an answer for the epic comes,    *)
(* which builds it or shows the error.  Nothing else ends its waiting.     *)
THEOREM TheFirstIsServed == Spec => FirstStaysFirst
<1> DEFINE Stays == \A e \in Epics : jiraRequests[e] # <<>> =>
             \/ jiraRequests'[e] # <<>> /\ Head(jiraRequests'[e]) = Head(jiraRequests[e])
             \/ LET m == Head(incoming) IN
                /\ incoming # <<>> /\ m.sender = "jira" /\ m.epic = e
                /\ IF m.error THEN e \in errors' ELSE Head(jiraRequests[e]) \in built'
<1>1. TypeOK /\ [Next]_vars => [Stays]_vars
  <2> SUFFICES ASSUME TypeOK, [Next]_vars, NEW e \in Epics, jiraRequests[e] # <<>>
               PROVE  \/ jiraRequests'[e] # <<>> /\ Head(jiraRequests'[e]) = Head(jiraRequests[e])
                      \/ LET m == Head(incoming) IN
                         /\ incoming # <<>> /\ m.sender = "jira" /\ m.epic = e
                         /\ IF m.error THEN e \in errors' ELSE Head(jiraRequests[e]) \in built'
    OBVIOUS
  <2> USE DEF page, server, counters
  <2>1. jiraRequests \in [Epics -> Seq(TreeMaps)]
    BY DEF TypeOK
  <2>2. ASSUME NEW r \in Regions, NEW f \in Epics, retrieveJiraData(r, f)
        PROVE  jiraRequests'[e] # <<>> /\ Head(jiraRequests'[e]) = Head(jiraRequests[e])
    <3>1. UNCHANGED jiraRequests \/ jiraRequests' = [jiraRequests EXCEPT ![f] = Append(@, r)]
      BY <2>2 DEF retrieveJiraData
    <3>2. jiraRequests'[e] = jiraRequests[e] \/ jiraRequests'[e] = Append(jiraRequests[e], r)
      BY <2>1, <3>1
    <3>3. jiraRequests[e] \in Seq(TreeMaps)
      BY <2>1
    <3> QED
      BY <3>2, <3>3
  <2>3. CASE handleJiraMessage
    <3> DEFINE m == Head(incoming)
    <3>1. incoming # <<>> /\ m.sender = "jira"
      BY <2>3 DEF handleJiraMessage
    <3>2. CASE m.epic = e
      <4>1. \/ m.error /\ errors' = errors \cup {e}
            \/ ~m.error /\ Rebuilt(Answered(e))
        BY <2>3, <3>2 DEF handleJiraMessage
      <4>2. Rebuilt(Answered(e)) => Head(jiraRequests[e]) \in built'
        BY DEF Rebuilt, Answered
      <4> QED
        BY <3>1, <3>2, <4>1, <4>2
    <3>3. CASE m.epic # e
      <4>1. jiraRequests'[e] = jiraRequests[e]
        BY <2>1, <2>3, <3>3 DEF handleJiraMessage
      <4> QED
        BY <4>1
    <3> QED
      BY <3>2, <3>3
  <2>4. ASSUME \/ \E r \in Regions : \/ createRegion(r) \/ removeRegion(r)
                                     \/ \E t \in Topics : addSubscription(r, t) \/ removeSubscription(r, t)
               \/ handleRouterMessage \/ handleRequest \/ masterRestarts \/ reconnect
               \/ UNCHANGED vars
               \/ \E f \in Epics : answer(f)
               \/ \E x \in Executions, v \in Results : publish(x, v)
        PROVE  UNCHANGED jiraRequests
    BY <2>4 DEF createRegion, removeRegion, addSubscription, removeSubscription, handleRouterMessage,
                handleRequest, masterRestarts, reconnect, vars, answer, publish
  <2> QED
    BY <2>2, <2>3, <2>4 DEF Next
<1> QED
  BY <1>1, TypeCorrect, PTL DEF Spec, FirstStaysFirst
=============================================================================
