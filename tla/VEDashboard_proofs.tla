------------------------- MODULE VEDashboard_proofs --------------------------
(***************************************************************************)
(* Proofs about VEDashboard, for any number of sessions, topics, messages, *)
(* requests and restarts: its types, that the two tables of the router     *)
(* agree and forget a session that has disconnected, that events are       *)
(* delivered in order, once, and along the hierarchy, that no subscriber   *)
(* is skipped while the tables stay as they are, and that no request of a  *)
(* session is lost.                                                        *)
(***************************************************************************)
EXTENDS VEDashboard, TLAPS
-----------------------------------------------------------------------------
(* Types. *)

LEMMA HeadMail ==
  ASSUME TypeOK, mailbox # <<>>
  PROVE  /\ Head(mailbox) \in Mails /\ Tail(mailbox) \in Seq(Mails)
         /\ Len(Tail(mailbox)) <= MaxMail
         /\ Head(mailbox).kind \in {"connect", "disconnect", "answer"}
              => Head(mailbox).of \in Sessions
         /\ Head(mailbox).kind \in {"subscribe", "unsubscribe"}
              => Head(mailbox).of[1] \in Sessions /\ Head(mailbox).of[2] \in Topics
         /\ Head(mailbox).kind = "publish" => Head(mailbox).of \in Messages
<1>1. /\ mailbox \in Seq(Mails) /\ Len(mailbox) <= MaxMail
  BY DEF TypeOK
<1>2. Head(mailbox) \in Mails /\ Tail(mailbox) \in Seq(Mails)
      /\ Len(Tail(mailbox)) <= MaxMail
  BY <1>1, DashboardAssumption DEF DashboardAssumption
<1>3. ASSUME NEW x \in Mails
      PROVE  /\ x.kind \in {"connect", "disconnect", "answer"} => x.of \in Sessions
             /\ x.kind \in {"subscribe", "unsubscribe"} => x.of[1] \in Sessions /\ x.of[2] \in Topics
             /\ x.kind = "publish" => x.of \in Messages
  BY DEF Mails
<1> QED
  BY <1>2, <1>3

LEMMA HeadLetter ==
  ASSUME TypeOK, NEW s \in Sessions, inbox[s] # <<>>
  PROVE  /\ Head(inbox[s]) \in Letters /\ Tail(inbox[s]) \in Seq(Letters)
         /\ Head(inbox[s]).kind \in {"subscribe", "unsubscribe"}
              => Head(inbox[s]).topic \in Topics
<1>1. inbox[s] \in Seq(Letters)
  BY DEF TypeOK
<1>2. \A x \in Letters : x.kind \in {"subscribe", "unsubscribe"} => x.topic \in Topics
  BY DEF Letters
<1> QED
  BY <1>1, <1>2

(* A mailbox that something is told to. *)
LEMMA Told ==
  ASSUME TypeOK, NEW kind, NEW of, [kind |-> kind, of |-> of] \in Mails, Tell(kind, of)
  PROVE  /\ mailbox' \in Seq(Mails) /\ Len(mailbox') <= MaxMail
         /\ mailbox' # <<>> /\ (mailbox # <<>> => Head(mailbox') = Head(mailbox))
<1>1. mailbox \in Seq(Mails) /\ MaxMail \in Nat
  BY DashboardAssumption DEF TypeOK, DashboardAssumption
<1> DEFINE x == [kind |-> kind, of |-> of]
<1>2. x \in Mails /\ mailbox' = Append(mailbox, x) /\ Len(mailbox) < MaxMail
  BY DEF Tell
<1> HIDE DEF x
<1> QED
  BY <1>1, <1>2

(* The message of a handler stays at the head of its mailbox.              *)
Heads ==
  \A s \in Sessions :
    /\ MidHandler(s) => inbox[s] # <<>>
    /\ step[s] = "second" => Head(inbox[s]).kind \in {"subscribe", "unsubscribe"}
    /\ step[s] = "remove" => Head(inbox[s]).kind = "disconnect"

LEMMA Appended ==
  ASSUME NEW A, NEW q \in Seq(A), NEW x \in A
  PROVE  /\ Append(q, x) \in Seq(A) /\ Append(q, x) # <<>>
         /\ q # <<>> => Head(Append(q, x)) = Head(q)
         /\ DOMAIN Append(q, x) = DOMAIN q \cup {Len(q) + 1} /\ Len(q) + 1 \notin DOMAIN q
         /\ \A i \in DOMAIN q : Append(q, x)[i] = q[i]
         /\ Append(q, x)[Len(q) + 1] = x
         /\ Len(Append(q, x)) = Len(q) + 1
<1> DEFINE r == Append(q, x)
<1>1. /\ r \in Seq(A) /\ Len(r) = Len(q) + 1 /\ DOMAIN q = 1..Len(q) /\ Len(q) \in Nat
      /\ DOMAIN r = 1..Len(r) /\ \A i \in 1..Len(q) : r[i] = q[i]
      /\ r[Len(q) + 1] = x
  OBVIOUS
<1> HIDE DEF r
<1>2. r # <<>> /\ (q # <<>> => Head(r) = Head(q))
  <2>1. Len(r) # 0 /\ (q # <<>> => Len(q) # 0)
    BY <1>1
  <2>2. q # <<>> => 1 \in 1..Len(q)
    BY <1>1, <2>1
  <2> QED
    BY <1>1, <2>1, <2>2
<1>3. DOMAIN r = DOMAIN q \cup {Len(q) + 1} /\ Len(q) + 1 \notin DOMAIN q
  BY <1>1
<1> QED
  BY <1>1, <1>2, <1>3 DEF r

(* What is forwarded to a dashboard comes behind its other mail.           *)
LEMMA Forwarded ==
  ASSUME TypeOK, NEW s \in Sessions, NEW kind, NEW t,
         [kind |-> kind, topic |-> t] \in Letters, Forward(s, kind, t)
  PROVE  /\ inbox' \in [Sessions -> Seq(Letters)]
         /\ \A q \in Sessions :
              \/ inbox'[q] = inbox[q]
              \/ /\ q = s /\ actor[s] \in {"alive", "failed"}
                 /\ inbox'[q] = Append(inbox[q], [kind |-> kind, topic |-> t])
         /\ UNCHANGED step => Heads'
<1> DEFINE x == [kind |-> kind, topic |-> t]
<1>1. inbox \in [Sessions -> Seq(Letters)] /\ x \in Letters
  BY DEF TypeOK
<1>2. inbox' = [inbox EXCEPT ![s] = IF actor[s] \in {"alive", "failed"}
                                    THEN Append(@, x) ELSE @]
  BY DEF Forward
<1> HIDE DEF x
<1>3. inbox[s] \in Seq(Letters) /\ Append(inbox[s], x) \in Seq(Letters)
  BY <1>1
<1>4. inbox' \in [Sessions -> Seq(Letters)]
  BY <1>1, <1>2, <1>3
<1>5. \A q \in Sessions :
        \/ inbox'[q] = inbox[q]
        \/ q = s /\ actor[s] \in {"alive", "failed"} /\ inbox'[q] = Append(inbox[q], x)
  BY <1>1, <1>2
<1>6. ASSUME UNCHANGED step PROVE Heads'
  <2>1. ASSUME NEW q \in Sessions, inbox[q] # <<>>
        PROVE  inbox'[q] # <<>> /\ Head(inbox'[q]) = Head(inbox[q])
    <3>1. inbox[q] \in Seq(Letters)
      BY <1>1
    <3> QED
      BY <1>1, <1>5, <2>1, <3>1, Appended
  <2>2. \A q \in Sessions : MidHandler(q)' = MidHandler(q)
    BY <1>6 DEF MidHandler
  <2>3. \A q \in Sessions : MidHandler(q) => inbox[q] # <<>>
    BY DEF TypeOK
  <2>4. \A q \in Sessions : step[q] \in {"second", "remove"} => MidHandler(q)
    BY DEF MidHandler
  <2> QED
    BY <1>6, <2>1, <2>2, <2>3, <2>4 DEF Heads, TypeOK
<1> QED
  BY <1>4, <1>5, <1>6 DEF x

(* What all steps of the callbacks, of the master and of a dashboard keep. *)
LEMMA CallbackTyped ==
  ASSUME TypeOK, UNCHANGED <<routing, children, tables, output>>,
         link' \in [Sessions -> {"new", "open", "closed", "gone"}],
         asked' \in [Sessions -> 0..MaxRequests], answered' \subseteq Sessions,
         bus' \in Seq(Messages),
         \/ UNCHANGED mailbox
         \/ \E kind, of : [kind |-> kind, of |-> of] \in Mails /\ Tell(kind, of)
  PROVE  TypeOK'
<1>1. /\ mailbox' \in Seq(Mails) /\ Len(mailbox') <= MaxMail
      /\ mailbox # <<>> => mailbox' # <<>> /\ Head(mailbox') = Head(mailbox)
  <2>1. CASE UNCHANGED mailbox
    BY <2>1 DEF TypeOK
  <2>2. ASSUME NEW kind, NEW of, [kind |-> kind, of |-> of] \in Mails, Tell(kind, of)
        PROVE  /\ mailbox' \in Seq(Mails) /\ Len(mailbox') <= MaxMail
               /\ mailbox # <<>> => mailbox' # <<>> /\ Head(mailbox') = Head(mailbox)
    BY <2>2, Told
  <2> QED
    BY <2>1, <2>2
<1> QED
  BY <1>1 DEF TypeOK, routing, children, tables, output, MidHandler

LEMMA CallbacksTyped ==
  ASSUME TypeOK
  PROVE  /\ \A s \in Sessions : onConnect(s) => TypeOK'
         /\ \A s \in Sessions, t \in Topics, kind \in {"subscribe", "unsubscribe"} :
              onMessage(s, kind, t) => TypeOK'
         /\ \A s \in Sessions : Close(s) => TypeOK'
         /\ \A s \in Sessions : onDisconnect(s) => TypeOK'
         /\ \A s \in Sessions : directPublish(s) => TypeOK'
         /\ \A m \in Messages : publish(m) => TypeOK'
<1>1. ASSUME NEW s \in Sessions, onConnect(s) PROVE TypeOK'
  <2>1. [kind |-> "connect", of |-> s] \in Mails
    BY DEF Mails
  <2> QED
    BY <1>1, <2>1, CallbackTyped DEF onConnect, TypeOK
<1>2. ASSUME NEW s \in Sessions, NEW t \in Topics, NEW kind \in {"subscribe", "unsubscribe"},
             onMessage(s, kind, t)
      PROVE  TypeOK'
  <2>1. [kind |-> kind, of |-> <<s, t>>] \in Mails
    BY DEF Mails
  <2>2. asked' \in [Sessions -> 0..MaxRequests]
    BY <1>2, DashboardAssumption DEF onMessage, TypeOK, DashboardAssumption
  <2> QED
    BY <1>2, <2>1, <2>2, CallbackTyped DEF onMessage, TypeOK
<1>3. ASSUME NEW s \in Sessions, Close(s) PROVE TypeOK'
  BY <1>3, CallbackTyped DEF Close, TypeOK
<1>4. ASSUME NEW s \in Sessions, onDisconnect(s) PROVE TypeOK'
  <2>1. [kind |-> "disconnect", of |-> s] \in Mails
    BY DEF Mails
  <2> QED
    BY <1>4, <2>1, CallbackTyped DEF onDisconnect, TypeOK
<1>5. ASSUME NEW s \in Sessions, directPublish(s) PROVE TypeOK'
  <2>1. [kind |-> "answer", of |-> s] \in Mails
    BY DEF Mails
  <2> QED
    BY <1>5, <2>1, CallbackTyped DEF directPublish, TypeOK
<1>6. ASSUME NEW m \in Messages, publish(m) PROVE TypeOK'
  <2>1. [kind |-> "publish", of |-> m] \in Mails
    BY DEF Mails
  <2>2. bus' \in Seq(Messages)
    BY <1>6 DEF publish, TypeOK
  <2> QED
    BY <1>6, <2>1, <2>2, CallbackTyped DEF publish, TypeOK
<1> QED
  BY <1>1, <1>2, <1>3, <1>4, <1>5, <1>6

(* The master takes the head of its mailbox, or a publish begins.          *)
LEMMA MasterTyped ==
  ASSUME TypeOK, UNCHANGED <<client, incarnation, step, leaving, routeConsumers, consumerRoutes>>,
         \/ mailbox # <<>> /\ mailbox' = Tail(mailbox) /\ master' # "publishing"
         \/ mailbox # <<>> /\ Head(mailbox).kind = "publish" /\ UNCHANGED mailbox
         \/ UNCHANGED mailbox /\ master' # "publishing",
         master' \in {"ready", "publishing", "failed"}, changed' \in BOOLEAN,
         visited' \subseteq Topics \X Consumers, dashboards' \subseteq Sessions,
         actor' \in [Sessions ->
                     {"none", "alive", "failed", "stopping", "stopped", "terminated"}],
         UNCHANGED inbox \/ (inbox' \in [Sessions -> Seq(Letters)] /\ Heads'),
         eventIdCache' \in [Topics -> SUBSET Messages],
         delivered' \in [Sessions -> Seq([event : Messages, sub : Topics \X Consumers])],
         UNCHANGED barebone, incompleteEvents' \subseteq Messages
  PROVE  TypeOK'
<1>1. /\ mailbox' \in Seq(Mails) /\ Len(mailbox') <= MaxMail
      /\ master' = "publishing" => mailbox' # <<>> /\ Head(mailbox').kind = "publish"
  BY HeadMail DEF TypeOK
<1>2. inbox' \in [Sessions -> Seq(Letters)] /\ Heads'
  BY DEF TypeOK, Heads, MidHandler
<1> QED
  BY <1>1, <1>2 DEF TypeOK, client, Heads

LEMMA FailingTyped ==
  ASSUME TypeOK, MasterFails
  PROVE  /\ mailbox' = Tail(mailbox) /\ master' = "failed" /\ visited' = {} /\ changed' = FALSE
         /\ actor' \in [Sessions ->
                        {"none", "alive", "failed", "stopping", "stopped", "terminated"}]
BY DEF MasterFails, TypeOK

LEMMA MasterStepsTyped == ASSUME TypeOK, MasterStep PROVE TypeOK'
<1>1. ASSUME Connect PROVE TypeOK'
  <2>1. Mail("connect") /\ Head(mailbox).of \in Sessions
    BY <1>1, HeadMail DEF Connect, Mail
  <2>2. master' # "publishing"
    BY <1>1, <2>1 DEF Connect, Mail
  <2> QED
    BY <1>1, <2>1, <2>2, MasterTyped DEF Connect, Mail, TypeOK, tables, output
<1>2. ASSUME NEW kind \in {"subscribe", "unsubscribe"}, Propagate(kind) PROVE TypeOK'
  <2> DEFINE s == Head(mailbox).of[1]
             t == Head(mailbox).of[2]
  <2>1. Mail(kind) /\ s \in Sessions /\ t \in Topics
    BY <1>2, HeadMail DEF Propagate, Mail
  <2>2. [kind |-> kind, topic |-> t] \in Letters
    BY <2>1 DEF Letters
  <2>3. UNCHANGED inbox \/ Forward(s, kind, t)
    BY <1>2 DEF Propagate
  <2>4. UNCHANGED step /\ master' # "publishing" /\ mailbox # <<>> /\ mailbox' = Tail(mailbox)
    BY <1>2, <2>1 DEF Propagate, Mail, routing
  <2> HIDE DEF s, t
  <2>5. UNCHANGED inbox \/ (inbox' \in [Sessions -> Seq(Letters)] /\ Heads')
    BY <2>1, <2>2, <2>3, <2>4, Forwarded
  <2> QED
    BY <1>2, <2>4, <2>5, MasterTyped DEF Propagate, routing, tables, output, TypeOK
<1>3. ASSUME Disconnect PROVE TypeOK'
  <2> DEFINE s == Head(mailbox).of
  <2>1. Mail("disconnect") /\ s \in Sessions
    BY <1>3, HeadMail DEF Disconnect, Mail
  <2>2. [kind |-> "disconnect", topic |-> {}] \in Letters
    BY DEF Letters
  <2>3. UNCHANGED inbox \/ Forward(s, "disconnect", {})
    BY <1>3 DEF Disconnect
  <2>4. UNCHANGED step /\ master' # "publishing" /\ mailbox # <<>> /\ mailbox' = Tail(mailbox)
    BY <1>3, <2>1 DEF Disconnect, Mail
  <2> HIDE DEF s
  <2>5. UNCHANGED inbox \/ (inbox' \in [Sessions -> Seq(Letters)] /\ Heads')
    BY <2>1, <2>2, <2>3, <2>4, Forwarded
  <2> QED
    BY <1>3, <2>4, <2>5, MasterTyped DEF Disconnect, tables, output, TypeOK
<1>4. ASSUME DirectPublish PROVE TypeOK'
  <2> DEFINE s == Head(mailbox).of
  <2>1. Mail("answer") /\ s \in Sessions
    BY <1>4, HeadMail DEF DirectPublish, Mail
  <2>2. [kind |-> "answer", topic |-> {}] \in Letters
    BY DEF Letters
  <2>3. \/ Forward(s, "answer", {}) /\ mailbox' = Tail(mailbox)
           /\ UNCHANGED <<master, visited, changed, actor>>
        \/ MasterFails /\ UNCHANGED inbox
    BY <1>4 DEF DirectPublish
  <2>4. UNCHANGED step /\ mailbox # <<>> /\ master # "publishing"
    BY <1>4, <2>1 DEF DirectPublish, Mail
  <2> HIDE DEF s
  <2>5. UNCHANGED inbox \/ (inbox' \in [Sessions -> Seq(Letters)] /\ Heads')
    BY <2>1, <2>2, <2>3, <2>4, Forwarded
  <2>6. /\ mailbox' = Tail(mailbox) /\ master' \in {"ready", "failed"} /\ changed' \in BOOLEAN
        /\ visited' \subseteq Topics \X Consumers
        /\ actor' \in [Sessions ->
                       {"none", "alive", "failed", "stopping", "stopped", "terminated"}]
    BY <2>3, <2>4, FailingTyped DEF TypeOK
  <2> QED
    BY <1>4, <2>4, <2>5, <2>6, MasterTyped DEF DirectPublish, tables, output, TypeOK
<1>5. ASSUME StartPublish PROVE TypeOK'
  <2>1. mailbox # <<>> /\ Head(mailbox).kind = "publish"
    BY <1>5 DEF StartPublish, Mail
  <2>2. /\ (mailbox' = Tail(mailbox) /\ master' # "publishing") \/ UNCHANGED mailbox
        /\ master' \in {"publishing", "failed"} /\ changed' \in BOOLEAN
        /\ visited' \subseteq Topics \X Consumers
        /\ actor' \in [Sessions ->
                       {"none", "alive", "failed", "stopping", "stopped", "terminated"}]
    BY <1>5, FailingTyped DEF StartPublish, TypeOK
  <2> QED
    BY <1>5, <2>1, <2>2, MasterTyped DEF StartPublish, tables, output, TypeOK
<1>6. ASSUME EndPublish PROVE TypeOK'
  <2>1. mailbox # <<>>
    BY <1>6 DEF EndPublish, TypeOK
  <2> QED
    BY <1>6, <2>1, MasterTyped DEF EndPublish, children, tables, output, TypeOK
<1>7. ASSUME ConcurrentModification PROVE TypeOK'
  <2>1. mailbox # <<>>
    BY <1>7 DEF ConcurrentModification, TypeOK
  <2> QED
    BY <1>7, <2>1, FailingTyped, MasterTyped DEF ConcurrentModification, tables, output, TypeOK
<1>8. ASSUME RestartMaster PROVE TypeOK'
  BY <1>8, MasterTyped DEF RestartMaster, children, tables, output, TypeOK
<1>9. ASSUME NEW p \in routeConsumers, Visit(p) PROVE TypeOK'
  <2> DEFINE m == Head(mailbox).of
             s == p[2][1]
             d == [event |-> m, sub |-> p]
  <2>1. mailbox # <<>> /\ Head(mailbox).kind = "publish" /\ m \in Messages
    BY <1>9, HeadMail DEF Visit, TypeOK
  <2>2. p \in Topics \X Consumers /\ p[1] \in Topics /\ s \in Sessions
    BY DEF TypeOK, Consumers
  <2>3. d \in [event : Messages, sub : Topics \X Consumers]
    BY <2>1, <2>2
  <2>4. /\ eventIdCache' = [eventIdCache EXCEPT ![p[1]] = @ \cup {m}]
        /\ incompleteEvents' = Remembered(m)
        /\ \/ /\ delivered' = [delivered EXCEPT ![s] = Append(@, d)]
              /\ visited' = visited \cup {p}
              /\ UNCHANGED <<master, changed, mailbox, actor>>
           \/ /\ visited' = visited \cup {p}
              /\ UNCHANGED <<master, changed, mailbox, actor, delivered>>
           \/ MasterFails /\ UNCHANGED delivered
        /\ UNCHANGED <<client, barebone, dashboards, incarnation, inbox, step, leaving,
                       routeConsumers, consumerRoutes>>
    BY <1>9 DEF Visit
  <2> HIDE DEF m, s, d
  <2>5. eventIdCache' \in [Topics -> SUBSET Messages] /\ incompleteEvents' \subseteq Messages
    BY <2>1, <2>2, <2>4 DEF TypeOK, Remembered
  <2>6. delivered' \in [Sessions -> Seq([event : Messages, sub : Topics \X Consumers])]
    <3> DEFINE D == [event : Messages, sub : Topics \X Consumers]
    <3>1. delivered \in [Sessions -> Seq(D)]
      BY DEF TypeOK
    <3>2. d \in D
      BY <2>3
    <3> HIDE DEF D
    <3>3. Append(delivered[s], d) \in Seq(D)
      BY <2>2, <3>1, <3>2
    <3>4. delivered' \in [Sessions -> Seq(D)]
      BY <2>4, <3>1, <3>3
    <3> QED
      BY <3>4 DEF D
  <2>7. /\ \/ mailbox' = Tail(mailbox) /\ master' # "publishing"
           \/ UNCHANGED mailbox
        /\ master' \in {"ready", "publishing", "failed"} /\ changed' \in BOOLEAN
        /\ visited' \subseteq Topics \X Consumers
        /\ actor' \in [Sessions ->
                       {"none", "alive", "failed", "stopping", "stopped", "terminated"}]
    BY <2>2, <2>4, FailingTyped DEF TypeOK
  <2> QED
    BY <2>1, <2>4, <2>5, <2>6, <2>7, MasterTyped DEF TypeOK
<1> QED
  BY <1>1, <1>2, <1>3, <1>4, <1>5, <1>6, <1>7, <1>8, <1>9 DEF MasterStep

(* A dashboard changes only what is its own, and the tables.               *)
LEMMA DashboardTyped ==
  ASSUME TypeOK, NEW s \in Sessions,
         UNCHANGED <<client, mailbox, master, visited, dashboards, output>>,
         changed' \in BOOLEAN,
         UNCHANGED actor \/ \E a \in {"alive", "failed", "stopped", "terminated"} :
                              actor' = [actor EXCEPT ![s] = a],
         UNCHANGED incarnation \/ incarnation' = [incarnation EXCEPT ![s] = @ + 1],
         leaving' \in [Sessions -> SUBSET Topics],
         UNCHANGED inbox \/ \E q \in Seq(Letters) : inbox' = [inbox EXCEPT ![s] = q],
         UNCHANGED step \/ \E l \in {"idle", "second", "remove"} : Goto(s, l),
         step'[s] # "idle" => inbox'[s] # <<>>,
         step'[s] = "second" => Head(inbox'[s]).kind \in {"subscribe", "unsubscribe"},
         step'[s] = "remove" => Head(inbox'[s]).kind = "disconnect",
         routeConsumers' \subseteq Topics \X Consumers,
         consumerRoutes' \subseteq Consumers \X Topics,
         eventIdCache' \in [Topics -> SUBSET Messages]
  PROVE  TypeOK'
<1>1. actor' \in [Sessions -> {"none", "alive", "failed", "stopping", "stopped", "terminated"}]
  BY DEF TypeOK
<1>2. incarnation' \in [Sessions -> Nat]
  <2>1. incarnation \in [Sessions -> Nat]
    BY DEF TypeOK
  <2> QED
    BY <2>1
<1>3. inbox' \in [Sessions -> Seq(Letters)] /\ \A q \in Sessions \ {s} : inbox'[q] = inbox[q]
  <2>1. inbox \in [Sessions -> Seq(Letters)]
    BY DEF TypeOK
  <2>2. ASSUME NEW q \in Seq(Letters), inbox' = [inbox EXCEPT ![s] = q]
        PROVE  inbox' \in [Sessions -> Seq(Letters)] /\ \A r \in Sessions \ {s} : inbox'[r] = inbox[r]
    BY <2>1, <2>2
  <2>3. CASE UNCHANGED inbox
    BY <2>1, <2>3
  <2> QED
    BY <2>2, <2>3
<1>4. /\ step' \in [Sessions -> {"idle", "second", "remove"}]
      /\ \A q \in Sessions \ {s} : step'[q] = step[q]
  <2>1. step \in [Sessions -> {"idle", "second", "remove"}]
    BY DEF TypeOK
  <2> QED
    BY <2>1 DEF Goto
<1>5. Heads'
  <2> SUFFICES ASSUME NEW q \in Sessions
               PROVE  /\ step'[q] # "idle" => inbox'[q] # <<>>
                      /\ step'[q] = "second" => Head(inbox'[q]).kind \in {"subscribe", "unsubscribe"}
                      /\ step'[q] = "remove" => Head(inbox'[q]).kind = "disconnect"
    BY DEF Heads, MidHandler
  <2>1. CASE q = s
    BY <2>1
  <2>2. CASE q # s
    BY <1>3, <1>4, <2>2 DEF TypeOK, MidHandler
  <2> QED
    BY <2>1, <2>2
<1> QED
  BY <1>1, <1>2, <1>3, <1>4, <1>5 DEF TypeOK, Heads, client, output

(* One of the outcomes of an update of a map; without races, the update.   *)
LEMMA Outcome ==
  ASSUME NEW s, NEW map, NEW old, NEW new, NEW out \in Outcomes(s, map, old, new)
  PROVE  (out = old \/ out = new) /\ (Router # "racy" => out = new)
BY DEF Outcomes

LEMMA RoutesTyped ==
  ASSUME TypeOK, NEW s, NEW new \in SUBSET (Topics \X Consumers), UpdateRoutes(s, new)
  PROVE  /\ routeConsumers' \subseteq Topics \X Consumers /\ changed' \in BOOLEAN
         /\ eventIdCache' \in [Topics -> SUBSET Messages]
         /\ routeConsumers' = routeConsumers \/ routeConsumers' = new
         /\ Router # "racy" => routeConsumers' = new
<1>1. /\ routeConsumers' = routeConsumers \/ routeConsumers' = new
      /\ Router # "racy" => routeConsumers' = new
  BY Outcome DEF UpdateRoutes
<1>2. routeConsumers' \subseteq Topics \X Consumers
  BY <1>1 DEF TypeOK
<1>3. eventIdCache' \in [Topics -> SUBSET Messages]
  BY DEF TypeOK, UpdateRoutes
<1>4. changed' \in BOOLEAN
  <2>1. changed' = (changed \/ (master = "publishing" /\ routeConsumers' # routeConsumers))
    BY DEF UpdateRoutes
  <2>2. changed \in BOOLEAN
    BY DEF TypeOK
  <2> HIDE DEF TypeOK
  <2> QED
    BY <2>1, <2>2, Zenon
<1> QED
  BY <1>1, <1>2, <1>3, <1>4

(* What a handler works on.                                                *)
LEMMA Handling ==
  ASSUME TypeOK, NEW s \in Sessions, inbox[s] # <<>>
  PROVE  /\ Consumer(s) \in Consumers
         /\ Head(inbox[s]).kind \in {"subscribe", "unsubscribe"} =>
              /\ <<Head(inbox[s]).topic, Consumer(s)>> \in Topics \X Consumers
              /\ <<Consumer(s), Head(inbox[s]).topic>> \in Consumers \X Topics
<1>1. Consumer(s) \in Consumers
  BY DEF Consumer, Consumers, TypeOK
<1> QED
  BY <1>1, HeadLetter

LEMMA DashboardStepsTyped ==
  ASSUME TypeOK, NEW s \in Sessions, DashboardStep(s) PROVE TypeOK'
<1> DEFINE topic == Head(inbox[s]).topic
           here == <<topic, Consumer(s)>>
<1>1. ASSUME Subscribe(s) \/ Unsubscribe(s) PROVE TypeOK'
  <2>1. inbox[s] # <<>> /\ Head(inbox[s]).kind \in {"subscribe", "unsubscribe"}
    BY <1>1 DEF Subscribe, Unsubscribe, Handles
  <2>2. /\ UpdateRoutes(s, routeConsumers \cup {here}) \/ UpdateRoutes(s, routeConsumers \ {here})
        /\ Goto(s, "second")
        /\ UNCHANGED <<client, mailbox, master, visited, dashboards, actor, incarnation, inbox,
                       leaving, consumerRoutes, output>>
    BY <1>1 DEF Subscribe, Unsubscribe
  <2>3. /\ routeConsumers \cup {here} \in SUBSET (Topics \X Consumers)
        /\ routeConsumers \ {here} \in SUBSET (Topics \X Consumers)
    BY <2>1, Handling DEF TypeOK
  <2>4. /\ routeConsumers' \subseteq Topics \X Consumers /\ changed' \in BOOLEAN
        /\ eventIdCache' \in [Topics -> SUBSET Messages]
    BY <2>2, <2>3, RoutesTyped
  <2>5. step'[s] = "second" /\ inbox'[s] = inbox[s]
    BY <2>2 DEF Goto, TypeOK
  <2>6. leaving' \in [Sessions -> SUBSET Topics] /\ consumerRoutes' \subseteq Consumers \X Topics
    BY <2>2 DEF TypeOK
  <2> QED
    BY <2>1, <2>2, <2>4, <2>5, <2>6, DashboardTyped
<1>2. ASSUME UpdateSecond(s) PROVE TypeOK'
  <2> DEFINE route == <<Consumer(s), topic>>
  <2>1. inbox[s] # <<>> /\ Head(inbox[s]).kind \in {"subscribe", "unsubscribe"}
    BY <1>2 DEF UpdateSecond, TypeOK, MidHandler
  <2>2. /\ consumerRoutes' \in Outcomes(s, "consumerRoutes", consumerRoutes,
             IF Head(inbox[s]).kind = "subscribe" THEN consumerRoutes \cup {route}
                                                  ELSE consumerRoutes \ {route})
        /\ inbox' = [inbox EXCEPT ![s] = Tail(inbox[s])] /\ Goto(s, "idle")
        /\ UNCHANGED <<client, mailbox, routing, actor, incarnation, leaving, routeConsumers,
                       eventIdCache, output>>
    BY <1>2 DEF UpdateSecond, PopInbox
  <2>3. route \in Consumers \X Topics
    BY <2>1, Handling
  <2> HIDE DEF route
  <2>4. consumerRoutes' \subseteq Consumers \X Topics
    <3>1. \/ consumerRoutes' = consumerRoutes \/ consumerRoutes' = consumerRoutes \cup {route}
          \/ consumerRoutes' = consumerRoutes \ {route}
      BY <2>2, Outcome
    <3> QED
      BY <2>3, <3>1 DEF TypeOK
  <2>5. step'[s] = "idle" /\ Tail(inbox[s]) \in Seq(Letters)
    BY <2>1, <2>2, HeadLetter DEF Goto, TypeOK
  <2>6. /\ leaving' \in [Sessions -> SUBSET Topics] /\ changed' \in BOOLEAN
        /\ routeConsumers' \subseteq Topics \X Consumers
        /\ eventIdCache' \in [Topics -> SUBSET Messages]
        /\ UNCHANGED <<master, visited, dashboards>>
    BY <2>2 DEF TypeOK, routing
  <2> QED
    BY <2>2, <2>4, <2>5, <2>6, DashboardTyped
<1>3. ASSUME RemoveAll(s) PROVE TypeOK'
  <2> DEFINE mine == {p \in consumerRoutes : p[1] = Consumer(s)}
             T == {p[2] : p \in mine}
  <2>1. inbox[s] # <<>> /\ Head(inbox[s]).kind = "disconnect"
    BY <1>3 DEF RemoveAll, Handles
  <2>2. /\ leaving' = [leaving EXCEPT ![s] = T]
        /\ consumerRoutes' \in Outcomes(s, "consumerRoutes", consumerRoutes, consumerRoutes \ mine)
        /\ Goto(s, "remove")
        /\ UNCHANGED <<client, mailbox, routing, actor, incarnation, inbox, routeConsumers,
                       eventIdCache, output>>
    BY <1>3 DEF RemoveAll
  <2>3. T \subseteq Topics
    BY DEF TypeOK
  <2> HIDE DEF T, mine
  <2>4. leaving' \in [Sessions -> SUBSET Topics]
    BY <2>2, <2>3 DEF TypeOK
  <2>5. consumerRoutes' \subseteq Consumers \X Topics
    <3>1. consumerRoutes' = consumerRoutes \/ consumerRoutes' = consumerRoutes \ mine
      BY <2>2, Outcome
    <3> QED
      BY <3>1 DEF TypeOK
  <2>6. step'[s] = "remove" /\ inbox'[s] = inbox[s]
    BY <2>2 DEF Goto, TypeOK
  <2>7. /\ changed' \in BOOLEAN /\ routeConsumers' \subseteq Topics \X Consumers
        /\ eventIdCache' \in [Topics -> SUBSET Messages]
        /\ UNCHANGED <<master, visited, dashboards>>
    BY <2>2 DEF TypeOK, routing
  <2> QED
    BY <2>1, <2>2, <2>4, <2>5, <2>6, <2>7, DashboardTyped
<1>4. ASSUME NEW t \in Topics, RemoveRoute(s, t) PROVE TypeOK'
  <2>1. /\ step[s] = "remove" /\ UpdateRoutes(s, routeConsumers \ {<<t, Consumer(s)>>})
        /\ leaving' = [leaving EXCEPT ![s] = @ \ {t}]
        /\ UNCHANGED <<client, mailbox, master, visited, dashboards, actor, incarnation, inbox,
                       step, consumerRoutes, output>>
    BY <1>4 DEF RemoveRoute
  <2>2. routeConsumers \ {<<t, Consumer(s)>>} \in SUBSET (Topics \X Consumers)
    BY DEF TypeOK
  <2>3. /\ routeConsumers' \subseteq Topics \X Consumers /\ changed' \in BOOLEAN
        /\ eventIdCache' \in [Topics -> SUBSET Messages]
    BY <2>1, <2>2, RoutesTyped
  <2>4. leaving' \in [Sessions -> SUBSET Topics]
    BY <2>1 DEF TypeOK
  <2>5. /\ inbox'[s] # <<>> /\ Head(inbox'[s]).kind = "disconnect" /\ step'[s] = "remove"
        /\ consumerRoutes' \subseteq Consumers \X Topics
    BY <2>1 DEF TypeOK, MidHandler
  <2> QED
    BY <2>1, <2>3, <2>4, <2>5, DashboardTyped
<1>5. ASSUME SendPoison(s) PROVE TypeOK'
  <2> DEFINE x == [kind |-> "poison", topic |-> {}]
             q == Append(Tail(inbox[s]), x)
  <2>1. /\ inbox' = [inbox EXCEPT ![s] = q] /\ step[s] = "remove"
        /\ Goto(s, "idle")
        /\ UNCHANGED <<client, mailbox, routing, actor, incarnation, leaving, tables, output>>
    BY <1>5 DEF SendPoison
  <2>2. q \in Seq(Letters)
    <3>1. Tail(inbox[s]) \in Seq(Letters)
      BY <2>1, HeadLetter DEF TypeOK, MidHandler
    <3>2. x \in Letters
      BY DEF Letters
    <3> HIDE DEF x
    <3> QED
      BY <3>1, <3>2
  <2> HIDE DEF q
  <2>3. step'[s] = "idle"
    BY <2>1 DEF Goto, TypeOK
  <2>4. /\ changed' \in BOOLEAN /\ routeConsumers' \subseteq Topics \X Consumers
        /\ eventIdCache' \in [Topics -> SUBSET Messages]
        /\ consumerRoutes' \subseteq Consumers \X Topics
        /\ leaving' \in [Sessions -> SUBSET Topics]
        /\ UNCHANGED <<master, visited, dashboards>>
    BY <2>1 DEF TypeOK, routing, tables, output
  <2> QED
    BY <2>1, <2>2, <2>3, <2>4, DashboardTyped
<1>6. ASSUME Terminate(s) \/ StopDashboard(s) PROVE TypeOK'
  <2>1. /\ step[s] = "idle" /\ inbox' = [inbox EXCEPT ![s] = <<>>]
        /\ \E a \in {"alive", "failed", "stopped", "terminated"} : actor' = [actor EXCEPT ![s] = a]
        /\ UNCHANGED <<client, mailbox, routing, incarnation, step, leaving, tables, output>>
    BY <1>6 DEF Terminate, StopDashboard, Handles
  <2>2. <<>> \in Seq(Letters) /\ step'[s] = "idle"
    BY <2>1
  <2>3. /\ changed' \in BOOLEAN /\ routeConsumers' \subseteq Topics \X Consumers
        /\ eventIdCache' \in [Topics -> SUBSET Messages]
        /\ consumerRoutes' \subseteq Consumers \X Topics
        /\ leaving' \in [Sessions -> SUBSET Topics]
        /\ UNCHANGED <<master, visited, dashboards>>
    BY <2>1 DEF TypeOK, routing, tables, output
  <2> QED
    BY <2>1, <2>2, <2>3, DashboardTyped
<1>7. ASSUME Consume(s) PROVE TypeOK'
  <2>1. /\ step[s] = "idle" /\ inbox' = [inbox EXCEPT ![s] = Tail(inbox[s])]
        /\ inbox[s] # <<>> /\ actor[s] = "alive"
        /\ actor' = [actor EXCEPT ![s] = IF SendThrows /\ link[s] # "open" THEN "failed" ELSE @]
        /\ UNCHANGED <<client, mailbox, routing, incarnation, step, leaving, tables, output>>
    BY <1>7 DEF Consume, Handles, PopInbox
  <2>2. Tail(inbox[s]) \in Seq(Letters) /\ step'[s] = "idle"
    BY <2>1, HeadLetter
  <2>3. \E a \in {"alive", "failed", "stopped", "terminated"} : actor' = [actor EXCEPT ![s] = a]
    BY <2>1
  <2>4. /\ changed' \in BOOLEAN /\ routeConsumers' \subseteq Topics \X Consumers
        /\ eventIdCache' \in [Topics -> SUBSET Messages]
        /\ consumerRoutes' \subseteq Consumers \X Topics
        /\ leaving' \in [Sessions -> SUBSET Topics]
        /\ UNCHANGED <<master, visited, dashboards>>
    BY <2>1 DEF TypeOK, routing, tables, output
  <2> QED
    BY <2>1, <2>2, <2>3, <2>4, DashboardTyped
<1>8. ASSUME RestartDashboard(s) PROVE TypeOK'
  <2>1. /\ actor' = [actor EXCEPT ![s] = "alive"]
        /\ incarnation' = [incarnation EXCEPT ![s] = @ + 1]
        /\ UNCHANGED <<client, mailbox, routing, inbox, step, leaving, tables, output>>
    BY <1>8 DEF RestartDashboard
  <2>2. /\ step'[s] # "idle" => inbox'[s] # <<>>
        /\ step'[s] = "second" => Head(inbox'[s]).kind \in {"subscribe", "unsubscribe"}
        /\ step'[s] = "remove" => Head(inbox'[s]).kind = "disconnect"
    BY <2>1 DEF TypeOK, MidHandler
  <2>3. /\ changed' \in BOOLEAN /\ routeConsumers' \subseteq Topics \X Consumers
        /\ eventIdCache' \in [Topics -> SUBSET Messages]
        /\ consumerRoutes' \subseteq Consumers \X Topics
        /\ leaving' \in [Sessions -> SUBSET Topics]
        /\ UNCHANGED <<master, visited, dashboards>>
    BY <2>1 DEF TypeOK, routing, tables, output
  <2> QED
    BY <2>1, <2>2, <2>3, DashboardTyped
<1> QED
  BY <1>1, <1>2, <1>3, <1>4, <1>5, <1>6, <1>7, <1>8 DEF DashboardStep

LEMMA TypedInit == Init => TypeOK
<1> SUFFICES ASSUME Init PROVE TypeOK
  OBVIOUS
<1>1. /\ link = [s \in Sessions |-> "new"] /\ asked = [s \in Sessions |-> 0]
      /\ actor = [s \in Sessions |-> "none"] /\ incarnation = [s \in Sessions |-> 0]
      /\ inbox = [s \in Sessions |-> <<>>] /\ step = [s \in Sessions |-> "idle"]
      /\ leaving = [s \in Sessions |-> {}] /\ eventIdCache = [t \in Topics |-> {}]
      /\ delivered = [s \in Sessions |-> <<>>] /\ mailbox = <<>> /\ bus = <<>>
  BY DEF Init
<1>2. /\ <<>> \in Seq(Mails) /\ Len(<<>>) <= MaxMail /\ <<>> \in Seq(Letters)
      /\ <<>> \in Seq(Messages) /\ <<>> \in Seq([event : Messages, sub : Topics \X Consumers])
      /\ 0 \in 0..MaxRequests
  BY DashboardAssumption DEF DashboardAssumption
<1>3. /\ inbox \in [Sessions -> Seq(Letters)] /\ asked \in [Sessions -> 0..MaxRequests]
      /\ delivered \in [Sessions -> Seq([event : Messages, sub : Topics \X Consumers])]
  BY <1>1, <1>2
<1>4. link \in [Sessions -> {"new", "open", "closed", "gone"}] /\ answered \subseteq Sessions
      /\ bus \in Seq(Messages) /\ mailbox \in Seq(Mails) /\ Len(mailbox) <= MaxMail
  BY <1>1, <1>2 DEF Init
<1>5. /\ actor \in [Sessions -> {"none", "alive", "failed", "stopping", "stopped", "terminated"}]
      /\ incarnation \in [Sessions -> Nat] /\ leaving \in [Sessions -> SUBSET Topics]
      /\ step \in [Sessions -> {"idle", "second", "remove"}]
      /\ eventIdCache \in [Topics -> SUBSET Messages]
  BY <1>1
<1>6. \A s \in Sessions : step[s] = "idle"
  BY <1>1
<1> QED
  BY <1>3, <1>4, <1>5, <1>6 DEF Init, TypeOK, MidHandler

LEMMA TypedNext == TypeOK /\ [Next]_vars => TypeOK'
<1> SUFFICES ASSUME TypeOK, [Next]_vars PROVE TypeOK'
  OBVIOUS
<1>1. ASSUME NEW t \in Topics, Expire(t) PROVE TypeOK'
  <2>1. eventIdCache' \in [Topics -> SUBSET Messages]
    BY <1>1 DEF Expire, TypeOK
  <2> QED
    BY <1>1, <2>1 DEF Expire, TypeOK, client, routing, children, output, MidHandler
<1>2. CASE UNCHANGED vars
  BY <1>2 DEF vars, TypeOK, MidHandler
<1> QED
  BY <1>1, <1>2, CallbacksTyped, MasterStepsTyped, DashboardStepsTyped DEF Next

(* The variables of the server keep their types, for any number of        *)
(* sessions, topics, requests and restarts: a mailbox holds what its actor *)
(* knows to handle, and a handler that is under way has its message there. *)
THEOREM TypeCorrect == Spec => []TypeOK
<1> QED
  BY TypedInit, TypedNext, PTL DEF Spec
-----------------------------------------------------------------------------
(* The tables of the router. *)

Has(s, k, t) == <<t, <<s, k>>>> \in routeConsumers
Knows(s, k, t) == <<<<s, k>>, t>> \in consumerRoutes

(* The tables agree about the consumers that restarts have left behind,    *)
(* and know none that is still to come.                                    *)
Restarts(s) ==
  \A k \in Nat : \A t \in Topics :
    /\ k < incarnation[s] => (Has(s, k, t) <=> Knows(s, k, t))
    /\ k > incarnation[s] => ~Has(s, k, t) /\ ~Knows(s, k, t)

(* How far they agree about the present one, by the place in its handler.  *)
Present(s) ==
  \A t \in Topics :
    /\ step[s] = "idle" => (Has(s, incarnation[s], t) <=> Knows(s, incarnation[s], t))
    /\ step[s] = "second" =>
         IF t = Head(inbox[s]).topic
         THEN Has(s, incarnation[s], t) <=> Head(inbox[s]).kind = "subscribe"
         ELSE Has(s, incarnation[s], t) <=> Knows(s, incarnation[s], t)
    /\ step[s] = "remove" => /\ Has(s, incarnation[s], t) <=> t \in leaving[s]
                             /\ ~Knows(s, incarnation[s], t)

(* An actor fails or ends between two handlers only.                       *)
Lives(s) == MidHandler(s) => actor[s] \in {"alive", "stopping"}

Tables(s) == Router # "racy" => Restarts(s) /\ Present(s)

TablesInv == \A s \in Sessions : Lives(s) /\ Tables(s)

(* Nothing of a session changes that its tables depend on.                 *)
LEMMA SameTables ==
  ASSUME NEW s, Tables(s), UNCHANGED <<incarnation[s], step[s], leaving[s]>>,
         MidHandler(s) => Head(inbox'[s]) = Head(inbox[s]),
         Router # "racy" =>
           \A k \in Nat : \A t \in Topics : /\ Has(s, k, t)' <=> Has(s, k, t)
                                            /\ Knows(s, k, t)' <=> Knows(s, k, t),
         incarnation[s] \in Nat
  PROVE  Tables(s)'
<1> SUFFICES ASSUME Router # "racy" PROVE Restarts(s)' /\ Present(s)'
  BY DEF Tables
<1>1. Restarts(s) /\ Present(s)
  BY DEF Tables
<1>2. Restarts(s)'
  BY <1>1 DEF Restarts
<1>3. Present(s)'
  <2> SUFFICES ASSUME NEW t \in Topics
               PROVE  /\ step[s] = "idle" => (Has(s, incarnation[s], t)' <=> Knows(s, incarnation[s], t)')
                      /\ step[s] = "second" =>
                           IF t = Head(inbox'[s]).topic
                           THEN Has(s, incarnation[s], t)' <=> Head(inbox'[s]).kind = "subscribe"
                           ELSE Has(s, incarnation[s], t)' <=> Knows(s, incarnation[s], t)'
                      /\ step[s] = "remove" => /\ Has(s, incarnation[s], t)' <=> t \in leaving[s]
                                               /\ ~Knows(s, incarnation[s], t)'
    BY DEF Present, Has, Knows
  <2>1. /\ Has(s, incarnation[s], t)' <=> Has(s, incarnation[s], t)
        /\ Knows(s, incarnation[s], t)' <=> Knows(s, incarnation[s], t)
    BY DEF Has, Knows
  <2>2. step[s] = "second" => Head(inbox'[s]) = Head(inbox[s])
    BY DEF MidHandler
  <2> HIDE DEF Has, Knows
  <2> QED
    BY <1>1, <2>1, <2>2 DEF Present
<1> QED
  BY <1>2, <1>3

(* Steps of the callbacks and of the master.                               *)
LEMMA TablesLeftAlone ==
  ASSUME TypeOK, TablesInv,
         UNCHANGED <<incarnation, step, leaving, routeConsumers, consumerRoutes>>,
         \A s \in Sessions : MidHandler(s) => Head(inbox'[s]) = Head(inbox[s]),
         \A s \in Sessions : actor[s] \in {"alive", "stopping"} => actor'[s] \in {"alive", "stopping"}
  PROVE  TablesInv'
<1> SUFFICES ASSUME NEW s \in Sessions PROVE Lives(s)' /\ Tables(s)'
  BY DEF TablesInv
<1>1. Lives(s)'
  BY DEF Lives, MidHandler, TablesInv
<1>2. Tables(s)'
  BY SameTables DEF TablesInv, Has, Knows, TypeOK
<1> QED
  BY <1>1, <1>2

LEMMA ForwardedTables ==
  ASSUME TypeOK, NEW s \in Sessions, NEW kind, NEW t,
         [kind |-> kind, topic |-> t] \in Letters, Forward(s, kind, t)
  PROVE  \A q \in Sessions : MidHandler(q) => Head(inbox'[q]) = Head(inbox[q])
<1> SUFFICES ASSUME NEW q \in Sessions, MidHandler(q) PROVE Head(inbox'[q]) = Head(inbox[q])
  OBVIOUS
<1>1. inbox[q] \in Seq(Letters) /\ inbox[q] # <<>>
  BY DEF TypeOK
<1>2. \/ inbox'[q] = inbox[q]
      \/ inbox'[q] = Append(inbox[q], [kind |-> kind, topic |-> t])
  BY Forwarded
<1> QED
  BY <1>1, <1>2, Appended

(* What the master does to the dashboards: nothing, or it forwards         *)
(* something, starts one, or fails and stops them.                         *)
LEMMA MasterLeavesTables == ASSUME TypeOK, TablesInv, MasterStep PROVE TablesInv'
<1> DEFINE quiet == \A s \in Sessions : MidHandler(s) => Head(inbox'[s]) = Head(inbox[s])
           alive == \A s \in Sessions :
                      actor[s] \in {"alive", "stopping"} => actor'[s] \in {"alive", "stopping"}
<1>1. MasterFails => alive
  BY DEF MasterFails
<1>2. UNCHANGED inbox => quiet
  OBVIOUS
<1>3. UNCHANGED actor => alive
  OBVIOUS
<1>4. quiet /\ alive /\ UNCHANGED <<incarnation, step, leaving, routeConsumers, consumerRoutes>>
  <2>1. CASE Connect
    <3>1. Mail("connect") /\ Head(mailbox).of \in Sessions
      BY <2>1, HeadMail DEF Connect, Mail
    <3>2. alive
      BY <2>1, <3>1 DEF Connect, TypeOK
    <3> QED
      BY <1>2, <2>1, <3>2 DEF Connect, tables
  <2>2. ASSUME NEW kind \in {"subscribe", "unsubscribe"}, Propagate(kind)
        PROVE  /\ quiet /\ alive
               /\ UNCHANGED <<incarnation, step, leaving, routeConsumers, consumerRoutes>>
    <3> DEFINE s == Head(mailbox).of[1]
               t == Head(mailbox).of[2]
    <3>1. s \in Sessions /\ t \in Topics
      BY <2>2, HeadMail DEF Propagate, Mail
    <3>2. [kind |-> kind, topic |-> t] \in Letters
      BY <3>1 DEF Letters
    <3>3. UNCHANGED inbox \/ Forward(s, kind, t)
      BY <2>2 DEF Propagate
    <3> HIDE DEF s, t
    <3>4. quiet
      BY <1>2, <3>1, <3>2, <3>3, ForwardedTables
    <3> QED
      BY <1>3, <2>2, <3>4 DEF Propagate, tables
  <2>3. CASE Disconnect
    <3> DEFINE s == Head(mailbox).of
    <3>1. s \in Sessions
      BY <2>3, HeadMail DEF Disconnect, Mail
    <3>2. [kind |-> "disconnect", topic |-> {}] \in Letters
      BY DEF Letters
    <3>3. UNCHANGED inbox \/ Forward(s, "disconnect", {})
      BY <2>3 DEF Disconnect
    <3> HIDE DEF s
    <3>4. quiet
      BY <1>2, <3>1, <3>2, <3>3, ForwardedTables
    <3> QED
      BY <1>3, <2>3, <3>4 DEF Disconnect, tables
  <2>4. CASE DirectPublish
    <3> DEFINE s == Head(mailbox).of
    <3>1. s \in Sessions
      BY <2>4, HeadMail DEF DirectPublish, Mail
    <3>2. [kind |-> "answer", topic |-> {}] \in Letters
      BY DEF Letters
    <3>3. \/ Forward(s, "answer", {}) /\ UNCHANGED actor
          \/ MasterFails /\ UNCHANGED inbox
      BY <2>4 DEF DirectPublish
    <3> HIDE DEF s
    <3>4. quiet /\ alive
      BY <1>1, <1>2, <1>3, <3>1, <3>2, <3>3, ForwardedTables
    <3> QED
      BY <2>4, <3>4 DEF DirectPublish, tables
  <2>5. CASE StartPublish \/ EndPublish \/ ConcurrentModification \/ RestartMaster
    <3>1. /\ UNCHANGED <<inbox, incarnation, step, leaving, routeConsumers, consumerRoutes>>
          /\ UNCHANGED actor \/ MasterFails
      BY <2>5 DEF StartPublish, EndPublish, ConcurrentModification, RestartMaster, tables, children
    <3> QED
      BY <1>1, <1>2, <1>3, <3>1
  <2>6. ASSUME NEW p \in routeConsumers, Visit(p)
        PROVE  /\ quiet /\ alive
               /\ UNCHANGED <<incarnation, step, leaving, routeConsumers, consumerRoutes>>
    <3>1. /\ UNCHANGED <<inbox, incarnation, step, leaving, routeConsumers, consumerRoutes>>
          /\ UNCHANGED actor \/ MasterFails
      BY <2>6 DEF Visit
    <3> QED
      BY <1>1, <1>2, <1>3, <3>1
  <2> QED
    BY <2>1, <2>2, <2>3, <2>4, <2>5, <2>6 DEF MasterStep
<1> QED
  BY <1>4, TablesLeftAlone

(* A step of one dashboard that concerns no other.                         *)
LEMMA OwnTables ==
  ASSUME TypeOK, TablesInv, NEW s \in Sessions,
         \A q \in Sessions \ {s} :
           UNCHANGED <<actor[q], incarnation[q], step[q], leaving[q], inbox[q]>>,
         Router # "racy" =>
           \A q \in Sessions \ {s} : \A k \in Nat : \A t \in Topics :
             /\ Has(q, k, t)' <=> Has(q, k, t)
             /\ Knows(q, k, t)' <=> Knows(q, k, t),
         Lives(s)', Tables(s)'
  PROVE  TablesInv'
<1> SUFFICES ASSUME NEW q \in Sessions \ {s} PROVE Lives(q)' /\ Tables(q)'
  BY DEF TablesInv
<1>1. Lives(q)'
  BY DEF Lives, MidHandler, TablesInv
<1>2. Tables(q) /\ incarnation[q] \in Nat
  BY DEF TablesInv, TypeOK
<1>3. Tables(q)'
  BY <1>2, SameTables
<1> QED
  BY <1>1, <1>3

LEMMA DashboardKeepsTables ==
  ASSUME TypeOK, TablesInv, NEW s \in Sessions, DashboardStep(s) PROVE TablesInv'
<1> DEFINE topic == Head(inbox[s]).topic
           kind == Head(inbox[s]).kind
           inc == incarnation[s]
           here == <<topic, <<s, inc>>>>
           route == <<<<s, inc>>, topic>>
           others == \A q \in Sessions \ {s} :
                       UNCHANGED <<actor[q], incarnation[q], step[q], leaving[q], inbox[q]>>
<1>1. /\ DOMAIN actor = Sessions /\ DOMAIN incarnation = Sessions /\ DOMAIN step = Sessions
      /\ DOMAIN leaving = Sessions /\ DOMAIN inbox = Sessions /\ inc \in Nat
      /\ Lives(s) /\ Tables(s)
  BY DEF TypeOK, TablesInv
<1>2. Consumer(s) = <<s, inc>>
  BY DEF Consumer
<1>3. ASSUME Subscribe(s) \/ Unsubscribe(s) PROVE TablesInv'
  <2>1. /\ actor[s] = "alive" /\ step[s] = "idle" /\ kind \in {"subscribe", "unsubscribe"}
        /\ kind = "subscribe" <=> Subscribe(s)
    BY <1>3 DEF Subscribe, Unsubscribe, Handles
  <2>2. /\ UpdateRoutes(s, IF kind = "subscribe" THEN routeConsumers \cup {here}
                                                 ELSE routeConsumers \ {here})
        /\ Goto(s, "second") /\ UNCHANGED <<actor, incarnation, inbox, leaving, consumerRoutes>>
    BY <1>2, <1>3, <2>1 DEF Subscribe, Unsubscribe
  <2>3. Router # "racy" => routeConsumers' = IF kind = "subscribe" THEN routeConsumers \cup {here}
                                                                  ELSE routeConsumers \ {here}
    BY <2>2, Outcome DEF UpdateRoutes
  <2>4. others /\ step'[s] = "second"
    BY <1>1, <2>2 DEF Goto
  <2>5. Lives(s)'
    BY <2>1, <2>2 DEF Lives
  <2>6. ASSUME Router # "racy", NEW q \in Sessions, NEW k \in Nat, NEW t \in Topics
        PROVE  /\ Has(q, k, t)' <=> IF q = s /\ k = inc /\ t = topic THEN kind = "subscribe"
                                                                 ELSE Has(q, k, t)
               /\ Knows(q, k, t)' <=> Knows(q, k, t)
    <3>1. <<t, <<q, k>>>> = here <=> q = s /\ k = inc /\ t = topic
      OBVIOUS
    <3> HIDE DEF here
    <3> QED
      BY <2>2, <2>3, <2>6, <3>1 DEF Has, Knows
  <2>7. ASSUME Router # "racy" PROVE Restarts(s)' /\ Present(s)'
    <3>1. Restarts(s) /\ Present(s) /\ UNCHANGED <<incarnation, inbox>>
      BY <1>1, <2>2, <2>7 DEF Tables
    <3>2. \A k \in Nat : \A t \in Topics :
            /\ Has(s, k, t)' <=> IF k = inc /\ t = topic THEN kind = "subscribe" ELSE Has(s, k, t)
            /\ Knows(s, k, t)' <=> Knows(s, k, t)
      BY <2>6, <2>7
    <3>3. Restarts(s)'
      BY <1>1, <3>1, <3>2 DEF Restarts
    <3>4. Present(s)'
      <4>1. \A t \in Topics :
              /\ Has(s, inc, t)' <=> IF t = topic THEN kind = "subscribe" ELSE Has(s, inc, t)
              /\ Knows(s, inc, t)' <=> Knows(s, inc, t)
              /\ Has(s, inc, t) <=> Knows(s, inc, t)
        BY <1>1, <2>1, <3>1, <3>2 DEF Present
      <4> QED
        BY <2>4, <3>1, <4>1 DEF Present, Has, Knows
    <3> QED
      BY <3>3, <3>4
  <2>8. Tables(s)'
    BY <2>7 DEF Tables
  <2>9. Router # "racy" =>
          \A q \in Sessions \ {s} : \A k \in Nat : \A t \in Topics :
            /\ Has(q, k, t)' <=> Has(q, k, t)
            /\ Knows(q, k, t)' <=> Knows(q, k, t)
    BY <2>6
  <2> QED
    BY <2>4, <2>5, <2>8, <2>9, OwnTables
<1>4. ASSUME UpdateSecond(s) PROVE TablesInv'
  <2>1. step[s] = "second" /\ kind \in {"subscribe", "unsubscribe"}
    BY <1>4 DEF UpdateSecond, TypeOK
  <2>2. /\ consumerRoutes' \in Outcomes(s, "consumerRoutes", consumerRoutes,
             IF kind = "subscribe" THEN consumerRoutes \cup {route} ELSE consumerRoutes \ {route})
        /\ PopInbox(s) /\ Goto(s, "idle")
        /\ UNCHANGED <<actor, incarnation, leaving, routeConsumers>>
    BY <1>2, <1>4 DEF UpdateSecond
  <2>3. Router # "racy" => consumerRoutes' = IF kind = "subscribe" THEN consumerRoutes \cup {route}
                                                                  ELSE consumerRoutes \ {route}
    BY <2>2, Outcome
  <2>4. others /\ step'[s] = "idle"
    BY <1>1, <2>2 DEF Goto, PopInbox
  <2>5. Lives(s)'
    BY <2>4 DEF Lives, MidHandler
  <2>6. ASSUME Router # "racy", NEW q \in Sessions, NEW k \in Nat, NEW t \in Topics
        PROVE  /\ Knows(q, k, t)' <=> IF q = s /\ k = inc /\ t = topic THEN kind = "subscribe"
                                                                   ELSE Knows(q, k, t)
               /\ Has(q, k, t)' <=> Has(q, k, t)
    <3>1. <<<<q, k>>, t>> = route <=> q = s /\ k = inc /\ t = topic
      OBVIOUS
    <3> HIDE DEF route
    <3> QED
      BY <2>2, <2>3, <2>6, <3>1 DEF Has, Knows
  <2>7. ASSUME Router # "racy" PROVE Restarts(s)' /\ Present(s)'
    <3>1. Restarts(s) /\ Present(s) /\ UNCHANGED incarnation
      BY <1>1, <2>2, <2>7 DEF Tables
    <3>2. \A k \in Nat : \A t \in Topics :
            /\ Knows(s, k, t)' <=> IF k = inc /\ t = topic THEN kind = "subscribe" ELSE Knows(s, k, t)
            /\ Has(s, k, t)' <=> Has(s, k, t)
      BY <2>6, <2>7
    <3>3. Restarts(s)'
      BY <1>1, <3>1, <3>2 DEF Restarts
    <3>4. Present(s)'
      <4>1. \A t \in Topics : Has(s, inc, t)' <=> Knows(s, inc, t)'
        <5>1. \A t \in Topics :
                IF t = topic THEN Has(s, inc, t) <=> kind = "subscribe"
                             ELSE Has(s, inc, t) <=> Knows(s, inc, t)
          BY <2>1, <3>1 DEF Present
        <5>2. \A t \in Topics :
                /\ Knows(s, inc, t)' <=> IF t = topic THEN kind = "subscribe" ELSE Knows(s, inc, t)
                /\ Has(s, inc, t)' <=> Has(s, inc, t)
          BY <1>1, <2>2, <3>2 DEF Has, Knows
        <5> HIDE DEF Has, Knows, topic, kind
        <5> QED
          BY <5>1, <5>2
      <4> QED
        BY <2>4, <3>1, <4>1 DEF Present, Has, Knows
    <3> QED
      BY <3>3, <3>4
  <2>8. Tables(s)'
    BY <2>7 DEF Tables
  <2>9. Router # "racy" =>
          \A q \in Sessions \ {s} : \A k \in Nat : \A t \in Topics :
            /\ Has(q, k, t)' <=> Has(q, k, t)
            /\ Knows(q, k, t)' <=> Knows(q, k, t)
    BY <2>6
  <2> QED
    BY <2>4, <2>5, <2>8, <2>9, OwnTables
<1>5. ASSUME RemoveAll(s) PROVE TablesInv'
  <2> DEFINE mine == {p \in consumerRoutes : p[1] = <<s, inc>>}
             T == {p[2] : p \in mine}
  <2>1. /\ actor[s] = "alive" /\ step[s] = "idle" /\ leaving' = [leaving EXCEPT ![s] = T]
        /\ consumerRoutes' \in Outcomes(s, "consumerRoutes", consumerRoutes, consumerRoutes \ mine)
        /\ Goto(s, "remove") /\ UNCHANGED <<actor, incarnation, inbox, routeConsumers>>
    BY <1>2, <1>5 DEF RemoveAll, Handles
  <2>2. Router # "racy" => consumerRoutes' = consumerRoutes \ mine
    BY <2>1, Outcome
  <2>3. \A t : t \in T <=> Knows(s, inc, t)
    <3>1. \A p \in mine : p = <<<<s, inc>>, p[2]>>
      <4>1. consumerRoutes \subseteq Consumers \X Topics
        BY DEF TypeOK
      <4>2. \A p \in Consumers \X Topics : p = <<p[1], p[2]>>
        OBVIOUS
      <4> HIDE DEF inc
      <4> QED
        BY <4>1, <4>2
    <3>2. \A t : <<<<s, inc>>, t>> \in consumerRoutes => <<<<s, inc>>, t>> \in mine
      OBVIOUS
    <3>3. mine \subseteq consumerRoutes
      OBVIOUS
    <3> HIDE DEF mine
    <3>4. \A t : t \in T => <<<<s, inc>>, t>> \in consumerRoutes
      BY <3>1, <3>3
    <3>5. \A t : <<<<s, inc>>, t>> \in consumerRoutes => t \in T
      BY <3>2
    <3> QED
      BY <3>4, <3>5 DEF Knows
  <2>4. \A q, k, t : <<<<q, k>>, t>> \in consumerRoutes \ mine
                      <=> <<<<q, k>>, t>> \in consumerRoutes /\ ~(q = s /\ k = inc)
    OBVIOUS
  <2> HIDE DEF T, mine
  <2>5. others /\ step'[s] = "remove" /\ leaving'[s] = T
    BY <1>1, <2>1 DEF Goto
  <2>6. Lives(s)'
    BY <2>1 DEF Lives
  <2>7. ASSUME Router # "racy"
        PROVE  \A q \in Sessions : \A k \in Nat : \A t \in Topics :
                 /\ Knows(q, k, t)' <=> Knows(q, k, t) /\ ~(q = s /\ k = inc)
                 /\ Has(q, k, t)' <=> Has(q, k, t)
    BY <2>1, <2>2, <2>4, <2>7 DEF Has, Knows
  <2>8. ASSUME Router # "racy" PROVE Restarts(s)' /\ Present(s)'
    <3>1. Restarts(s) /\ Present(s) /\ UNCHANGED incarnation
      BY <1>1, <2>1, <2>8 DEF Tables
    <3>2. Restarts(s)'
      BY <1>1, <2>7, <2>8, <3>1 DEF Restarts
    <3>3. \A t \in Topics : Has(s, inc, t) <=> t \in T
      BY <2>1, <2>3, <3>1 DEF Present
    <3>4. \A t \in Topics : (Has(s, inc, t)' <=> t \in T) /\ ~Knows(s, inc, t)'
      BY <1>1, <2>1, <2>7, <2>8, <3>3 DEF Has, Knows
    <3>5. Present(s)'
      BY <2>5, <3>1, <3>4 DEF Present, Has, Knows
    <3> QED
      BY <3>2, <3>5
  <2>9. Tables(s)'
    BY <2>8 DEF Tables
  <2> QED
    BY <2>5, <2>6, <2>7, <2>9, OwnTables
<1>6. ASSUME NEW t \in Topics, RemoveRoute(s, t) PROVE TablesInv'
  <2> DEFINE gone == <<t, <<s, inc>>>>
  <2>1. /\ step[s] = "remove" /\ UpdateRoutes(s, routeConsumers \ {gone})
        /\ leaving' = [leaving EXCEPT ![s] = @ \ {t}]
        /\ UNCHANGED <<actor, incarnation, inbox, step, consumerRoutes>>
    BY <1>2, <1>6 DEF RemoveRoute
  <2>2. Router # "racy" => routeConsumers' = routeConsumers \ {gone}
    BY <2>1, Outcome DEF UpdateRoutes
  <2>3. others /\ leaving'[s] = leaving[s] \ {t}
    BY <1>1, <2>1
  <2>4. Lives(s)'
    BY <1>1, <2>1 DEF Lives, MidHandler
  <2>5. ASSUME Router # "racy", NEW q \in Sessions, NEW k \in Nat, NEW u \in Topics
        PROVE  /\ Has(q, k, u)' <=> Has(q, k, u) /\ ~(q = s /\ k = inc /\ u = t)
               /\ Knows(q, k, u)' <=> Knows(q, k, u)
    <3>1. <<u, <<q, k>>>> = gone <=> q = s /\ k = inc /\ u = t
      OBVIOUS
    <3> HIDE DEF gone
    <3> QED
      BY <2>1, <2>2, <2>5, <3>1 DEF Has, Knows
  <2>6. ASSUME Router # "racy" PROVE Restarts(s)' /\ Present(s)'
    <3>1. Restarts(s) /\ Present(s) /\ UNCHANGED <<incarnation, step>>
      BY <1>1, <2>1, <2>6 DEF Tables
    <3>2. \A k \in Nat : \A u \in Topics :
            /\ Has(s, k, u)' <=> Has(s, k, u) /\ ~(k = inc /\ u = t)
            /\ Knows(s, k, u)' <=> Knows(s, k, u)
      BY <2>5, <2>6
    <3>3. Restarts(s)'
      BY <1>1, <3>1, <3>2 DEF Restarts
    <3>4. \A u \in Topics : (Has(s, inc, u) <=> u \in leaving[s]) /\ ~Knows(s, inc, u)
      BY <2>1, <3>1 DEF Present
    <3>5. \A u \in Topics : (Has(s, inc, u)' <=> u \in leaving'[s]) /\ ~Knows(s, inc, u)'
      <4> SUFFICES ASSUME NEW u \in Topics
                   PROVE  (Has(s, inc, u)' <=> u \in leaving'[s]) /\ ~Knows(s, inc, u)'
        OBVIOUS
      <4>1. inc' = inc /\ inc \in Nat
        BY <1>1, <2>1
      <4>2. /\ <<u, <<s, inc>>>> \in routeConsumers' <=> Has(s, inc, u) /\ u # t
            /\ <<<<s, inc>>, u>> \in consumerRoutes' <=> Knows(s, inc, u)
        <5> HIDE DEF inc
        <5> QED
          BY <3>2, <4>1 DEF Has, Knows
      <4>3. (Has(s, inc, u) <=> u \in leaving[s]) /\ ~Knows(s, inc, u)
        BY <3>4
      <4>4. (Has(s, inc, u)' <=> <<u, <<s, inc>>>> \in routeConsumers')
            /\ (Knows(s, inc, u)' <=> <<<<s, inc>>, u>> \in consumerRoutes')
        BY <4>1 DEF Has, Knows
      <4>5. u \in leaving'[s] <=> u \in leaving[s] /\ u # t
        BY <2>3
      <4> QED
        BY <4>2, <4>3, <4>4, <4>5
    <3>6. Present(s)'
      BY <2>1, <3>1, <3>5 DEF Present, Has, Knows
    <3> QED
      BY <3>3, <3>6
  <2>7. Tables(s)'
    BY <2>6 DEF Tables
  <2>8. Router # "racy" =>
          \A q \in Sessions \ {s} : \A k \in Nat : \A u \in Topics :
            /\ Has(q, k, u)' <=> Has(q, k, u)
            /\ Knows(q, k, u)' <=> Knows(q, k, u)
    BY <2>5
  <2> QED
    BY <2>3, <2>4, <2>7, <2>8, OwnTables
<1>7. ASSUME SendPoison(s) PROVE TablesInv'
  <2>1. /\ step[s] = "remove" /\ leaving[s] = {} /\ Goto(s, "idle")
        /\ UNCHANGED <<actor, incarnation, leaving, routeConsumers, consumerRoutes>>
        /\ \A q \in Sessions \ {s} : inbox'[q] = inbox[q]
    BY <1>1, <1>7 DEF SendPoison, tables
  <2>2. others /\ step'[s] = "idle"
    BY <1>1, <2>1 DEF Goto
  <2>3. \A q, k, t : (Has(q, k, t)' <=> Has(q, k, t)) /\ (Knows(q, k, t)' <=> Knows(q, k, t))
    BY <2>1 DEF Has, Knows
  <2>4. Lives(s)'
    BY <2>2 DEF Lives, MidHandler
  <2>5. Tables(s)'
    BY <1>1, <2>1, <2>2 DEF Tables, Restarts, Present, Has, Knows
  <2> QED
    BY <2>2, <2>3, <2>4, <2>5, OwnTables
<1>8. ASSUME Terminate(s) \/ StopDashboard(s) \/ Consume(s) PROVE TablesInv'
  <2>1. /\ step[s] = "idle"
        /\ UNCHANGED <<step, incarnation, leaving, routeConsumers, consumerRoutes>>
        /\ \A q \in Sessions \ {s} : inbox'[q] = inbox[q] /\ actor'[q] = actor[q]
    BY <1>1, <1>8 DEF Terminate, StopDashboard, Consume, Handles, PopInbox, tables
  <2>2. others
    BY <1>1, <2>1
  <2>3. \A q, k, t : (Has(q, k, t)' <=> Has(q, k, t)) /\ (Knows(q, k, t)' <=> Knows(q, k, t))
    BY <2>1 DEF Has, Knows
  <2>4. Lives(s)'
    BY <2>1 DEF Lives, MidHandler
  <2>5. Tables(s)'
    BY <1>1, <2>1 DEF Tables, Restarts, Present, Has, Knows
  <2> QED
    BY <2>2, <2>3, <2>4, <2>5, OwnTables
<1>9. ASSUME RestartDashboard(s) PROVE TablesInv'
  <2>1. /\ actor[s] = "failed" /\ incarnation' = [incarnation EXCEPT ![s] = inc + 1]
        /\ actor' = [actor EXCEPT ![s] = "alive"]
        /\ UNCHANGED <<step, inbox, leaving, routeConsumers, consumerRoutes>>
    BY <1>9 DEF RestartDashboard, tables
  <2>2. others /\ incarnation'[s] = inc + 1 /\ inc + 1 \in Nat
    BY <1>1, <2>1
  <2>3. \A q, k, t : (Has(q, k, t)' <=> Has(q, k, t)) /\ (Knows(q, k, t)' <=> Knows(q, k, t))
    BY <2>1 DEF Has, Knows
  <2>4. step[s] = "idle"
    BY <1>1, <2>1 DEF Lives, MidHandler
  <2>5. Lives(s)'
    BY <2>1, <2>4 DEF Lives, MidHandler
  <2>6. ASSUME Router # "racy" PROVE Restarts(s)' /\ Present(s)'
    <3>1. Restarts(s) /\ Present(s)
      BY <1>1, <2>6 DEF Tables
    <3>2. \A k \in Nat : \A t \in Topics :
            /\ k < inc + 1 => (Has(s, k, t) <=> Knows(s, k, t))
            /\ k >= inc + 1 => ~Has(s, k, t) /\ ~Knows(s, k, t)
      <4> SUFFICES ASSUME NEW k \in Nat, NEW t \in Topics
                   PROVE  /\ k < inc + 1 => (Has(s, k, t) <=> Knows(s, k, t))
                          /\ k >= inc + 1 => ~Has(s, k, t) /\ ~Knows(s, k, t)
        OBVIOUS
      <4>1. CASE k < inc
        BY <1>1, <3>1, <4>1 DEF Restarts
      <4>2. CASE k = inc
        BY <1>1, <2>4, <3>1, <4>2 DEF Present
      <4>3. CASE k > inc
        BY <1>1, <3>1, <4>3 DEF Restarts
      <4> QED
        BY <1>1, <4>1, <4>2, <4>3
    <3>3. Restarts(s)'
      <4> HIDE DEF inc
      <4> QED
        BY <1>1, <2>2, <2>3, <3>2 DEF Restarts
    <3>4. \A t \in Topics : ~Has(s, inc + 1, t) /\ ~Knows(s, inc + 1, t)
      BY <1>1, <2>2, <3>2
    <3>5. Present(s)'
      BY <2>1, <2>2, <2>4, <3>4 DEF Present, Has, Knows
    <3> QED
      BY <3>3, <3>5
  <2>7. Tables(s)'
    BY <2>6 DEF Tables
  <2> QED
    BY <2>2, <2>3, <2>5, <2>7, OwnTables
<1> QED
  BY <1>3, <1>4, <1>5, <1>6, <1>7, <1>8, <1>9 DEF DashboardStep

LEMMA TablesNext == TypeOK /\ TablesInv /\ [Next]_vars => TablesInv'
<1> SUFFICES ASSUME TypeOK, TablesInv, [Next]_vars PROVE TablesInv'
  OBVIOUS
<1>1. ASSUME \/ UNCHANGED <<children, routeConsumers, consumerRoutes>>
             \/ \E t \in Topics : Expire(t)
      PROVE  TablesInv'
  <2>1. UNCHANGED <<children, routeConsumers, consumerRoutes>>
    BY <1>1 DEF Expire
  <2> QED
    BY <2>1, TablesLeftAlone DEF children
<1>2. CASE UNCHANGED vars
  BY <1>1, <1>2 DEF vars, children
<1>3. ASSUME NEW s \in Sessions,
             \/ onConnect(s) \/ Close(s) \/ onDisconnect(s) \/ directPublish(s)
             \/ \E t \in Topics, kind \in {"subscribe", "unsubscribe"} : onMessage(s, kind, t)
      PROVE  TablesInv'
  BY <1>1, <1>3 DEF onConnect, Close, onDisconnect, directPublish, onMessage, tables
<1>4. ASSUME NEW m \in Messages, publish(m) PROVE TablesInv'
  BY <1>1, <1>4 DEF publish, tables
<1> QED
  BY <1>1, <1>2, <1>3, <1>4, MasterLeavesTables, DashboardKeepsTables DEF Next

LEMMA TablesInit == Init => TablesInv
BY DEF Init, TablesInv, Lives, Tables, Restarts, Present, Has, Knows, MidHandler

(* The tables of the router are each other's inverse, but for the consumer *)
(* of an actor in the middle of a handler, unless the multimaps lose       *)
(* updates: for any number of sessions, topics, failures and restarts.     *)
THEOREM TheTablesAgree == Spec => [](Router # "racy" => TablesAgree)
<1>1. TypeOK /\ TablesInv => (Router # "racy" => TablesAgree)
  <2> SUFFICES ASSUME TypeOK, TablesInv, Router # "racy", NEW s \in Sessions, ~MidHandler(s),
                      NEW t \in Topics, NEW k \in 0..incarnation[s]
               PROVE  Has(s, k, t) <=> Knows(s, k, t)
    BY DEF TablesAgree, Has, Knows
  <2>1. Restarts(s) /\ Present(s) /\ incarnation[s] \in Nat /\ step[s] = "idle"
    BY DEF TablesInv, Tables, TypeOK, MidHandler
  <2>2. CASE k < incarnation[s]
    BY <2>1, <2>2 DEF Restarts
  <2>3. CASE k = incarnation[s]
    BY <2>1, <2>3 DEF Present
  <2> QED
    BY <2>1, <2>2, <2>3
<1> QED
  BY <1>1, TypedInit, TypedNext, TablesInit, TablesNext, PTL DEF Spec
-----------------------------------------------------------------------------
(* What a session that disconnects leaves behind. *)

Connects(i, s) == mailbox[i].kind = "connect" /\ mailbox[i].of = s

(* A connect of the session is in the mailbox of the master.               *)
Waits(s) == \E i \in DOMAIN mailbox : Connects(i, s)

WaitsOnce(s) == \A i \in DOMAIN mailbox : \A j \in DOMAIN mailbox :
                  Connects(i, s) /\ Connects(j, s) => i = j

(* A session connects once: before, it has no actor.                       *)
ConnectsOnce(s) ==
  /\ WaitsOnce(s)
  /\ Waits(s) => link[s] # "new" /\ actor[s] = "none"
  /\ link[s] = "new" => actor[s] = "none"
  /\ actor[s] = "none" => inbox[s] = <<>> /\ s \notin dashboards

Cleared(s) == Router # "racy" =>
  \A t \in Topics : ~Has(s, incarnation[s], t) /\ ~Knows(s, incarnation[s], t)

(* Nothing comes after a disconnect, and only the PoisonPill replaces it.  *)
EndsWith(s) ==
  \A i \in DOMAIN inbox[s] :
    /\ inbox[s][i].kind \in {"disconnect", "poison"} => i = Len(inbox[s]) /\ s \notin dashboards
    /\ inbox[s][i].kind = "poison" => i = 1 /\ Cleared(s)

Ended(s) == actor[s] = "terminated" => Cleared(s)

Leaves(s) == ConnectsOnce(s) /\ EndsWith(s) /\ Ended(s)

LeavingInv == \A s \in Sessions : Leaves(s)

LEMMA TailOf ==
  ASSUME NEW A, NEW q \in Seq(A), q # <<>>
  PROVE  /\ 1 \in DOMAIN q /\ Head(q) = q[1] /\ Len(Tail(q)) = Len(q) - 1
         /\ \A i \in DOMAIN Tail(q) : i \in Nat /\ i > 0 /\ i + 1 \in DOMAIN q
                                      /\ Tail(q)[i] = q[i + 1]
OBVIOUS

(* How the mailbox of the master may change: nobody connects but who is    *)
(* told to.                                                                *)
LEMMA MailKept ==
  ASSUME TypeOK, NEW s \in Sessions, WaitsOnce(s),
         \/ UNCHANGED mailbox
         \/ mailbox # <<>> /\ mailbox' = Tail(mailbox)
         \/ \E kind, of : /\ [kind |-> kind, of |-> of] \in Mails
                          /\ Tell(kind, of) /\ ~(kind = "connect" /\ of = s)
  PROVE  WaitsOnce(s)' /\ (Waits(s)' => Waits(s))
<1>1. mailbox \in Seq(Mails)
  BY DEF TypeOK
<1>2. CASE UNCHANGED mailbox
  BY <1>2 DEF WaitsOnce, Waits, Connects
<1>3. CASE mailbox # <<>> /\ mailbox' = Tail(mailbox)
  <2>1. \A i \in DOMAIN mailbox' : /\ i \in Nat /\ i + 1 \in DOMAIN mailbox
                                   /\ mailbox'[i] = mailbox[i + 1]
    BY <1>1, <1>3, TailOf
  <2>2. \A i \in DOMAIN mailbox' : Connects(i, s)' => Connects(i + 1, s)
    BY <2>1 DEF Connects
  <2>3. WaitsOnce(s)'
    <3> SUFFICES ASSUME NEW i \in DOMAIN mailbox', NEW j \in DOMAIN mailbox',
                        Connects(i, s)', Connects(j, s)'
                 PROVE  i = j
      BY DEF WaitsOnce, Connects
    <3>1. i + 1 = j + 1
      BY <2>1, <2>2 DEF WaitsOnce
    <3> QED
      BY <2>1, <3>1
  <2>4. Waits(s)' => Waits(s)
    BY <2>1, <2>2 DEF Waits, Connects
  <2> QED
    BY <2>3, <2>4
<1>4. ASSUME NEW kind, NEW of, [kind |-> kind, of |-> of] \in Mails, Tell(kind, of),
             ~(kind = "connect" /\ of = s)
      PROVE  WaitsOnce(s)' /\ (Waits(s)' => Waits(s))
  <2> DEFINE x == [kind |-> kind, of |-> of]
  <2>1. mailbox' = Append(mailbox, x) /\ ~(x.kind = "connect" /\ x.of = s) /\ x \in Mails
    BY <1>4 DEF Tell
  <2> HIDE DEF x
  <2>2. \A i \in DOMAIN mailbox' :
          \/ i \in DOMAIN mailbox /\ mailbox'[i] = mailbox[i]
          \/ mailbox'[i] = x
    BY <1>1, <2>1, Appended
  <2>3. \A i \in DOMAIN mailbox' : Connects(i, s)' => i \in DOMAIN mailbox /\ Connects(i, s)
    BY <2>1, <2>2 DEF Connects
  <2> QED
    BY <2>3 DEF WaitsOnce, Waits, Connects
<1> QED
  BY <1>2, <1>3, <1>4

(* When its connect is handled, there is no other one.                     *)
LEMMA Connected ==
  ASSUME TypeOK, NEW s, WaitsOnce(s), mailbox # <<>>, mailbox' = Tail(mailbox),
         Head(mailbox).kind = "connect", Head(mailbox).of = s
  PROVE  ~Waits(s)' /\ Waits(s)
<1>1. mailbox \in Seq(Mails)
  BY DEF TypeOK
<1>2. 1 \in DOMAIN mailbox /\ Connects(1, s)
  BY <1>1, TailOf DEF Connects
<1>3. ASSUME NEW i \in DOMAIN mailbox', Connects(i, s)' PROVE FALSE
  <2>1. i \in Nat /\ i > 0 /\ i + 1 \in DOMAIN mailbox /\ Connects(i + 1, s)
    BY <1>1, <1>3, TailOf DEF Connects
  <2>2. i + 1 = 1
    BY <1>2, <2>1 DEF WaitsOnce
  <2> QED
    BY <2>1, <2>2
<1> QED
  BY <1>2, <1>3 DEF Waits, Connects

(* Steps that take nothing out of the tables and mail no disconnect.       *)
LEMMA LeavesSame ==
  ASSUME NEW s, Leaves(s), WaitsOnce(s)', Waits(s)' => Waits(s),
         link'[s] = link[s] \/ (link[s] # "new" /\ link'[s] # "new"),
         actor'[s] = actor[s] \/ (actor[s] # "none" /\ actor'[s] \notin {"none", "terminated"}),
         s \in dashboards' => s \in dashboards,
         \A i \in DOMAIN inbox'[s] :
           inbox'[s][i].kind \in {"disconnect", "poison"} =>
             Len(inbox'[s]) = Len(inbox[s]) /\ i \in DOMAIN inbox[s] /\ inbox'[s][i] = inbox[s][i],
         actor[s] = "none" => inbox'[s] = inbox[s],
         Cleared(s) => Cleared(s)'
  PROVE  Leaves(s)'
<1>1. ConnectsOnce(s)'
  BY DEF Leaves, ConnectsOnce
<1>2. EndsWith(s)'
  BY DEF Leaves, EndsWith
<1>3. Ended(s)'
  BY DEF Leaves, Ended
<1> QED
  BY <1>1, <1>2, <1>3 DEF Leaves

LEMMA ClearedStays ==
  ASSUME NEW s, UNCHANGED <<incarnation, routeConsumers, consumerRoutes>>
  PROVE  Cleared(s) => Cleared(s)'
BY DEF Cleared, Has, Knows

LEMMA CallbacksLeave ==
  ASSUME TypeOK, LeavingInv, NEW s \in Sessions,
         \/ onConnect(s) \/ Close(s) \/ onDisconnect(s) \/ directPublish(s)
         \/ \E t \in Topics, kind \in {"subscribe", "unsubscribe"} : onMessage(s, kind, t)
         \/ \E m \in Messages : publish(m)
  PROVE  LeavingInv'
<1> SUFFICES ASSUME NEW q \in Sessions PROVE Leaves(q)'
  BY DEF LeavingInv
<1>1. /\ UNCHANGED <<actor, inbox, dashboards, incarnation, routeConsumers, consumerRoutes>>
      /\ Leaves(q) /\ WaitsOnce(q)
  BY DEF onConnect, Close, onDisconnect, directPublish, onMessage, publish, children, routing,
         tables, LeavingInv, Leaves, ConnectsOnce
<1>2. ASSUME WaitsOnce(q)', Waits(q)' => Waits(q),
             link'[q] = link[q] \/ (link[q] # "new" /\ link'[q] # "new")
      PROVE  Leaves(q)'
  BY <1>1, <1>2, ClearedStays, LeavesSame
<1>3. CASE onConnect(s)
  <2>1. [kind |-> "connect", of |-> s] \in Mails
    BY DEF Mails
  <2>2. Tell("connect", s) /\ link[s] = "new" /\ link' = [link EXCEPT ![s] = "open"]
    BY <1>3 DEF onConnect
  <2>3. CASE q # s
    <3>1. WaitsOnce(q)' /\ (Waits(q)' => Waits(q))
      BY <1>1, <2>1, <2>2, <2>3, MailKept
    <3>2. link'[q] = link[q]
      BY <2>2, <2>3 DEF TypeOK
    <3> QED
      BY <1>2, <3>1, <3>2
  <2>4. CASE q = s
    <3> DEFINE x == [kind |-> "connect", of |-> s]
    <3>1. mailbox \in Seq(Mails) /\ mailbox' = Append(mailbox, x) /\ x \in Mails
      BY <2>1, <2>2 DEF Tell, TypeOK
    <3>2. ~Waits(s) /\ actor[s] = "none"
      BY <1>1, <2>2, <2>4 DEF Leaves, ConnectsOnce
    <3> HIDE DEF x
    <3>3. \A i \in DOMAIN mailbox' : \/ i \in DOMAIN mailbox /\ mailbox'[i] = mailbox[i]
                                     \/ i = Len(mailbox) + 1
      BY <3>1, Appended
    <3>4. \A i \in DOMAIN mailbox' : Connects(i, s)' => i = Len(mailbox) + 1
      BY <3>2, <3>3 DEF Waits, Connects
    <3>5. WaitsOnce(s)'
      BY <3>4 DEF WaitsOnce, Connects
    <3>6. link'[s] = "open"
      BY <2>2 DEF TypeOK
    <3>7. Cleared(s) => Cleared(s)'
      BY <1>1, ClearedStays
    <3>8. inbox[s] = <<>> /\ s \notin dashboards
      BY <1>1, <2>4, <3>2 DEF Leaves, ConnectsOnce
    <3> QED
      BY <1>1, <2>4, <3>2, <3>5, <3>6, <3>7, <3>8 DEF Leaves, ConnectsOnce, EndsWith, Ended
  <2> QED
    BY <2>3, <2>4
<1>4. CASE Close(s)
  <2>1. WaitsOnce(q)' /\ (Waits(q)' => Waits(q))
    BY <1>1, <1>4, MailKept DEF Close
  <2>2. link'[q] = link[q] \/ (link[q] # "new" /\ link'[q] # "new")
    BY <1>4 DEF Close, TypeOK
  <2> QED
    BY <1>2, <2>1, <2>2
<1>5. CASE onDisconnect(s)
  <2>1. [kind |-> "disconnect", of |-> s] \in Mails
    BY DEF Mails
  <2>2. WaitsOnce(q)' /\ (Waits(q)' => Waits(q))
    BY <1>1, <1>5, <2>1, MailKept DEF onDisconnect
  <2>3. link'[q] = link[q] \/ (link[q] # "new" /\ link'[q] # "new")
    BY <1>5 DEF onDisconnect, TypeOK
  <2> QED
    BY <1>2, <2>2, <2>3
<1>6. CASE directPublish(s)
  <2>1. [kind |-> "answer", of |-> s] \in Mails
    BY DEF Mails
  <2>2. WaitsOnce(q)' /\ (Waits(q)' => Waits(q)) /\ link' = link
    BY <1>1, <1>6, <2>1, MailKept DEF directPublish
  <2> QED
    BY <1>2, <2>2
<1>7. ASSUME NEW t \in Topics, NEW kind \in {"subscribe", "unsubscribe"}, onMessage(s, kind, t)
      PROVE  Leaves(q)'
  <2>1. [kind |-> kind, of |-> <<s, t>>] \in Mails
    BY DEF Mails
  <2>2. WaitsOnce(q)' /\ (Waits(q)' => Waits(q)) /\ link' = link
    BY <1>1, <1>7, <2>1, MailKept DEF onMessage
  <2> QED
    BY <1>2, <2>2
<1>8. ASSUME NEW m \in Messages, publish(m) PROVE Leaves(q)'
  <2>1. [kind |-> "publish", of |-> m] \in Mails
    BY DEF Mails
  <2>2. WaitsOnce(q)' /\ (Waits(q)' => Waits(q)) /\ link' = link
    BY <1>1, <1>8, <2>1, MailKept DEF publish
  <2> QED
    BY <1>2, <2>2
<1> QED
  BY <1>3, <1>4, <1>5, <1>6, <1>7, <1>8

(* What is forwarded to a dashboard that is in the map of the master.      *)
LEMMA ForwardLeaves ==
  ASSUME TypeOK, LeavingInv, NEW s \in Sessions, NEW kind, NEW t,
         [kind |-> kind, topic |-> t] \in Letters, Forward(s, kind, t), s \in dashboards,
         mailbox # <<>>, mailbox' = Tail(mailbox),
         UNCHANGED <<link, actor, incarnation, routeConsumers, consumerRoutes>>,
         kind # "poison", dashboards' \subseteq dashboards,
         kind = "disconnect" => s \notin dashboards'
  PROVE  LeavingInv'
<1> SUFFICES ASSUME NEW q \in Sessions PROVE Leaves(q)'
  BY DEF LeavingInv
<1> DEFINE x == [kind |-> kind, topic |-> t]
<1>1. Leaves(q) /\ (Cleared(q) => Cleared(q)')
  BY ClearedStays DEF LeavingInv
<1>2. WaitsOnce(q)' /\ (Waits(q)' => Waits(q))
  BY <1>1, MailKept DEF Leaves, ConnectsOnce
<1>3. \/ inbox'[q] = inbox[q]
      \/ q = s /\ actor[s] \in {"alive", "failed"} /\ inbox'[q] = Append(inbox[q], x)
  BY Forwarded
<1>4. CASE inbox'[q] = inbox[q]
  BY <1>1, <1>2, <1>4, LeavesSame
<1>5. CASE q = s /\ actor[s] \in {"alive", "failed"} /\ inbox'[q] = Append(inbox[q], x)
  <2>1. inbox[s] \in Seq(Letters) /\ x \in Letters /\ x.kind = kind
    BY DEF TypeOK
  <2> HIDE DEF x
  <2>2. \A i \in DOMAIN inbox[s] : inbox[s][i].kind \notin {"disconnect", "poison"}
    BY <1>1, <1>5 DEF Leaves, EndsWith
  <2>3. \A i \in DOMAIN inbox'[s] :
          \/ i \in DOMAIN inbox[s] /\ inbox'[s][i] = inbox[s][i]
          \/ i = Len(inbox[s]) + 1 /\ inbox'[s][i] = x
    BY <1>5, <2>1, Appended
  <2>4. Len(inbox'[s]) = Len(inbox[s]) + 1
    BY <1>5, <2>1, Appended
  <2>5. EndsWith(s)'
    BY <2>1, <2>2, <2>3, <2>4 DEF EndsWith
  <2>6. ConnectsOnce(s)' /\ Ended(s)'
    BY <1>1, <1>2, <1>5 DEF Leaves, ConnectsOnce, Ended
  <2> QED
    BY <1>5, <2>5, <2>6 DEF Leaves
<1> QED
  BY <1>3, <1>4, <1>5

(* Steps of the master that forward nothing.                               *)
LEMMA MasterQuiet ==
  ASSUME TypeOK, LeavingInv,
         UNCHANGED <<link, inbox, incarnation, routeConsumers, consumerRoutes>>,
         UNCHANGED mailbox \/ (mailbox # <<>> /\ mailbox' = Tail(mailbox)),
         UNCHANGED actor \/ MasterFails, dashboards' \subseteq dashboards
  PROVE  LeavingInv'
<1> SUFFICES ASSUME NEW q \in Sessions PROVE Leaves(q)'
  BY DEF LeavingInv
<1>1. Leaves(q) /\ (Cleared(q) => Cleared(q)')
  BY ClearedStays DEF LeavingInv
<1>2. WaitsOnce(q)' /\ (Waits(q)' => Waits(q))
  BY <1>1, MailKept DEF Leaves, ConnectsOnce
<1>3. actor'[q] = actor[q] \/ (actor[q] # "none" /\ actor'[q] \notin {"none", "terminated"})
  BY DEF MasterFails
<1> QED
  BY <1>1, <1>2, <1>3, LeavesSame

LEMMA MasterLeaves == ASSUME TypeOK, LeavingInv, MasterStep PROVE LeavingInv'
<1>1. CASE Connect
  <2> DEFINE s == Head(mailbox).of
  <2>1. /\ s \in Sessions /\ mailbox # <<>> /\ mailbox' = Tail(mailbox)
        /\ Head(mailbox).kind = "connect" /\ Head(mailbox).of = s
        /\ actor' = [actor EXCEPT ![s] = "alive"] /\ dashboards' = dashboards \cup {s}
        /\ UNCHANGED <<link, inbox, incarnation, routeConsumers, consumerRoutes>>
    BY <1>1, HeadMail DEF Connect, Mail, client, tables
  <2> HIDE DEF s
  <2> SUFFICES ASSUME NEW q \in Sessions PROVE Leaves(q)'
    BY DEF LeavingInv
  <2>2. Leaves(q) /\ (Cleared(q) => Cleared(q)')
    BY <2>1, ClearedStays DEF LeavingInv
  <2>3. WaitsOnce(q)' /\ (Waits(q)' => Waits(q))
    BY <2>1, <2>2, MailKept DEF Leaves, ConnectsOnce
  <2>4. CASE q # s
    <3>1. actor'[q] = actor[q]
      BY <2>1, <2>4 DEF TypeOK
    <3> QED
      BY <2>1, <2>2, <2>3, <2>4, <3>1, LeavesSame
  <2>5. CASE q = s
    <3>1. ~Waits(q)' /\ Waits(q)
      <4>1. WaitsOnce(q) /\ Head(mailbox).of = q
        BY <2>1, <2>2, <2>5 DEF Leaves, ConnectsOnce
      <4> QED
        BY <2>1, <4>1, Connected
    <3>2. link[q] # "new" /\ inbox[q] = <<>> /\ actor'[q] = "alive"
      BY <2>1, <2>2, <2>5, <3>1 DEF Leaves, ConnectsOnce, TypeOK
    <3>3. inbox'[q] = <<>> /\ link'[q] # "new"
      BY <2>1, <3>2
    <3>4. ConnectsOnce(q)'
      BY <2>3, <3>1, <3>2, <3>3 DEF ConnectsOnce
    <3>5. EndsWith(q)' /\ Ended(q)'
      BY <3>2, <3>3 DEF EndsWith, Ended
    <3> QED
      BY <3>4, <3>5 DEF Leaves
  <2> QED
    BY <2>4, <2>5
<1>2. ASSUME NEW kind \in {"subscribe", "unsubscribe"}, Propagate(kind) PROVE LeavingInv'
  <2> DEFINE s == Head(mailbox).of[1]
             t == Head(mailbox).of[2]
  <2>1. /\ s \in Sessions /\ t \in Topics /\ mailbox # <<>> /\ mailbox' = Tail(mailbox)
        /\ UNCHANGED <<link, actor, dashboards, incarnation, routeConsumers, consumerRoutes>>
    BY <1>2, HeadMail DEF Propagate, Mail, client, routing, tables
  <2>2. [kind |-> kind, topic |-> t] \in Letters
    BY <2>1 DEF Letters
  <2>3. UNCHANGED inbox \/ (s \in dashboards /\ Forward(s, kind, t))
    BY <1>2 DEF Propagate
  <2> HIDE DEF s, t
  <2> QED
    BY <2>1, <2>2, <2>3, ForwardLeaves, MasterQuiet
<1>3. CASE Disconnect
  <2> DEFINE s == Head(mailbox).of
  <2>1. /\ s \in Sessions /\ mailbox # <<>> /\ mailbox' = Tail(mailbox)
        /\ dashboards' = dashboards \ {s}
        /\ UNCHANGED <<link, actor, incarnation, routeConsumers, consumerRoutes>>
    BY <1>3, HeadMail DEF Disconnect, Mail, client, tables
  <2>2. [kind |-> "disconnect", topic |-> {}] \in Letters
    BY DEF Letters
  <2>3. UNCHANGED inbox \/ (s \in dashboards /\ Forward(s, "disconnect", {}))
    BY <1>3 DEF Disconnect
  <2> HIDE DEF s
  <2> QED
    BY <2>1, <2>2, <2>3, ForwardLeaves, MasterQuiet
<1>4. CASE DirectPublish
  <2> DEFINE s == Head(mailbox).of
  <2>1. /\ s \in Sessions /\ mailbox # <<>>
        /\ UNCHANGED <<link, dashboards, incarnation, routeConsumers, consumerRoutes>>
    BY <1>4, HeadMail DEF DirectPublish, Mail, client, tables
  <2>2. [kind |-> "answer", topic |-> {}] \in Letters
    BY DEF Letters
  <2>3. \/ /\ s \in dashboards /\ Forward(s, "answer", {}) /\ UNCHANGED actor
           /\ mailbox' = Tail(mailbox)
        \/ MasterFails /\ UNCHANGED inbox
    BY <1>4 DEF DirectPublish
  <2> HIDE DEF s
  <2>4. MasterFails => mailbox' = Tail(mailbox)
    BY DEF MasterFails
  <2> QED
    BY <2>1, <2>2, <2>3, <2>4, ForwardLeaves, MasterQuiet
<1>5. ASSUME \/ StartPublish \/ EndPublish \/ ConcurrentModification \/ RestartMaster
             \/ \E p \in routeConsumers : Visit(p)
      PROVE  LeavingInv'
  <2>1. /\ UNCHANGED <<link, dashboards, inbox, incarnation, routeConsumers, consumerRoutes>>
        /\ UNCHANGED actor \/ MasterFails
        /\ UNCHANGED mailbox \/ mailbox' = Tail(mailbox)
    BY <1>5 DEF StartPublish, EndPublish, ConcurrentModification, RestartMaster, Visit,
                tables, children, client, MasterFails
  <2>2. mailbox # <<>> \/ UNCHANGED mailbox
    BY <1>5 DEF StartPublish, EndPublish, ConcurrentModification, RestartMaster, Visit,
                Mail, TypeOK
  <2> QED
    BY <2>1, <2>2, MasterQuiet
<1> QED
  BY <1>1, <1>2, <1>3, <1>4, <1>5 DEF MasterStep

(* A step of one dashboard, as the others see it.                          *)
LEMMA OwnLeaving ==
  ASSUME TypeOK, LeavingInv, NEW s \in Sessions,
         UNCHANGED <<link, mailbox, dashboards>>,
         \A q \in Sessions \ {s} :
           UNCHANGED <<actor[q], incarnation[q], inbox[q]>> /\ (Cleared(q) => Cleared(q)'),
         ConnectsOnce(s) => ConnectsOnce(s)', EndsWith(s)', Ended(s)'
  PROVE  LeavingInv'
<1> SUFFICES ASSUME NEW q \in Sessions PROVE Leaves(q)'
  BY DEF LeavingInv
<1>1. CASE q = s
  BY <1>1 DEF LeavingInv, Leaves
<1>2. CASE q # s
  BY <1>2, LeavesSame DEF LeavingInv, Leaves, ConnectsOnce, WaitsOnce, Waits, Connects
<1> QED
  BY <1>1, <1>2

LEMMA DashboardLeaves ==
  ASSUME TypeOK, TablesInv, LeavingInv, NEW s \in Sessions, DashboardStep(s) PROVE LeavingInv'
<1> DEFINE inc == incarnation[s]
           others == \A q \in Sessions \ {s} :
                       UNCHANGED <<actor[q], incarnation[q], inbox[q]>> /\ (Cleared(q) => Cleared(q)')
<1>1. /\ DOMAIN actor = Sessions /\ DOMAIN incarnation = Sessions /\ DOMAIN inbox = Sessions
      /\ inbox[s] \in Seq(Letters) /\ inc \in Nat
      /\ Lives(s) /\ Tables(s) /\ ConnectsOnce(s) /\ EndsWith(s) /\ Ended(s)
  BY DEF TypeOK, TablesInv, LeavingInv, Leaves
<1>2. Consumer(s) = <<s, inc>>
  BY DEF Consumer
<1>3. UNCHANGED <<link, mailbox, dashboards>>
  BY DEF DashboardStep, Subscribe, Unsubscribe, UpdateSecond, RemoveAll, SendPoison, Terminate,
         RemoveRoute, Consume, RestartDashboard, StopDashboard, client, routing
<1>4. ASSUME actor[s] # "none", actor'[s] # "none" PROVE ConnectsOnce(s) => ConnectsOnce(s)'
  BY <1>3, <1>4 DEF ConnectsOnce, WaitsOnce, Waits, Connects
(* The steps of a handler that change the tables. *)
<1>5. ASSUME \/ Subscribe(s) \/ Unsubscribe(s) \/ UpdateSecond(s) \/ RemoveAll(s)
             \/ \E t \in Topics : RemoveRoute(s, t)
      PROVE  LeavingInv'
  <2>1. /\ inbox[s] # <<>> /\ Head(inbox[s]).kind # "poison" /\ UNCHANGED <<actor, incarnation>>
        /\ actor[s] \in {"alive", "stopping"}
    BY <1>1, <1>5 DEF Subscribe, Unsubscribe, UpdateSecond, RemoveAll, RemoveRoute, Handles,
                      Lives, MidHandler, TypeOK
  <2>2. \A i \in DOMAIN inbox[s] : inbox[s][i].kind # "poison"
    <3>1. inbox[s][1].kind # "poison"
      BY <1>1, <2>1, TailOf
    <3> QED
      BY <1>1, <3>1 DEF EndsWith
  <2>3. \/ UNCHANGED inbox
        \/ inbox' = [inbox EXCEPT ![s] = Tail(inbox[s])]
    BY <1>5 DEF Subscribe, Unsubscribe, UpdateSecond, RemoveAll, RemoveRoute, PopInbox
  <2>4. EndsWith(s)'
    <3>1. CASE UNCHANGED inbox
      BY <1>1, <1>3, <2>2, <3>1 DEF EndsWith
    <3>2. CASE inbox' = [inbox EXCEPT ![s] = Tail(inbox[s])]
      <4>1. /\ inbox'[s] = Tail(inbox[s]) /\ Len(inbox'[s]) = Len(inbox[s]) - 1
            /\ \A i \in DOMAIN inbox'[s] :
                 i \in Nat /\ i + 1 \in DOMAIN inbox[s] /\ inbox'[s][i] = inbox[s][i + 1]
        BY <1>1, <2>1, <3>2, TailOf
      <4>2. Len(inbox[s]) \in Nat
        BY <1>1
      <4> QED
        BY <1>1, <1>3, <2>2, <4>1, <4>2 DEF EndsWith
    <3> QED
      BY <2>3, <3>1, <3>2
  <2>5. Ended(s)'
    BY <2>1 DEF Ended
  <2>6. ASSUME NEW q \in Sessions \ {s}
        PROVE  UNCHANGED <<actor[q], incarnation[q], inbox[q]>> /\ (Cleared(q) => Cleared(q)')
    <3>1. UNCHANGED <<actor[q], incarnation[q], inbox[q]>>
      BY <1>1, <2>1, <2>3
    <3>2. ASSUME Router # "racy", NEW t \in Topics
          PROVE  /\ Has(q, incarnation[q], t)' => Has(q, incarnation[q], t)
                 /\ Knows(q, incarnation[q], t)' => Knows(q, incarnation[q], t)
      <4> DEFINE mine == {p \in consumerRoutes : p[1] = Consumer(s)}
      <4>1. /\ \/ UNCHANGED routeConsumers
               \/ \E u : routeConsumers' = routeConsumers \cup {<<u, Consumer(s)>>}
               \/ \E u : routeConsumers' = routeConsumers \ {<<u, Consumer(s)>>}
            /\ \/ UNCHANGED consumerRoutes
               \/ \E u : consumerRoutes' = consumerRoutes \cup {<<Consumer(s), u>>}
               \/ \E u : consumerRoutes' = consumerRoutes \ {<<Consumer(s), u>>}
               \/ consumerRoutes' = consumerRoutes \ mine
        <5> HIDE DEF mine
        <5>1. CASE Subscribe(s)
          <6>1. /\ routeConsumers' = routeConsumers \cup {<<Head(inbox[s]).topic, Consumer(s)>>}
                /\ UNCHANGED consumerRoutes
            BY <3>2, <5>1, Outcome DEF Subscribe, UpdateRoutes
          <6> QED
            BY <6>1
        <5>2. CASE Unsubscribe(s)
          BY <3>2, <5>2, Outcome DEF Unsubscribe, UpdateRoutes
        <5>3. CASE UpdateSecond(s)
          <6>1. consumerRoutes' = IF Head(inbox[s]).kind = "subscribe"
                  THEN consumerRoutes \cup {<<Consumer(s), Head(inbox[s]).topic>>}
                  ELSE consumerRoutes \ {<<Consumer(s), Head(inbox[s]).topic>>}
            BY <3>2, <5>3, Outcome DEF UpdateSecond
          <6> QED
            BY <5>3, <6>1 DEF UpdateSecond
        <5>4. CASE RemoveAll(s)
          BY <3>2, <5>4, Outcome DEF RemoveAll, mine
        <5>5. ASSUME NEW u \in Topics, RemoveRoute(s, u)
              PROVE  /\ routeConsumers' = routeConsumers \ {<<u, Consumer(s)>>}
                     /\ UNCHANGED consumerRoutes
          BY <3>2, <5>5, Outcome DEF RemoveRoute, UpdateRoutes
        <5> QED
          BY <1>5, <5>1, <5>2, <5>3, <5>4, <5>5
      <4>2. \A k : <<q, k>> # Consumer(s)
        BY DEF Consumer
      <4>3. \A k, u : /\ <<t, <<q, k>>>> # <<u, Consumer(s)>>
                      /\ <<<<q, k>>, t>> # <<Consumer(s), u>>
        BY <4>2
      <4> QED
        BY <3>1, <4>1, <4>3 DEF Has, Knows
    <3> QED
      BY <3>1, <3>2 DEF Cleared
  <2> QED
    BY <1>3, <1>4, <2>1, <2>4, <2>5, <2>6, OwnLeaving
<1>6. ASSUME UNCHANGED <<incarnation, routeConsumers, consumerRoutes>>,
             \A q \in Sessions \ {s} : UNCHANGED <<actor[q], inbox[q]>>
      PROVE  others
  BY <1>1, <1>6, ClearedStays
<1>7. CASE SendPoison(s)
  <2> DEFINE x == [kind |-> "poison", topic |-> {}]
  <2>1. /\ step[s] = "remove" /\ leaving[s] = {}
        /\ inbox' = [inbox EXCEPT ![s] = Append(Tail(inbox[s]), x)]
        /\ UNCHANGED <<actor, incarnation, routeConsumers, consumerRoutes>>
    BY <1>7 DEF SendPoison, tables
  <2>2. inbox[s] # <<>> /\ Head(inbox[s]).kind = "disconnect" /\ actor[s] # "none"
    BY <1>1, <2>1 DEF TypeOK, Lives, MidHandler
  <2>3. Len(inbox[s]) = 1 /\ s \notin dashboards
    BY <1>1, <2>2, TailOf DEF EndsWith
  <2>4. Tail(inbox[s]) \in Seq(Letters) /\ Len(Tail(inbox[s])) = 0
    BY <1>1, <2>2, <2>3, TailOf, HeadLetter
  <2>5. Len(inbox'[s]) = 1 /\ DOMAIN inbox'[s] = {1}
    <3>1. x \in Letters
      BY DEF Letters
    <3>2. inbox'[s] = Append(Tail(inbox[s]), x)
      BY <1>1, <2>1
    <3> HIDE DEF x
    <3>3. inbox'[s] \in Seq(Letters) /\ Len(inbox'[s]) = 0 + 1
      BY <2>4, <3>1, <3>2, Appended
    <3> QED
      BY <3>3
  <2>6. Cleared(s)
    BY <1>1, <2>1 DEF Tables, Present, Cleared
  <2>7. Cleared(s)'
    BY <2>1, <2>6, ClearedStays
  <2>8. EndsWith(s)'
    BY <1>3, <2>3, <2>5, <2>7 DEF EndsWith
  <2>9. others /\ Ended(s)'
    BY <1>1, <1>6, <2>1, <2>7 DEF Ended
  <2> QED
    BY <1>3, <1>4, <2>1, <2>2, <2>8, <2>9, OwnLeaving
<1>8. CASE Terminate(s) \/ StopDashboard(s)
  <2>1. /\ inbox' = [inbox EXCEPT ![s] = <<>>]
        /\ \/ actor' = [actor EXCEPT ![s] = "terminated"] /\ Handles(s, "poison")
           \/ actor' = [actor EXCEPT ![s] = "stopped"]
        /\ actor[s] # "none"
        /\ UNCHANGED <<incarnation, routeConsumers, consumerRoutes>>
    BY <1>8 DEF Terminate, StopDashboard, Handles, tables
  <2>2. EndsWith(s)'
    BY <1>1, <2>1 DEF EndsWith
  <2>3. Ended(s)'
    <3>1. Handles(s, "poison") => Cleared(s)
      BY <1>1, TailOf DEF Handles, EndsWith
    <3> QED
      BY <1>1, <2>1, <3>1, ClearedStays DEF Ended
  <2>4. others /\ actor'[s] # "none"
    BY <1>1, <1>6, <2>1
  <2> QED
    BY <1>3, <1>4, <2>1, <2>2, <2>3, <2>4, OwnLeaving
<1>9. CASE Consume(s)
  <2>1. /\ actor[s] = "alive" /\ inbox[s] # <<>> /\ Head(inbox[s]).kind = "answer"
        /\ inbox' = [inbox EXCEPT ![s] = Tail(inbox[s])]
        /\ \E a \in {"alive", "failed"} : actor' = [actor EXCEPT ![s] = a]
        /\ UNCHANGED <<incarnation, routeConsumers, consumerRoutes>>
    BY <1>9 DEF Consume, Handles, PopInbox, tables
  <2>2. EndsWith(s)'
    <3>1. /\ inbox'[s] = Tail(inbox[s]) /\ Len(inbox'[s]) = Len(inbox[s]) - 1
          /\ inbox[s][1].kind = "answer" /\ Len(inbox[s]) \in Nat
          /\ \A i \in DOMAIN inbox'[s] : /\ i \in Nat /\ i > 0 /\ i + 1 \in DOMAIN inbox[s]
                                         /\ inbox'[s][i] = inbox[s][i + 1]
      BY <1>1, <2>1, TailOf
    <3> QED
      BY <1>1, <1>3, <3>1 DEF EndsWith
  <2>3. others /\ actor'[s] \notin {"none", "terminated"}
    BY <1>1, <1>6, <2>1
  <2> QED
    BY <1>3, <1>4, <2>1, <2>2, <2>3, OwnLeaving DEF Ended
<1>10. CASE RestartDashboard(s)
  <2>1. /\ actor[s] = "failed" /\ actor' = [actor EXCEPT ![s] = "alive"]
        /\ incarnation' = [incarnation EXCEPT ![s] = inc + 1]
        /\ UNCHANGED <<inbox, routeConsumers, consumerRoutes>>
    BY <1>10 DEF RestartDashboard, tables
  <2>2. Cleared(s)'
    <3>1. Router # "racy" => \A t \in Topics : ~Has(s, inc + 1, t) /\ ~Knows(s, inc + 1, t)
      BY <1>1 DEF Tables, Restarts
    <3> QED
      BY <1>1, <2>1, <3>1 DEF Cleared, Has, Knows
  <2>3. EndsWith(s)'
    BY <1>1, <1>3, <2>1, <2>2 DEF EndsWith
  <2>4. others
    BY <1>1, <2>1 DEF Cleared, Has, Knows
  <2>5. Ended(s)' /\ actor'[s] # "none"
    BY <1>1, <2>1, <2>2 DEF Ended
  <2> QED
    BY <1>3, <1>4, <2>1, <2>3, <2>4, <2>5, OwnLeaving
<1> QED
  BY <1>5, <1>7, <1>8, <1>9, <1>10 DEF DashboardStep

LEMMA LeavingNext == TypeOK /\ TablesInv /\ LeavingInv /\ [Next]_vars => LeavingInv'
<1> SUFFICES ASSUME TypeOK, TablesInv, LeavingInv, [Next]_vars PROVE LeavingInv'
  OBVIOUS
<1>1. ASSUME UNCHANGED vars \/ \E t \in Topics : Expire(t) PROVE LeavingInv'
  <2>1. UNCHANGED <<link, inbox, incarnation, routeConsumers, consumerRoutes, mailbox, actor,
                    dashboards>>
    BY <1>1 DEF Expire, vars, client, routing, children
  <2> QED
    BY <2>1, MasterQuiet
<1>2. ASSUME NEW m \in Messages, publish(m) PROVE LeavingInv'
  <2>1. CASE Sessions = {}
    BY <2>1 DEF LeavingInv
  <2>2. CASE Sessions # {}
    BY <1>2, <2>2, CallbacksLeave
  <2> QED
    BY <2>1, <2>2
<1> QED
  BY <1>1, <1>2, CallbacksLeave, MasterLeaves, DashboardLeaves DEF Next

LEMMA LeavingInit == Init => LeavingInv
<1> SUFFICES ASSUME Init, NEW s \in Sessions PROVE Leaves(s)
  BY DEF LeavingInv
<1>1. /\ mailbox = <<>> /\ link[s] = "new" /\ actor[s] = "none" /\ inbox[s] = <<>>
      /\ dashboards = {}
  BY DEF Init
<1> QED
  BY <1>1 DEF Leaves, ConnectsOnce, WaitsOnce, Waits, EndsWith, Ended

(* A session that has gone through its disconnect has left nothing of its  *)
(* last consumer in the router, whatever was published, answered and       *)
(* restarted in the meantime, unless the multimaps lose updates.           *)
THEOREM NothingIsLeft == Spec => [](Router # "racy" => LeavesNothing)
<1>1. TypeOK /\ LeavingInv => (Router # "racy" => LeavesNothing)
  <2> SUFFICES ASSUME TypeOK, LeavingInv, Router # "racy", NEW s \in Sessions,
                      actor[s] = "terminated"
               PROVE  /\ \A p \in routeConsumers : p[2] # Consumer(s)
                      /\ \A p \in consumerRoutes : p[1] # Consumer(s)
    BY DEF LeavesNothing
  <2>1. \A t \in Topics : /\ <<t, Consumer(s)>> \notin routeConsumers
                          /\ <<Consumer(s), t>> \notin consumerRoutes
    BY DEF LeavingInv, Leaves, Ended, Cleared, Has, Knows, Consumer
  <2>2. routeConsumers \subseteq Topics \X Consumers /\ consumerRoutes \subseteq Consumers \X Topics
    BY DEF TypeOK
  <2>3. /\ \A p \in Topics \X Consumers : p[1] \in Topics /\ p = <<p[1], p[2]>>
        /\ \A p \in Consumers \X Topics : p[2] \in Topics /\ p = <<p[1], p[2]>>
    OBVIOUS
  <2>4. ASSUME NEW p \in routeConsumers PROVE p[2] # Consumer(s)
    <3>1. p[1] \in Topics /\ p = <<p[1], p[2]>>
      BY <2>2, <2>3
    <3> QED
      BY <2>1, <3>1, Zenon
  <2>5. ASSUME NEW p \in consumerRoutes PROVE p[1] # Consumer(s)
    <3>1. p[2] \in Topics /\ p = <<p[1], p[2]>>
      BY <2>2, <2>3
    <3> QED
      BY <2>1, <3>1, Zenon
  <2> QED
    BY <2>4, <2>5
<1> QED
  BY <1>1, TypedInit, TypedNext, TablesInit, TablesNext, LeavingInit, LeavingNext, PTL DEF Spec
-----------------------------------------------------------------------------
(* The order and the hierarchy of what is delivered. *)

(* Event m is at place i of the mailbox of the master.                     *)
Waiting(i, m) == i \in DOMAIN mailbox /\ mailbox[i].kind = "publish" /\ mailbox[i].of = m

(* The event that is being published.                                      *)
Current(m) == master = "publishing" /\ Waiting(1, m)

(* The events wait for the master in the order of the message bus.         *)
Queue ==
  \A i \in Nat : \A m \in Messages : Waiting(i, m) =>
    /\ m \in ToSet(bus)
    /\ \A j \in Nat : \A n \in Messages : i < j /\ Waiting(j, n) => Before(m, n)

(* The master has handled the event, or is doing so: it came before all    *)
(* that wait.                                                              *)
Handled(m) ==
  /\ m \in ToSet(bus)
  /\ \A i \in Nat : \A n \in Messages :
       Waiting(i, n) => Before(m, n) \/ (i = 1 /\ Current(m))

(* The event descends from one that matches, as FollowsHierarchy has it.   *)
OnLine(t, e) ==
  \E line \in SUBSET ToSet(bus) :
    /\ e \in line
    /\ \A m \in line : <<t, m>> \in Matching \/ (Parent[m] \in line /\ Before(Parent[m], m))

CacheInv == \A t \in Topics : \A m \in eventIdCache[t] : Handled(m) /\ OnLine(t, m)

(* The i-th thing that session s was sent is event e, for subscription p.  *)
Gets(s, i, e, p) ==
  i \in DOMAIN delivered[s] /\ delivered[s][i].event = e /\ delivered[s][i].sub = p

GivenInv ==
  \A s \in Sessions : \A i \in Nat : \A e \in Messages : \A p \in Topics \X Consumers :
    Gets(s, i, e, p) => Handled(e) /\ OnLine(p[1], e) /\ (Current(e) => p \in visited)

InOrder ==
  \A s \in Sessions : \A i \in Nat, j \in Nat : \A d \in Messages, e \in Messages :
    \A p \in Topics \X Consumers, q \in Topics \X Consumers :
      Gets(s, i, d, p) /\ Gets(s, j, e, q) /\ i < j => Before(d, e) \/ (d = e /\ p # q)

OrderInv == IsInjective(bus) /\ Queue /\ CacheInv /\ GivenInv /\ InOrder

LEMMA NotBeforeItself == ASSUME TypeOK, IsInjective(bus), NEW m PROVE ~Before(m, m)
<1>1. bus \in Seq(Messages)
  BY DEF TypeOK
<1>2. DOMAIN bus = 1..Len(bus)
  BY <1>1
<1> QED
  BY <1>2 DEF Before, IsInjective

(* What is on the bus stays so, and the order too.                         *)
LEMMA BusGrows ==
  ASSUME TypeOK, NEW m \in Messages, bus' = Append(bus, m), m \notin ToSet(bus), IsInjective(bus)
  PROVE  /\ IsInjective(bus)' /\ ToSet(bus)' = ToSet(bus) \cup {m}
         /\ \A x, y : Before(x, y) => Before(x, y)'
         /\ \A x \in ToSet(bus) : Before(x, m)'
<1> DEFINE n == Len(bus)
<1>1. bus \in Seq(Messages) /\ n \in Nat /\ DOMAIN bus = 1..n
  BY DEF TypeOK
<1>2. /\ bus' \in Seq(Messages) /\ Len(bus') = n + 1 /\ DOMAIN bus' = 1..(n + 1)
      /\ \A i \in 1..n : bus'[i] = bus[i]
      /\ bus'[n + 1] = m
  BY <1>1
<1>3. \A i \in 1..n : bus[i] # m
  BY <1>1 DEF ToSet
<1> HIDE DEF n
<1>4. \A i \in 1..(n + 1) : i \in 1..n \/ i = n + 1
  BY <1>1
<1>5. IsInjective(bus')
  <2> SUFFICES ASSUME NEW a \in 1..(n + 1), NEW b \in 1..(n + 1), bus'[a] = bus'[b]
               PROVE  a = b
    BY <1>2 DEF IsInjective
  <2>1. CASE a \in 1..n /\ b \in 1..n
    BY <1>1, <1>2, <2>1 DEF IsInjective
  <2>2. CASE ~(a \in 1..n /\ b \in 1..n)
    BY <1>2, <1>3, <1>4, <2>2
  <2> QED
    BY <2>1, <2>2
<1>6. ToSet(bus)' = ToSet(bus) \cup {m}
  <2>1. \A i \in 1..n : i \in 1..(n + 1)
    BY <1>1
  <2>2. n + 1 \in 1..(n + 1)
    BY <1>1
  <2>3. ToSet(bus)' = {bus'[i] : i \in 1..(n + 1)} /\ ToSet(bus) = {bus[i] : i \in 1..n}
    BY <1>1, <1>2 DEF ToSet
  <2> QED
    BY <1>2, <1>4, <2>1, <2>2, <2>3
<1>7. ASSUME NEW x, NEW y, Before(x, y) PROVE Before(x, y)'
  <2>1. PICK i \in 1..n, j \in 1..n : i < j /\ bus[i] = x /\ bus[j] = y
    BY <1>7 DEF Before, n
  <2>2. i \in 1..(n + 1) /\ j \in 1..(n + 1) /\ bus'[i] = x /\ bus'[j] = y
    BY <1>1, <1>2, <2>1
  <2> QED
    BY <1>2, <2>1, <2>2 DEF Before
<1>8. ASSUME NEW x \in ToSet(bus) PROVE Before(x, m)'
  <2>1. PICK i \in 1..n : bus[i] = x
    BY <1>1 DEF ToSet
  <2>2. i \in 1..(n + 1) /\ n + 1 \in 1..(n + 1) /\ i < n + 1 /\ bus'[i] = x
    BY <1>1, <1>2, <2>1
  <2> QED
    BY <1>2, <2>2 DEF Before
<1> QED
  BY <1>5, <1>6, <1>7, <1>8

(* What is accepted while it is being published has its line.              *)
LEMMA Accepted ==
  ASSUME TypeOK, OrderInv, NEW t \in Topics, NEW m \in Messages, Current(m), Accepts(t, m)
  PROVE  Handled(m) /\ OnLine(t, m)
<1>1. m \in ToSet(bus)
  BY DEF Current, OrderInv, Queue
<1>2. Handled(m)
  <2> SUFFICES ASSUME NEW i \in Nat, NEW n \in Messages, Waiting(i, n)
               PROVE  Before(m, n) \/ (i = 1 /\ Current(m))
    BY <1>1 DEF Handled
  <2>1. i \in DOMAIN mailbox /\ mailbox \in Seq(Mails)
    BY DEF Waiting, TypeOK
  <2>2. i = 1 \/ 1 < i
    BY <2>1
  <2> QED
    BY <2>2 DEF OrderInv, Queue, Current
<1>3. CASE <<t, m>> \in Matching
  <2>1. /\ {m} \in SUBSET ToSet(bus) /\ m \in {m}
        /\ \A x \in {m} : <<t, x>> \in Matching
    BY <1>1, <1>3
  <2> QED
    BY <1>2, <2>1 DEF OnLine
<1>4. CASE Parent[m] \in eventIdCache[t]
  <2>1. Handled(Parent[m]) /\ OnLine(t, Parent[m])
    BY <1>4 DEF OrderInv, CacheInv
  <2>2. Before(Parent[m], m) \/ Parent[m] = m
    BY <2>1 DEF Handled, Current, Waiting
  <2>3. CASE Before(Parent[m], m)
    <3>1. PICK line \in SUBSET ToSet(bus) :
            /\ Parent[m] \in line
            /\ \A x \in line : <<t, x>> \in Matching \/ (Parent[x] \in line /\ Before(Parent[x], x))
      BY <2>1 DEF OnLine
    <3>2. line \cup {m} \in SUBSET ToSet(bus)
      BY <1>1
    <3>3. \A x \in line \cup {m} :
            <<t, x>> \in Matching \/ (Parent[x] \in line \cup {m} /\ Before(Parent[x], x))
      BY <2>3, <3>1
    <3> QED
      BY <1>2, <3>2, <3>3 DEF OnLine
  <2> QED
    BY <1>2, <2>1, <2>2, <2>3
<1> QED
  BY <1>3, <1>4 DEF Accepts

(* What stays when the bus does not change, or grows.                      *)
LEMMA LinesStay ==
  ASSUME \A x, y : Before(x, y) => Before(x, y)', ToSet(bus) \subseteq ToSet(bus)'
  PROVE  \A t, e : OnLine(t, e) => OnLine(t, e)'
BY DEF OnLine

(* Steps after which no event is handled that was not, and nothing is      *)
(* delivered.                                                              *)
LEMMA NothingGiven ==
  ASSUME OrderInv, IsInjective(bus)', Queue',
         \A x, y : Before(x, y) => Before(x, y)', ToSet(bus) \subseteq ToSet(bus)',
         \A x : Handled(x) => Handled(x)',
         \A t \in Topics : \A m \in eventIdCache'[t] :
           m \in eventIdCache[t] \/ (Handled(m) /\ OnLine(t, m)),
         UNCHANGED delivered,
         \A m \in Messages : Handled(m) /\ Current(m)' => Current(m) /\ UNCHANGED visited
  PROVE  OrderInv'
<1>1. \A t, e : OnLine(t, e) => OnLine(t, e)'
  BY LinesStay
<1>2. CacheInv'
  BY <1>1 DEF OrderInv, CacheInv
<1>3. \A s, i, e, p : Gets(s, i, e, p)' <=> Gets(s, i, e, p)
  BY DEF Gets
<1>4. GivenInv'
  <2> SUFFICES ASSUME NEW s \in Sessions, NEW i \in Nat, NEW e \in Messages,
                      NEW p \in Topics \X Consumers, Gets(s, i, e, p)'
               PROVE  Handled(e)' /\ OnLine(p[1], e)' /\ (Current(e)' => p \in visited')
    BY DEF GivenInv
  <2>1. Handled(e) /\ OnLine(p[1], e) /\ (Current(e) => p \in visited)
    BY <1>3 DEF OrderInv, GivenInv
  <2> QED
    BY <1>1, <2>1
<1>5. InOrder'
  BY <1>3 DEF OrderInv, InOrder
<1> QED
  BY <1>2, <1>4, <1>5 DEF OrderInv

(* Steps that publish nothing and finish nothing.                          *)
LEMMA OrderQuiet ==
  ASSUME TypeOK, OrderInv, UNCHANGED <<bus, delivered>>,
         \A t \in Topics : eventIdCache'[t] \subseteq eventIdCache[t],
         \A i \in Nat : \A m \in Messages : Waiting(i, m)' <=> Waiting(i, m),
         UNCHANGED <<master, visited>> \/ master # "publishing"
  PROVE  OrderInv'
<1>1. \A x, y : Before(x, y)' <=> Before(x, y)
  BY DEF Before
<1>2. Queue' /\ IsInjective(bus)'
  BY <1>1 DEF OrderInv, Queue
<1>3. \A x : Handled(x) => Handled(x)'
  <2> SUFFICES ASSUME NEW x, Handled(x), NEW i \in Nat, NEW n \in Messages, Waiting(i, n)
               PROVE  Before(x, n) \/ (i = 1 /\ Current(x) /\ Current(x)')
    BY <1>1 DEF Handled
  <2>1. Before(x, n) \/ (i = 1 /\ Current(x))
    BY DEF Handled
  <2>2. i = 1 /\ Current(x) => x = n /\ UNCHANGED master
    BY DEF Current, Waiting
  <2> QED
    BY <2>1, <2>2 DEF Current
<1>4. ASSUME NEW m \in Messages, Handled(m), Current(m)' PROVE Current(m) /\ UNCHANGED visited
  <2>1. Waiting(1, m)
    BY <1>4 DEF Current
  <2>2. CASE master # "publishing"
    <3>1. Before(m, m)
      BY <1>4, <2>1, <2>2 DEF Handled, Current
    <3> QED
      BY <3>1, NotBeforeItself DEF OrderInv
  <2>3. CASE UNCHANGED <<master, visited>>
    BY <1>4, <2>1, <2>3 DEF Current
  <2> QED
    BY <2>2, <2>3
<1> QED
  BY <1>1, <1>2, <1>3, <1>4, NothingGiven

(* The head of the mailbox is done with; the event may still have come     *)
(* into a hierarchy.                                                       *)
LEMMA OrderPopped ==
  ASSUME TypeOK, OrderInv, UNCHANGED <<bus, delivered>>,
         mailbox # <<>>, mailbox' = Tail(mailbox), master' # "publishing",
         \A t \in Topics : \A m \in eventIdCache'[t] :
           m \in eventIdCache[t] \/ (Handled(m) /\ OnLine(t, m))
  PROVE  OrderInv'
<1>1. \A x, y : Before(x, y)' <=> Before(x, y)
  BY DEF Before
<1>2. \A i \in Nat : \A m : Waiting(i, m)' => Waiting(i + 1, m) /\ i + 1 # 1
  <2>1. mailbox \in Seq(Mails)
    BY DEF TypeOK
  <2>2. \A i \in DOMAIN mailbox' : /\ i \in Nat /\ i > 0 /\ i + 1 \in DOMAIN mailbox
                                    /\ mailbox'[i] = mailbox[i + 1]
    BY <2>1, TailOf
  <2> QED
    BY <2>2 DEF Waiting
<1>3. \A m : ~Current(m)'
  BY DEF Current
<1>4. Queue'
  <2> SUFFICES ASSUME NEW i \in Nat, NEW m \in Messages, Waiting(i, m)'
               PROVE  /\ m \in ToSet(bus)
                      /\ \A j \in Nat : \A n \in Messages :
                           i < j /\ Waiting(j, n)' => Before(m, n)
    BY <1>1 DEF Queue
  <2>1. Waiting(i + 1, m) /\ i + 1 \in Nat
    BY <1>2
  <2>2. \A j \in Nat : \A n \in Messages : i + 1 < j /\ Waiting(j, n) => Before(m, n)
    BY <2>1 DEF OrderInv, Queue
  <2>3. ASSUME NEW j \in Nat, NEW n \in Messages, i < j, Waiting(j, n)' PROVE Before(m, n)
    <3>1. Waiting(j + 1, n) /\ j + 1 \in Nat /\ i + 1 < j + 1
      BY <1>2, <2>3
    <3> QED
      BY <2>2, <3>1
  <2> QED
    BY <2>1, <2>3 DEF OrderInv, Queue
<1>5. \A x : Handled(x) => Handled(x)'
  <2> SUFFICES ASSUME NEW x, Handled(x), NEW i \in Nat, NEW n \in Messages, Waiting(i, n)'
               PROVE  Before(x, n)
    BY <1>1 DEF Handled
  <2>1. Waiting(i + 1, n) /\ i + 1 \in Nat /\ i + 1 # 1
    BY <1>2
  <2> QED
    BY <2>1 DEF Handled
<1> QED
  BY <1>1, <1>3, <1>4, <1>5, NothingGiven DEF OrderInv

(* An event comes from the bus.                                            *)
LEMMA OrderPublish ==
  ASSUME TypeOK, OrderInv, NEW m \in Messages, publish(m) PROVE OrderInv'
<1> DEFINE x == [kind |-> "publish", of |-> m]
           n == Len(mailbox)
<1>1. /\ m \notin ToSet(bus) /\ bus' = Append(bus, m) /\ mailbox' = Append(mailbox, x)
      /\ UNCHANGED <<master, visited, eventIdCache, delivered>>
  BY DEF publish, Tell, routing, tables, output
<1>2. mailbox \in Seq(Mails) /\ x \in Mails /\ x.kind = "publish" /\ x.of = m
  BY DEF TypeOK, Mails
<1>3. /\ IsInjective(bus)' /\ ToSet(bus)' = ToSet(bus) \cup {m}
      /\ \A y, z : Before(y, z) => Before(y, z)'
      /\ \A y \in ToSet(bus) : Before(y, m)'
  BY <1>1, BusGrows DEF OrderInv
<1> HIDE DEF x
<1>4. n \in Nat /\ DOMAIN mailbox = 1..n
  BY <1>2
<1>5. /\ DOMAIN mailbox' = DOMAIN mailbox \cup {n + 1} /\ mailbox'[n + 1] = x
      /\ \A i \in DOMAIN mailbox : mailbox'[i] = mailbox[i]
  BY <1>1, <1>2, Appended
<1> HIDE DEF n
<1>6. \A i \in Nat : \A y : Waiting(i, y)' <=> Waiting(i, y) \/ (i = n + 1 /\ y = m)
  <2>1. n + 1 \notin DOMAIN mailbox
    BY <1>4
  <2> QED
    BY <1>2, <1>5, <2>1 DEF Waiting
<1>7. \A i \in Nat : \A y : Waiting(i, y) => i <= n
  BY <1>4 DEF Waiting
<1>8. \A y : Current(y) <=> Current(y)'
  <2>1. master = "publishing" => 1 \in DOMAIN mailbox
    BY TailOf DEF TypeOK
  <2>2. master = "publishing" => n + 1 # 1
    BY <1>4, <2>1
  <2> QED
    BY <1>1, <1>6, <2>2 DEF Current
<1>9. \A y : Handled(y) => Handled(y)'
  BY <1>3, <1>6, <1>8 DEF Handled
<1>10. Queue'
  <2> SUFFICES ASSUME NEW i \in Nat, NEW y \in Messages, Waiting(i, y)'
               PROVE  /\ y \in ToSet(bus)'
                      /\ \A j \in Nat : \A z \in Messages :
                           i < j /\ Waiting(j, z)' => Before(y, z)'
    BY DEF Queue
  <2>1. CASE Waiting(i, y)
    <3>1. y \in ToSet(bus) /\ \A j \in Nat : \A z \in Messages :
                                 i < j /\ Waiting(j, z) => Before(y, z)
      BY <2>1 DEF OrderInv, Queue
    <3> QED
      BY <1>3, <1>6, <3>1
  <2>2. CASE i = n + 1 /\ y = m
    <3>1. \A j \in Nat : i < j => ~(j <= n) /\ j # n + 1
      BY <1>4, <2>2
    <3> QED
      BY <1>3, <1>6, <1>7, <2>2, <3>1
  <2> QED
    BY <1>6, <2>1, <2>2
<1>11. ASSUME NEW y \in Messages, Current(y)' PROVE Current(y) /\ UNCHANGED visited
  BY <1>1, <1>8, <1>11
<1> QED
  BY <1>1, <1>3, <1>9, <1>10, <1>11, NothingGiven

(* The event goes to the next subscription.                                *)
LEMMA OrderVisit ==
  ASSUME TypeOK, OrderInv, NEW p \in routeConsumers, Visit(p) PROVE OrderInv'
<1> DEFINE s == p[2][1]
<1>1. p \in Topics \X Consumers /\ p[1] \in Topics /\ s \in Sessions
  BY DEF TypeOK, Consumers
<1>2. /\ mailbox # <<>> /\ Head(mailbox).kind = "publish" /\ Head(mailbox).of \in Messages
      /\ mailbox \in Seq(Mails)
  BY HeadMail DEF Visit, TypeOK
<1>3. PICK m \in Messages : m = Head(mailbox).of
  BY <1>2
<1>4. Current(m) /\ Waiting(1, m)
  BY <1>2, <1>3, TailOf DEF Current, Waiting, Visit
<1>5. p \notin visited /\ Accepts(p[1], m)
  BY <1>3 DEF Visit, ToVisit
<1>6. Handled(m) /\ OnLine(p[1], m)
  BY <1>1, <1>4, <1>5, Accepted
<1> DEFINE d == [event |-> m, sub |-> p]
<1>7. /\ eventIdCache' = [eventIdCache EXCEPT ![p[1]] = @ \cup {m}] /\ UNCHANGED bus
      /\ \/ /\ delivered' = [delivered EXCEPT ![s] = Append(@, d)]
            /\ visited' = visited \cup {p}
            /\ UNCHANGED <<master, mailbox>>
         \/ /\ visited' = visited \cup {p}
            /\ UNCHANGED <<master, mailbox, delivered>>
         \/ MasterFails /\ UNCHANGED delivered
  BY <1>3 DEF Visit, client
<1>8. \A t \in Topics : \A e \in eventIdCache'[t] :
        e \in eventIdCache[t] \/ (Handled(e) /\ OnLine(t, e))
  BY <1>6, <1>7 DEF TypeOK
<1>9. CASE MasterFails /\ UNCHANGED delivered
  BY <1>2, <1>7, <1>8, <1>9, OrderPopped DEF MasterFails
<1>10. CASE visited' = visited \cup {p} /\ UNCHANGED <<master, mailbox>>
  <2>1. \A x, y : Before(x, y)' <=> Before(x, y)
    BY <1>7 DEF Before
  <2>2. \A i, x : (Waiting(i, x)' <=> Waiting(i, x)) /\ (Current(x)' <=> Current(x))
    BY <1>10 DEF Waiting, Current
  <2>3. \A x : Handled(x)' <=> Handled(x)
    BY <1>7, <2>1, <2>2 DEF Handled
  <2>4. \A t, e : OnLine(t, e) => OnLine(t, e)'
    BY <1>7, <2>1, LinesStay
  <2>5. Queue' /\ IsInjective(bus)'
    BY <1>7, <2>1, <2>2 DEF OrderInv, Queue
  <2>6. CacheInv'
    BY <1>8, <2>3, <2>4 DEF OrderInv, CacheInv
  <2>7. \A q \in Sessions : \A i \in Nat : \A e, r :
          Gets(q, i, e, r)' => \/ Gets(q, i, e, r)
                               \/ q = s /\ e = m /\ r = p /\ i = Len(delivered[q]) + 1
    <3>1. CASE UNCHANGED delivered
      BY <3>1 DEF Gets
    <3>2. CASE delivered' = [delivered EXCEPT ![s] = Append(@, d)]
      <4> DEFINE D == [event : Messages, sub : Topics \X Consumers]
      <4>1. delivered \in [Sessions -> Seq(D)] /\ d \in D
        BY <1>1 DEF TypeOK
      <4>2. d.event = m /\ d.sub = p
        OBVIOUS
      <4> HIDE DEF d, D, s
      <4>3. /\ delivered[s] \in Seq(D) /\ delivered'[s] = Append(delivered[s], d)
            /\ \A q \in Sessions \ {s} : delivered'[q] = delivered[q]
        BY <1>1, <3>2, <4>1
      <4>4. \A i \in DOMAIN delivered'[s] :
              \/ i \in DOMAIN delivered[s] /\ delivered'[s][i] = delivered[s][i]
              \/ delivered'[s][i] = d /\ i = Len(delivered[s]) + 1
        BY <4>1, <4>3, Appended
      <4>5. ASSUME NEW q \in Sessions \ {s}
            PROVE  \A i \in Nat : \A e, r : Gets(q, i, e, r)' => Gets(q, i, e, r)
        BY <4>3 DEF Gets
      <4>6. \A i \in Nat : \A e, r :
              Gets(s, i, e, r)' => \/ Gets(s, i, e, r)
                                   \/ e = m /\ r = p /\ i = Len(delivered[s]) + 1
        BY <4>2, <4>4 DEF Gets
      <4> QED
        BY <4>5, <4>6
    <3> QED
      BY <1>7, <3>1, <3>2
  <2>8. GivenInv'
    <3> SUFFICES ASSUME NEW q \in Sessions, NEW i \in Nat, NEW e \in Messages,
                        NEW r \in Topics \X Consumers, Gets(q, i, e, r)'
                 PROVE  Handled(e) /\ OnLine(r[1], e) /\ (Current(e) => r \in visited')
      BY <2>2, <2>3, <2>4 DEF GivenInv
    <3>1. CASE Gets(q, i, e, r)
      BY <1>10, <3>1 DEF OrderInv, GivenInv
    <3>2. CASE e = m /\ r = p
      BY <1>6, <1>10, <3>2
    <3> QED
      BY <2>7, <3>1, <3>2
  <2>9. InOrder'
    <3> SUFFICES ASSUME NEW q \in Sessions, NEW i \in Nat, NEW j \in Nat,
                        NEW e \in Messages, NEW f \in Messages,
                        NEW r \in Topics \X Consumers, NEW u \in Topics \X Consumers,
                        Gets(q, i, e, r)', Gets(q, j, f, u)', i < j
                 PROVE  Before(e, f) \/ (e = f /\ r # u)
      BY <2>1 DEF InOrder
    <3>1. CASE Gets(q, i, e, r) /\ Gets(q, j, f, u)
      BY <3>1 DEF OrderInv, InOrder
    <3>2. CASE Gets(q, i, e, r) /\ f = m /\ u = p
      <4>1. Handled(e) /\ (Current(e) => r \in visited)
        BY <3>2 DEF OrderInv, GivenInv
      <4>2. Before(e, m) \/ (Current(e) /\ e = m)
        BY <1>4, <4>1 DEF Handled, Current, Waiting
      <4> QED
        BY <1>5, <3>2, <4>1, <4>2
    <3>3. CASE Gets(q, j, f, u) /\ i = Len(delivered[q]) + 1
      <4>1. delivered[q] \in Seq([event : Messages, sub : Topics \X Consumers])
        BY DEF TypeOK
      <4>2. j \in 1..Len(delivered[q]) /\ Len(delivered[q]) \in Nat
        BY <3>3, <4>1 DEF Gets
      <4> QED
        BY <3>3, <4>2
    <3> QED
      BY <2>7, <3>1, <3>2, <3>3
  <2> QED
    BY <2>5, <2>6, <2>8, <2>9 DEF OrderInv
<1> QED
  BY <1>7, <1>9, <1>10

(* A callback other than publish puts mail behind the events.              *)
LEMMA OrderTold ==
  ASSUME TypeOK, OrderInv, NEW kind, NEW of, [kind |-> kind, of |-> of] \in Mails,
         kind # "publish", Tell(kind, of),
         UNCHANGED <<bus, delivered, eventIdCache, master, visited>>
  PROVE  OrderInv'
<1> DEFINE x == [kind |-> kind, of |-> of]
<1>1. mailbox \in Seq(Mails) /\ x \in Mails /\ x.kind # "publish" /\ mailbox' = Append(mailbox, x)
  BY DEF TypeOK, Tell
<1> HIDE DEF x
<1>2. /\ DOMAIN mailbox' = DOMAIN mailbox \cup {Len(mailbox) + 1}
      /\ mailbox'[Len(mailbox) + 1] = x /\ Len(mailbox) + 1 \notin DOMAIN mailbox
      /\ \A i \in DOMAIN mailbox : mailbox'[i] = mailbox[i]
  BY <1>1, Appended
<1>3. \A i, m : Waiting(i, m)' <=> Waiting(i, m)
  BY <1>1, <1>2 DEF Waiting
<1> QED
  BY <1>3, OrderQuiet

LEMMA OrderMaster == ASSUME TypeOK, OrderInv, MasterStep PROVE OrderInv'
<1>1. UNCHANGED mailbox => \A i, m : Waiting(i, m)' <=> Waiting(i, m)
  BY DEF Waiting
<1>2. ASSUME UNCHANGED <<bus, delivered, eventIdCache>>, mailbox # <<>>,
             mailbox' = Tail(mailbox), master' # "publishing"
      PROVE  OrderInv'
  BY <1>2, OrderPopped
<1>3. ASSUME UNCHANGED <<bus, delivered, eventIdCache, mailbox>>, master # "publishing"
      PROVE  OrderInv'
  BY <1>1, <1>3, OrderQuiet
<1>4. master = "publishing" => mailbox # <<>>
  BY DEF TypeOK
<1>5. CASE Connect
  BY <1>2, <1>5 DEF Connect, Mail, client, tables, output
<1>6. CASE Propagate("subscribe") \/ Propagate("unsubscribe")
  BY <1>2, <1>6 DEF Propagate, Mail, client, routing, tables, output
<1>7. CASE Disconnect
  BY <1>2, <1>7 DEF Disconnect, Mail, client, tables, output
<1>8. CASE DirectPublish
  BY <1>2, <1>8 DEF DirectPublish, MasterFails, Mail, client, tables, output
<1>9. CASE StartPublish
  <2>1. /\ master = "ready" /\ mailbox # <<>> /\ UNCHANGED <<bus, delivered, eventIdCache>>
        /\ MasterFails \/ UNCHANGED mailbox
    BY <1>9 DEF StartPublish, Mail, client, tables, output
  <2> QED
    BY <1>2, <1>3, <2>1 DEF MasterFails
<1>10. CASE EndPublish
  BY <1>2, <1>4, <1>10 DEF EndPublish, client, tables, output
<1>11. CASE ConcurrentModification
  BY <1>2, <1>4, <1>11 DEF ConcurrentModification, MasterFails, client, tables, output
<1>12. CASE RestartMaster
  BY <1>3, <1>12 DEF RestartMaster, client, tables, output
<1>13. CASE \E p \in routeConsumers : Visit(p)
  BY <1>13, OrderVisit
<1> QED
  BY <1>5, <1>6, <1>7, <1>8, <1>9, <1>10, <1>11, <1>12, <1>13 DEF MasterStep

(* The dashboards only make hierarchies be forgotten.                      *)
LEMMA OrderDashboard ==
  ASSUME TypeOK, OrderInv, NEW s \in Sessions, DashboardStep(s) PROVE OrderInv'
<1>1. ASSUME UNCHANGED <<bus, delivered, mailbox, master, visited>>,
             \A t \in Topics : eventIdCache'[t] \subseteq eventIdCache[t]
      PROVE  OrderInv'
  <2>1. \A i, m : Waiting(i, m)' <=> Waiting(i, m)
    BY <1>1 DEF Waiting
  <2> QED
    BY <1>1, <2>1, OrderQuiet
<1>2. ASSUME NEW new, UpdateRoutes(s, new)
      PROVE  \A t \in Topics : eventIdCache'[t] \subseteq eventIdCache[t]
  BY <1>2 DEF UpdateRoutes
<1>3. CASE Subscribe(s) \/ Unsubscribe(s)
  BY <1>1, <1>2, <1>3 DEF Subscribe, Unsubscribe, client, output
<1>4. CASE \E t \in Topics : RemoveRoute(s, t)
  BY <1>1, <1>2, <1>4 DEF RemoveRoute, client, output
<1>5. CASE UpdateSecond(s) \/ RemoveAll(s) \/ SendPoison(s) \/ Terminate(s)
  BY <1>1, <1>5 DEF UpdateSecond, RemoveAll, SendPoison, Terminate, client, routing, tables, output
<1>6. CASE Consume(s) \/ RestartDashboard(s) \/ StopDashboard(s)
  BY <1>1, <1>6 DEF Consume, RestartDashboard, StopDashboard, client, routing, tables, output
<1> QED
  BY <1>3, <1>4, <1>5, <1>6 DEF DashboardStep

LEMMA OrderNext == TypeOK /\ OrderInv /\ [Next]_vars => OrderInv'
<1> SUFFICES ASSUME TypeOK, OrderInv, [Next]_vars PROVE OrderInv'
  OBVIOUS
<1>1. ASSUME UNCHANGED <<bus, delivered, mailbox>>, UNCHANGED <<master, visited>>,
             \A t \in Topics : eventIdCache'[t] \subseteq eventIdCache[t]
      PROVE  OrderInv'
  <2>1. \A i, m : Waiting(i, m)' <=> Waiting(i, m)
    BY <1>1 DEF Waiting
  <2> QED
    BY <1>1, <2>1, OrderQuiet
<1>2. CASE MasterStep
  BY <1>2, OrderMaster
<1>3. ASSUME NEW s \in Sessions, DashboardStep(s) PROVE OrderInv'
  BY <1>3, OrderDashboard
<1>4. ASSUME NEW s \in Sessions, onConnect(s) \/ onDisconnect(s) \/ directPublish(s)
      PROVE  OrderInv'
  <2>1. /\ [kind |-> "connect", of |-> s] \in Mails /\ [kind |-> "disconnect", of |-> s] \in Mails
        /\ [kind |-> "answer", of |-> s] \in Mails
    BY DEF Mails
  <2>2. UNCHANGED <<bus, delivered, eventIdCache, master, visited>>
    BY <1>4 DEF onConnect, onDisconnect, directPublish, routing, tables, output
  <2>3. Tell("connect", s) \/ Tell("disconnect", s) \/ Tell("answer", s)
    BY <1>4 DEF onConnect, onDisconnect, directPublish
  <2> QED
    BY <2>1, <2>2, <2>3, OrderTold
<1>5. ASSUME NEW s \in Sessions, NEW t \in Topics, NEW kind \in {"subscribe", "unsubscribe"},
             onMessage(s, kind, t)
      PROVE  OrderInv'
  <2>1. [kind |-> kind, of |-> <<s, t>>] \in Mails /\ kind # "publish"
    BY DEF Mails
  <2>2. UNCHANGED <<bus, delivered, eventIdCache, master, visited>> /\ Tell(kind, <<s, t>>)
    BY <1>5 DEF onMessage, routing, tables, output
  <2> QED
    BY <2>1, <2>2, OrderTold
<1>6. ASSUME NEW s \in Sessions, Close(s) PROVE OrderInv'
  BY <1>1, <1>6 DEF Close, routing, tables, output
<1>7. ASSUME NEW m \in Messages, publish(m) PROVE OrderInv'
  BY <1>7, OrderPublish
<1>8. ASSUME NEW t \in Topics, Expire(t) PROVE OrderInv'
  <2>1. eventIdCache \in [Topics -> SUBSET Messages]
    BY DEF TypeOK
  <2>2. \A u \in Topics : eventIdCache'[u] \subseteq eventIdCache[u]
    BY <1>8, <2>1 DEF Expire
  <2> QED
    BY <1>1, <1>8, <2>2 DEF Expire, client, routing, output
<1>9. CASE UNCHANGED vars
  BY <1>1, <1>9 DEF vars
<1> QED
  BY <1>2, <1>3, <1>4, <1>5, <1>6, <1>7, <1>8, <1>9 DEF Next

LEMMA OrderInit == Init => OrderInv
<1> SUFFICES ASSUME Init PROVE OrderInv
  OBVIOUS
<1>1. /\ bus = <<>> /\ mailbox = <<>> /\ \A t \in Topics : eventIdCache[t] = {}
      /\ \A s \in Sessions : delivered[s] = <<>>
  BY DEF Init
<1>2. \A i, m : ~Waiting(i, m)
  BY <1>1 DEF Waiting
<1>3. \A s \in Sessions : \A i, e, p : ~Gets(s, i, e, p)
  BY <1>1 DEF Gets
<1>4. IsInjective(bus)
  BY <1>1 DEF IsInjective
<1> QED
  BY <1>1, <1>2, <1>3, <1>4 DEF OrderInv, Queue, CacheInv, GivenInv, InOrder

(* What a session was sent, and for which subscription.                    *)
LEMMA Sent ==
  ASSUME TypeOK, NEW s \in Sessions, NEW i \in DOMAIN delivered[s]
  PROVE  /\ i \in Nat /\ delivered[s][i].event \in Messages
         /\ delivered[s][i].sub \in Topics \X Consumers
         /\ Gets(s, i, delivered[s][i].event, delivered[s][i].sub)
<1> DEFINE D == [event : Messages, sub : Topics \X Consumers]
<1>1. delivered[s] \in Seq(D) /\ \A d \in D : d.event \in Messages /\ d.sub \in Topics \X Consumers
  BY DEF TypeOK
<1> HIDE DEF D
<1>2. delivered[s][i] \in D /\ i \in Nat
  BY <1>1
<1> QED
  BY <1>1, <1>2 DEF Gets

(* A session receives the events of each subscription in the order of the  *)
(* message bus, and none twice, also when multimaps lose updates, actors   *)
(* fail and are restarted, and iterators break off.                        *)
THEOREM OrderedDelivery == Spec => []DeliveredInOrder
<1>1. TypeOK /\ OrderInv => DeliveredInOrder
  <2> SUFFICES ASSUME TypeOK, OrderInv, NEW s \in Sessions,
                      NEW i \in DOMAIN delivered[s], NEW j \in DOMAIN delivered[s], i < j
               PROVE  LET d == delivered[s][i]  e == delivered[s][j] IN
                      Before(d.event, e.event) \/ (d.event = e.event /\ d.sub # e.sub)
    BY DEF DeliveredInOrder
  <2> QED
    BY Sent DEF OrderInv, InOrder
<1> QED
  BY <1>1, TypedInit, TypedNext, OrderInit, OrderNext, PTL DEF Spec

(* What a session receives on a topic matches it, or descends from an      *)
(* event that does over events that came before their children.            *)
THEOREM TheHierarchyIsFollowed == Spec => []FollowsHierarchy
<1>1. TypeOK /\ OrderInv => FollowsHierarchy
  BY Sent DEF OrderInv, GivenInv, OnLine, FollowsHierarchy
<1> QED
  BY <1>1, TypedInit, TypedNext, OrderInit, OrderNext, PTL DEF Spec
-----------------------------------------------------------------------------
(* Nobody is skipped. *)

(* The session of subscription p was sent event m for it.                  *)
WasSent(p, m) ==
  \E i \in DOMAIN delivered[p[2][1]] : delivered[p[2][1]][i] = [event |-> m, sub |-> p]

(* An event leaves the mailbox of the master only when each open session   *)
(* with a subscription that accepts it was sent it (or, behind the         *)
(* response processor, when each was visited and the processor has no test *)
(* execution to send any more), unless the tables have changed under the   *)
(* iterator or the master fails; and when the uses of the router do not    *)
(* overlap they never change under it.                                     *)
ServesSubscribers ==
  [][\A p \in routeConsumers, m \in Messages :
       /\ InMail("publish", m) /\ Accepts(p[1], m) /\ link[p[2][1]] = "open"
       /\ Router = "serial" \/ ~changed
       => \/ InMail("publish", m)' \/ master' = "failed"
          \/ IF barebone THEN WasSent(p, m)' ELSE p \in visited /\ ~IsExecution(m)]_vars

(* A test execution that is due for the event under the iterator stays due *)
(* in the mailbox until it is sent to a session, or lost in a socket that  *)
(* has closed; unless no subscription is left to visit, or the tables have *)
(* changed under the iterator.                                             *)
SendsVerdicts ==
  [][\A m \in Messages :
       master = "publishing" /\ Head(mailbox).of = m /\ ~barebone /\ IsExecution(m)
       => \/ IsExecution(m)' /\ (InMail("publish", m)' \/ ToVisit = {} \/ changed)
          \/ \E p \in routeConsumers : link[p[2][1]] # "open" \/ WasSent(p, m)']_vars

(* Only sessions that are or were open have subscriptions, ...             *)
Opened == \A p \in routeConsumers \cup visited : link[p[2][1]] # "new"

(* ... those that the iterator has been at were sent the event, or have    *)
(* left the processor nothing to send, ...                                 *)
VisitedServed ==
  master = "publishing" =>
    \A p \in visited : IF barebone THEN link[p[2][1]] = "open" => WasSent(p, Head(mailbox).of)
                                   ELSE ~IsExecution(Head(mailbox).of)

(* ... and a publish that nothing overlaps with finds the tables unchanged. *)
Undisturbed ==
  Router = "serial" => /\ ~changed
                       /\ master = "publishing" => \A s \in Sessions : ~MidHandler(s)

ServedInv == Opened /\ VisitedServed /\ Undisturbed

LEMMA SessionOf ==
  ASSUME TypeOK, NEW p \in routeConsumers \cup visited
  PROVE  p[1] \in Topics /\ p[2][1] \in Sessions /\ p = <<p[1], p[2]>>
<1>1. p \in Topics \X Consumers
  BY DEF TypeOK
<1> QED
  BY <1>1 DEF Consumers

(* What is sent stays sent. *)
Grows == \A s \in Sessions : \A i \in DOMAIN delivered[s] :
           i \in DOMAIN delivered'[s] /\ delivered'[s][i] = delivered[s][i]

(* A socket opens once. *)
LinksGo == \A s \in Sessions : /\ link[s] # "new" => link'[s] # "new"
                               /\ link'[s] = "open" => link[s] \in {"new", "open"}

LEMMA StillSent ==
  ASSUME NEW p, p[2][1] \in Sessions, NEW m, WasSent(p, m), Grows
  PROVE  WasSent(p, m)'
BY DEF WasSent, Grows

(* Steps that visit nothing. *)
LEMMA NobodyVisited ==
  ASSUME TypeOK, Opened, VisitedServed, LinksGo, Grows,
         \A p \in routeConsumers' : p \in routeConsumers \/ link'[p[2][1]] # "new",
         visited' \in {visited, {}}, UNCHANGED <<barebone, incompleteEvents>>,
         master' = "publishing" /\ visited' # {} =>
           master = "publishing" /\ Head(mailbox') = Head(mailbox)
  PROVE  Opened' /\ VisitedServed'
<1>1. Opened'
  <2> SUFFICES ASSUME NEW p \in routeConsumers' \cup visited' PROVE link'[p[2][1]] # "new"
    BY DEF Opened
  <2>1. CASE p \in routeConsumers \cup visited
    BY <2>1, SessionOf DEF Opened, LinksGo
  <2> QED
    BY <2>1
<1>2. VisitedServed'
  <2> SUFFICES ASSUME master' = "publishing", NEW p \in visited'
               PROVE  IF barebone THEN link'[p[2][1]] = "open" => WasSent(p, Head(mailbox).of)'
                                  ELSE ~IsExecution(Head(mailbox).of)'
    BY DEF VisitedServed
  <2>1. /\ p \in visited /\ p[2][1] \in Sessions /\ master = "publishing"
        /\ Head(mailbox') = Head(mailbox) /\ (link'[p[2][1]] = "open" => link[p[2][1]] = "open")
    BY SessionOf DEF Opened, LinksGo
  <2>2. CASE barebone
    <3> SUFFICES ASSUME link'[p[2][1]] = "open" PROVE WasSent(p, Head(mailbox).of)'
      BY <2>2
    <3>1. WasSent(p, Head(mailbox).of)
      BY <2>1, <2>2 DEF VisitedServed
    <3>2. \E i \in DOMAIN delivered'[p[2][1]] :
            delivered'[p[2][1]][i] = [event |-> Head(mailbox).of, sub |-> p]
      BY <2>1, <3>1 DEF WasSent, Grows
    <3> QED
      BY <2>1, <3>2 DEF WasSent
  <2>3. CASE ~barebone
    <3>1. ~IsExecution(Head(mailbox).of)
      BY <2>1, <2>3 DEF VisitedServed
    <3> QED
      BY <2>1, <2>3, <3>1 DEF IsExecution
  <2> QED
    BY <2>2, <2>3
<1> QED
  BY <1>1, <1>2

LEMMA ServedCallback ==
  ASSUME TypeOK, ServedInv, LinksGo, UNCHANGED <<routing, children, tables, output>>,
         mailbox # <<>> => Head(mailbox') = Head(mailbox)
  PROVE  ServedInv'
<1>1. /\ Grows /\ UNCHANGED <<routeConsumers, visited, master, changed, step, barebone, incompleteEvents>>
      /\ master = "publishing" => mailbox # <<>>
  BY DEF Grows, routing, children, tables, output, TypeOK
<1>2. \A p \in routeConsumers' : p \in routeConsumers \/ link'[p[2][1]] # "new"
  BY <1>1
<1>3. Opened' /\ VisitedServed'
  BY <1>1, <1>2, NobodyVisited DEF ServedInv
<1> QED
  BY <1>1, <1>3 DEF ServedInv, Undisturbed, MidHandler

LEMMA ServedCallbacks ==
  ASSUME TypeOK, ServedInv,
         \/ \E s \in Sessions : \/ onConnect(s) \/ Close(s) \/ onDisconnect(s) \/ directPublish(s)
                                \/ \E t \in Topics, kind \in {"subscribe", "unsubscribe"} :
                                     onMessage(s, kind, t)
         \/ \E m \in Messages : publish(m)
  PROVE  ServedInv'
<1>1. link \in [Sessions -> {"new", "open", "closed", "gone"}]
  BY DEF TypeOK
<1>2. UNCHANGED <<routing, children, tables, output>>
  BY DEF onConnect, Close, onDisconnect, directPublish, onMessage, publish
<1>3. LinksGo
  <2>1. \/ UNCHANGED link
        \/ \E s \in Sessions : \/ link[s] = "new" /\ link' = [link EXCEPT ![s] = "open"]
                               \/ link' = [link EXCEPT ![s] = "closed"]
                               \/ link' = [link EXCEPT ![s] = "gone"]
    BY DEF onConnect, Close, onDisconnect, directPublish, onMessage, publish
  <2> QED
    BY <1>1, <2>1 DEF LinksGo
<1>4. mailbox # <<>> => Head(mailbox') = Head(mailbox)
  <2>1. UNCHANGED mailbox \/ \E kind, of : Tell(kind, of)
    BY DEF onConnect, Close, onDisconnect, directPublish, onMessage, publish
  <2>2. ASSUME NEW x, mailbox' = Append(mailbox, x), mailbox # <<>>
        PROVE  Head(mailbox') = Head(mailbox)
    <3>1. mailbox \in Seq(Mails \cup {x}) /\ x \in Mails \cup {x}
      <4>1. mailbox \in Seq(Mails)
        BY DEF TypeOK
      <4> QED
        BY <4>1
    <3> QED
      BY <2>2, <3>1, Appended
  <2> QED
    BY <2>1, <2>2 DEF Tell
<1> QED
  BY <1>2, <1>3, <1>4, ServedCallback

(* The processor makes one test execution of a verdict.                    *)
LEMMA ForgottenOnce ==
  ASSUME NEW m, ~barebone, incompleteEvents' = Remembered(m) PROVE ~IsExecution(m)'
BY DEF IsExecution, Remembered

(* A subscription is visited: sent the event, sent nothing, or too late.   *)
LEMMA Visiting ==
  ASSUME TypeOK, NEW p \in routeConsumers, Visit(p), NEW m, m = Head(mailbox).of
  PROVE  /\ m \in Messages /\ p \in Topics \X Consumers
         /\ incompleteEvents' = Remembered(m)
         /\ UNCHANGED <<link, barebone, routeConsumers, step>> /\ master = "publishing"
         /\ \/ MasterFails /\ UNCHANGED delivered
               /\ (Sends(m) => link[p[2][1]] # "open")
            \/ /\ visited' = visited \cup {p} /\ UNCHANGED <<master, changed, mailbox>>
               /\ \/ UNCHANGED delivered /\ (Sends(m) => link[p[2][1]] # "open")
                  \/ Grows /\ WasSent(p, m)'
<1> DEFINE s == p[2][1]
           d == [event |-> m, sub |-> p]
           D == [event : Messages, sub : Topics \X Consumers]
<1>1. m \in Messages /\ p \in Topics \X Consumers /\ s \in Sessions
  BY HeadMail, SessionOf DEF Visit, TypeOK
<1>2. d \in D /\ delivered \in [Sessions -> Seq(D)]
  BY <1>1 DEF TypeOK
<1>3. /\ incompleteEvents' = Remembered(m) /\ master = "publishing"
      /\ UNCHANGED <<link, barebone, routeConsumers, step>>
  BY DEF Visit, client
<1>4. \/ MasterFails /\ UNCHANGED delivered /\ (Sends(m) => link[s] # "open")
      \/ /\ visited' = visited \cup {p} /\ UNCHANGED <<master, changed, mailbox>>
         /\ \/ UNCHANGED delivered /\ (Sends(m) => link[s] # "open")
            \/ delivered' = [delivered EXCEPT ![s] = Append(@, d)]
  BY DEF Visit
<1>5. ASSUME delivered' = [delivered EXCEPT ![s] = Append(@, d)] PROVE Grows /\ WasSent(p, m)'
  <2> HIDE DEF D, d
  <2>1. /\ \A i \in DOMAIN delivered[s] :
             i \in DOMAIN delivered'[s] /\ delivered'[s][i] = delivered[s][i]
        /\ \E i \in DOMAIN delivered'[s] : delivered'[s][i] = d
    BY <1>1, <1>2, <1>5, Appended
  <2>2. \A q \in Sessions \ {s} : delivered'[q] = delivered[q]
    BY <1>2, <1>5
  <2> QED
    BY <2>1, <2>2 DEF Grows, WasSent, d
<1> QED
  BY <1>1, <1>3, <1>4, <1>5

LEMMA ServedVisit ==
  ASSUME TypeOK, ServedInv, NEW p \in routeConsumers, Visit(p) PROVE ServedInv'
<1>1. p[2][1] \in Sessions /\ link[p[2][1]] # "new"
  BY SessionOf DEF ServedInv, Opened
<1>2. PICK m : m = Head(mailbox).of
  OBVIOUS
<1>3. /\ incompleteEvents' = Remembered(m) /\ master = "publishing"
      /\ UNCHANGED <<link, barebone, routeConsumers, step>>
      /\ \/ MasterFails
         \/ /\ visited' = visited \cup {p} /\ UNCHANGED <<master, changed, mailbox>>
            /\ \/ UNCHANGED delivered /\ (Sends(m) => link[p[2][1]] # "open")
               \/ Grows /\ WasSent(p, m)'
  BY <1>2, Visiting
<1>4. CASE MasterFails
  BY <1>1, <1>3, <1>4 DEF MasterFails, ServedInv, Opened, VisitedServed, Undisturbed
<1>5. CASE visited' = visited \cup {p} /\ UNCHANGED <<master, changed, mailbox>>
  <2>1. Opened' /\ Undisturbed'
    BY <1>1, <1>3, <1>5 DEF ServedInv, Opened, Undisturbed, MidHandler
  <2>2. CASE ~barebone
    <3>1. ~IsExecution(m)'
      BY <1>3, <2>2, ForgottenOnce
    <3>2. ~IsExecution(Head(mailbox).of)'
      BY <1>2, <1>5, <3>1 DEF IsExecution
    <3> QED
      BY <1>3, <2>1, <2>2, <3>2 DEF ServedInv, VisitedServed
  <2>3. CASE barebone
    <3>1. Grows /\ (link[p[2][1]] = "open" => WasSent(p, m)')
      BY <1>3, <1>4, <1>5, <2>3 DEF Sends, Grows, MasterFails
    <3> SUFFICES ASSUME NEW q \in visited', link[q[2][1]] = "open" PROVE WasSent(q, m)'
      BY <1>2, <1>3, <1>5, <2>1, <2>3 DEF ServedInv, VisitedServed, WasSent
    <3>2. CASE q = p
      BY <3>1, <3>2
    <3>3. CASE q \in visited
      <4>1. WasSent(q, m) /\ q[2][1] \in Sessions
        BY <1>2, <1>3, <2>3, <3>3, SessionOf DEF ServedInv, VisitedServed
      <4> QED
        BY <3>1, <4>1 DEF WasSent, Grows
    <3> QED
      BY <1>5, <3>2, <3>3
  <2> QED
    BY <2>2, <2>3
<1> QED
  BY <1>3, <1>4, <1>5

LEMMA ServedMaster == ASSUME TypeOK, ServedInv, MasterStep PROVE ServedInv'
<1>1. ASSUME UNCHANGED <<link, output, routeConsumers, step>>, changed' \in {changed, FALSE},
             visited' \in {visited, {}}, master' = "publishing" => visited' = {},
             master' = "publishing" /\ Router = "serial" => \A s \in Sessions : ~MidHandler(s)
      PROVE  ServedInv'
  <2>1. Grows /\ LinksGo /\ UNCHANGED <<barebone, incompleteEvents>>
    BY <1>1 DEF Grows, LinksGo, output
  <2>2. Opened' /\ VisitedServed'
    BY <1>1, <2>1, NobodyVisited DEF ServedInv
  <2>3. Router = "serial" => ~changed
    BY DEF ServedInv, Undisturbed
  <2>4. Router = "serial" => ~changed'
    <3>1. CASE changed' = changed
      BY <2>3, <3>1
    <3>2. CASE changed' = FALSE
      BY <3>2
    <3> QED
      BY <1>1, <3>1, <3>2
  <2>5. Router = "serial" => (master' = "publishing" => \A s \in Sessions : ~MidHandler(s)')
    BY <1>1 DEF MidHandler
  <2> QED
    BY <2>2, <2>4, <2>5 DEF ServedInv, Undisturbed
<1>2. CASE Connect
  BY <1>1, <1>2 DEF Connect, Mail, client, tables, output
<1>3. CASE Propagate("subscribe") \/ Propagate("unsubscribe")
  BY <1>1, <1>3 DEF Propagate, Mail, client, routing, tables, output
<1>4. CASE Disconnect
  BY <1>1, <1>4 DEF Disconnect, Mail, client, tables, output
<1>5. CASE DirectPublish
  BY <1>1, <1>5 DEF DirectPublish, MasterFails, Mail, client, tables, output
<1>6. CASE StartPublish
  BY <1>1, <1>6 DEF StartPublish, MasterFails, client, tables, output
<1>7. CASE EndPublish
  BY <1>1, <1>7 DEF EndPublish, client, children, tables, output
<1>8. CASE ConcurrentModification
  BY <1>1, <1>8 DEF ConcurrentModification, MasterFails, client, tables, output
<1>9. CASE RestartMaster
  BY <1>1, <1>9 DEF RestartMaster, client, children, tables, output
<1>10. ASSUME NEW p \in routeConsumers, Visit(p) PROVE ServedInv'
  BY <1>10, ServedVisit
<1> QED
  BY <1>2, <1>3, <1>4, <1>5, <1>6, <1>7, <1>8, <1>9, <1>10 DEF MasterStep

LEMMA ServedDashboard ==
  ASSUME TypeOK, LeavingInv, ServedInv, NEW s \in Sessions, DashboardStep(s) PROVE ServedInv'
<1>1. UNCHANGED <<link, mailbox, master, visited, barebone, incompleteEvents, delivered>>
  BY DEF DashboardStep, Subscribe, Unsubscribe, UpdateSecond, RemoveAll, SendPoison, Terminate,
         RemoveRoute, Consume, RestartDashboard, StopDashboard, client, routing, output
<1>2. \A p \in routeConsumers' : p \in routeConsumers \/ link[p[2][1]] # "new"
  <2>1. CASE Subscribe(s)
    <3>1. /\ routeConsumers' \subseteq
               routeConsumers \cup {<<Head(inbox[s]).topic, Consumer(s)>>}
          /\ actor[s] = "alive"
      BY <2>1 DEF Subscribe, UpdateRoutes, Outcomes, Handles
    <3>2. link[s] # "new"
      BY <3>1 DEF LeavingInv, Leaves, ConnectsOnce
    <3>3. <<Head(inbox[s]).topic, Consumer(s)>>[2][1] = s
      BY DEF Consumer
    <3> QED
      BY <3>1, <3>2, <3>3
  <2>2. CASE Unsubscribe(s) \/ \E t \in Topics : RemoveRoute(s, t)
    BY <2>2 DEF Unsubscribe, RemoveRoute, UpdateRoutes, Outcomes
  <2>3. CASE UpdateSecond(s) \/ RemoveAll(s) \/ SendPoison(s) \/ Terminate(s)
    BY <2>3 DEF UpdateSecond, RemoveAll, SendPoison, Terminate, tables, output
  <2>4. CASE Consume(s) \/ RestartDashboard(s) \/ StopDashboard(s)
    BY <2>4 DEF Consume, RestartDashboard, StopDashboard, tables, output
  <2> QED
    BY <2>1, <2>2, <2>3, <2>4 DEF DashboardStep
<1>3. Opened' /\ VisitedServed'
  <2>1. Grows /\ LinksGo
    BY <1>1 DEF Grows, LinksGo
  <2> QED
    BY <1>1, <1>2, <2>1, NobodyVisited DEF ServedInv
<1>4. Undisturbed'
  <2> SUFFICES ASSUME Router = "serial"
               PROVE  ~changed' /\ (master = "publishing" => \A q \in Sessions : ~MidHandler(q)')
    BY <1>1 DEF Undisturbed
  <2>1. ~changed /\ (master = "publishing" => ~MidHandler(s) /\ \A q \in Sessions : ~MidHandler(q))
    BY DEF ServedInv, Undisturbed
  <2>2. step \in [Sessions -> {"idle", "second", "remove"}]
    BY DEF TypeOK
  <2>3. ASSUME master # "publishing" PROVE ~changed'
    BY <2>1, <2>3 DEF DashboardStep, Subscribe, Unsubscribe, UpdateSecond, RemoveAll, SendPoison,
         Terminate, RemoveRoute, Consume, RestartDashboard, StopDashboard, UpdateRoutes, routing
  <2>4. ASSUME master = "publishing" PROVE UNCHANGED <<changed, step>>
    <3>1. step[s] = "idle"
      BY <2>1, <2>4 DEF MidHandler
    <3>2. Terminate(s) \/ Consume(s) \/ RestartDashboard(s) \/ StopDashboard(s)
      BY <2>4, <3>1 DEF DashboardStep, Subscribe, Unsubscribe, UpdateSecond, RemoveAll, SendPoison,
           RemoveRoute, MayAccess
    <3> QED
      BY <3>2 DEF Terminate, Consume, RestartDashboard, StopDashboard, routing
  <2> QED
    BY <2>1, <2>3, <2>4 DEF MidHandler
<1> QED
  BY <1>3, <1>4 DEF ServedInv

LEMMA ServedNext == TypeOK /\ LeavingInv /\ ServedInv /\ [Next]_vars => ServedInv'
<1> SUFFICES ASSUME TypeOK, LeavingInv, ServedInv, [Next]_vars PROVE ServedInv'
  OBVIOUS
<1>1. CASE UNCHANGED vars
  BY <1>1 DEF vars, ServedInv, Opened, VisitedServed, Undisturbed, WasSent, MidHandler, IsExecution
<1>2. ASSUME NEW t \in Topics, Expire(t) PROVE ServedInv'
  BY <1>2 DEF Expire, ServedInv, Opened, VisitedServed, Undisturbed, WasSent, MidHandler,
              IsExecution, client, routing, children, output
<1> QED
  BY <1>1, <1>2, ServedCallbacks, ServedMaster, ServedDashboard DEF Next

(* What is in the mailbox and is not its head stays, whatever is taken.    *)
LEMMA StaysInMail ==
  ASSUME TypeOK, NEW kind, NEW of, InMail(kind, of),
         \/ UNCHANGED mailbox
         \/ \E x : mailbox' = Append(mailbox, x)
         \/ mailbox' = Tail(mailbox) /\ (Head(mailbox).kind # kind \/ Head(mailbox).of # of)
  PROVE  InMail(kind, of)'
<1>1. PICK i \in DOMAIN mailbox : mailbox[i].kind = kind /\ mailbox[i].of = of
  BY DEF InMail
<1>2. mailbox \in Seq(Mails)
  BY DEF TypeOK
<1>3. CASE UNCHANGED mailbox
  BY <1>1, <1>3 DEF InMail
<1>4. ASSUME NEW x, mailbox' = Append(mailbox, x) PROVE InMail(kind, of)'
  <2>1. i \in DOMAIN mailbox' /\ mailbox'[i] = mailbox[i]
    BY <1>2, <1>4
  <2> QED
    BY <1>1, <2>1 DEF InMail
<1>5. CASE mailbox' = Tail(mailbox) /\ (Head(mailbox).kind # kind \/ Head(mailbox).of # of)
  <2>1. i # 1
    BY <1>1, <1>2, <1>5
  <2>2. i - 1 \in DOMAIN mailbox' /\ mailbox'[i - 1] = mailbox[i]
    BY <1>2, <1>5, <2>1
  <2> QED
    BY <1>1, <2>2 DEF InMail
<1> QED
  BY <1>3, <1>4, <1>5

LEMMA StepServes ==
  ASSUME TypeOK, ServedInv, [Next]_vars, NEW p \in routeConsumers, NEW m \in Messages,
         InMail("publish", m), Accepts(p[1], m), link[p[2][1]] = "open",
         Router = "serial" \/ ~changed
  PROVE  \/ InMail("publish", m)' \/ master' = "failed"
         \/ IF barebone THEN WasSent(p, m)' ELSE p \in visited /\ ~IsExecution(m)
<1>1. CASE UNCHANGED vars \/ \E t \in Topics : Expire(t)
  BY <1>1, StaysInMail DEF vars, Expire
<1>2. CASE \/ \E s \in Sessions : \/ onConnect(s) \/ Close(s) \/ onDisconnect(s) \/ directPublish(s)
                                  \/ \E t \in Topics, kind \in {"subscribe", "unsubscribe"} :
                                       onMessage(s, kind, t)
           \/ \E x \in Messages : publish(x)
  <2>1. UNCHANGED mailbox \/ \E x : mailbox' = Append(mailbox, x)
    BY <1>2 DEF onConnect, Close, onDisconnect, directPublish, onMessage, publish, Tell
  <2> QED
    BY <2>1, StaysInMail
<1>3. ASSUME NEW s \in Sessions, DashboardStep(s) PROVE InMail("publish", m)'
  <2>1. UNCHANGED mailbox
    BY <1>3 DEF DashboardStep, Subscribe, Unsubscribe, UpdateSecond, RemoveAll, SendPoison,
         Terminate, RemoveRoute, Consume, RestartDashboard, StopDashboard
  <2> QED
    BY <2>1, StaysInMail
<1>4. CASE EndPublish
  <2>1. /\ mailbox' = Tail(mailbox) /\ UNCHANGED delivered /\ master = "publishing"
        /\ ToVisit = {} \/ changed
    BY <1>4 DEF EndPublish, output
  <2>2. CASE Head(mailbox).of # m
    BY <2>1, <2>2, StaysInMail
  <2>3. CASE Head(mailbox).of = m
    <3>1. ToVisit = {}
      BY <2>1 DEF ServedInv, Undisturbed
    <3>2. p \in visited
      BY <2>3, <3>1 DEF ToVisit
    <3>3. IF barebone THEN WasSent(p, m) ELSE ~IsExecution(m)
      BY <2>1, <2>3, <3>2 DEF ServedInv, VisitedServed
    <3> QED
      BY <2>1, <3>2, <3>3 DEF WasSent
  <2> QED
    BY <2>2, <2>3
<1>5. CASE Connect \/ Propagate("subscribe") \/ Propagate("unsubscribe") \/ Disconnect
  <2>1. mailbox' = Tail(mailbox) /\ Head(mailbox).kind # "publish"
    BY <1>5 DEF Connect, Propagate, Disconnect, Mail
  <2> QED
    BY <2>1, StaysInMail
<1>6. CASE DirectPublish
  <2>1. mailbox' = Tail(mailbox) /\ Head(mailbox).kind # "publish"
    BY <1>6 DEF DirectPublish, MasterFails, Mail
  <2> QED
    BY <2>1, StaysInMail
<1>7. CASE StartPublish
  BY <1>7, StaysInMail DEF StartPublish, MasterFails
<1>8. CASE ConcurrentModification
  BY <1>8 DEF ConcurrentModification, MasterFails
<1>9. CASE RestartMaster
  BY <1>9, StaysInMail DEF RestartMaster
<1>10. ASSUME NEW q \in routeConsumers, Visit(q) PROVE InMail("publish", m)' \/ master' = "failed"
  BY <1>10, StaysInMail DEF Visit, MasterFails
<1> QED
  BY <1>1, <1>2, <1>3, <1>4, <1>5, <1>6, <1>7, <1>8, <1>9, <1>10 DEF Next, MasterStep

LEMMA ServedInit == Init => ServedInv
BY DEF Init, ServedInv, Opened, VisitedServed, Undisturbed, MidHandler

LEMMA StepSends ==
  ASSUME TypeOK, [Next]_vars, NEW m \in Messages,
         master = "publishing", Head(mailbox).of = m, ~barebone, IsExecution(m)
  PROVE  \/ IsExecution(m)' /\ (InMail("publish", m)' \/ ToVisit = {} \/ changed)
         \/ \E p \in routeConsumers : link[p[2][1]] # "open" \/ WasSent(p, m)'
<1>1. mailbox # <<>> /\ Head(mailbox).kind = "publish" /\ mailbox \in Seq(Mails)
  BY DEF TypeOK
<1>2. InMail("publish", m)
  BY <1>1 DEF InMail
<1>3. ASSUME UNCHANGED mailbox \/ \E x : mailbox' = Append(mailbox, x) PROVE InMail("publish", m)'
  BY <1>2, <1>3, StaysInMail
<1>4. ASSUME UNCHANGED incompleteEvents PROVE IsExecution(m)'
  BY <1>4 DEF IsExecution
<1>5. CASE UNCHANGED vars \/ \E t \in Topics : Expire(t)
  BY <1>3, <1>4, <1>5 DEF vars, Expire, output
<1>6. CASE \/ \E s \in Sessions : \/ onConnect(s) \/ Close(s) \/ onDisconnect(s) \/ directPublish(s)
                                  \/ \E t \in Topics, kind \in {"subscribe", "unsubscribe"} :
                                       onMessage(s, kind, t)
           \/ \E x \in Messages : publish(x)
  BY <1>3, <1>4, <1>6 DEF onConnect, Close, onDisconnect, directPublish, onMessage, publish, Tell, output
<1>7. ASSUME NEW s \in Sessions, DashboardStep(s)
      PROVE  UNCHANGED mailbox /\ UNCHANGED incompleteEvents
  BY <1>7 DEF DashboardStep, Subscribe, Unsubscribe, UpdateSecond, RemoveAll, SendPoison,
       Terminate, RemoveRoute, Consume, RestartDashboard, StopDashboard, output
<1>8. CASE EndPublish \/ ConcurrentModification
  BY <1>4, <1>8 DEF EndPublish, ConcurrentModification, output
<1>9. ASSUME NEW p \in routeConsumers, Visit(p) PROVE link[p[2][1]] # "open" \/ WasSent(p, m)'
  BY <1>9, Visiting DEF Sends
<1>10. ~(Connect \/ Propagate("subscribe") \/ Propagate("unsubscribe") \/ Disconnect
         \/ DirectPublish \/ StartPublish \/ RestartMaster)
  BY DEF Connect, Propagate, Disconnect, DirectPublish, StartPublish, RestartMaster, Mail
<1> QED
  BY <1>3, <1>4, <1>5, <1>6, <1>7, <1>8, <1>9, <1>10 DEF Next, MasterStep

(* No step of the master, of a dashboard or of a callback lets an event    *)
(* pass a subscriber, for any number of sessions and subscriptions.        *)
THEOREM NoSubscriberIsSkipped == Spec => ServesSubscribers
<1>1. TypeOK /\ ServedInv /\ [Next]_vars =>
        \A p \in routeConsumers, m \in Messages :
          /\ InMail("publish", m) /\ Accepts(p[1], m) /\ link[p[2][1]] = "open"
          /\ Router = "serial" \/ ~changed
          => \/ InMail("publish", m)' \/ master' = "failed"
             \/ IF barebone THEN WasSent(p, m)' ELSE p \in visited /\ ~IsExecution(m)
  BY StepServes
<1> QED
  BY <1>1, TypedInit, TypedNext, TablesInit, TablesNext, LeavingInit, LeavingNext,
     ServedInit, ServedNext, PTL DEF Spec, ServesSubscribers

(* Behind the response processor: the verdict on a test case that the      *)
(* processor knows is sent when a subscription is visited.                 *)
THEOREM EveryVerdictIsSent == Spec => SendsVerdicts
<1>1. TypeOK /\ [Next]_vars =>
        \A m \in Messages :
          master = "publishing" /\ Head(mailbox).of = m /\ ~barebone /\ IsExecution(m)
          => \/ IsExecution(m)' /\ (InMail("publish", m)' \/ ToVisit = {} \/ changed)
             \/ \E p \in routeConsumers : link[p[2][1]] # "open" \/ WasSent(p, m)'
  BY StepSends
<1> QED
  BY <1>1, TypedInit, TypedNext, PTL DEF Spec, SendsVerdicts
-----------------------------------------------------------------------------
(* No request is lost. *)

Requests == {"subscribe", "unsubscribe", "disconnect"}

(* Mail or letter n is such a request of session s, about topic t.         *)
MailOf(n, s, kind, t) == n.kind = kind /\ n.of = IF kind = "disconnect" THEN s ELSE <<s, t>>
LetterOf(n, kind, t) == n.kind = kind /\ (kind # "disconnect" => n.topic = t)

AtMaster(s, kind, t) == \E i \in DOMAIN mailbox : MailOf(mailbox[i], s, kind, t)
AtDashboard(s, kind, t) == \E i \in DOMAIN inbox[s] : LetterOf(inbox[s][i], kind, t)

(* What the request asks for.                                              *)
Effected(s, kind, t) ==
  CASE kind = "subscribe" -> <<t, Consumer(s)>> \in routeConsumers
    [] kind = "unsubscribe" -> <<t, Consumer(s)>> \notin routeConsumers
    [] kind = "disconnect" -> \A u \in Topics : <<u, Consumer(s)>> \notin routeConsumers

(* A request stays with the master until it is with the dashboard, and     *)
(* there until it has taken effect, unless the multimaps lose updates.     *)
(* Only a dashboard that a failure of the master stops does not get it.    *)
KeepsRequests ==
  [][\A s \in Sessions, t \in Topics, kind \in Requests :
       /\ AtMaster(s, kind, t) => \/ AtMaster(s, kind, t)' \/ AtDashboard(s, kind, t)'
                                  \/ actor[s] \in {"stopping", "stopped"}
       /\ AtDashboard(s, kind, t) => \/ AtDashboard(s, kind, t)'
                                     \/ Effected(s, kind, t)' \/ Router = "racy"
                                     \/ actor'[s] = "stopped"]_vars

(* Mail i of the master is a request of session s, and its last.           *)
Quits(i, s) == mailbox[i].kind = "disconnect" /\ mailbox[i].of = s
Asks(i, s) == Quits(i, s) \/ (mailbox[i].kind \in {"subscribe", "unsubscribe"} /\ mailbox[i].of[1] = s)

Known(i, s) == s \in dashboards \/ \E j \in DOMAIN mailbox : j < i /\ Connects(j, s)

(* A session asks after it has connected, and nothing after its disconnect. *)
InTurn(s) ==
  \A i \in DOMAIN mailbox : Asks(i, s) =>
    Known(i, s) /\ \A j \in DOMAIN mailbox : j < i => ~Quits(j, s)

(* One that has connected and not disconnected is in the map or will be.   *)
Registered(s) ==
  /\ link[s] # "gone" => \A i \in DOMAIN mailbox : ~Quits(i, s)
  /\ link[s] \in {"open", "closed"} => s \in dashboards \/ Waits(s)

(* The actors in the map have not ended by themselves. *)
Running(s) == s \in dashboards => actor[s] \notin {"none", "terminated"}

KeptInv == \A s \in Sessions : InTurn(s) /\ Registered(s) /\ Running(s)

LEMMA KeptInit == Init => KeptInv
BY DEF Init, KeptInv, InTurn, Registered, Running

(* The head of the mailbox is taken.                                       *)
LEMMA KeptTaken ==
  ASSUME TypeOK, NEW s \in Sessions, InTurn(s), Registered(s), Running(s)',
         mailbox # <<>>, mailbox' = Tail(mailbox), link'[s] = link[s],
         Connects(1, s) => s \in dashboards',
         s \in dashboards => s \in dashboards' \/ Quits(1, s)
  PROVE  InTurn(s)' /\ Registered(s)'
<1>1. /\ mailbox \in Seq(Mails) /\ 1 \in DOMAIN mailbox
      /\ \A i \in DOMAIN mailbox' : /\ i \in Nat /\ i > 0 /\ i + 1 \in DOMAIN mailbox
                                    /\ mailbox'[i] = mailbox[i + 1]
  BY TailOf DEF TypeOK
<1>2. \A i \in DOMAIN mailbox' : /\ Asks(i, s)' <=> Asks(i + 1, s)
                                 /\ Quits(i, s)' <=> Quits(i + 1, s)
                                 /\ Connects(i, s)' <=> Connects(i + 1, s)
  BY <1>1 DEF Asks, Quits, Connects
<1>3. \A j \in DOMAIN mailbox : j # 1 => j - 1 \in DOMAIN mailbox' /\ (j - 1) + 1 = j
  BY <1>1
<1>4. InTurn(s)'
  <2> SUFFICES ASSUME NEW i \in DOMAIN mailbox', Asks(i, s)'
               PROVE  Known(i, s)' /\ \A j \in DOMAIN mailbox' : j < i => ~Quits(j, s)'
    BY DEF InTurn, Asks, Known, Quits
  <2>1. /\ i \in Nat /\ i > 0 /\ i + 1 \in DOMAIN mailbox /\ Known(i + 1, s)
        /\ \A j \in DOMAIN mailbox : j < i + 1 => ~Quits(j, s)
    BY <1>1, <1>2 DEF InTurn
  <2>2. ~Quits(1, s)
    BY <1>1, <2>1
  <2>3. Known(i, s)'
    <3>1. CASE s \in dashboards
      BY <2>2, <3>1 DEF Known
    <3>2. ASSUME NEW j \in DOMAIN mailbox, j < i + 1, Connects(j, s) PROVE Known(i, s)'
      <4>1. CASE j = 1
        BY <3>2, <4>1 DEF Known
      <4>2. CASE j # 1
        <5>1. j - 1 \in DOMAIN mailbox' /\ j - 1 < i /\ Connects(j - 1, s)'
          BY <1>1, <1>2, <1>3, <2>1, <3>2, <4>2
        <5> QED
          BY <5>1 DEF Known, Connects
      <4> QED
        BY <4>1, <4>2
    <3> QED
      BY <2>1, <3>1, <3>2 DEF Known
  <2>4. ASSUME NEW j \in DOMAIN mailbox', j < i PROVE ~Quits(j, s)'
    BY <1>1, <1>2, <2>1, <2>4
  <2> QED
    BY <2>3, <2>4
<1>5. Registered(s)'
  <2>1. link[s] # "gone" => \A i \in DOMAIN mailbox' : ~Quits(i, s)'
    BY <1>1, <1>2 DEF Registered
  <2>2. ASSUME link[s] \in {"open", "closed"} PROVE s \in dashboards' \/ Waits(s)'
    <3>1. ~Quits(1, s) /\ (s \in dashboards \/ Waits(s))
      BY <1>1, <2>2 DEF Registered
    <3>2. ASSUME NEW j \in DOMAIN mailbox, Connects(j, s) PROVE s \in dashboards' \/ Waits(s)'
      <4>1. CASE j = 1
        BY <3>2, <4>1
      <4>2. CASE j # 1
        BY <1>2, <1>3, <3>2, <4>2 DEF Waits, Connects
      <4> QED
        BY <4>1, <4>2
    <3> QED
      BY <3>1, <3>2 DEF Waits
  <2> QED
    BY <2>1, <2>2 DEF Registered, Quits
<1> QED
  BY <1>4, <1>5

(* Something is told to the master.                                        *)
LEMMA KeptTold ==
  ASSUME TypeOK, NEW s \in Sessions, InTurn(s), Registered(s), ConnectsOnce(s),
         UNCHANGED dashboards, NEW x \in Mails, mailbox' = Append(mailbox, x),
         x.kind = "connect" /\ x.of = s => link[s] = "new",
         x.kind \in {"subscribe", "unsubscribe"} /\ x.of[1] = s => link[s] \in {"open", "closed"},
         x.kind = "disconnect" /\ x.of = s => link[s] \in {"open", "closed"} /\ link'[s] = "gone",
         link'[s] \in {"open", "closed"} =>
           link[s] \in {"open", "closed"} \/ (x.kind = "connect" /\ x.of = s),
         link[s] = "gone" => link'[s] = "gone"
  PROVE  InTurn(s)' /\ Registered(s)'
<1> PICK n : n = Len(mailbox) + 1
  OBVIOUS
<1>1. /\ mailbox \in Seq(Mails) /\ Len(mailbox) \in Nat
      /\ \A i \in DOMAIN mailbox : i \in DOMAIN mailbox' /\ mailbox'[i] = mailbox[i] /\ i < n
      /\ n \in DOMAIN mailbox' /\ mailbox'[n] = x
      /\ \A i \in DOMAIN mailbox' : i \in DOMAIN mailbox \/ i = n
  <2>1. mailbox \in Seq(Mails)
    BY DEF TypeOK
  <2> QED
    BY <2>1
<1>2. /\ \A i \in DOMAIN mailbox : /\ Asks(i, s)' <=> Asks(i, s)
                                   /\ Quits(i, s)' <=> Quits(i, s)
                                   /\ Connects(i, s)' <=> Connects(i, s)
      /\ Connects(n, s)' <=> x.kind = "connect" /\ x.of = s
      /\ Quits(n, s)' <=> x.kind = "disconnect" /\ x.of = s
      /\ Asks(n, s)' => link[s] \in {"open", "closed"}
  BY <1>1 DEF Asks, Quits, Connects
<1>3. \A i \in DOMAIN mailbox : Known(i, s) => Known(i, s)'
  BY <1>1, <1>2 DEF Known, Connects
<1>4. Waits(s) => Waits(s)'
  BY <1>1, <1>2 DEF Waits, Connects
<1>5. InTurn(s)'
  <2> SUFFICES ASSUME NEW i \in DOMAIN mailbox', Asks(i, s)'
               PROVE  Known(i, s)' /\ \A j \in DOMAIN mailbox' : j < i => ~Quits(j, s)'
    BY DEF InTurn, Asks, Known, Quits
  <2>1. CASE i \in DOMAIN mailbox
    BY <1>1, <1>2, <1>3, <2>1 DEF InTurn
  <2>2. CASE i = n
    <3>1. link[s] \in {"open", "closed"}
      BY <1>2, <2>2
    <3>2. s \in dashboards \/ Waits(s)
      BY <3>1 DEF Registered
    <3>3. Known(i, s)'
      BY <1>1, <1>2, <2>2, <3>2 DEF Known, Waits, Connects
    <3>4. \A j \in DOMAIN mailbox : ~Quits(j, s)
      BY <3>1 DEF Registered
    <3> QED
      BY <1>1, <1>2, <2>2, <3>3, <3>4
  <2> QED
    BY <1>1, <2>1, <2>2
<1>6. Registered(s)'
  <2>1. ASSUME link'[s] # "gone", NEW i \in DOMAIN mailbox' PROVE ~Quits(i, s)'
    BY <1>1, <1>2, <2>1 DEF Registered
  <2>2. ASSUME link'[s] \in {"open", "closed"} PROVE s \in dashboards \/ Waits(s)'
    <3>1. CASE link[s] \in {"open", "closed"}
      BY <1>4, <3>1 DEF Registered
    <3>2. CASE x.kind = "connect" /\ x.of = s
      BY <1>1, <1>2, <3>2 DEF Waits, Connects
    <3> QED
      BY <2>2, <3>1, <3>2
  <2> QED
    BY <2>1, <2>2 DEF Registered, Quits
<1> QED
  BY <1>5, <1>6

(* Steps that leave the master's mailbox and its map alone.                *)
LEMMA KeptSame ==
  ASSUME NEW s, InTurn(s), Registered(s), UNCHANGED <<mailbox, dashboards>>,
         link'[s] \in {"open", "closed"} => link[s] \in {"open", "closed"},
         link[s] = "gone" => link'[s] = "gone"
  PROVE  InTurn(s)' /\ Registered(s)'
<1>1. InTurn(s)'
  BY DEF InTurn, Asks, Quits, Known, Connects
<1>2. Registered(s)'
  BY DEF Registered, Quits, Waits, Connects
<1> QED
  BY <1>1, <1>2

LEMMA KeptCallbacks ==
  ASSUME TypeOK, LeavingInv, KeptInv, NEW s \in Sessions,
         \/ onConnect(s) \/ Close(s) \/ onDisconnect(s) \/ directPublish(s)
         \/ \E t \in Topics, kind \in {"subscribe", "unsubscribe"} : onMessage(s, kind, t)
         \/ \E m \in Messages : publish(m)
  PROVE  KeptInv'
<1> SUFFICES ASSUME NEW q \in Sessions PROVE InTurn(q)' /\ Registered(q)' /\ Running(q)'
  BY DEF KeptInv
<1>1. InTurn(q) /\ Registered(q) /\ Running(q) /\ ConnectsOnce(q)
      /\ UNCHANGED <<dashboards, actor>> /\ link \in [Sessions -> {"new", "open", "closed", "gone"}]
  BY DEF KeptInv, LeavingInv, Leaves, TypeOK, onConnect, Close, onDisconnect, directPublish,
         onMessage, publish, routing, children
<1>2. Running(q)'
  BY <1>1 DEF Running
<1>3. CASE onConnect(s)
  <2> DEFINE x == [kind |-> "connect", of |-> s]
  <2>1. x \in Mails /\ mailbox' = Append(mailbox, x) /\ link[s] = "new"
        /\ link' = [link EXCEPT ![s] = "open"] /\ x.kind = "connect" /\ x.of = s
    BY <1>3 DEF onConnect, Tell, Mails
  <2> HIDE DEF x
  <2> QED
    BY <1>1, <1>2, <2>1, KeptTold
<1>4. CASE Close(s)
  BY <1>1, <1>2, <1>4, KeptSame DEF Close
<1>5. CASE onDisconnect(s)
  <2> DEFINE x == [kind |-> "disconnect", of |-> s]
  <2>1. x \in Mails /\ mailbox' = Append(mailbox, x) /\ link[s] = "closed"
        /\ link' = [link EXCEPT ![s] = "gone"] /\ x.kind = "disconnect" /\ x.of = s
    BY <1>5 DEF onDisconnect, Tell, Mails
  <2> HIDE DEF x
  <2> QED
    BY <1>1, <1>2, <2>1, KeptTold
<1>6. ASSUME NEW x \in Mails, mailbox' = Append(mailbox, x), UNCHANGED link,
             x.kind \notin {"connect", "disconnect"},
             x.kind \in {"subscribe", "unsubscribe"} => link[x.of[1]] = "open"
      PROVE  InTurn(q)' /\ Registered(q)'
  BY <1>1, <1>6, KeptTold
<1>7. CASE directPublish(s)
  <2> DEFINE x == [kind |-> "answer", of |-> s]
  <2>1. x \in Mails /\ mailbox' = Append(mailbox, x) /\ UNCHANGED link /\ x.kind = "answer"
    BY <1>7 DEF directPublish, Tell, Mails
  <2> HIDE DEF x
  <2> QED
    BY <1>2, <1>6, <2>1
<1>8. ASSUME NEW t \in Topics, NEW kind \in {"subscribe", "unsubscribe"}, onMessage(s, kind, t)
      PROVE  InTurn(q)' /\ Registered(q)'
  <2> DEFINE x == [kind |-> kind, of |-> <<s, t>>]
  <2>1. x \in Mails /\ mailbox' = Append(mailbox, x) /\ UNCHANGED link /\ x.kind = kind
        /\ x.of[1] = s /\ link[s] = "open"
    BY <1>8 DEF onMessage, Tell, Mails
  <2> HIDE DEF x
  <2> QED
    BY <1>6, <2>1
<1>9. ASSUME NEW m \in Messages, publish(m) PROVE InTurn(q)' /\ Registered(q)'
  <2> DEFINE x == [kind |-> "publish", of |-> m]
  <2>1. x \in Mails /\ mailbox' = Append(mailbox, x) /\ UNCHANGED link /\ x.kind = "publish"
    BY <1>9 DEF publish, Tell, Mails
  <2> HIDE DEF x
  <2> QED
    BY <1>6, <2>1
<1> QED
  BY <1>2, <1>3, <1>4, <1>5, <1>7, <1>8, <1>9

LEMMA KeptMaster == ASSUME TypeOK, KeptInv, MasterStep PROVE KeptInv'
<1> SUFFICES ASSUME NEW q \in Sessions PROVE InTurn(q)' /\ Registered(q)' /\ Running(q)'
  BY DEF KeptInv
<1>1. InTurn(q) /\ Registered(q) /\ Running(q)
  BY DEF KeptInv
<1>2. /\ mailbox \in Seq(Mails)
      /\ actor \in [Sessions -> {"none", "alive", "failed", "stopping", "stopped", "terminated"}]
  BY DEF TypeOK
<1>3. UNCHANGED link
  BY DEF MasterStep, Connect, Propagate, Disconnect, DirectPublish, StartPublish, EndPublish,
         ConcurrentModification, RestartMaster, Visit, client
<1>4. CASE Connect
  <2> DEFINE s == Head(mailbox).of
  <2>1. /\ mailbox # <<>> /\ mailbox' = Tail(mailbox) /\ dashboards' = dashboards \cup {s}
        /\ actor' = [actor EXCEPT ![s] = "alive"] /\ s = mailbox[1].of
    BY <1>2, <1>4, TailOf DEF Connect, Mail
  <2> HIDE DEF s
  <2>2. Running(q)'
    BY <1>1, <1>2, <2>1 DEF Running
  <2> QED
    BY <1>1, <1>3, <2>1, <2>2, KeptTaken DEF Connects
<1>5. CASE Disconnect
  <2> DEFINE s == Head(mailbox).of
  <2>1. /\ mailbox # <<>> /\ mailbox' = Tail(mailbox) /\ dashboards' = dashboards \ {s}
        /\ UNCHANGED actor /\ s = mailbox[1].of /\ mailbox[1].kind = "disconnect"
    BY <1>2, <1>5, TailOf DEF Disconnect, Mail
  <2> HIDE DEF s
  <2>2. Running(q)'
    BY <1>1, <2>1 DEF Running
  <2> QED
    BY <1>1, <1>3, <2>1, <2>2, KeptTaken DEF Connects, Quits
<1>6. ASSUME UNCHANGED dashboards, UNCHANGED actor \/ MasterFails,
             \/ UNCHANGED mailbox
             \/ mailbox # <<>> /\ mailbox' = Tail(mailbox) /\ Head(mailbox).kind # "connect"
      PROVE  InTurn(q)' /\ Registered(q)' /\ Running(q)'
  <2>1. Running(q)'
    BY <1>1, <1>6 DEF Running, MasterFails
  <2>2. CASE UNCHANGED mailbox
    BY <1>1, <1>3, <1>6, <2>1, <2>2, KeptSame
  <2>3. CASE mailbox # <<>> /\ mailbox' = Tail(mailbox) /\ Head(mailbox).kind # "connect"
    <3>1. ~Connects(1, q)
      BY <1>2, <2>3, TailOf DEF Connects
    <3> QED
      BY <1>1, <1>3, <1>6, <2>1, <2>3, <3>1, KeptTaken
  <2> QED
    BY <1>6, <2>2, <2>3
<1>7. CASE Propagate("subscribe") \/ Propagate("unsubscribe")
  BY <1>6, <1>7 DEF Propagate, Mail, routing
<1>8. CASE DirectPublish
  BY <1>6, <1>8 DEF DirectPublish, Mail, MasterFails
<1>9. CASE StartPublish
  BY <1>6, <1>9 DEF StartPublish, Mail, MasterFails
<1>10. ASSUME EndPublish \/ ConcurrentModification \/ \E p \in routeConsumers : Visit(p)
       PROVE  InTurn(q)' /\ Registered(q)' /\ Running(q)'
  <2>1. mailbox # <<>> /\ Head(mailbox).kind # "connect"
    BY <1>10 DEF EndPublish, ConcurrentModification, Visit, TypeOK
  <2>2. /\ UNCHANGED dashboards
        /\ UNCHANGED actor \/ MasterFails
        /\ UNCHANGED mailbox \/ mailbox' = Tail(mailbox)
    BY <1>10 DEF EndPublish, ConcurrentModification, Visit, MasterFails, children
  <2> QED
    BY <1>6, <2>1, <2>2
<1>11. CASE RestartMaster
  BY <1>6, <1>11 DEF RestartMaster, children
<1> QED
  BY <1>4, <1>5, <1>7, <1>8, <1>9, <1>10, <1>11 DEF MasterStep

LEMMA KeptDashboard ==
  ASSUME TypeOK, LeavingInv, KeptInv, NEW s \in Sessions, DashboardStep(s) PROVE KeptInv'
<1> SUFFICES ASSUME NEW q \in Sessions PROVE InTurn(q)' /\ Registered(q)' /\ Running(q)'
  BY DEF KeptInv
<1>1. UNCHANGED <<link, mailbox, dashboards>>
  BY DEF DashboardStep, Subscribe, Unsubscribe, UpdateSecond, RemoveAll, SendPoison, Terminate,
         RemoveRoute, Consume, RestartDashboard, StopDashboard, client, routing
<1>2. InTurn(q)' /\ Registered(q)'
  BY <1>1, KeptSame DEF KeptInv
<1>3. Running(q)'
  <2>1. Running(q) /\ EndsWith(s) /\ inbox[s] \in Seq(Letters) /\ DOMAIN actor = Sessions
    BY DEF KeptInv, LeavingInv, Leaves, TypeOK
  <2>2. CASE Terminate(s)
    <3>1. inbox[s] # <<>> /\ Head(inbox[s]).kind = "poison"
          /\ actor' = [actor EXCEPT ![s] = "terminated"]
      BY <2>2 DEF Terminate, Handles
    <3>2. s \notin dashboards
      BY <2>1, <3>1, TailOf DEF EndsWith
    <3> QED
      BY <1>1, <2>1, <3>1, <3>2 DEF Running
  <2>3. CASE ~Terminate(s)
    <3>1. \/ UNCHANGED actor
          \/ \E a \in {"alive", "failed", "stopped"} : actor' = [actor EXCEPT ![s] = a]
          \/ actor' = [actor EXCEPT ![s] = actor[s]]
      BY <2>3 DEF DashboardStep, Subscribe, Unsubscribe, UpdateSecond, RemoveAll, SendPoison,
           RemoveRoute, Consume, RestartDashboard, StopDashboard
    <3> QED
      BY <1>1, <2>1, <3>1 DEF Running
  <2> QED
    BY <2>2, <2>3
<1> QED
  BY <1>2, <1>3

LEMMA KeptNext == TypeOK /\ LeavingInv /\ KeptInv /\ [Next]_vars => KeptInv'
<1> SUFFICES ASSUME TypeOK, LeavingInv, KeptInv, [Next]_vars PROVE KeptInv'
  OBVIOUS
<1>1. CASE UNCHANGED vars \/ \E t \in Topics : Expire(t)
  <2>1. UNCHANGED <<link, mailbox, dashboards, actor>>
    BY <1>1 DEF vars, Expire, client, routing, children
  <2> QED
    BY <2>1, KeptSame DEF KeptInv, Running
<1>2. ASSUME NEW m \in Messages, publish(m) PROVE KeptInv'
  <2>1. CASE Sessions = {}
    BY <2>1 DEF KeptInv
  <2>2. CASE Sessions # {}
    BY <1>2, <2>2, KeptCallbacks
  <2> QED
    BY <2>1, <2>2
<1> QED
  BY <1>1, <1>2, KeptCallbacks, KeptMaster, KeptDashboard DEF Next

(* A request that is not the head of the mailbox stays with the master.    *)
LEMMA StaysAtMaster ==
  ASSUME TypeOK, NEW s \in Sessions, NEW t \in Topics, NEW kind \in Requests,
         AtMaster(s, kind, t),
         \/ UNCHANGED mailbox
         \/ \E x : mailbox' = Append(mailbox, x)
         \/ mailbox' = Tail(mailbox) /\ ~MailOf(Head(mailbox), s, kind, t)
  PROVE  AtMaster(s, kind, t)'
<1>1. PICK i \in DOMAIN mailbox : MailOf(mailbox[i], s, kind, t)
  BY DEF AtMaster
<1>2. mailbox \in Seq(Mails)
  BY DEF TypeOK
<1>3. CASE UNCHANGED mailbox
  BY <1>1, <1>3 DEF AtMaster
<1>4. ASSUME NEW x, mailbox' = Append(mailbox, x) PROVE AtMaster(s, kind, t)'
  <2>1. i \in DOMAIN mailbox' /\ mailbox'[i] = mailbox[i]
    BY <1>2, <1>4
  <2> QED
    BY <1>1, <2>1 DEF AtMaster
<1>5. CASE mailbox' = Tail(mailbox) /\ ~MailOf(Head(mailbox), s, kind, t)
  <2>1. i # 1
    BY <1>1, <1>2, <1>5
  <2>2. i - 1 \in DOMAIN mailbox' /\ mailbox'[i - 1] = mailbox[i]
    BY <1>2, <1>5, <2>1
  <2> QED
    BY <1>1, <2>2 DEF AtMaster
<1> QED
  BY <1>3, <1>4, <1>5

(* What the master forwards is with the dashboard.                         *)
LEMMA Arrives ==
  ASSUME TypeOK, NEW s \in Sessions, NEW kind \in Requests, NEW t \in Topics, NEW u,
         [kind |-> kind, topic |-> u] \in Letters, kind # "disconnect" => u = t,
         Forward(s, kind, u), actor[s] \in {"alive", "failed"}
  PROVE  AtDashboard(s, kind, t)'
<1> DEFINE x == [kind |-> kind, topic |-> u]
<1>1. inbox[s] \in Seq(Letters) /\ inbox'[s] = Append(inbox[s], x) /\ x \in Letters
      /\ LetterOf(x, kind, t)
  BY DEF TypeOK, Forward, LetterOf
<1> HIDE DEF x
<1>2. Len(inbox[s]) + 1 \in DOMAIN inbox'[s] /\ inbox'[s][Len(inbox[s]) + 1] = x
  BY <1>1
<1> QED
  BY <1>1, <1>2 DEF AtDashboard

LEMMA MasterKeeps ==
  ASSUME TypeOK, KeptInv, [Next]_vars, NEW s \in Sessions, NEW t \in Topics, NEW kind \in Requests,
         AtMaster(s, kind, t)
  PROVE  AtMaster(s, kind, t)' \/ AtDashboard(s, kind, t)' \/ actor[s] \in {"stopping", "stopped"}
<1>1. mailbox \in Seq(Mails) /\ actor[s] \in {"none", "alive", "failed", "stopping", "stopped", "terminated"}
  BY DEF TypeOK
<1>2. CASE UNCHANGED vars \/ \E u \in Topics : Expire(u)
  BY <1>2, StaysAtMaster DEF vars, Expire
<1>3. CASE \/ \E q \in Sessions : \/ onConnect(q) \/ Close(q) \/ onDisconnect(q) \/ directPublish(q)
                                  \/ \E u \in Topics, k \in {"subscribe", "unsubscribe"} :
                                       onMessage(q, k, u)
           \/ \E x \in Messages : publish(x)
  <2>1. UNCHANGED mailbox \/ \E x : mailbox' = Append(mailbox, x)
    BY <1>3 DEF onConnect, Close, onDisconnect, directPublish, onMessage, publish, Tell
  <2> QED
    BY <2>1, StaysAtMaster
<1>4. ASSUME NEW q \in Sessions, DashboardStep(q) PROVE AtMaster(s, kind, t)'
  <2>1. UNCHANGED mailbox
    BY <1>4 DEF DashboardStep, Subscribe, Unsubscribe, UpdateSecond, RemoveAll, SendPoison,
         Terminate, RemoveRoute, Consume, RestartDashboard, StopDashboard
  <2> QED
    BY <2>1, StaysAtMaster
<1>5. ASSUME MailOf(Head(mailbox), s, kind, t), mailbox # <<>>
      PROVE  s \in dashboards /\ (actor[s] \in {"alive", "failed"} \/ actor[s] \in {"stopping", "stopped"})
  <2>1. 1 \in DOMAIN mailbox /\ Asks(1, s)
    BY <1>1, <1>5, TailOf DEF MailOf, Asks, Quits, Requests
  <2>2. s \in dashboards
    BY <1>1, <2>1 DEF KeptInv, InTurn, Known
  <2> QED
    BY <1>1, <2>2 DEF KeptInv, Running
<1>6. ASSUME \/ UNCHANGED mailbox
             \/ mailbox' = Tail(mailbox) /\ Head(mailbox).kind \in {"connect", "answer", "publish"}
      PROVE  AtMaster(s, kind, t)'
  BY <1>6, StaysAtMaster DEF MailOf, Requests
<1>7. CASE Connect
  BY <1>6, <1>7 DEF Connect, Mail
<1>8. ASSUME NEW k \in {"subscribe", "unsubscribe"}, Propagate(k)
      PROVE  AtMaster(s, kind, t)' \/ AtDashboard(s, kind, t)' \/ actor[s] \in {"stopping", "stopped"}
  <2>1. mailbox # <<>> /\ Head(mailbox).kind = k /\ mailbox' = Tail(mailbox)
    BY <1>8 DEF Propagate, Mail
  <2>2. CASE ~MailOf(Head(mailbox), s, kind, t)
    BY <2>1, <2>2, StaysAtMaster
  <2>3. CASE MailOf(Head(mailbox), s, kind, t)
    <3>1. kind = k /\ Head(mailbox).of[1] = s /\ Head(mailbox).of[2] = t
      BY <2>1, <2>3 DEF MailOf
    <3>2. Forward(s, kind, t)
      BY <1>5, <1>8, <2>1, <2>3, <3>1 DEF Propagate
    <3>3. [kind |-> kind, topic |-> t] \in Letters
      BY <3>1 DEF Letters
    <3> QED
      BY <1>5, <2>1, <2>3, <3>2, <3>3, Arrives
  <2> QED
    BY <2>2, <2>3
<1>9. CASE Disconnect
  <2>1. mailbox # <<>> /\ Head(mailbox).kind = "disconnect" /\ mailbox' = Tail(mailbox)
    BY <1>9 DEF Disconnect, Mail
  <2>2. CASE ~MailOf(Head(mailbox), s, kind, t)
    BY <2>1, <2>2, StaysAtMaster
  <2>3. CASE MailOf(Head(mailbox), s, kind, t)
    <3>1. kind = "disconnect" /\ Head(mailbox).of = s
      BY <2>1, <2>3 DEF MailOf
    <3>2. Forward(s, kind, {})
      BY <1>5, <1>9, <2>1, <2>3, <3>1 DEF Disconnect
    <3>3. [kind |-> kind, topic |-> {}] \in Letters
      BY <3>1 DEF Letters
    <3> QED
      BY <1>5, <2>1, <2>3, <3>1, <3>2, <3>3, Arrives
  <2> QED
    BY <2>2, <2>3
<1>10. CASE DirectPublish
  BY <1>6, <1>10 DEF DirectPublish, Mail, MasterFails
<1>11. CASE StartPublish
  BY <1>6, <1>11 DEF StartPublish, Mail, MasterFails
<1>12. ASSUME EndPublish \/ ConcurrentModification \/ \E p \in routeConsumers : Visit(p)
       PROVE  AtMaster(s, kind, t)'
  <2>1. Head(mailbox).kind = "publish" /\ (UNCHANGED mailbox \/ mailbox' = Tail(mailbox))
    BY <1>12 DEF EndPublish, ConcurrentModification, Visit, MasterFails, TypeOK
  <2> QED
    BY <1>6, <2>1
<1>13. CASE RestartMaster
  BY <1>6, <1>13 DEF RestartMaster
<1> QED
  BY <1>2, <1>3, <1>4, <1>7, <1>8, <1>9, <1>10, <1>11, <1>12, <1>13 DEF Next, MasterStep

(* A request that is not the head of the inbox stays with the dashboard.   *)
LEMMA StaysAtDashboard ==
  ASSUME TypeOK, NEW s \in Sessions, NEW t \in Topics, NEW kind \in Requests,
         AtDashboard(s, kind, t),
         \/ inbox'[s] = inbox[s]
         \/ \E x : inbox'[s] = Append(inbox[s], x)
         \/ inbox'[s] = Tail(inbox[s]) /\ ~LetterOf(Head(inbox[s]), kind, t)
  PROVE  AtDashboard(s, kind, t)'
<1>1. PICK i \in DOMAIN inbox[s] : LetterOf(inbox[s][i], kind, t)
  BY DEF AtDashboard
<1>2. inbox[s] \in Seq(Letters)
  BY DEF TypeOK
<1>3. CASE inbox'[s] = inbox[s]
  BY <1>1, <1>3 DEF AtDashboard
<1>4. ASSUME NEW x, inbox'[s] = Append(inbox[s], x) PROVE AtDashboard(s, kind, t)'
  <2>1. i \in DOMAIN inbox'[s] /\ inbox'[s][i] = inbox[s][i]
    BY <1>2, <1>4
  <2> QED
    BY <1>1, <2>1 DEF AtDashboard
<1>5. CASE inbox'[s] = Tail(inbox[s]) /\ ~LetterOf(Head(inbox[s]), kind, t)
  <2>1. i # 1
    BY <1>1, <1>2, <1>5
  <2>2. i - 1 \in DOMAIN inbox'[s] /\ inbox'[s][i - 1] = inbox[s][i]
    BY <1>2, <1>5, <2>1
  <2> QED
    BY <1>1, <2>2 DEF AtDashboard
<1> QED
  BY <1>3, <1>4, <1>5

LEMMA DashboardKeeps ==
  ASSUME TypeOK, TablesInv, LeavingInv, [Next]_vars,
         NEW s \in Sessions, NEW t \in Topics, NEW kind \in Requests,
         AtDashboard(s, kind, t)
  PROVE  \/ AtDashboard(s, kind, t)' \/ Effected(s, kind, t)' \/ Router = "racy"
         \/ actor'[s] = "stopped"
<1>1. /\ inbox[s] \in Seq(Letters) /\ DOMAIN inbox = Sessions /\ DOMAIN actor = Sessions
      /\ EndsWith(s) /\ Tables(s)
  BY DEF TypeOK, LeavingInv, Leaves, TablesInv
<1>2. PICK i \in DOMAIN inbox[s] : LetterOf(inbox[s][i], kind, t)
  BY DEF AtDashboard
<1>3. i \in Nat /\ i > 0 /\ i <= Len(inbox[s]) /\ Len(inbox[s]) \in Nat /\ inbox[s] # <<>>
      /\ Head(inbox[s]) = inbox[s][1] /\ 1 \in DOMAIN inbox[s]
  BY <1>1, <1>2
<1>4. CASE \/ UNCHANGED vars \/ \E u \in Topics : Expire(u)
           \/ \E q \in Sessions : \/ onConnect(q) \/ Close(q) \/ onDisconnect(q) \/ directPublish(q)
                                  \/ \E u \in Topics, k \in {"subscribe", "unsubscribe"} :
                                       onMessage(q, k, u)
           \/ \E x \in Messages : publish(x)
  <2>1. UNCHANGED inbox
    BY <1>4 DEF vars, Expire, onConnect, Close, onDisconnect, directPublish, onMessage, publish, children
  <2> QED
    BY <2>1, StaysAtDashboard
<1>5. CASE MasterStep
  <2>1. UNCHANGED inbox \/ \E q, k, u : Forward(q, k, u)
    BY <1>5 DEF MasterStep, Connect, Propagate, Disconnect, DirectPublish, StartPublish, EndPublish,
                ConcurrentModification, RestartMaster, Visit, children
  <2>2. inbox'[s] = inbox[s] \/ \E x : inbox'[s] = Append(inbox[s], x)
    BY <1>1, <2>1 DEF Forward
  <2> QED
    BY <2>2, StaysAtDashboard
<1>6. ASSUME NEW q \in Sessions \ {s}, DashboardStep(q) PROVE AtDashboard(s, kind, t)'
  <2>1. \/ UNCHANGED inbox
        \/ \E x : inbox' = [inbox EXCEPT ![q] = x]
    BY <1>6 DEF DashboardStep, Subscribe, Unsubscribe, UpdateSecond, RemoveAll, SendPoison,
         Terminate, RemoveRoute, Consume, RestartDashboard, StopDashboard, PopInbox
  <2>2. inbox'[s] = inbox[s]
    BY <1>1, <2>1
  <2> QED
    BY <2>2, StaysAtDashboard
<1>7. CASE Subscribe(s) \/ Unsubscribe(s) \/ RemoveAll(s) \/ \E u \in Topics : RemoveRoute(s, u)
  BY <1>7, StaysAtDashboard DEF Subscribe, Unsubscribe, RemoveAll, RemoveRoute
<1>8. CASE UpdateSecond(s)
  <2>1. /\ step[s] = "second" /\ inbox'[s] = Tail(inbox[s])
        /\ UNCHANGED <<routeConsumers, incarnation>>
    BY <1>1, <1>8 DEF UpdateSecond, PopInbox
  <2>2. CASE ~LetterOf(Head(inbox[s]), kind, t)
    BY <2>1, <2>2, StaysAtDashboard
  <2>3. CASE LetterOf(Head(inbox[s]), kind, t)
    <3>1. Head(inbox[s]).kind = kind /\ kind \in {"subscribe", "unsubscribe"}
          /\ Head(inbox[s]).topic = t
      BY <2>1, <2>3 DEF LetterOf, TypeOK
    <3>2. Router # "racy" => (Has(s, incarnation[s], t) <=> kind = "subscribe")
      BY <1>1, <2>1, <3>1 DEF Tables, Present
    <3> QED
      BY <2>1, <3>1, <3>2 DEF Effected, Has, Consumer
  <2> QED
    BY <2>2, <2>3
<1>9. CASE SendPoison(s)
  <2>1. /\ step[s] = "remove" /\ leaving[s] = {} /\ UNCHANGED <<routeConsumers, incarnation>>
        /\ Head(inbox[s]).kind = "disconnect"
    BY <1>9 DEF SendPoison, tables, TypeOK
  <2>2. i = 1 /\ kind = "disconnect"
    BY <1>1, <1>2, <1>3, <2>1 DEF EndsWith, LetterOf
  <2>3. Router # "racy" => \A u \in Topics : ~Has(s, incarnation[s], u)
    BY <1>1, <2>1 DEF Tables, Present
  <2> QED
    BY <2>1, <2>2, <2>3 DEF Effected, Has, Consumer
<1>10. CASE Terminate(s)
  <2>1. Head(inbox[s]).kind = "poison"
    BY <1>10 DEF Terminate, Handles
  <2>2. i = 1
    BY <1>1, <1>3, <2>1 DEF EndsWith
  <2> QED
    BY <1>2, <1>3, <2>1, <2>2 DEF LetterOf, Requests
<1>11. CASE Consume(s)
  <2>1. Head(inbox[s]).kind = "answer" /\ inbox'[s] = Tail(inbox[s])
    BY <1>1, <1>11 DEF Consume, Handles, PopInbox
  <2> QED
    BY <2>1, StaysAtDashboard DEF LetterOf, Requests
<1>12. CASE RestartDashboard(s)
  BY <1>12, StaysAtDashboard DEF RestartDashboard
<1>13. CASE StopDashboard(s)
  BY <1>1, <1>13 DEF StopDashboard
<1> QED
  BY <1>4, <1>5, <1>6, <1>7, <1>8, <1>9, <1>10, <1>11, <1>12, <1>13 DEF Next, DashboardStep

(* Whatever overlaps, fails and restarts: a subscription, an unsubscription *)
(* or a disconnect that was asked for is with the master, then with the     *)
(* dashboard, until it has been effected; the exceptions are a dashboard    *)
(* that a failure of the master stops, and multimaps that lose updates.     *)
THEOREM NoRequestIsLost == Spec => KeepsRequests
<1>1. TypeOK /\ TablesInv /\ LeavingInv /\ KeptInv /\ [Next]_vars =>
        \A s \in Sessions, t \in Topics, kind \in Requests :
          /\ AtMaster(s, kind, t) => \/ AtMaster(s, kind, t)' \/ AtDashboard(s, kind, t)'
                                     \/ actor[s] \in {"stopping", "stopped"}
          /\ AtDashboard(s, kind, t) => \/ AtDashboard(s, kind, t)'
                                        \/ Effected(s, kind, t)' \/ Router = "racy"
                                        \/ actor'[s] = "stopped"
  BY MasterKeeps, DashboardKeeps
<1> QED
  BY <1>1, TypedInit, TypedNext, TablesInit, TablesNext, LeavingInit, LeavingNext,
     KeptInit, KeptNext, PTL DEF Spec, KeepsRequests
=============================================================================
