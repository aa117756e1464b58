-------------------------- MODULE VEDelivery_proofs --------------------------
(***************************************************************************)
(* The proof that no socket of VEServer is given an event twice for a      *)
(* topic.  An event is on one pipe; the worker that takes it from there is *)
(* the only one that emits it, once to each room; the store tells every    *)
(* other worker once; and a socket is at one worker, which either emits or *)
(* is told.  Nor is an event lost on its way to a socket.                  *)
(***************************************************************************)
EXTENDS VEServer_proofs

USE DEF processes

IsEmit(n) == n.kind = "emit"

PipesOnce ==
  \A v \in Ids : \A w \in Ids : \A i \in DOMAIN pipe[v] : \A j \in DOMAIN pipe[w] :
    pipe[v][i] = pipe[w][j] => v = w /\ i = j

PipesFresh == \A v \in Ids : \A i \in DOMAIN pipe[v] : pipe[v][i] \notin handled

ToldOfHandled ==
  \A v \in Ids : \A i \in DOMAIN redis[v] : IsEmit(redis[v][i]) => redis[v][i].socket \in handled

GivenHandled == \A s \in Sockets : \A i \in DOMAIN received[s] : received[s][i][2] \in handled

EmitsOnce ==
  \A v \in Ids : \A i \in DOMAIN redis[v] : \A j \in DOMAIN redis[v] :
    IsEmit(redis[v][i]) /\ redis[v][i] = redis[v][j] => i = j

NotYet ==
  \A s \in Sockets : home[s] # 0 =>
    \A i \in DOMAIN redis[home[s]] : \A j \in DOMAIN received[s] :
      IsEmit(redis[home[s]][i]) => received[s][j] # Member(redis[home[s]][i])

(* A socket that has not asked for anything is in no room. *)
Unasked ==
  \A s \in Sockets : asked[s] = 0 =>
    /\ received[s] = <<>>
    /\ \A v \in Ids : /\ \A t \in Topics : <<t, s>> \notin rooms[v]
                      /\ \A i \in DOMAIN redis[v] :
                           ~IsEmit(redis[v][i]) => redis[v][i].socket # s

Emitting == ToldOfHandled /\ EmitsOnce /\ NotYet

DeliveryInv == PipesOnce /\ PipesFresh /\ Emitting /\ GivenHandled /\ NoDuplicates /\ Unasked
-----------------------------------------------------------------------------
(* What two sequences hold, one after the other.                           *)
LEMMA Concatenated ==
  ASSUME NEW A, NEW p \in Seq(A), NEW q \in Seq(A), NEW i \in DOMAIN (p \o q)
  PROVE  \/ i \in DOMAIN p /\ (p \o q)[i] = p[i]
         \/ i - Len(p) \in DOMAIN q /\ (p \o q)[i] = q[i - Len(p)] /\ i \in Nat /\ i > Len(p)
<1>1. /\ DOMAIN (p \o q) = 1..(Len(p) + Len(q)) /\ DOMAIN p = 1..Len(p)
      /\ DOMAIN q = 1..Len(q) /\ Len(p) \in Nat /\ Len(q) \in Nat
      /\ \A k \in DOMAIN p : (p \o q)[k] = p[k]
      /\ \A k \in DOMAIN q : (p \o q)[Len(p) + k] = q[k]
  OBVIOUS
<1>2. CASE i \in DOMAIN p
  BY <1>1, <1>2
<1>3. CASE i \notin DOMAIN p
  <2>1. i - Len(p) \in DOMAIN q /\ Len(p) + (i - Len(p)) = i /\ i \in Nat /\ i > Len(p)
    BY <1>1, <1>3
  <2>2. (p \o q)[Len(p) + (i - Len(p))] = q[i - Len(p)]
    BY <1>1, <2>1
  <2> QED
    BY <2>1, <2>2
<1> QED
  BY <1>2, <1>3

LEMMA OnceEach ==
  ASSUME NEW A, NEW p \in Seq(A), NEW q \in Seq(A), IsInjective(p), IsInjective(q),
         \A i \in DOMAIN p : \A j \in DOMAIN q : p[i] # q[j]
  PROVE  IsInjective(p \o q)
<1> SUFFICES ASSUME NEW a \in DOMAIN (p \o q), NEW b \in DOMAIN (p \o q),
                    (p \o q)[a] = (p \o q)[b]
             PROVE  a = b
  BY DEF IsInjective
<1> DEFINE r == p \o q
           n == Len(p)
<1>1. \/ a \in DOMAIN p /\ r[a] = p[a]
      \/ a - n \in DOMAIN q /\ r[a] = q[a - n] /\ a \in Nat /\ a > n
  BY Concatenated
<1>2. \/ b \in DOMAIN p /\ r[b] = p[b]
      \/ b - n \in DOMAIN q /\ r[b] = q[b - n] /\ b \in Nat /\ b > n
  BY Concatenated
<1>3. n \in Nat /\ r[a] = r[b]
  OBVIOUS
<1> HIDE DEF r, n
<1>4. CASE a \in DOMAIN p /\ r[a] = p[a] /\ b \in DOMAIN p /\ r[b] = p[b]
  BY <1>3, <1>4 DEF IsInjective
<1>5. CASE /\ a - n \in DOMAIN q /\ r[a] = q[a - n] /\ a \in Nat
           /\ b - n \in DOMAIN q /\ r[b] = q[b - n] /\ b \in Nat
  <2>1. a - n = b - n
    BY <1>3, <1>5 DEF IsInjective
  <2> QED
    BY <1>3, <1>5, <2>1
<1> QED
  BY <1>1, <1>2, <1>3, <1>4, <1>5

LEMMA TailOf ==
  ASSUME NEW A, NEW q \in Seq(A), q # <<>>
  PROVE  /\ 1 \in DOMAIN q /\ Head(q) = q[1]
         /\ \A i \in DOMAIN Tail(q) : i \in Nat /\ i > 0 /\ i + 1 \in DOMAIN q
                                      /\ Tail(q)[i] = q[i + 1]
OBVIOUS

(* Steps that emit nothing. *)
LEMMA EmittingNothing ==
  ASSUME Emitting, UNCHANGED <<handled, received>>,
         \A v \in Ids : \A i \in DOMAIN redis'[v] :
           IsEmit(redis'[v][i]) => i \in DOMAIN redis[v] /\ redis'[v][i] = redis[v][i],
         \A s \in Sockets : home'[s] # 0 =>
            home'[s] \in Ids /\ (home'[s] = home[s] \/ received[s] = <<>>)
  PROVE  Emitting'
<1>1. ToldOfHandled'
  BY DEF Emitting, ToldOfHandled
<1>2. EmitsOnce'
  BY DEF Emitting, EmitsOnce
<1>3. NotYet'
  <2> SUFFICES ASSUME NEW s \in Sockets, home'[s] # 0,
                      NEW i \in DOMAIN redis'[home'[s]], NEW j \in DOMAIN received[s],
                      IsEmit(redis'[home'[s]][i])
               PROVE  received[s][j] # Member(redis'[home'[s]][i])
    BY DEF NotYet
  <2>1. home'[s] \in Ids /\ home'[s] = home[s]
    OBVIOUS
  <2>2. i \in DOMAIN redis[home[s]] /\ redis'[home[s]][i] = redis[home[s]][i]
    BY <2>1
  <2>3. home[s] # 0 /\ IsEmit(redis[home[s]][i])
    BY <2>1, <2>2
  <2>4. received[s][j] # Member(redis[home[s]][i])
    BY <2>2, <2>3 DEF Emitting, NotYet
  <2> QED
    BY <2>1, <2>2, <2>4
<1> QED
  BY <1>1, <1>2, <1>3 DEF Emitting

(* Joins and leaves that are told. *)
LEMMA QuietNotes ==
  ASSUME TypeOK, NEW h, NEW new \in Seq(Notes), Publish(h, new),
         \A i \in DOMAIN new : ~IsEmit(new[i])
  PROVE  \A v \in Ids : \A i \in DOMAIN redis'[v] :
           IsEmit(redis'[v][i]) => i \in DOMAIN redis[v] /\ redis'[v][i] = redis[v][i]
<1> SUFFICES ASSUME NEW v \in Ids, NEW i \in DOMAIN redis'[v], IsEmit(redis'[v][i])
             PROVE  i \in DOMAIN redis[v] /\ redis'[v][i] = redis[v][i]
  OBVIOUS
<1>1. redis[v] \in Seq(Notes) /\ (redis'[v] = redis[v] \/ redis'[v] = redis[v] \o new)
  BY DEF TypeOK, Publish
<1>2. CASE redis'[v] = redis[v]
  BY <1>2
<1>3. CASE redis'[v] = redis[v] \o new
  <2>1. \/ i \in DOMAIN redis[v] /\ (redis[v] \o new)[i] = redis[v][i]
        \/ i - Len(redis[v]) \in DOMAIN new /\ (redis[v] \o new)[i] = new[i - Len(redis[v])]
    BY <1>1, <1>3, Concatenated
  <2> QED
    BY <1>3, <2>1
<1> QED
  BY <1>1, <1>2, <1>3
-----------------------------------------------------------------------------
(* The steps that deliver nothing. *)
LEMMA NothingDelivers ==
  ASSUME DeliveryInv, UNCHANGED <<pipe, rooms, redis, home, asked, handled, received>>
  PROVE  DeliveryInv'
BY DEF DeliveryInv, PipesOnce, PipesFresh, Emitting, ToldOfHandled, EmitsOnce, NotYet,
       GivenHandled, NoDuplicates, Unasked

LEMMA NewEventDelivers == ASSUME TypeOK, DeliveryInv, NEW e \in Events, newEvent(e)
                          PROVE  DeliveryInv'
<1> DEFINE w == getNextWorker(workers, currentWorker)
<1>12. /\ e \notin forwarded
       /\ UNCHANGED <<alive, rooms, redis, home, asked, emitted, handled, received>>
       /\ UNCHANGED pipe \/ (w \in alive /\ pipe' = [pipe EXCEPT ![w] = Append(@, e)])
  BY DEF newEvent, output
<1>13. SUFFICES ASSUME w \in alive, pipe' = [pipe EXCEPT ![w] = Append(@, e)]
                PROVE  DeliveryInv'
  BY <1>12, NothingDelivers
<1>1. /\ e \notin forwarded /\ pipe' = [pipe EXCEPT ![w] = Append(@, e)]
      /\ UNCHANGED <<alive, rooms, redis, home, asked, emitted, handled, received>>
  BY <1>12, <1>13
<1>2. w \in Ids
  BY <1>13, LiveIds
<1>3. pipe \in [Ids -> Seq(forwarded)] /\ handled \subseteq forwarded
      /\ home \in [Sockets -> alive \cup {0}] /\ alive \subseteq Ids
  BY LiveIds DEF TypeOK
<1> HIDE DEF w
<1> DEFINE q == pipe[w]
<1>4. /\ q \in Seq(forwarded) /\ pipe'[w] = Append(q, e)
      /\ \A v \in Ids : v # w => pipe'[v] = pipe[v]
  BY <1>1, <1>2, <1>3
<1>5. \A i \in DOMAIN Append(q, e) :
        \/ i \in DOMAIN q /\ Append(q, e)[i] = q[i]
        \/ i = Len(q) + 1 /\ Append(q, e)[i] = e
  BY <1>4
<1>6. \A v \in Ids : \A i \in DOMAIN pipe[v] : pipe[v][i] # e
  <2> SUFFICES ASSUME NEW v \in Ids, NEW i \in DOMAIN pipe[v] PROVE pipe[v][i] # e
    OBVIOUS
  <2>1. pipe[v] \in Seq(forwarded)
    BY <1>3
  <2>2. pipe[v][i] \in forwarded
    BY <2>1
  <2> QED
    BY <1>1, <2>2
<1>7. \A v \in Ids : \A i \in DOMAIN pipe'[v] :
        \/ i \in DOMAIN pipe[v] /\ pipe'[v][i] = pipe[v][i]
        \/ v = w /\ i = Len(q) + 1 /\ pipe'[v][i] = e
  BY <1>4, <1>5
<1>8. PipesOnce'
  <2> SUFFICES ASSUME NEW v \in Ids, NEW u \in Ids, NEW i \in DOMAIN pipe'[v],
                      NEW j \in DOMAIN pipe'[u], pipe'[v][i] = pipe'[u][j]
               PROVE  v = u /\ i = j
    BY DEF PipesOnce
  <2>1. CASE i \in DOMAIN pipe[v] /\ pipe'[v][i] = pipe[v][i]
    <3>1. CASE j \in DOMAIN pipe[u] /\ pipe'[u][j] = pipe[u][j]
      <4>1. pipe[v][i] = pipe[u][j]
        BY <2>1, <3>1
      <4> QED
        BY <2>1, <3>1, <4>1 DEF DeliveryInv, PipesOnce
    <3>2. CASE u = w /\ j = Len(q) + 1 /\ pipe'[u][j] = e
      BY <1>6, <2>1, <3>2
    <3> QED
      BY <1>7, <3>1, <3>2
  <2>2. CASE v = w /\ i = Len(q) + 1 /\ pipe'[v][i] = e
    BY <1>6, <1>7, <2>2
  <2> QED
    BY <1>7, <2>1, <2>2
<1>9. PipesFresh'
  <2>1. e \notin handled
    BY <1>1, <1>3
  <2> QED
    BY <1>1, <1>7, <2>1 DEF DeliveryInv, PipesFresh
<1>10. Emitting'
  BY <1>1, <1>3, ServerTypes, EmittingNothing DEF DeliveryInv
<1>11. GivenHandled' /\ NoDuplicates' /\ Unasked'
  BY <1>1 DEF DeliveryInv, GivenHandled, NoDuplicates, Unasked
<1> QED
  BY <1>8, <1>9, <1>10, <1>11 DEF DeliveryInv

LEMMA DeathDelivers == ASSUME TypeOK, DeliveryInv, NEW w \in Ids, dies(w) PROVE DeliveryInv'
<1>1. /\ pipe' = [pipe EXCEPT ![w] = <<>>] /\ redis' = [redis EXCEPT ![w] = <<>>]
      /\ rooms' = [rooms EXCEPT ![w] = {}]
      /\ home' = [s \in Sockets |-> IF home[s] = w THEN 0 ELSE home[s]]
      /\ UNCHANGED <<asked, handled, received>>
  BY DEF dies, output
<1>2. /\ DOMAIN pipe = Ids /\ DOMAIN redis = Ids /\ DOMAIN rooms = Ids
      /\ home \in [Sockets -> alive \cup {0}] /\ alive \subseteq Ids
  BY LiveIds DEF TypeOK
<1>3. \A v \in Ids : /\ pipe'[v] = IF v = w THEN <<>> ELSE pipe[v]
                     /\ redis'[v] = IF v = w THEN <<>> ELSE redis[v]
                     /\ rooms'[v] = IF v = w THEN {} ELSE rooms[v]
  BY <1>1, <1>2
<1>4. PipesOnce' /\ PipesFresh'
  BY <1>1, <1>3 DEF DeliveryInv, PipesOnce, PipesFresh
<1>5. Emitting'
  <2>1. \A v \in Ids : \A i \in DOMAIN redis'[v] :
          i \in DOMAIN redis[v] /\ redis'[v][i] = redis[v][i]
    BY <1>3
  <2>2. \A s \in Sockets : home'[s] # 0 => home'[s] \in Ids /\ home'[s] = home[s]
    BY <1>1, <1>2
  <2> QED
    BY <1>1, <2>1, <2>2, EmittingNothing DEF DeliveryInv
<1>6. GivenHandled' /\ NoDuplicates'
  BY <1>1 DEF DeliveryInv, GivenHandled, NoDuplicates
<1>7. Unasked'
  BY <1>1, <1>3 DEF DeliveryInv, Unasked
<1> QED
  BY <1>4, <1>5, <1>6, <1>7 DEF DeliveryInv

LEMMA ConnectionDelivers ==
  ASSUME TypeOK, DeliveryInv, NEW s \in Sockets, NEW w \in Ids, connection(s, w)
  PROVE  DeliveryInv'
<1>1. /\ asked[s] = 0 /\ home' = [home EXCEPT ![s] = w]
      /\ UNCHANGED <<pipe, rooms, redis, asked, handled, received>>
  BY DEF connection, output
<1>2. home \in [Sockets -> alive \cup {0}] /\ alive \subseteq Ids
  BY LiveIds DEF TypeOK
<1>3. received[s] = <<>>
  BY <1>1 DEF DeliveryInv, Unasked
<1>4. \A x \in Sockets : home'[x] # 0 =>
        home'[x] \in Ids /\ (home'[x] = home[x] \/ received[x] = <<>>)
  BY <1>1, <1>2, <1>3
<1>5. Emitting'
  BY <1>1, <1>4, EmittingNothing DEF DeliveryInv
<1>6. PipesOnce' /\ PipesFresh' /\ GivenHandled' /\ NoDuplicates' /\ Unasked'
  BY <1>1 DEF DeliveryInv, PipesOnce, PipesFresh, GivenHandled, NoDuplicates, Unasked
<1> QED
  BY <1>5, <1>6 DEF DeliveryInv

(* The requests and the end of a socket: only it has asked for anything.   *)
LEMMA AskingDelivers ==
  ASSUME TypeOK, DeliveryInv, NEW s \in Sockets, NEW h \in Ids, NEW new \in Seq(Notes),
         Publish(h, new), \A i \in DOMAIN new : ~IsEmit(new[i]) /\ new[i].socket = s,
         UNCHANGED <<pipe, handled, received>>,
         \A x \in Sockets : home'[x] # 0 => home'[x] \in Ids /\ home'[x] = home[x],
         \A x \in Sockets : asked'[x] = 0 => asked[x] = 0 /\ (x # s \/ new = <<>>),
         \A x \in Sockets : asked'[x] = 0 =>
            \A v \in Ids : \A t \in Topics : <<t, x>> \in rooms'[v] => <<t, x>> \in rooms[v]
  PROVE  DeliveryInv'
<1>1. Emitting'
  BY QuietNotes, EmittingNothing DEF DeliveryInv
<1>2. PipesOnce' /\ PipesFresh' /\ GivenHandled' /\ NoDuplicates'
  BY DEF DeliveryInv, PipesOnce, PipesFresh, GivenHandled, NoDuplicates
<1>3. Unasked'
  <2> SUFFICES ASSUME NEW x \in Sockets, asked'[x] = 0
               PROVE  /\ received[x] = <<>>
                      /\ \A v \in Ids : /\ \A t \in Topics : <<t, x>> \notin rooms'[v]
                                        /\ \A i \in DOMAIN redis'[v] :
                                             ~IsEmit(redis'[v][i]) => redis'[v][i].socket # x
    BY DEF Unasked
  <2>1. received[x] = <<>> /\ \A v \in Ids : \A t \in Topics : <<t, x>> \notin rooms'[v]
    BY DEF DeliveryInv, Unasked
  <2>2. ASSUME NEW v \in Ids, NEW i \in DOMAIN redis'[v], ~IsEmit(redis'[v][i])
        PROVE  redis'[v][i].socket # x
    <3>1. redis[v] \in Seq(Notes) /\ (redis'[v] = redis[v] \/ redis'[v] = redis[v] \o new)
      BY DEF TypeOK, Publish
    <3>2. ASSUME i \in DOMAIN redis[v], redis'[v][i] = redis[v][i]
          PROVE  redis'[v][i].socket # x
      BY <2>2, <3>2 DEF DeliveryInv, Unasked
    <3>3. CASE redis'[v] = redis[v]
      BY <3>2, <3>3
    <3>4. CASE redis'[v] = redis[v] \o new
      <4>1. \/ i \in DOMAIN redis[v] /\ (redis[v] \o new)[i] = redis[v][i]
            \/ i - Len(redis[v]) \in DOMAIN new
               /\ (redis[v] \o new)[i] = new[i - Len(redis[v])]
        BY <2>2, <3>1, <3>4, Concatenated
      <4>2. ASSUME NEW k \in DOMAIN new, redis'[v][i] = new[k] PROVE redis'[v][i].socket # x
        <5>1. new # <<>>
          OBVIOUS
        <5> QED
          BY <4>2, <5>1
      <4> QED
        BY <3>2, <3>4, <4>1, <4>2
    <3> QED
      BY <3>1, <3>3, <3>4
  <2> QED
    BY <2>1, <2>2
<1> QED
  BY <1>1, <1>2, <1>3 DEF DeliveryInv

LEMMA SubscribeDelivers ==
  ASSUME TypeOK, DeliveryInv, NEW s \in Sockets, NEW t \in Topics,
         subscribe(s, t) \/ unsubscribe(s, t)
  PROVE  DeliveryInv'
<1> DEFINE h == home[s]
<1>1. Request(s) /\ UNCHANGED <<alive, pipe, home, handled, received>>
  BY DEF subscribe, unsubscribe, output
<1>2. /\ home \in [Sockets -> alive \cup {0}] /\ alive \subseteq Ids
      /\ asked \in [Sockets -> 0..MaxRequests] /\ DOMAIN rooms = Ids
  BY LiveIds DEF TypeOK
<1>3. h \in Ids /\ asked' = [asked EXCEPT ![s] = @ + 1]
  BY <1>1, <1>2 DEF Request
<1>4. PICK kind \in {"join", "leave"} :
        /\ Publish(h, <<Note(kind, s, t)>>)
        /\ rooms' = [rooms EXCEPT ![h] = IF kind = "join" THEN @ \cup {<<t, s>>}
                                                          ELSE @ \ {<<t, s>>}]
  <2>1. CASE subscribe(s, t)
    BY <2>1 DEF subscribe
  <2>2. CASE unsubscribe(s, t)
    BY <2>2 DEF unsubscribe
  <2> QED
    BY <2>1, <2>2
<1> HIDE DEF h
<1> DEFINE new == <<Note(kind, s, t)>>
<1>5. new \in Seq(Notes) /\ \A i \in DOMAIN new : ~IsEmit(new[i]) /\ new[i].socket = s
  BY <1>4 DEF Note, Notes, IsEmit
<1>6. \A x \in Sockets : asked'[x] = 0 => asked[x] = 0 /\ x # s
  BY <1>2, <1>3, ServerTypes
<1>7. \A x \in Sockets : x # s =>
        \A v \in Ids : \A u \in Topics : <<u, x>> \in rooms'[v] => <<u, x>> \in rooms[v]
  BY <1>2, <1>3, <1>4
<1>8. \A x \in Sockets : home'[x] # 0 => home'[x] \in Ids /\ home'[x] = home[x]
  BY <1>1, <1>2
<1>9. Publish(h, new)
  BY <1>4
<1> HIDE DEF new
<1> QED
  BY <1>1, <1>3, <1>5, <1>6, <1>7, <1>8, <1>9, AskingDelivers

LEMMA DisconnectDelivers ==
  ASSUME TypeOK, DeliveryInv, NEW s \in Sockets, disconnect(s)
  PROVE  DeliveryInv'
<1> DEFINE h == home[s]
<1>1. /\ h \in Ids /\ home' = [home EXCEPT ![s] = 0]
      /\ home \in [Sockets -> alive \cup {0}] /\ alive \subseteq Ids /\ DOMAIN rooms = Ids
      /\ UNCHANGED <<pipe, asked, handled, received>>
  BY LiveIds DEF disconnect, output, TypeOK
<1>2. PICK T \in SUBSET Topics :
        /\ T = {t \in Topics : <<t, s>> \in rooms[h]}
        /\ rooms' = [rooms EXCEPT ![h] = {r \in @ : r[2] # s}]
        /\ Publish(h, SetToSeq(Leaves(s, T)))
  BY DisconnectTyped
<1> DEFINE new == SetToSeq(Leaves(s, T))
<1>3. new \in Seq(Notes) /\ \A i \in DOMAIN new : new[i] \in Leaves(s, T)
  <2>1. IsFiniteSet(Leaves(s, T)) /\ new \in Seq(Notes)
    BY LeavesTyped
  <2>2. new \in Seq(Leaves(s, T))
    BY <2>1, SetAsSeq
  <2> QED
    BY <2>1, <2>2
<1> HIDE DEF h, new
<1>4. \A i \in DOMAIN new : ~IsEmit(new[i]) /\ new[i].socket = s
  BY <1>3 DEF Leaves, Note, IsEmit
<1>5. asked[s] = 0 => new = <<>>
  <2> SUFFICES ASSUME asked[s] = 0 PROVE new = <<>>
    OBVIOUS
  <2>1. T = {}
    BY <1>1, <1>2 DEF DeliveryInv, Unasked
  <2>2. DOMAIN new = {}
    BY <1>3, <2>1 DEF Leaves
  <2> QED
    BY <1>3, <2>2
<1>6. \A v \in Ids : rooms'[v] \subseteq rooms[v]
  BY <1>1, <1>2
<1>7. \A x \in Sockets : home'[x] # 0 => home'[x] \in Ids /\ home'[x] = home[x]
  BY <1>1
<1>8. Publish(h, new)
  BY <1>2 DEF new
<1> QED
  BY <1>1, <1>3, <1>4, <1>5, <1>6, <1>7, <1>8, AskingDelivers
-----------------------------------------------------------------------------
(* What a socket gets when an event is emitted to some rooms at its worker *)
(* for the first time.                                                     *)
Once(w, topics, e, s) ==
  LET given == Delivered(w, topics, e)[s] IN
  /\ IsInjective(given)
  /\ \A j \in DOMAIN given :
       \/ j \in DOMAIN received[s] /\ given[j] = received[s][j]
       \/ home[s] = w /\ \E t \in topics : given[j] = <<t, e>>
  /\ home[s] # w => given = received[s]
  /\ (\A t \in Topics : <<t, s>> \notin rooms[w]) => given = received[s]

LEMMA GivenOnce ==
  ASSUME TypeOK, NoDuplicates, NEW w \in Ids, NEW topics \in SUBSET Topics, NEW e \in Events,
         NEW s \in Sockets,
         home[s] = w => \A j \in DOMAIN received[s] : \A t \in topics : received[s][j] # <<t, e>>
  PROVE  Once(w, topics, e, s)
<1>1. IsInjective(received[s]) /\ received[s] \in Seq(Topics \X Events)
  BY DEF NoDuplicates, TypeOK
<1>2. CASE home[s] # w
  BY <1>1, <1>2 DEF Delivered, Once
<1>3. CASE home[s] = w
  <2> DEFINE mine == {u \in topics : <<u, s>> \in rooms[w]}
             given == {<<t, e>> : t \in mine}
             add == SetToSeq(given)
  <2>1. Delivered(w, topics, e)[s] = received[s] \o add
    BY <1>3 DEF Delivered
  <2>2. given \subseteq Topics \X Events /\ \A x \in given : \E t \in topics : x = <<t, e>>
    <3>1. mine \subseteq Topics
      OBVIOUS
    <3>2. \A x \in given : \E t \in mine : x = <<t, e>>
      OBVIOUS
    <3>3. \A t \in mine : t \in topics
      OBVIOUS
    <3> HIDE DEF mine, given
    <3> QED
      BY <3>1, <3>2, <3>3
  <2>3. IsFiniteSet(given)
    <3>1. IsFiniteSet(mine)
      BY FS_Subset, ServerAssumption DEF ServerAssumption
    <3> DEFINE f == [t \in mine |-> <<t, e>>]
    <3>2. given = {f[t] : t \in mine}
      OBVIOUS
    <3> HIDE DEF mine, f, given
    <3>3. IsFiniteSet({f[t] : t \in mine})
      BY <3>1, ImageFinite DEF f
    <3> QED
      BY <3>2, <3>3
  <2>4. (\A t \in Topics : <<t, s>> \notin rooms[w]) => given = {}
    OBVIOUS
  <2> HIDE DEF given
  <2>5. add \in Seq(given) /\ IsInjective(add)
    BY <2>3, SetAsSeq
  <2>6. add \in Seq(Topics \X Events) /\ \A i \in DOMAIN add : add[i] \in given
    BY <2>2, <2>5
  <2> HIDE DEF add
  <2>7. IsInjective(received[s] \o add)
    <3>1. \A i \in DOMAIN received[s] : \A j \in DOMAIN add : received[s][i] # add[j]
      BY <1>3, <2>2, <2>6
    <3> QED
      BY <1>1, <2>5, <2>6, <3>1, OnceEach
  <2>8. ASSUME NEW j \in DOMAIN (received[s] \o add)
        PROVE  \/ j \in DOMAIN received[s] /\ (received[s] \o add)[j] = received[s][j]
               \/ \E t \in topics : (received[s] \o add)[j] = <<t, e>>
    <3>1. \/ j \in DOMAIN received[s] /\ (received[s] \o add)[j] = received[s][j]
          \/ /\ j - Len(received[s]) \in DOMAIN add
             /\ (received[s] \o add)[j] = add[j - Len(received[s])]
      BY <1>1, <2>6, Concatenated
    <3> QED
      BY <2>2, <2>6, <3>1
  <2>9. given = {} => received[s] \o add = received[s]
    <3> SUFFICES ASSUME given = {} PROVE received[s] \o add = received[s]
      OBVIOUS
    <3>1. add = <<>>
      BY <2>5
    <3> QED
      BY <1>1, <3>1
  <2> QED
    BY <1>3, <2>1, <2>4, <2>7, <2>8, <2>9 DEF Once
<1> QED
  BY <1>2, <1>3

LEMMA EmittedOnce ==
  ASSUME NEW e \in Events, NEW T \in SUBSET Topics
  PROVE  LET new == SetToSeq({Note("emit", e, t) : t \in T}) IN
         /\ new \in Seq(Notes) /\ IsInjective(new)
         /\ \A i \in DOMAIN new : IsEmit(new[i]) /\ new[i].socket = e
<1> DEFINE S == {Note("emit", e, t) : t \in T}
           f == [t \in T |-> Note("emit", e, t)]
<1>1. IsFiniteSet(T)
  BY FS_Subset, ServerAssumption DEF ServerAssumption
<1>2. S = {f[t] : t \in T}
  OBVIOUS
<1>3. \A n \in S : n \in Notes /\ IsEmit(n) /\ n.socket = e
  BY DEF Note, Notes, IsEmit
<1> HIDE DEF f, S
<1>4. IsFiniteSet(S)
  <2>1. IsFiniteSet({f[t] : t \in T})
    BY <1>1, ImageFinite DEF f
  <2> QED
    BY <1>2, <2>1
<1>5. SetToSeq(S) \in Seq(S) /\ IsInjective(SetToSeq(S))
  BY <1>4, SetAsSeq
<1>6. /\ SetToSeq(S) \in Seq(Notes)
      /\ \A i \in DOMAIN SetToSeq(S) : IsEmit(SetToSeq(S)[i]) /\ SetToSeq(S)[i].socket = e
  BY <1>3, <1>5
<1> QED
  BY <1>5, <1>6 DEF S

LEMMA HearDelivers == ASSUME TypeOK, DeliveryInv, NEW w \in Ids, Hear(w) PROVE DeliveryInv'
<1> DEFINE q == redis[w]
           n == q[1]
<1>1. /\ w \in alive /\ q # <<>> /\ q \in Seq(Notes) /\ redis' = [redis EXCEPT ![w] = Tail(@)]
      /\ UNCHANGED <<pipe, home, asked, handled>>
      /\ redis \in [Ids -> Seq(Notes)] /\ DOMAIN rooms = Ids
      /\ home \in [Sockets -> alive \cup {0}] /\ alive \subseteq Ids
  BY LiveIds DEF Hear, TypeOK
<1>2. /\ 1 \in DOMAIN q /\ Head(q) = n /\ n \in Notes
      /\ \A i \in DOMAIN Tail(q) : i \in Nat /\ i > 0 /\ i + 1 \in DOMAIN q
                                   /\ Tail(q)[i] = q[i + 1]
  BY <1>1, TailOf
<1>3. redis'[w] = Tail(q) /\ \A v \in Ids : v # w => redis'[v] = redis[v]
  BY <1>1
<1>4. /\ IsEmit(n) => /\ n.topic \in Topics /\ n.socket \in Events /\ UNCHANGED rooms
                      /\ received' = Delivered(w, {n.topic}, n.socket)
      /\ ~IsEmit(n) => /\ UNCHANGED received /\ n.socket \in Sockets
                       /\ \A v \in Ids : rooms'[v] \subseteq rooms[v] \cup {Member(n)}
  <2>1. n.kind \in {"emit", "join", "leave"}
    BY <1>2 DEF Notes
  <2>2. CASE n.kind = "emit"
    BY <1>2, <2>2 DEF Hear, IsEmit, Notes
  <2>3. CASE n.kind = "join"
    <3>1. rooms' = [rooms EXCEPT ![w] = @ \cup {Member(n)}] /\ UNCHANGED received
      BY <1>2, <2>3 DEF Hear, Member
    <3>2. n.socket \in Sockets /\ ~IsEmit(n)
      BY <1>2, <2>3 DEF IsEmit, Notes
    <3>3. \A v \in Ids : rooms'[v] \subseteq rooms[v] \cup {Member(n)}
      BY <1>1, <3>1
    <3> QED
      BY <3>1, <3>2, <3>3
  <2>4. CASE n.kind = "leave"
    <3>1. rooms' = [rooms EXCEPT ![w] = @ \ {Member(n)}] /\ UNCHANGED received
      BY <1>2, <2>4 DEF Hear, Member
    <3>2. \A v \in Ids : rooms'[v] \subseteq rooms[v]
      BY <1>1, <3>1
    <3>3. n.socket \in Sockets /\ ~IsEmit(n)
      BY <1>2, <2>4 DEF IsEmit, Notes
    <3> QED
      BY <3>1, <3>2, <3>3
  <2> QED
    BY <2>1, <2>2, <2>3, <2>4
<1> DEFINE t == n.topic
           e == n.socket
<1>5. Member(n) = <<t, e>>
  BY DEF Member
<1>6. ASSUME IsEmit(n) PROVE e \in handled
  BY <1>2, <1>6 DEF DeliveryInv, Emitting, ToldOfHandled
<1>7. ASSUME IsEmit(n), NEW s \in Sockets, home[s] = w, NEW j \in DOMAIN received[s]
      PROVE  received[s][j] # <<t, e>>
  <2>1. home[s] # 0
    BY <1>7, ServerTypes
  <2>2. IsEmit(redis[home[s]][1]) /\ 1 \in DOMAIN redis[home[s]]
    BY <1>2, <1>7
  <2>3. received[s][j] # Member(redis[home[s]][1])
    BY <1>7, <2>1, <2>2 DEF DeliveryInv, Emitting, NotYet
  <2> QED
    BY <1>5, <1>7, <2>3
<1>8. ASSUME NEW i \in DOMAIN q, i > 1, IsEmit(q[i]), IsEmit(n) PROVE Member(q[i]) # <<t, e>>
  <2> SUFFICES ASSUME Member(q[i]) = <<t, e>> PROVE FALSE
    OBVIOUS
  <2>1. q[i] \in Notes /\ q[i].topic = n.topic /\ q[i].socket = n.socket /\ q[i].kind = n.kind
    BY <1>1, <1>8 DEF Member, IsEmit
  <2>2. q[i] = n
    BY <1>2, <2>1 DEF Notes
  <2>3. i = 1
    BY <1>2, <1>8, <2>2 DEF DeliveryInv, Emitting, EmitsOnce
  <2> QED
    BY <1>8, <2>3
<1> HIDE DEF q, n, t, e
<1>9. ASSUME IsEmit(n), NEW s \in Sockets
      PROVE  /\ IsInjective(received'[s])
             /\ \A j \in DOMAIN received'[s] :
                  \/ j \in DOMAIN received[s] /\ received'[s][j] = received[s][j]
                  \/ home[s] = w /\ received'[s][j] = <<t, e>>
             /\ home[s] # w => received'[s] = received[s]
             /\ (\A u \in Topics : <<u, s>> \notin rooms[w]) => received'[s] = received[s]
  <2>1. {t} \in SUBSET Topics /\ e \in Events /\ received' = Delivered(w, {t}, e)
    BY <1>4, <1>9 DEF t, e
  <2>2. home[s] = w => \A j \in DOMAIN received[s] : \A u \in {t} : received[s][j] # <<u, e>>
    BY <1>7, <1>9
  <2> DEFINE D == Delivered(w, {t}, e)
  <2>3. NoDuplicates
    BY DEF DeliveryInv
  <2>4. Once(w, {t}, e, s)
    BY <2>1, <2>2, <2>3, GivenOnce
  <2>5. /\ IsInjective(D[s])
        /\ \A j \in DOMAIN D[s] : \/ j \in DOMAIN received[s] /\ D[s][j] = received[s][j]
                                  \/ home[s] = w /\ \E u \in {t} : D[s][j] = <<u, e>>
        /\ home[s] # w => D[s] = received[s]
        /\ (\A u \in Topics : <<u, s>> \notin rooms[w]) => D[s] = received[s]
    BY <2>4 DEF Once
  <2>6. received' = D
    BY <2>1
  <2> HIDE DEF D
  <2> QED
    BY <2>5, <2>6
<1>10. PipesOnce' /\ PipesFresh'
  BY <1>1 DEF DeliveryInv, PipesOnce, PipesFresh
<1>11. ToldOfHandled'
  <2> SUFFICES ASSUME NEW v \in Ids, NEW i \in DOMAIN redis'[v], IsEmit(redis'[v][i])
               PROVE  redis'[v][i].socket \in handled
    BY <1>1 DEF ToldOfHandled
  <2>1. \E k \in DOMAIN redis[v] : redis'[v][i] = redis[v][k]
    BY <1>2, <1>3 DEF q
  <2> QED
    BY <2>1 DEF DeliveryInv, Emitting, ToldOfHandled
<1>12. EmitsOnce'
  <2> SUFFICES ASSUME NEW v \in Ids, NEW i \in DOMAIN redis'[v], NEW j \in DOMAIN redis'[v],
                      IsEmit(redis'[v][i]), redis'[v][i] = redis'[v][j]
               PROVE  i = j
    BY DEF EmitsOnce
  <2>1. CASE v # w
    BY <1>3, <2>1 DEF DeliveryInv, Emitting, EmitsOnce
  <2>2. CASE v = w
    <3>1. /\ i \in Nat /\ i + 1 \in DOMAIN redis[w] /\ redis'[v][i] = redis[w][i + 1]
          /\ j \in Nat /\ j + 1 \in DOMAIN redis[w] /\ redis'[v][j] = redis[w][j + 1]
      BY <1>2, <1>3, <2>2 DEF q
    <3>2. i + 1 = j + 1
      BY <3>1 DEF DeliveryInv, Emitting, EmitsOnce
    <3> QED
      BY <3>1, <3>2
  <2> QED
    BY <2>1, <2>2
<1>13. NotYet'
  <2>0. UNCHANGED home
    BY <1>1
  <2> SUFFICES ASSUME NEW s \in Sockets, home[s] # 0, NEW i \in DOMAIN redis'[home[s]],
                      NEW j \in DOMAIN received'[s], IsEmit(redis'[home[s]][i])
               PROVE  received'[s][j] # Member(redis'[home[s]][i])
    BY <2>0 DEF NotYet
  <2>1. home[s] \in Ids
    BY <1>1
  <2>2. PICK k \in DOMAIN redis[home[s]] :
          redis'[home[s]][i] = redis[home[s]][k] /\ (home[s] = w => k \in Nat /\ k > 1)
    <3>1. CASE home[s] = w
      <4>1. i \in DOMAIN Tail(q) /\ redis'[home[s]][i] = Tail(q)[i]
        BY <1>3, <3>1
      <4>2. /\ i + 1 \in DOMAIN redis[home[s]] /\ i + 1 \in Nat /\ i + 1 > 1
            /\ redis'[home[s]][i] = redis[home[s]][i + 1]
        BY <1>2, <3>1, <4>1 DEF q
      <4> QED
        BY <4>2
    <3>2. CASE home[s] # w
      BY <1>3, <2>1, <3>2
    <3> QED
      BY <3>1, <3>2
  <2>3. ASSUME j \in DOMAIN received[s], received'[s][j] = received[s][j]
        PROVE  received'[s][j] # Member(redis'[home[s]][i])
    <3>1. IsEmit(redis[home[s]][k])
      BY <2>2
    <3>2. received[s][j] # Member(redis[home[s]][k])
      BY <2>3, <3>1 DEF DeliveryInv, Emitting, NotYet
    <3> QED
      BY <2>2, <2>3, <3>2
  <2>4. CASE IsEmit(n)
    <3>1. CASE home[s] = w /\ received'[s][j] = <<t, e>>
      BY <1>8, <2>2, <2>4, <3>1 DEF q
    <3> QED
      BY <1>9, <2>3, <2>4, <3>1
  <2>5. CASE ~IsEmit(n)
    BY <1>4, <2>3, <2>5
  <2> QED
    BY <2>4, <2>5
<1>14. GivenHandled'
  <2> SUFFICES ASSUME NEW s \in Sockets, NEW j \in DOMAIN received'[s]
               PROVE  received'[s][j][2] \in handled
    BY <1>1 DEF GivenHandled
  <2>1. CASE IsEmit(n)
    BY <1>6, <1>9, <2>1 DEF DeliveryInv, GivenHandled
  <2>2. CASE ~IsEmit(n)
    BY <1>4, <2>2 DEF DeliveryInv, GivenHandled
  <2> QED
    BY <2>1, <2>2
<1>15. NoDuplicates'
  <2>1. CASE IsEmit(n)
    BY <1>9, <2>1 DEF NoDuplicates
  <2>2. CASE ~IsEmit(n)
    BY <1>4, <2>2 DEF DeliveryInv, NoDuplicates
  <2> QED
    BY <2>1, <2>2
<1>16. Unasked'
  <2> SUFFICES ASSUME NEW s \in Sockets, asked[s] = 0
               PROVE  /\ received'[s] = <<>>
                      /\ \A v \in Ids : /\ \A u \in Topics : <<u, s>> \notin rooms'[v]
                                        /\ \A i \in DOMAIN redis'[v] :
                                             ~IsEmit(redis'[v][i]) => redis'[v][i].socket # s
    BY <1>1 DEF Unasked
  <2>1. /\ received[s] = <<>>
        /\ \A v \in Ids : /\ \A u \in Topics : <<u, s>> \notin rooms[v]
                          /\ \A i \in DOMAIN redis[v] :
                               ~IsEmit(redis[v][i]) => redis[v][i].socket # s
    BY DEF DeliveryInv, Unasked
  <2>2. received'[s] = <<>>
    BY <1>4, <1>9, <2>1
  <2>3. ASSUME NEW v \in Ids, NEW u \in Topics PROVE <<u, s>> \notin rooms'[v]
    <3>1. CASE IsEmit(n)
      BY <1>4, <2>1, <3>1
    <3>2. CASE ~IsEmit(n)
      <4>1. n.socket # s
        BY <1>2, <2>1, <3>2 DEF n, q
      <4>2. <<u, s>> # Member(n)
        BY <4>1 DEF Member
      <4> QED
        BY <1>4, <2>1, <3>2, <4>2
    <3> QED
      BY <3>1, <3>2
  <2>4. ASSUME NEW v \in Ids, NEW i \in DOMAIN redis'[v], ~IsEmit(redis'[v][i])
        PROVE  redis'[v][i].socket # s
    <3>1. \E k \in DOMAIN redis[v] : redis'[v][i] = redis[v][k]
      <4>1. CASE v = w
        <5>1. i + 1 \in DOMAIN redis[v] /\ redis'[v][i] = redis[v][i + 1]
          BY <1>2, <1>3, <4>1 DEF q
        <5> QED
          BY <5>1
      <4>2. CASE v # w
        BY <1>3, <4>2
      <4> QED
        BY <4>1, <4>2
    <3> QED
      BY <2>1, <2>4, <3>1
  <2> QED
    BY <2>2, <2>3, <2>4
<1> QED
  BY <1>10, <1>11, <1>12, <1>13, <1>14, <1>15, <1>16 DEF DeliveryInv, Emitting

LEMMA ProcessDelivers ==
  ASSUME TypeOK, DeliveryInv, NEW w \in Ids, process(w)
  PROVE  DeliveryInv'
<1> DEFINE q == pipe[w]
           e == q[1]
<1>1. /\ w \in alive /\ q # <<>> /\ q \in Seq(forwarded) /\ pipe' = [pipe EXCEPT ![w] = Tail(@)]
      /\ UNCHANGED <<alive, rooms, home, asked>> /\ forwarded \subseteq Events
      /\ DOMAIN pipe = Ids /\ redis \in [Ids -> Seq(Notes)] /\ alive \subseteq Ids
      /\ home \in [Sockets -> alive \cup {0}]
      /\ received \in [Sockets -> Seq(Topics \X Events)]
  BY LiveIds DEF process, TypeOK
<1>2. /\ 1 \in DOMAIN q /\ Head(q) = e /\ e \in Events
      /\ \A i \in DOMAIN Tail(q) : i \in Nat /\ i > 0 /\ i + 1 \in DOMAIN q
                                   /\ Tail(q)[i] = q[i + 1]
  BY <1>1, TailOf
<1>3. e \notin handled
  BY <1>2 DEF DeliveryInv, PipesFresh
<1> HIDE DEF q, e
<1>4. \A v \in Ids : \A i \in DOMAIN pipe'[v] :
        \E k \in DOMAIN pipe[v] : /\ pipe'[v][i] = pipe[v][k]
                                  /\ k = IF v = w THEN i + 1 ELSE i
                                  /\ v = w => i \in Nat /\ k > 1
  <2> SUFFICES ASSUME NEW v \in Ids, NEW i \in DOMAIN pipe'[v]
               PROVE  \E k \in DOMAIN pipe[v] : /\ pipe'[v][i] = pipe[v][k]
                                                /\ k = IF v = w THEN i + 1 ELSE i
                                                /\ v = w => i \in Nat /\ k > 1
    OBVIOUS
  <2>1. CASE v = w
    <3>1. pipe'[v] = Tail(q)
      BY <1>1, <2>1 DEF q
    <3>2. /\ i + 1 \in DOMAIN pipe[v] /\ pipe'[v][i] = pipe[v][i + 1]
          /\ i \in Nat /\ i + 1 > 1
      BY <1>2, <2>1, <3>1 DEF q
    <3> QED
      BY <2>1, <3>2
  <2>2. CASE v # w
    BY <1>1, <2>2
  <2> QED
    BY <2>1, <2>2
<1>5. PipesOnce'
  <2> SUFFICES ASSUME NEW v \in Ids, NEW u \in Ids, NEW i \in DOMAIN pipe'[v],
                      NEW j \in DOMAIN pipe'[u], pipe'[v][i] = pipe'[u][j]
               PROVE  v = u /\ i = j
    BY DEF PipesOnce
  <2>1. PICK k \in DOMAIN pipe[v] : /\ pipe'[v][i] = pipe[v][k]
                                    /\ k = IF v = w THEN i + 1 ELSE i
                                    /\ v = w => i \in Nat
    BY <1>4
  <2>2. PICK l \in DOMAIN pipe[u] : /\ pipe'[u][j] = pipe[u][l]
                                    /\ l = IF u = w THEN j + 1 ELSE j
                                    /\ u = w => j \in Nat
    BY <1>4
  <2>3. v = u /\ k = l
    <3>1. pipe[v][k] = pipe[u][l]
      BY <2>1, <2>2
    <3> QED
      BY <3>1 DEF DeliveryInv, PipesOnce
  <2> QED
    BY <2>1, <2>2, <2>3
<1>6. \A v \in Ids : \A i \in DOMAIN pipe'[v] : pipe'[v][i] \notin handled /\ pipe'[v][i] # e
  <2> SUFFICES ASSUME NEW v \in Ids, NEW i \in DOMAIN pipe'[v]
               PROVE  pipe'[v][i] \notin handled /\ pipe'[v][i] # e
    OBVIOUS
  <2>1. PICK k \in DOMAIN pipe[v] : pipe'[v][i] = pipe[v][k] /\ (v = w => k > 1)
    BY <1>4
  <2>2. pipe[v][k] \notin handled
    BY DEF DeliveryInv, PipesFresh
  <2>3. pipe[v][k] # e
    BY <1>2, <2>1 DEF DeliveryInv, PipesOnce, e, q
  <2> QED
    BY <2>1, <2>2, <2>3
<1>7. CASE e \in Broken
  <2>1. UNCHANGED <<output, redis>>
    BY <1>2, <1>7 DEF process, e, q
  <2>2. PipesFresh'
    BY <1>6, <2>1 DEF PipesFresh, output
  <2>3. Emitting' /\ GivenHandled' /\ NoDuplicates' /\ Unasked'
    BY <1>1, <2>1 DEF DeliveryInv, Emitting, ToldOfHandled, EmitsOnce, NotYet, GivenHandled,
                      NoDuplicates, Unasked, output
  <2> QED
    BY <1>5, <2>2, <2>3 DEF DeliveryInv
<1>8. CASE e \notin Broken
  <2>1. PICK topics \in Emissions(w, e) :
          /\ handled' = handled \cup {e}
          /\ received' = Delivered(w, topics, e)
          /\ Publish(w, SetToSeq({Note("emit", e, t) : t \in topics}))
    <3>1. Head(pipe[w]) = e
      BY <1>2 DEF q
    <3> QED
      BY <1>8, <3>1 DEF process
  <2>2. topics \in SUBSET Topics
    BY EmissionsAreTopics
  <2> DEFINE new == SetToSeq({Note("emit", e, t) : t \in topics})
  <2>3. /\ new \in Seq(Notes) /\ IsInjective(new)
        /\ \A i \in DOMAIN new : IsEmit(new[i]) /\ new[i].socket = e
    BY <1>2, <2>2, EmittedOnce
  <2> HIDE DEF new
  <2>4. \A v \in Ids : redis'[v] = redis[v] \/ (v # w /\ redis'[v] = redis[v] \o new)
    BY <2>1 DEF Publish, Others, new
  <2>5. \A v \in Ids : \A i \in DOMAIN redis'[v] :
          \/ i \in DOMAIN redis[v] /\ redis'[v][i] = redis[v][i]
          \/ v # w /\ IsEmit(redis'[v][i]) /\ redis'[v][i].socket = e
    <3> SUFFICES ASSUME NEW v \in Ids, NEW i \in DOMAIN redis'[v]
                 PROVE  \/ i \in DOMAIN redis[v] /\ redis'[v][i] = redis[v][i]
                        \/ v # w /\ IsEmit(redis'[v][i]) /\ redis'[v][i].socket = e
      OBVIOUS
    <3>1. CASE v # w /\ redis'[v] = redis[v] \o new
      <4>1. \/ i \in DOMAIN redis[v] /\ (redis[v] \o new)[i] = redis[v][i]
            \/ /\ i - Len(redis[v]) \in DOMAIN new
               /\ (redis[v] \o new)[i] = new[i - Len(redis[v])]
        BY <1>1, <2>3, <3>1, Concatenated
      <4> QED
        BY <2>3, <3>1, <4>1
    <3> QED
      BY <2>4, <3>1
  <2>6. ASSUME NEW s \in Sockets
        PROVE  /\ IsInjective(received'[s])
               /\ \A j \in DOMAIN received'[s] :
                    \/ j \in DOMAIN received[s] /\ received'[s][j] = received[s][j]
                    \/ home[s] = w /\ received'[s][j][2] = e
               /\ (\A u \in Topics : <<u, s>> \notin rooms[w]) => received'[s] = received[s]
    <3> DEFINE D == Delivered(w, topics, e)
    <3>1. \A j \in DOMAIN received[s] : \A t \in topics : received[s][j] # <<t, e>>
      BY <1>3 DEF DeliveryInv, GivenHandled
    <3>2. NoDuplicates
      BY DEF DeliveryInv
    <3>3. Once(w, topics, e, s)
      BY <1>2, <2>2, <3>1, <3>2, GivenOnce
    <3>4. received' = D
      BY <2>1
    <3>5. /\ IsInjective(D[s])
          /\ \A j \in DOMAIN D[s] : \/ j \in DOMAIN received[s] /\ D[s][j] = received[s][j]
                                    \/ home[s] = w /\ \E u \in topics : D[s][j] = <<u, e>>
          /\ home[s] # w => D[s] = received[s]
          /\ (\A u \in Topics : <<u, s>> \notin rooms[w]) => D[s] = received[s]
      BY <3>3 DEF Once
    <3> HIDE DEF D
    <3> QED
      BY <3>4, <3>5
  <2>7. PipesFresh'
    BY <1>6, <2>1 DEF PipesFresh
  <2>8. ToldOfHandled'
    <3> SUFFICES ASSUME NEW v \in Ids, NEW i \in DOMAIN redis'[v], IsEmit(redis'[v][i])
                 PROVE  redis'[v][i].socket \in handled'
      BY DEF ToldOfHandled
    <3> QED
      BY <2>1, <2>5 DEF DeliveryInv, Emitting, ToldOfHandled
  <2>9. EmitsOnce'
    <3> SUFFICES ASSUME NEW v \in Ids, NEW i \in DOMAIN redis'[v], NEW j \in DOMAIN redis'[v],
                        IsEmit(redis'[v][i]), redis'[v][i] = redis'[v][j]
                 PROVE  i = j
      BY DEF EmitsOnce
    <3>1. CASE redis'[v] = redis[v]
      BY <3>1 DEF DeliveryInv, Emitting, EmitsOnce
    <3>2. CASE redis'[v] = redis[v] \o new
      <4> DEFINE p == redis[v]
                 k == Len(p)
      <4>1. \/ i \in DOMAIN p /\ (p \o new)[i] = p[i]
            \/ i - k \in DOMAIN new /\ (p \o new)[i] = new[i - k] /\ i \in Nat
        BY <1>1, <2>3, <3>2, Concatenated
      <4>2. \/ j \in DOMAIN p /\ (p \o new)[j] = p[j]
            \/ j - k \in DOMAIN new /\ (p \o new)[j] = new[j - k] /\ j \in Nat
        BY <1>1, <2>3, <3>2, Concatenated
      <4>3. \A x \in DOMAIN p : IsEmit(p[x]) => p[x].socket # e
        BY <1>3 DEF DeliveryInv, Emitting, ToldOfHandled
      <4>4. k \in Nat
        BY <1>1
      <4> HIDE DEF k
      <4>5. CASE i \in DOMAIN p /\ (p \o new)[i] = p[i]
        <5>1. p[i].socket # e
          BY <3>2, <4>3, <4>5
        <5>2. j \in DOMAIN p /\ (p \o new)[j] = p[j]
          BY <2>3, <3>2, <4>2, <4>5, <5>1
        <5> QED
          BY <3>2, <4>5, <5>2 DEF DeliveryInv, Emitting, EmitsOnce
      <4>6. CASE i - k \in DOMAIN new /\ (p \o new)[i] = new[i - k] /\ i \in Nat
        <5>1. redis'[v][j].socket = e /\ IsEmit(redis'[v][j])
          BY <2>3, <3>2, <4>6
        <5>2. j - k \in DOMAIN new /\ (p \o new)[j] = new[j - k] /\ j \in Nat
          BY <3>2, <4>2, <4>3, <5>1
        <5>3. i - k = j - k
          BY <2>3, <3>2, <4>6, <5>2 DEF IsInjective
        <5> QED
          BY <4>4, <4>6, <5>2, <5>3
      <4> QED
        BY <4>1, <4>5, <4>6
    <3> QED
      BY <2>4, <3>1, <3>2
  <2>10. NotYet'
    <3> SUFFICES ASSUME NEW s \in Sockets, home[s] # 0, NEW i \in DOMAIN redis'[home[s]],
                        NEW j \in DOMAIN received'[s], IsEmit(redis'[home[s]][i])
                 PROVE  received'[s][j] # Member(redis'[home[s]][i])
      BY <1>1 DEF NotYet
    <3> DEFINE n == redis'[home[s]][i]
    <3>1. home[s] \in Ids
      BY <1>1
    <3>2. Member(n)[2] = n.socket
      BY DEF Member
    <3>3. CASE i \in DOMAIN redis[home[s]] /\ n = redis[home[s]][i]
      <4>1. n.socket \in handled
        BY <3>1, <3>3 DEF DeliveryInv, Emitting, ToldOfHandled
      <4>2. CASE j \in DOMAIN received[s] /\ received'[s][j] = received[s][j]
        <5>1. IsEmit(redis[home[s]][i])
          BY <3>3
        <5>2. received[s][j] # Member(redis[home[s]][i])
          BY <3>3, <4>2, <5>1 DEF DeliveryInv, Emitting, NotYet
        <5> QED
          BY <3>3, <4>2, <5>2
      <4>3. CASE received'[s][j][2] = e
        BY <1>3, <3>2, <4>1, <4>3
      <4> QED
        BY <2>6, <4>2, <4>3
    <3>4. CASE home[s] # w /\ IsEmit(n) /\ n.socket = e
      <4>1. j \in DOMAIN received[s] /\ received'[s][j] = received[s][j]
        BY <2>6, <3>4
      <4>2. received'[s][j][2] \in handled
        BY <4>1 DEF DeliveryInv, GivenHandled
      <4> QED
        BY <1>3, <3>2, <3>4, <4>2
    <3> QED
      BY <2>5, <3>1, <3>3, <3>4
  <2>11. GivenHandled'
    <3> SUFFICES ASSUME NEW s \in Sockets, NEW j \in DOMAIN received'[s]
                 PROVE  received'[s][j][2] \in handled'
      BY DEF GivenHandled
    <3> QED
      BY <2>1, <2>6 DEF DeliveryInv, GivenHandled
  <2>12. NoDuplicates'
    BY <2>6 DEF NoDuplicates
  <2>13. Unasked'
    <3> SUFFICES ASSUME NEW s \in Sockets, asked[s] = 0
                 PROVE  /\ received'[s] = <<>>
                        /\ \A v \in Ids : /\ \A u \in Topics : <<u, s>> \notin rooms[v]
                                          /\ \A i \in DOMAIN redis'[v] :
                                               ~IsEmit(redis'[v][i]) => redis'[v][i].socket # s
      BY <1>1 DEF Unasked
    <3>1. /\ received[s] = <<>>
          /\ \A v \in Ids : /\ \A u \in Topics : <<u, s>> \notin rooms[v]
                            /\ \A i \in DOMAIN redis[v] :
                                 ~IsEmit(redis[v][i]) => redis[v][i].socket # s
      BY DEF DeliveryInv, Unasked
    <3> QED
      BY <2>5, <2>6, <3>1
  <2> QED
    BY <1>5, <2>7, <2>8, <2>9, <2>10, <2>11, <2>12, <2>13 DEF DeliveryInv, Emitting
<1> QED
  BY <1>7, <1>8
-----------------------------------------------------------------------------
(* No socket is given an event twice for a topic, however events, joins,   *)
(* leaves, emits and deaths of workers interleave.                         *)
THEOREM NobodyHearsTwice == Spec => []NoDuplicates
<1>1. Init => DeliveryInv
  BY DEF Init, DeliveryInv, PipesOnce, PipesFresh, Emitting, ToldOfHandled, EmitsOnce, NotYet,
         GivenHandled, NoDuplicates, IsInjective, Unasked
<1>2. TypeOK /\ DeliveryInv /\ [Next]_vars => DeliveryInv'
  <2> SUFFICES ASSUME TypeOK, DeliveryInv, [Next]_vars PROVE DeliveryInv'
    OBVIOUS
  <2>1. CASE UNCHANGED vars
    BY <2>1, NothingDelivers DEF vars
  <2>3. ASSUME NEW w \in Ids, channelCloses(w) \/ exit(w) PROVE DeliveryInv'
    BY <2>3, NothingDelivers DEF channelCloses, exit, output
  <2>2. CASE Next
    BY <2>2, <2>3, NewEventDelivers, DeathDelivers, ConnectionDelivers, SubscribeDelivers,
       DisconnectDelivers, HearDelivers, ProcessDelivers DEF Next
  <2> QED
    BY <2>1, <2>2
<1>3. DeliveryInv => NoDuplicates
  BY DEF DeliveryInv
<1> QED
  BY <1>1, <1>2, <1>3, TypeCorrect, PTL DEF Spec
-----------------------------------------------------------------------------
(* Nothing is lost on the way.  An event that is due from a worker to a    *)
(* socket stays so until the worker has emitted it to the socket or to the *)
(* socket's worker, unless the worker dies or is told that the socket left *)
(* the room; one that the socket's worker is to be told of stays so until  *)
(* the socket has it, whatever becomes of the worker that emitted it.      *)

(* The socket's worker knows that it is in the room. *)
Inside(s, t) == home[s] # 0 /\ <<t, s>> \in rooms[home[s]]

Given(s, t, e) == <<t, e>> \in ToSet(received[s])

(* The socket's worker has still to hear of the emit. *)
Underway(s, t, e) == home[s] # 0 /\ Note("emit", e, t) \in ToSet(redis[home[s]])

StaysDue(w, s, t, e) ==
  Inside(s, t) /\ Due(w, s, t, e) =>
    \/ Due(w, s, t, e)' \/ Underway(s, t, e)' \/ Given(s, t, e)'
    \/ ~Inside(s, t)' \/ w \notin alive' \/ <<t, s>> \notin rooms'[w]

StaysUnderway(s, t, e) ==
  Inside(s, t) /\ Underway(s, t, e) =>
    Underway(s, t, e)' \/ Given(s, t, e)' \/ ~Inside(s, t)'

NothingIsLost ==
  [][\A s \in Sockets, t \in Topics, e \in LookedUp \ Broken :
       StaysUnderway(s, t, e) /\ \A w \in Ids : StaysDue(w, s, t, e)]_vars

(* Of sequences, what is in them.                                          *)
LEMMA InJoined ==
  ASSUME NEW A, NEW p \in Seq(A), NEW q \in Seq(A)
  PROVE  ToSet(p) \subseteq ToSet(p \o q) /\ ToSet(q) \subseteq ToSet(p \o q)
<1>1. /\ DOMAIN p = 1..Len(p) /\ DOMAIN q = 1..Len(q) /\ Len(p) \in Nat /\ Len(q) \in Nat
      /\ DOMAIN (p \o q) = 1..(Len(p) + Len(q))
      /\ \A i \in 1..Len(p) : (p \o q)[i] = p[i]
      /\ \A i \in 1..Len(q) : (p \o q)[Len(p) + i] = q[i]
  OBVIOUS
<1>2. ASSUME NEW i \in 1..Len(p) PROVE p[i] \in ToSet(p \o q)
  <2>1. i \in DOMAIN (p \o q) /\ (p \o q)[i] = p[i]
    BY <1>1
  <2> QED
    BY <2>1 DEF ToSet
<1>3. ASSUME NEW i \in 1..Len(q) PROVE q[i] \in ToSet(p \o q)
  <2>1. Len(p) + i \in DOMAIN (p \o q) /\ (p \o q)[Len(p) + i] = q[i]
    BY <1>1
  <2> QED
    BY <2>1 DEF ToSet
<1> QED
  BY <1>1, <1>2, <1>3 DEF ToSet

LEMMA InTail ==
  ASSUME NEW A, NEW q \in Seq(A), NEW x \in ToSet(q), q # <<>>, x # Head(q)
  PROVE  x \in ToSet(Tail(q))
<1>1. PICK i \in DOMAIN q : q[i] = x
  BY DEF ToSet
<1>2. i \in Nat /\ i > 1 /\ i - 1 \in DOMAIN Tail(q) /\ Tail(q)[i - 1] = q[i]
  BY <1>1
<1> QED
  BY <1>1, <1>2 DEF ToSet

LEMMA InSeqOf ==
  ASSUME NEW S, IsFiniteSet(S), NEW x \in S
  PROVE  x \in ToSet(SetToSeq(S))
BY SetAsSeq DEF ToSet

(* What a worker emits to a room, its sockets in the room are given, ...   *)
LEMMA EmittedHere ==
  ASSUME TypeOK, NEW w \in Ids, NEW topics \in SUBSET Topics, NEW e \in Events,
         NEW s \in Sockets, home[s] = w, NEW t \in topics, <<t, s>> \in rooms[w],
         received' = Delivered(w, topics, e)
  PROVE  Given(s, t, e)'
<1> DEFINE mine == {u \in topics : <<u, s>> \in rooms[w]}
           given == {<<u, e>> : u \in mine}
           f == [u \in mine |-> <<u, e>>]
<1>1. received'[s] = received[s] \o SetToSeq(given)
  BY DEF Delivered
<1>2. IsFiniteSet(mine)
  BY FS_Subset, ServerAssumption DEF ServerAssumption
<1>3. given = {f[u] : u \in mine}
  OBVIOUS
<1>4. given \subseteq Topics \X Events
  <2>1. mine \subseteq Topics
    OBVIOUS
  <2> HIDE DEF mine
  <2> QED
    BY <2>1
<1>5. <<t, e>> \in given
  OBVIOUS
<1> HIDE DEF mine, f, given
<1>6. IsFiniteSet(given)
  <2>1. IsFiniteSet({f[u] : u \in mine})
    BY <1>2, ImageFinite DEF f
  <2> QED
    BY <1>3, <2>1
<1>7. SetToSeq(given) \in Seq(given) /\ <<t, e>> \in ToSet(SetToSeq(given))
  BY <1>5, <1>6, SetAsSeq, InSeqOf
<1>8. SetToSeq(given) \in Seq(Topics \X Events) /\ received[s] \in Seq(Topics \X Events)
  BY <1>4, <1>7 DEF TypeOK
<1>9. <<t, e>> \in ToSet(received[s] \o SetToSeq(given))
  BY <1>7, <1>8, InJoined
<1> QED
  BY <1>1, <1>9 DEF Given

(* ... and the other workers are to be told.                               *)
LEMMA EmittedThere ==
  ASSUME TypeOK, NEW w \in Ids, NEW topics \in SUBSET Topics, NEW e \in Events, NEW t \in topics,
         Publish(w, SetToSeq({Note("emit", e, u) : u \in topics})),
         NEW v \in alive, v # w
  PROVE  Note("emit", e, t) \in ToSet(redis'[v])
<1> DEFINE S == {Note("emit", e, u) : u \in topics}
           f == [u \in topics |-> Note("emit", e, u)]
<1>1. IsFiniteSet(topics)
  BY FS_Subset, ServerAssumption DEF ServerAssumption
<1>2. S = {f[u] : u \in topics} /\ Note("emit", e, t) \in S
  OBVIOUS
<1>3. SetToSeq(S) \in Seq(Notes)
  BY EmitsTyped
<1>4. v \in Ids /\ redis[v] \in Seq(Notes) /\ redis'[v] = redis[v] \o SetToSeq(S)
  BY LiveIds DEF Publish, Others, TypeOK
<1> HIDE DEF S, f
<1>5. IsFiniteSet(S)
  <2>1. IsFiniteSet({f[u] : u \in topics})
    BY <1>1, ImageFinite DEF f
  <2> QED
    BY <1>2, <2>1
<1>6. Note("emit", e, t) \in ToSet(SetToSeq(S))
  BY <1>2, <1>5, InSeqOf
<1> QED
  BY <1>3, <1>4, <1>6, InJoined

LEMMA PublishKeeps ==
  ASSUME TypeOK, NEW w, NEW messages \in Seq(Notes), Publish(w, messages), NEW v \in Ids
  PROVE  ToSet(redis[v]) \subseteq ToSet(redis'[v])
<1>1. redis[v] \in Seq(Notes) /\ ToSet(redis[v]) \subseteq ToSet(redis[v] \o messages)
  BY InJoined DEF TypeOK
<1> QED
  BY <1>1 DEF Publish

(* A step that takes nothing from a pipe, or from what the store has still *)
(* to tell, loses nothing.                                                 *)
LEMMA DueKept ==
  ASSUME NEW w \in Ids, NEW s \in Sockets, NEW t \in Topics, NEW e \in Events,
         w \in alive' => ToSet(pipe[w]) \subseteq ToSet(pipe'[w])
  PROVE  StaysDue(w, s, t, e)
BY DEF StaysDue, Due

LEMMA UnderwayKept ==
  ASSUME NEW s \in Sockets, NEW t \in Topics, NEW e \in Events,
         home[s] # 0 /\ home'[s] # 0 =>
           home'[s] = home[s] /\ ToSet(redis[home[s]]) \subseteq ToSet(redis'[home[s]])
  PROVE  StaysUnderway(s, t, e)
BY DEF StaysUnderway, Underway, Inside

(* A worker that takes an event in which every topic can be looked up      *)
(* emits it to each room it knows and that the event matches.              *)
LEMMA DueIsEmitted ==
  ASSUME NEW w \in Ids, NEW s \in Sockets, NEW t \in Topics, NEW e \in LookedUp,
         <<t, s>> \in rooms[w], t = "all" \/ Verdict[t][e] = "match",
         NEW topics \in Emissions(w, e), TypeOK
  PROVE  t \in topics
<1>1. \A u \in Topics : shouldEmit(u, e) # "throws"
  BY DEF LookedUp
<1>2. Throws(w, e) = {}
  <2>1. rooms[w] \subseteq Topics \X Sockets
    BY DEF TypeOK
  <2> QED
    BY <1>1, <2>1 DEF Throws, getUniqueSubscriptions
<1>3. topics = Matches(w, e) \cup {"all"}
  BY <1>2 DEF Emissions
<1>4. ASSUME t # "all" PROVE t \in Matches(w, e)
  <2>1. t \in getUniqueSubscriptions(w)
    BY <1>4 DEF getUniqueSubscriptions
  <2>2. shouldEmit(t, e) = "match"
    BY <1>1, <1>4 DEF shouldEmit
  <2> QED
    BY <2>1, <2>2 DEF Matches
<1> QED
  BY <1>3, <1>4

LEMMA HearLosesNothing ==
  ASSUME TypeOK, NEW v \in Ids, Hear(v),
         NEW s \in Sockets, NEW t \in Topics, NEW e \in Events
  PROVE  StaysUnderway(s, t, e) /\ \A w \in Ids : StaysDue(w, s, t, e)
<1>1. UNCHANGED <<alive, pipe, home>> /\ redis' = [redis EXCEPT ![v] = Tail(@)]
      /\ redis[v] # <<>> /\ v \in alive
  BY DEF Hear
<1>2. \A w \in Ids : StaysDue(w, s, t, e)
  BY <1>1, DueKept
<1> DEFINE n == Note("emit", e, t)
<1>3. CASE home[s] = v /\ Head(redis[v]) = n /\ Inside(s, t)
  <2>1. n.kind = "emit" /\ n.topic = t /\ n.socket = e
    BY DEF Note
  <2>2. received' = Delivered(v, {t}, e)
    BY <1>3, <2>1 DEF Hear
  <2>3. <<t, s>> \in rooms[v]
    BY <1>3 DEF Inside
  <2>4. Given(s, t, e)'
    BY <1>3, <2>2, <2>3, EmittedHere
  <2> QED
    BY <1>2, <2>4 DEF StaysUnderway
<1>4. CASE home[s] # 0 /\ Inside(s, t) /\ (home[s] # v \/ Head(redis[v]) # n) /\ Underway(s, t, e)
  <2>1. home[s] \in Ids /\ redis \in [Ids -> Seq(Notes)]
    BY <1>4, LiveIds DEF TypeOK
  <2>2. n \in ToSet(redis[home[s]])
    BY <1>4 DEF Underway
  <2>3. CASE home[s] = v
    <3>1. redis'[v] = Tail(redis[v]) /\ Head(redis[v]) # n
      BY <1>1, <1>4, <2>1, <2>3
    <3>2. n \in ToSet(Tail(redis[v]))
      <4> HIDE DEF n
      <4> QED
        BY <1>1, <2>1, <2>2, <2>3, <3>1, InTail
    <3>3. Underway(s, t, e)'
      BY <1>1, <1>4, <2>3, <3>1, <3>2 DEF Underway
    <3> QED
      BY <1>2, <3>3 DEF StaysUnderway
  <2>4. CASE home[s] # v
    <3>1. redis'[home[s]] = redis[home[s]]
      BY <1>1, <2>1, <2>4
    <3>2. Underway(s, t, e)'
      BY <1>1, <1>4, <2>2, <3>1 DEF Underway
    <3> QED
      BY <1>2, <3>2 DEF StaysUnderway
  <2> QED
    BY <2>3, <2>4
<1>5. CASE ~Inside(s, t) \/ ~Underway(s, t, e)
  BY <1>2, <1>5 DEF StaysUnderway
<1> QED
  BY <1>3, <1>4, <1>5 DEF Inside

LEMMA ProcessLosesNothing ==
  ASSUME TypeOK, NEW v \in Ids, process(v),
         NEW s \in Sockets, NEW t \in Topics, NEW e \in LookedUp \ Broken
  PROVE  StaysUnderway(s, t, e) /\ \A w \in Ids : StaysDue(w, s, t, e)
<1>1. /\ UNCHANGED <<alive, rooms, home>> /\ pipe' = [pipe EXCEPT ![v] = Tail(@)]
      /\ pipe[v] # <<>> /\ v \in alive /\ pipe \in [Ids -> Seq(forwarded)]
      /\ home \in [Sockets -> alive \cup {0}] /\ alive \subseteq Ids
  BY LiveIds DEF process, TypeOK
<1>2. e \in Events /\ e \notin Broken
  BY DEF LookedUp
<1> DEFINE x == Head(pipe[v])
<1>3. x \in Events
  <2>1. x \in forwarded
    BY <1>1
  <2> QED
    BY <2>1 DEF TypeOK
<1>4. \A w \in Ids : w # v \/ x # e => StaysDue(w, s, t, e)
  <2> SUFFICES ASSUME NEW w \in Ids, w # v \/ x # e, Due(w, s, t, e)
               PROVE  Due(w, s, t, e)'
    BY DEF StaysDue
  <2>1. CASE w # v
    BY <1>1, <2>1 DEF Due
  <2>2. CASE w = v /\ x # e
    <3>1. e \in ToSet(pipe[v]) /\ pipe'[v] = Tail(pipe[v])
      BY <1>1, <2>2 DEF Due
    <3>2. e \in ToSet(Tail(pipe[v]))
      BY <1>1, <2>2, <3>1, InTail
    <3> QED
      BY <1>1, <2>2, <3>1, <3>2 DEF Due
  <2> QED
    BY <2>1, <2>2
<1>5. CASE x \in Broken
  <2>1. redis' = redis
    BY <1>5 DEF process
  <2>2. StaysUnderway(s, t, e)
    BY <1>1, <1>2, <2>1, UnderwayKept
  <2> QED
    BY <1>2, <1>4, <1>5, <2>2
<1>6. CASE x \notin Broken
  <2>1. PICK topics \in Emissions(v, x) :
          /\ received' = Delivered(v, topics, x)
          /\ Publish(v, SetToSeq({Note("emit", x, u) : u \in topics}))
    BY <1>6 DEF process
  <2>2. topics \in SUBSET Topics
    BY EmissionsAreTopics
  <2> HIDE DEF x
  <2>3. SetToSeq({Note("emit", x, u) : u \in topics}) \in Seq(Notes)
    BY <1>3, <2>2, EmitsTyped
  <2>4. StaysUnderway(s, t, e)
    <3>1. ASSUME home[s] # 0 PROVE ToSet(redis[home[s]]) \subseteq ToSet(redis'[home[s]])
      <4>1. home[s] \in Ids
        BY <1>1, <3>1
      <4> QED
        BY <2>1, <2>3, <4>1, PublishKeeps
    <3> QED
      BY <1>1, <1>2, <3>1, UnderwayKept
  <2>5. ASSUME x = e, Inside(s, t), Due(v, s, t, e)
        PROVE  Underway(s, t, e)' \/ Given(s, t, e)'
    <3>1. t \in topics
      BY <2>1, <2>5, DueIsEmitted DEF Due
    <3>2. home[s] \in alive /\ home[s] # 0 /\ <<t, s>> \in rooms[home[s]]
      BY <1>1, <2>5 DEF Inside
    <3>3. CASE home[s] = v
      BY <1>3, <2>1, <2>2, <2>5, <3>1, <3>2, <3>3, EmittedHere
    <3>4. CASE home[s] # v
      <4>1. Note("emit", x, t) \in ToSet(redis'[home[s]])
        BY <1>3, <2>1, <2>2, <3>1, <3>2, <3>4, EmittedThere
      <4> QED
        BY <1>1, <2>5, <3>2, <4>1 DEF Underway
    <3> QED
      BY <3>3, <3>4
  <2>6. x = e => StaysDue(v, s, t, e)
    BY <2>5 DEF StaysDue
  <2> QED
    BY <1>4, <2>4, <2>6
<1> QED
  BY <1>5, <1>6

LEMMA StepLosesNothing ==
  ASSUME TypeOK, [Next]_vars, NEW s \in Sockets, NEW t \in Topics, NEW e \in LookedUp \ Broken
  PROVE  StaysUnderway(s, t, e) /\ \A w \in Ids : StaysDue(w, s, t, e)
<1>1. /\ e \in Events /\ home \in [Sockets -> alive \cup {0}] /\ alive \subseteq Ids
      /\ pipe \in [Ids -> Seq(forwarded)] /\ redis \in [Ids -> Seq(Notes)]
  BY LiveIds DEF LookedUp, TypeOK
<1>2. ASSUME UNCHANGED pipe PROVE \A w \in Ids : StaysDue(w, s, t, e)
  BY <1>1, <1>2, DueKept
<1>3. ASSUME NEW h \in alive, NEW messages \in Seq(Notes), Publish(h, messages),
             home'[s] \in {home[s], 0}
      PROVE  StaysUnderway(s, t, e)
  <2>1. ASSUME home[s] # 0 PROVE ToSet(redis[home[s]]) \subseteq ToSet(redis'[home[s]])
    <3>1. home[s] \in Ids
      BY <1>1, <2>1
    <3> QED
      BY <1>3, <3>1, PublishKeeps
  <2> QED
    BY <1>1, <1>3, <2>1, UnderwayKept
<1>4. ASSUME NEW x \in Events, newEvent(x) PROVE \A w \in Ids : StaysDue(w, s, t, e)
  <2> DEFINE v == getNextWorker(workers, currentWorker)
  <2>1. UNCHANGED pipe \/ pipe' = [pipe EXCEPT ![v] = Append(@, x)]
    BY <1>4 DEF newEvent
  <2>2. ASSUME NEW w \in Ids PROVE ToSet(pipe[w]) \subseteq ToSet(pipe'[w])
    <3>1. pipe[w] \in Seq(Events) /\ <<x>> \in Seq(Events) /\ Append(pipe[w], x) = pipe[w] \o <<x>>
      <4>1. forwarded \subseteq Events /\ pipe[w] \in Seq(forwarded)
        BY <1>1 DEF TypeOK
      <4>2. pipe[w] \in Seq(Events)
        BY <4>1
      <4>3. <<x>> \in Seq(Events)
        OBVIOUS
      <4> QED
        BY <4>2, <4>3
    <3>2. ToSet(pipe[w]) \subseteq ToSet(pipe[w] \o <<x>>)
      BY <3>1, InJoined
    <3>3. pipe'[w] = pipe[w] \/ pipe'[w] = Append(pipe[w], x)
      BY <1>1, <2>1
    <3> QED
      BY <3>1, <3>2, <3>3
  <2> QED
    BY <1>1, <2>2, DueKept
<1>5. ASSUME NEW x \in Events, newEvent(x) PROVE StaysUnderway(s, t, e)
  BY <1>1, <1>5, UnderwayKept DEF newEvent
<1>6. ASSUME NEW v \in Ids, dies(v)
      PROVE  StaysUnderway(s, t, e) /\ \A w \in Ids : StaysDue(w, s, t, e)
  <2>1. /\ pipe' = [pipe EXCEPT ![v] = <<>>] /\ redis' = [redis EXCEPT ![v] = <<>>]
        /\ alive' = alive \ {v}
        /\ home' = [y \in Sockets |-> IF home[y] = v THEN 0 ELSE home[y]]
    BY <1>6 DEF dies
  <2>2. v \notin alive'
    BY <2>1
  <2>3. \A w \in Ids : w \in alive' => pipe'[w] = pipe[w]
    BY <1>1, <2>1, <2>2
  <2>4. home[s] # 0 /\ home'[s] # 0 => home'[s] = home[s] /\ redis'[home[s]] = redis[home[s]]
    BY <1>1, <2>1
  <2> QED
    BY <1>1, <2>3, <2>4, DueKept, UnderwayKept
<1>7. ASSUME NEW y \in Sockets, NEW v \in Ids, connection(y, v)
      PROVE  StaysUnderway(s, t, e) /\ \A w \in Ids : StaysDue(w, s, t, e)
  <2>1. UNCHANGED <<pipe, redis>> /\ home[y] = 0 /\ home' = [home EXCEPT ![y] = v]
    BY <1>7 DEF connection
  <2>2. home[s] # 0 => home'[s] = home[s]
    BY <1>1, <2>1
  <2> QED
    BY <1>1, <1>2, <2>1, <2>2, UnderwayKept
<1>8. ASSUME NEW y \in Sockets, NEW u \in Topics, subscribe(y, u) \/ unsubscribe(y, u)
      PROVE  StaysUnderway(s, t, e) /\ \A w \in Ids : StaysDue(w, s, t, e)
  <2>1. UNCHANGED <<pipe, home>> /\ home[y] \in alive
    BY <1>1, <1>8 DEF subscribe, unsubscribe, Request
  <2>2. \E n \in {Note("join", y, u), Note("leave", y, u)} : Publish(home[y], <<n>>)
    BY <1>8 DEF subscribe, unsubscribe
  <2>3. {Note("join", y, u), Note("leave", y, u)} \subseteq Notes
    BY DEF Note, Notes
  <2>4. PICK n \in Notes : Publish(home[y], <<n>>)
    BY <2>2, <2>3
  <2>5. <<n>> \in Seq(Notes)
    OBVIOUS
  <2> QED
    BY <1>2, <1>3, <2>1, <2>4, <2>5
<1>9. ASSUME NEW y \in Sockets, disconnect(y)
      PROVE  StaysUnderway(s, t, e) /\ \A w \in Ids : StaysDue(w, s, t, e)
  <2>1. UNCHANGED pipe /\ home[y] \in alive /\ home' = [home EXCEPT ![y] = 0]
    BY <1>1, <1>9 DEF disconnect
  <2>2. PICK T \in SUBSET Topics : Publish(home[y], SetToSeq(Leaves(y, T)))
    BY <1>9, DisconnectTyped
  <2>3. SetToSeq(Leaves(y, T)) \in Seq(Notes) /\ home'[s] \in {home[s], 0}
    BY <1>1, <2>1, LeavesTyped
  <2> QED
    BY <1>2, <1>3, <2>1, <2>2, <2>3
<1>10. CASE UNCHANGED vars
  BY <1>1, <1>2, <1>10, UnderwayKept DEF vars
<1>11. ASSUME NEW v \in Ids, channelCloses(v) \/ exit(v)
       PROVE  StaysUnderway(s, t, e) /\ \A w \in Ids : StaysDue(w, s, t, e)
  BY <1>1, <1>2, <1>11, UnderwayKept DEF channelCloses, exit
<1> QED
  BY <1>1, <1>4, <1>5, <1>6, <1>7, <1>8, <1>9, <1>10, <1>11, HearLosesNothing,
     ProcessLosesNothing DEF Next

(* No event is lost between a worker that knows a subscription for it and  *)
(* the socket: the safety part of EventsReachSockets, also when workers    *)
(* die and sockets come and go meanwhile.                                  *)
THEOREM NoEventIsLost == Spec => NothingIsLost
<1>1. TypeOK /\ [Next]_vars =>
        \A s \in Sockets, t \in Topics, e \in LookedUp \ Broken :
          StaysUnderway(s, t, e) /\ \A w \in Ids : StaysDue(w, s, t, e)
  BY StepLosesNothing
<1> QED
  BY <1>1, TypeCorrect, PTL DEF Spec, NothingIsLost
=============================================================================
