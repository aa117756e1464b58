--------------------------- MODULE VEServer_proofs ---------------------------
(***************************************************************************)
(* Proofs about VEServer, for any number of workers, sockets, topics and   *)
(* events: its types, that the master always has a worker for the next     *)
(* event and shares the events evenly, that the workers come to know the   *)
(* same rooms, and that the version emitted is the highest of its shape.   *)
(***************************************************************************)
EXTENDS VEServer, LeastNumbers

(* A finite set as a sequence: what has to be told in some order. *)
LEMMA SetAsSeq ==
  ASSUME NEW S, IsFiniteSet(S)
  PROVE  /\ SetToSeq(S) \in Seq(S) /\ IsInjective(SetToSeq(S))
         /\ \A x \in S : \E i \in DOMAIN SetToSeq(S) : SetToSeq(S)[i] = x
<1> DEFINE n == Cardinality(S)
<1>1. n \in Nat /\ ExistsBijection(1..n, S)
  <2>1. PICK m \in Nat : ExistsBijection(1..m, S)
    BY FS_NatBijection
  <2> QED
    BY <2>1, FS_CountingElements
<1>2. PICK f \in [1..n -> S] : \A a, b \in 1..n : f[a] = f[b] => a = b
  BY <1>1 DEF ExistsBijection, Bijection, Injection, IsInjective
<1>3. SetToSeq(S) \in [1..n -> S] /\ IsInjective(SetToSeq(S))
  <2>1. \E g \in [1..n -> S] : IsInjective(g)
    BY <1>2 DEF IsInjective
  <2> QED
    BY <2>1 DEF SetToSeq
<1>4. SetToSeq(S) \in Injection(1..n, S)
  BY <1>3 DEF Injection, IsInjective
<1>5. IsFiniteSet(1..n) /\ Cardinality(1..n) = n
  BY <1>1, FS_Interval
<1>6. SetToSeq(S) \in Surjection(1..n, S)
  BY <1>4, <1>5, FS_Injection
<1>7. \A x \in S : \E i \in 1..n : SetToSeq(S)[i] = x
  BY <1>6 DEF Surjection
<1> QED
  BY <1>1, <1>3, <1>7

LEMMA ImageFinite ==
  ASSUME NEW S, IsFiniteSet(S), NEW f, DOMAIN f = S
  PROVE  IsFiniteSet({f[x] : x \in S})
<1> DEFINE T == {f[x] : x \in S}
           g == [x \in S |-> f[x]]
<1>1. g \in Surjection(S, T)
  BY DEF Surjection
<1> QED
  BY <1>1, FS_Surjection

LEMMA ServerTypes ==
  /\ numCPUs \in Nat \ {0} /\ MaxDeaths \in Nat /\ MaxRequests \in Nat
  /\ Ids = 1..(numCPUs + MaxDeaths) /\ Ids \subseteq Nat /\ 1..numCPUs \subseteq Ids
BY ServerAssumption DEF ServerAssumption, Ids

(* Whoever lives or has died got an id. *)
LEMMA LiveIds ==
  ASSUME TypeOK
  PROVE  /\ alive \subseteq Ids /\ died \subseteq Ids /\ workers \subseteq Ids
         /\ IsFiniteSet(alive) /\ IsFiniteSet(died)
         /\ Cardinality(alive) \in Nat /\ Cardinality(died) \in Nat
         /\ forked \in Nat /\ forked <= numCPUs + MaxDeaths /\ 0 \notin alive
<1>1. forked \in Nat /\ alive \subseteq 1..forked /\ died \subseteq 1..forked
      /\ workers \subseteq 1..forked /\ forked + Cardinality(died) <= numCPUs + MaxDeaths
  BY DEF TypeOK, ProcessesOK
<1>2. IsFiniteSet(alive) /\ IsFiniteSet(died)
  <2>1. IsFiniteSet(1..forked)
    BY <1>1, FS_Interval
  <2> QED
    BY <1>1, <2>1, FS_Subset
<1>3. Cardinality(alive) \in Nat /\ Cardinality(died) \in Nat
  BY <1>2, FS_CardinalityType
<1>4. forked <= numCPUs + MaxDeaths
  BY <1>1, <1>3, ServerTypes
<1>5. 1..forked \subseteq Ids
  BY <1>1, <1>4, ServerTypes
<1> QED
  BY <1>1, <1>2, <1>3, <1>4, <1>5

USE DEF processes

(* Some workers in the table have one with the greatest id, ...            *)
LEMMA GreatestWorker ==
  ASSUME TypeOK, workers # {}
  PROVE  Max(workers) \in workers
<1>1. workers \in SUBSET (1..(numCPUs + MaxDeaths)) /\ numCPUs + MaxDeaths \in Nat
  BY LiveIds, ServerTypes
<1>2. \E x \in workers : \A y \in workers : y <= x
  BY <1>1, GreatestNumber
<1>3. \E x \in workers : \A y \in workers : x >= y
  BY <1>1, <1>2
<1> QED
  BY <1>3 DEF Max

(* ... and whoever's turn it is, the master finds one of them.             *)
LEMMA NextWorkerThere ==
  ASSUME TypeOK, workers # {}
  PROVE  getNextWorker(workers, currentWorker) \in workers
<1> DEFINE S == {w \in workers : w >= currentWorker}
<1>1. ASSUME S # {} PROVE Min(S) \in workers
  <2>1. S \in SUBSET Nat
    BY LiveIds, ServerTypes
  <2>2. \E x \in S : \A y \in S : x <= y
    <3> HIDE DEF S
    <3> QED
      BY <1>1, <2>1, LeastNumber
  <2>3. Min(S) \in S
    BY <2>2 DEF Min
  <2> QED
    BY <2>3
<1> QED
  BY <1>1, GreatestWorker DEF getNextWorker
-----------------------------------------------------------------------------
(* Types. *)

LEMMA DeliveredTyped ==
  ASSUME TypeOK, NEW w \in Ids, NEW topics \in SUBSET Topics, NEW e \in Events
  PROVE  Delivered(w, topics, e) \in [Sockets -> Seq(Topics \X Events)]
<1> SUFFICES ASSUME NEW s \in Sockets
             PROVE  Delivered(w, topics, e)[s] \in Seq(Topics \X Events)
  BY DEF Delivered
<1> DEFINE mine == {u \in topics : <<u, s>> \in rooms[w]}
           given == {<<t, e>> : t \in mine}
<1>1. IsFiniteSet(given)
  <2>1. IsFiniteSet(mine)
    BY FS_Subset, ServerAssumption DEF ServerAssumption
  <2> HIDE DEF mine
  <2> DEFINE f == [t \in mine |-> <<t, e>>]
  <2>2. given = {f[t] : t \in mine}
    OBVIOUS
  <2> HIDE DEF f, given
  <2>3. IsFiniteSet({f[t] : t \in mine})
    BY <2>1, ImageFinite DEF f
  <2> QED
    BY <2>2, <2>3
<1>2. SetToSeq(given) \in Seq(Topics \X Events)
  <2>1. given \subseteq Topics \X Events
    <3>1. mine \subseteq Topics
      OBVIOUS
    <3> HIDE DEF mine
    <3> QED
      BY <3>1
  <2> HIDE DEF given
  <2>2. SetToSeq(given) \in Seq(given)
    BY <1>1, SetAsSeq
  <2> QED
    BY <2>1, <2>2
<1>3. received[s] \in Seq(Topics \X Events)
  BY DEF TypeOK
<1>4. received[s] \o SetToSeq(given) \in Seq(Topics \X Events)
  <2> HIDE DEF given
  <2> QED
    BY <1>2, <1>3
<1> QED
  BY <1>3, <1>4 DEF Delivered

LEMMA PublishTyped ==
  ASSUME TypeOK, NEW w, NEW messages \in Seq(Notes), Publish(w, messages)
  PROVE  /\ redis' \in [Ids -> Seq(Notes)]
         /\ \A v \in Ids \ alive : redis'[v] = <<>>
<1>1. \A v \in Ids : redis[v] \in Seq(Notes) /\ redis[v] \o messages \in Seq(Notes)
  BY DEF TypeOK
<1> QED
  BY <1>1 DEF Publish, Others, TypeOK

(* What a socket that closes has to tell. *)
Leaves(s, T) == {Note("leave", s, t) : t \in T}

LEMMA LeavesTyped ==
  ASSUME NEW s \in Sockets, NEW T \in SUBSET Topics
  PROVE  IsFiniteSet(Leaves(s, T)) /\ SetToSeq(Leaves(s, T)) \in Seq(Notes)
<1>1. IsFiniteSet(Leaves(s, T))
  <2>1. IsFiniteSet(T)
    BY FS_Subset, ServerAssumption DEF ServerAssumption
  <2> DEFINE f == [t \in T |-> Note("leave", s, t)]
  <2>2. Leaves(s, T) = {f[t] : t \in T}
    BY DEF Leaves
  <2> HIDE DEF f
  <2>3. IsFiniteSet({f[t] : t \in T})
    BY <2>1, ImageFinite DEF f
  <2> QED
    BY <2>2, <2>3
<1>2. Leaves(s, T) \subseteq Notes
  BY DEF Leaves, Note, Notes
<1> QED
  BY <1>1, <1>2, SetAsSeq

LEMMA EmitsTyped ==
  ASSUME NEW e \in Events, NEW T \in SUBSET Topics
  PROVE  /\ SetToSeq({Note("emit", e, t) : t \in T}) \in Seq(Notes)
         /\ SetToSeq({Note("emit", e, t) : t \in T}) \in Seq({n \in Notes : n.kind = "emit"})
<1> DEFINE S == {Note("emit", e, t) : t \in T}
<1>1. IsFiniteSet(S)
  <2>1. IsFiniteSet(T)
    BY FS_Subset, ServerAssumption DEF ServerAssumption
  <2> DEFINE f == [t \in T |-> Note("emit", e, t)]
  <2>2. S = {f[t] : t \in T}
    OBVIOUS
  <2> HIDE DEF f, S
  <2> QED
    BY <2>1, <2>2, ImageFinite DEF f
<1>2. S \subseteq {n \in Notes : n.kind = "emit"}
  BY DEF Note, Notes
<1> HIDE DEF S
<1>3. SetToSeq(S) \in Seq(S)
  BY <1>1, SetAsSeq
<1>4. SetToSeq(S) \in Seq({n \in Notes : n.kind = "emit"})
  BY <1>2, <1>3
<1>5. SetToSeq(S) \in Seq(Notes)
  BY <1>4
<1> QED
  BY <1>4, <1>5 DEF S

LEMMA EmissionsAreTopics ==
  ASSUME TypeOK, NEW w \in Ids, NEW e
  PROVE  Emissions(w, e) \subseteq SUBSET Topics
<1>1. rooms[w] \subseteq Topics \X Sockets /\ "all" \in Topics
  BY ServerAssumption DEF TypeOK, ServerAssumption
<1>2. Matches(w, e) \subseteq Topics
  BY <1>1 DEF Matches, getUniqueSubscriptions
<1> QED
  BY <1>1, <1>2 DEF Emissions

(* The notes of a socket that closes are those of its rooms. *)
LEMMA DisconnectTyped ==
  ASSUME TypeOK, NEW s \in Sockets, disconnect(s)
  PROVE  \E T \in SUBSET Topics :
           /\ T = {t \in Topics : <<t, s>> \in rooms[home[s]]}
           /\ rooms' = [rooms EXCEPT ![home[s]] = {r \in @ : r[2] # s}]
           /\ Publish(home[s], SetToSeq(Leaves(s, T)))
<1> DEFINE mine == {r \in rooms[home[s]] : r[2] = s}
           T == {t \in Topics : <<t, s>> \in rooms[home[s]]}
<1>1. home[s] \in Ids /\ rooms[home[s]] \subseteq Topics \X Sockets
  BY LiveIds DEF disconnect, TypeOK
<1>2. {Note("leave", s, r[1]) : r \in mine} = Leaves(s, T)
  <2>1. \A r \in mine : r[1] \in T
    BY <1>1
  <2>2. \A t \in T : <<t, s>> \in mine /\ <<t, s>>[1] = t
    OBVIOUS
  <2> HIDE DEF mine, T
  <2>3. \A r \in mine : Note("leave", s, r[1]) \in Leaves(s, T)
    BY <2>1 DEF Leaves
  <2>4. \A x \in Leaves(s, T) : \E r \in mine : x = Note("leave", s, r[1])
    BY <2>2 DEF Leaves
  <2> QED
    BY <2>3, <2>4
<1>3. rooms[home[s]] \ mine = {r \in rooms[home[s]] : r[2] # s}
  OBVIOUS
<1> QED
  BY <1>2, <1>3 DEF disconnect, Closed

LEMMA TypedNext == TypeOK /\ [Next]_vars => TypeOK'
<1> SUFFICES ASSUME TypeOK, [Next]_vars PROVE TypeOK'
  OBVIOUS
<1> USE DEF master, output
<1>11. ASSUME UNCHANGED processes PROVE ProcessesOK'
  BY <1>11 DEF TypeOK, ProcessesOK
<1>1. ASSUME NEW e \in Events, newEvent(e) PROVE TypeOK'
  <2> DEFINE w == getNextWorker(workers, currentWorker)
  <2>1. /\ forwarded' = forwarded \cup {e}
        /\ UNCHANGED <<processes, rooms, redis, home, asked, output>>
    BY <1>1 DEF newEvent
  <2>2. \/ UNCHANGED <<currentWorker, share, pipe>>
        \/ /\ w \in Ids /\ share' = [share EXCEPT ![w] = @ + 1] /\ currentWorker' = Turn
           /\ pipe' = pipe \/ pipe' = [pipe EXCEPT ![w] = Append(@, e)]
    BY <1>1, NextWorkerThere, LiveIds DEF newEvent
  <2>3. ended' \in BOOLEAN
    BY <1>1 DEF newEvent, TypeOK
  <2> HIDE DEF w
  <2>4. pipe' \in [Ids -> Seq(forwarded')]
    <3>1. \A v \in Ids : pipe[v] \in Seq(forwarded')
      BY <2>1 DEF TypeOK
    <3>2. \A v \in Ids : Append(pipe[v], e) \in Seq(forwarded')
      BY <2>1, <3>1
    <3> QED
      BY <2>2, <3>1, <3>2 DEF TypeOK
  <2>5. share' \in [Ids -> Nat]
    <3>1. share \in [Ids -> Nat]
      BY DEF TypeOK
    <3> QED
      BY <2>2, <3>1
  <2>6. currentWorker' \in 1..numCPUs
    <3>1. currentWorker \in 1..numCPUs
      BY DEF TypeOK
    <3>2. Turn \in 1..numCPUs
      BY <3>1, ServerTypes DEF Turn
    <3> QED
      BY <2>2, <3>1, <3>2
  <2>7. \A v \in Ids \ alive' : pipe'[v] = <<>> /\ redis'[v] = <<>>
    <3>1. \/ UNCHANGED pipe
          \/ w \in alive /\ pipe' = [pipe EXCEPT ![w] = Append(@, e)]
      BY <1>1 DEF newEvent, w
    <3> QED
      BY <2>1, <3>1 DEF TypeOK
  <2> QED
    BY <1>11, <2>1, <2>3, <2>4, <2>5, <2>6, <2>7 DEF TypeOK
<1>2. ASSUME NEW w \in Ids, dies(w) PROVE TypeOK'
  <2>1. /\ w \in alive /\ alive' = alive \ {w} /\ died' = died \cup {w}
        /\ forked + Cardinality(died) < numCPUs + MaxDeaths
        /\ pipe' = [pipe EXCEPT ![w] = <<>>] /\ redis' = [redis EXCEPT ![w] = <<>>]
        /\ rooms' = [rooms EXCEPT ![w] = {}]
        /\ home' = [s \in Sockets |-> IF home[s] = w THEN 0 ELSE home[s]]
        /\ UNCHANGED <<workers, forked, master, asked, output>>
    BY <1>2 DEF dies
  <2>2. w \notin died
    BY <2>1 DEF TypeOK, ProcessesOK
  <2>3. /\ Cardinality(alive') = Cardinality(alive) - 1
        /\ Cardinality(died') = Cardinality(died) + 1
    BY <2>1, <2>2, LiveIds, FS_RemoveElement, FS_AddElement
  <2>4. /\ Cardinality(alive') + Cardinality(died') = numCPUs
        /\ forked' + Cardinality(died') <= numCPUs + MaxDeaths
    <3>1. /\ Cardinality(alive) \in Nat /\ Cardinality(died) \in Nat /\ forked' = forked
          /\ Cardinality(alive) + Cardinality(died) = numCPUs /\ forked \in Nat
      BY <2>1, LiveIds DEF TypeOK, ProcessesOK
    <3> QED
      BY <2>1, <2>3, <3>1, ServerTypes
  <2>5. /\ alive' \cap died' = {} /\ alive' \cup died' \subseteq 1..forked'
        /\ alive' \subseteq workers' /\ workers' \subseteq alive' \cup died'
    BY <2>1 DEF TypeOK, ProcessesOK
  <2>6. pipe' \in [Ids -> Seq(forwarded')] /\ redis' \in [Ids -> Seq(Notes)]
    <3>1. <<>> \in Seq(forwarded) /\ <<>> \in Seq(Notes)
      OBVIOUS
    <3> QED
      BY <2>1, <3>1 DEF TypeOK
  <2>7. \A v \in Ids \ alive' : pipe'[v] = <<>> /\ redis'[v] = <<>>
    BY <2>1 DEF TypeOK
  <2>8. home' \in [Sockets -> alive' \cup {0}]
    BY <2>1 DEF TypeOK
  <2>9. ProcessesOK'
    BY <2>1, <2>4, <2>5 DEF TypeOK, ProcessesOK
  <2> QED
    BY <2>1, <2>6, <2>7, <2>8, <2>9 DEF TypeOK
<1>9. ASSUME NEW w \in Ids, channelCloses(w) PROVE TypeOK'
  BY <1>9 DEF channelCloses, TypeOK, ProcessesOK
<1>10. ASSUME NEW w \in Ids, exit(w) PROVE TypeOK'
  <2>1. /\ w \in died /\ died' = died \ {w} /\ forked' = forked + 1
        /\ alive' = alive \cup {forked + 1} /\ workers' = (workers \ {w}) \cup {forked + 1}
        /\ UNCHANGED <<master, pipe, rooms, redis, home, asked, output>>
    BY <1>10 DEF exit
  <2>2. /\ forked + 1 \notin alive /\ forked + 1 \notin died /\ w \notin alive
        /\ forked \in Nat
    BY <2>1 DEF TypeOK, ProcessesOK
  <2>3. /\ Cardinality(alive') = Cardinality(alive) + 1
        /\ Cardinality(died') = Cardinality(died) - 1
    BY <2>1, <2>2, LiveIds, FS_RemoveElement, FS_AddElement
  <2>4. /\ Cardinality(alive') + Cardinality(died') = numCPUs
        /\ forked' + Cardinality(died') <= numCPUs + MaxDeaths /\ numCPUs <= forked'
    <3>1. /\ Cardinality(alive) \in Nat /\ Cardinality(died) \in Nat /\ forked \in Nat
          /\ Cardinality(alive) + Cardinality(died) = numCPUs /\ numCPUs <= forked
          /\ forked + Cardinality(died) <= numCPUs + MaxDeaths
      BY LiveIds DEF TypeOK, ProcessesOK
    <3> QED
      BY <2>1, <2>3, <3>1, ServerTypes
  <2>5. /\ alive' \cap died' = {} /\ alive' \cup died' \subseteq 1..forked'
        /\ alive' \subseteq workers' /\ workers' \subseteq alive' \cup died'
    <3>1. \A v \in 1..forked : v \in 1..(forked + 1)
      BY <2>2
    <3>2. forked + 1 \in 1..(forked + 1)
      BY <2>2
    <3>3. /\ alive \cap died = {} /\ alive \cup died \subseteq 1..forked
          /\ alive \subseteq workers /\ workers \subseteq alive \cup died
      BY DEF TypeOK, ProcessesOK
    <3> QED
      BY <2>1, <2>2, <3>1, <3>2, <3>3
  <2>6. \A v \in Ids \ alive' : pipe'[v] = <<>> /\ redis'[v] = <<>>
    BY <2>1 DEF TypeOK
  <2>7. home' \in [Sockets -> alive' \cup {0}]
    BY <2>1 DEF TypeOK
  <2>8. ProcessesOK'
    BY <2>1, <2>2, <2>4, <2>5 DEF ProcessesOK
  <2> QED
    BY <2>1, <2>6, <2>7, <2>8 DEF TypeOK
<1>3. ASSUME NEW s \in Sockets, NEW w \in Ids, connection(s, w) PROVE TypeOK'
  BY <1>3, <1>11 DEF connection, TypeOK
<1>4. ASSUME NEW s \in Sockets, NEW t \in Topics, subscribe(s, t) \/ unsubscribe(s, t)
      PROVE  TypeOK'
  <2>1. <<Note("join", s, t)>> \in Seq(Notes) /\ <<Note("leave", s, t)>> \in Seq(Notes)
    BY DEF Note, Notes
  <2>2. /\ redis' \in [Ids -> Seq(Notes)]
        /\ \A v \in Ids \ alive : redis'[v] = <<>>
    BY <1>4, <2>1, PublishTyped DEF subscribe, unsubscribe
  <2>3. asked' \in [Sockets -> 0..MaxRequests]
    <3>1. Request(s)
      BY <1>4 DEF subscribe, unsubscribe
    <3>2. asked[s] + 1 \in 0..MaxRequests
      BY <3>1, ServerTypes DEF Request, TypeOK
    <3> QED
      BY <3>1, <3>2 DEF Request, TypeOK
  <2>4. rooms' \in [Ids -> SUBSET (Topics \X Sockets)]
    <3>1. rooms' = [rooms EXCEPT ![home[s]] = @ \cup {<<t, s>>}]
          \/ rooms' = [rooms EXCEPT ![home[s]] = @ \ {<<t, s>>}]
      BY <1>4 DEF subscribe, unsubscribe
    <3>2. \A v \in Ids : /\ rooms[v] \cup {<<t, s>>} \in SUBSET (Topics \X Sockets)
                          /\ rooms[v] \ {<<t, s>>} \in SUBSET (Topics \X Sockets)
      BY DEF TypeOK
    <3>3. rooms \in [Ids -> SUBSET (Topics \X Sockets)]
      BY DEF TypeOK
    <3> DEFINE P == SUBSET (Topics \X Sockets)
    <3> HIDE DEF P
    <3>4. \A v \in Ids : rooms[v] \cup {<<t, s>>} \in P /\ rooms[v] \ {<<t, s>>} \in P
      BY <3>2 DEF P
    <3>5. rooms \in [Ids -> P]
      BY <3>3 DEF P
    <3>6. rooms' \in [Ids -> P]
      BY <3>1, <3>4, <3>5
    <3> QED
      BY <3>6 DEF P
  <2> QED
    BY <1>4, <1>11, <2>2, <2>3, <2>4 DEF subscribe, unsubscribe, TypeOK
<1>5. ASSUME NEW s \in Sockets, disconnect(s) PROVE TypeOK'
  <2>1. PICK T \in SUBSET Topics :
          /\ rooms' = [rooms EXCEPT ![home[s]] = {r \in @ : r[2] # s}]
          /\ Publish(home[s], SetToSeq(Leaves(s, T)))
    BY <1>5, DisconnectTyped
  <2>2. /\ redis' \in [Ids -> Seq(Notes)]
        /\ \A v \in Ids \ alive : redis'[v] = <<>>
    BY <2>1, LeavesTyped, PublishTyped
  <2>3. rooms' \in [Ids -> SUBSET (Topics \X Sockets)]
    BY <2>1 DEF TypeOK
  <2> QED
    BY <1>5, <1>11, <2>2, <2>3 DEF disconnect, TypeOK
<1>6. ASSUME NEW w \in Ids, Hear(w) PROVE TypeOK'
  <2>1. w \in alive /\ redis[w] # <<>> /\ redis[w] \in Seq(Notes)
        /\ redis' = [redis EXCEPT ![w] = Tail(@)]
        /\ UNCHANGED <<processes, master, pipe, home, asked, emitted, handled>>
    BY <1>6 DEF Hear, TypeOK
  <2>2. Head(redis[w]) \in Notes /\ Tail(redis[w]) \in Seq(Notes)
    BY <2>1
  <2>3. redis' \in [Ids -> Seq(Notes)] /\ \A v \in Ids \ alive : redis'[v] = <<>>
    BY <2>1, <2>2 DEF TypeOK
  <2>4. rooms' \in [Ids -> SUBSET (Topics \X Sockets)]
        /\ received' \in [Sockets -> Seq(Topics \X Events)]
    <3> DEFINE note == Head(redis[w])
    <3>1. CASE note.kind = "join"
      <4>1. note.topic \in Topics /\ note.socket \in Sockets
        BY <2>2, <3>1 DEF Notes
      <4>2. rooms' = [rooms EXCEPT ![w] = @ \cup {<<note.topic, note.socket>>}]
            /\ UNCHANGED received
        BY <1>6, <3>1 DEF Hear
      <4> QED
        BY <4>1, <4>2 DEF TypeOK
    <3>2. CASE note.kind = "leave"
      <4>1. rooms' = [rooms EXCEPT ![w] = @ \ {<<note.topic, note.socket>>}]
            /\ UNCHANGED received
        BY <1>6, <3>2 DEF Hear
      <4> QED
        BY <4>1 DEF TypeOK
    <3>3. CASE note.kind = "emit"
      <4>1. note.topic \in Topics /\ note.socket \in Events
        BY <2>2, <3>3 DEF Notes
      <4>2. received' = Delivered(w, {note.topic}, note.socket) /\ UNCHANGED rooms
        BY <1>6, <3>3 DEF Hear
      <4>3. {note.topic} \in SUBSET Topics
        BY <4>1
      <4> HIDE DEF note
      <4>4. received' \in [Sockets -> Seq(Topics \X Events)]
        BY <4>1, <4>2, <4>3, DeliveredTyped
      <4> QED
        BY <4>2, <4>4 DEF TypeOK
    <3> QED
      BY <2>2, <3>1, <3>2, <3>3 DEF Notes
  <2> QED
    BY <1>11, <2>1, <2>3, <2>4 DEF TypeOK
<1>7. ASSUME NEW w \in Ids, process(w) PROVE TypeOK'
  <2> DEFINE e == Head(pipe[w])
  <2>1. w \in alive /\ pipe[w] # <<>> /\ pipe[w] \in Seq(forwarded)
        /\ pipe' = [pipe EXCEPT ![w] = Tail(@)]
        /\ UNCHANGED <<processes, master, rooms, home, asked>>
    BY <1>7 DEF process, TypeOK
  <2>2. e \in forwarded /\ e \in Events /\ Tail(pipe[w]) \in Seq(forwarded)
    BY <2>1 DEF TypeOK
  <2>3. pipe' \in [Ids -> Seq(forwarded)] /\ \A v \in Ids \ alive : pipe'[v] = <<>>
    BY <2>1, <2>2 DEF TypeOK
  <2>4. CASE e \in Broken
    <3>1. UNCHANGED <<output, redis>>
      BY <1>7, <2>4 DEF process
    <3> QED
      BY <1>11, <2>1, <2>3, <3>1 DEF TypeOK
  <2>5. CASE e \notin Broken
    <3>1. PICK topics \in Emissions(w, e), v \in LatestOf[e] :
            /\ emitted' = emitted \cup (topics \X {e} \X {v})
            /\ handled' = handled \cup {e}
            /\ received' = Delivered(w, topics, e)
            /\ Publish(w, SetToSeq({Note("emit", e, t) : t \in topics}))
      BY <1>7, <2>5 DEF process
    <3>2. topics \in SUBSET Topics
      BY <3>1, EmissionsAreTopics
    <3> HIDE DEF e
    <3>3. received' \in [Sockets -> Seq(Topics \X Events)]
      BY <2>2, <3>1, <3>2, DeliveredTyped
    <3>4. /\ redis' \in [Ids -> Seq(Notes)]
          /\ \A u \in Ids \ alive : redis'[u] = <<>>
      BY <2>2, <3>1, <3>2, EmitsTyped, PublishTyped
    <3>5. handled' \subseteq forwarded \ Broken
      BY <2>2, <2>5, <3>1 DEF TypeOK
    <3>6. \A x \in emitted' : x[1] \in Topics /\ x[2] \in handled'
      <4>1. \A x \in topics \X {e} \X {v} : x[1] \in Topics /\ x[2] = e
        BY <3>2
      <4> QED
        BY <3>1, <4>1 DEF TypeOK
    <3> QED
      BY <1>11, <2>1, <2>3, <3>3, <3>4, <3>5, <3>6 DEF TypeOK
  <2> QED
    BY <2>4, <2>5
<1>8. CASE UNCHANGED vars
  BY <1>8, <1>11 DEF vars, TypeOK
<1> QED
  BY <1>1, <1>2, <1>3, <1>4, <1>5, <1>6, <1>7, <1>8, <1>9, <1>10 DEF Next

(* Every reachable state is well typed; as many workers live, or have died *)
(* and wait to be replaced, as there are processors, and nothing is on its *)
(* way to one that does not live.                                          *)
THEOREM TypeCorrect == Spec => []TypeOK
<1>1. Init => TypeOK
  <2> SUFFICES ASSUME Init PROVE TypeOK
    OBVIOUS
  <2>1. Cardinality(1..numCPUs) = numCPUs
    BY ServerTypes, FS_Interval
  <2>2. <<>> \in Seq({}) /\ <<>> \in Seq(Notes) /\ <<>> \in Seq(Topics \X Events)
    OBVIOUS
  <2>3. ProcessesOK
    BY <2>1, ServerTypes, FS_EmptySet DEF Init, ProcessesOK
  <2>4. ended \in BOOLEAN
    BY DEF Init
  <2>5. /\ currentWorker \in 1..numCPUs /\ share \in [Ids -> Nat]
        /\ asked \in [Sockets -> 0..MaxRequests] /\ home \in [Sockets -> alive \cup {0}]
    BY ServerTypes DEF Init
  <2>6. /\ forwarded \subseteq Events /\ handled \subseteq forwarded \ Broken /\ emitted = {}
        /\ pipe \in [Ids -> Seq(forwarded)] /\ redis \in [Ids -> Seq(Notes)]
        /\ \A w \in Ids \ alive : pipe[w] = <<>> /\ redis[w] = <<>>
        /\ received \in [Sockets -> Seq(Topics \X Events)]
    BY <2>2 DEF Init
  <2>7. rooms \in [Ids -> SUBSET (Topics \X Sockets)]
    BY DEF Init
  <2> QED
    BY <2>3, <2>4, <2>5, <2>6, <2>7 DEF TypeOK
<1> QED
  BY <1>1, TypedNext, PTL DEF Spec

(* A master that has thrown had no workers, and forks none any more. *)
Ended == ended => workers = {}

(* Whatever the turn and whoever was replaced, the master finds a worker   *)
(* while its table has one, and the table is empty, or the master has      *)
(* thrown, only while all numCPUs workers are dead at once.                *)
THEOREM TheMasterHasAWorker == Spec => []AlwaysAWorker
<1>1. Init => Ended
  BY DEF Init, Ended
<1>2. TypeOK /\ Ended /\ [Next]_vars => Ended'
  <2> SUFFICES ASSUME Ended, [Next]_vars PROVE Ended'
    OBVIOUS
  <2>1. ASSUME NEW e \in Events, newEvent(e) PROVE Ended'
    BY <2>1 DEF newEvent, Ended
  <2>2. ASSUME NEW w \in Ids, dies(w) \/ channelCloses(w) \/ exit(w) PROVE Ended'
    BY <2>2 DEF dies, channelCloses, exit, master, Ended
  <2>3. ASSUME UNCHANGED <<workers, ended>> PROVE Ended'
    BY <2>3 DEF Ended
  <2>4. \/ \E e \in Events : newEvent(e)
        \/ \E w \in Ids : dies(w) \/ channelCloses(w) \/ exit(w)
        \/ UNCHANGED <<workers, ended>>
    BY DEF Next, Hear, process, disconnect, connection, subscribe, unsubscribe, vars, master
  <2> QED
    BY <2>1, <2>2, <2>3, <2>4
<1>3. TypeOK /\ Ended => AlwaysAWorker
  <2> SUFFICES ASSUME TypeOK, workers = {} PROVE Cardinality(died) = numCPUs
    BY NextWorkerThere DEF AlwaysAWorker, Ended
  <2>1. alive = {} /\ Cardinality(alive) + Cardinality(died) = numCPUs
    BY DEF TypeOK, ProcessesOK
  <2> QED
    BY <2>1, LiveIds, FS_EmptySet
<1> QED
  BY <1>1, <1>2, <1>3, TypeCorrect, PTL DEF Spec
-----------------------------------------------------------------------------
(* The events are shared evenly: the workers before the turn have one more *)
(* than the others.  No id is given twice, so that once a worker has died  *)
(* the first ones are never complete again.                                *)
Incomplete == died # {} \/ forked > numCPUs => \E i \in 1..numCPUs : i \notin alive

Shared(k) == \A w \in 1..numCPUs : share[w] = IF w < currentWorker THEN k + 1 ELSE k

EvenInv == Incomplete /\ (NoDeath => \E k \in Nat : Shared(k))

LEMMA TurnIsNext ==
  ASSUME TypeOK, Incomplete, NoDeath
  PROVE  /\ workers = alive /\ currentWorker \in alive
         /\ getNextWorker(workers, currentWorker) = currentWorker
<1>4. workers = 1..numCPUs /\ workers = alive
  BY DEF TypeOK, ProcessesOK, NoDeath, Incomplete
<1> DEFINE S == {w \in workers : w >= currentWorker}
<1>1. currentWorker \in S /\ S \subseteq Nat /\ \A w \in S : currentWorker <= w
  BY <1>4, ServerTypes DEF TypeOK
<1>2. \A x \in S : (\A y \in S : x <= y) => x = currentWorker
  BY <1>1
<1>3. Min(S) = currentWorker
  <2> HIDE DEF S
  <2> QED
    BY <1>1, <1>2 DEF Min
<1> QED
  BY <1>1, <1>3, <1>4 DEF getNextWorker

LEMMA DeathEndsIt ==
  ASSUME TypeOK, Incomplete, NEW w \in Ids, dies(w) \/ channelCloses(w) \/ exit(w)
  PROVE  Incomplete' /\ ~NoDeath'
<1>1. /\ forked \in Nat /\ numCPUs \in Nat /\ numCPUs <= forked
      /\ alive \subseteq 1..forked
  BY ServerTypes DEF TypeOK, ProcessesOK
<1>2. SUFFICES \E i \in 1..numCPUs : i \notin alive'
  BY DEF Incomplete, NoDeath
<1>3. CASE dies(w)
  <2>1. w \in alive /\ alive' = alive \ {w}
    BY <1>3 DEF dies
  <2>2. CASE w \in 1..numCPUs
    BY <2>1, <2>2
  <2>3. CASE w \notin 1..numCPUs
    <3>1. forked > numCPUs
      BY <1>1, <2>1, <2>3
    <3> QED
      BY <2>1, <3>1 DEF Incomplete
  <2> QED
    BY <2>2, <2>3
<1>4. CASE channelCloses(w)
  BY <1>4 DEF channelCloses, Incomplete
<1>5. CASE exit(w)
  <2>1. died # {} /\ alive' = alive \cup {forked + 1}
    BY <1>5 DEF exit
  <2>2. PICK i \in 1..numCPUs : i \notin alive
    BY <2>1 DEF Incomplete
  <2>3. i # forked + 1
    BY <1>1
  <2> QED
    BY <2>1, <2>2, <2>3
<1> QED
  BY <1>3, <1>4, <1>5

LEMMA EvenNext == TypeOK /\ EvenInv /\ [Next]_vars => EvenInv'
<1> SUFFICES ASSUME TypeOK, EvenInv, [Next]_vars PROVE EvenInv'
  OBVIOUS
<1>1. ASSUME NEW e \in Events, newEvent(e) PROVE EvenInv'
  <2> SUFFICES ASSUME NoDeath PROVE \E k \in Nat : Shared(k)'
    BY <1>1 DEF EvenInv, Incomplete, newEvent, NoDeath
  <2>1. PICK k \in Nat : Shared(k)
    BY DEF EvenInv
  <2>2. share' = [share EXCEPT ![currentWorker] = @ + 1] /\ currentWorker' = Turn
    BY <1>1, TurnIsNext DEF newEvent, EvenInv
  <2>3. \A w \in 1..numCPUs : w \in DOMAIN share
    BY ServerTypes DEF TypeOK
  <2>4. CASE currentWorker = numCPUs
    <3>1. Shared(k + 1)'
      BY <2>1, <2>2, <2>3, <2>4, ServerTypes DEF Shared, Turn
    <3> QED
      BY <3>1
  <2>5. CASE currentWorker # numCPUs
    <3>1. currentWorker' = currentWorker + 1 /\ currentWorker \in Nat /\ currentWorker < numCPUs
      BY <2>2, <2>5, ServerTypes DEF Turn, TypeOK
    <3>2. ASSUME NEW w \in 1..numCPUs
          PROVE  share'[w] = IF w < currentWorker + 1 THEN k + 1 ELSE k
      <4>1. w \in DOMAIN share /\ w \in Nat /\ share[w] = IF w < currentWorker THEN k + 1 ELSE k
        BY <2>1, <2>3 DEF Shared
      <4>2. CASE w = currentWorker
        BY <2>2, <3>1, <4>1, <4>2
      <4>3. CASE w # currentWorker
        <5>1. share'[w] = share[w] /\ (w < currentWorker <=> w < currentWorker + 1)
          BY <2>2, <3>1, <4>1, <4>3
        <5> QED
          BY <4>1, <5>1
      <4> QED
        BY <4>2, <4>3
    <3> QED
      BY <3>1, <3>2 DEF Shared
  <2> QED
    BY <2>4, <2>5
<1>2. ASSUME NEW w \in Ids, dies(w) \/ channelCloses(w) \/ exit(w) PROVE EvenInv'
  BY <1>2, DeathEndsIt DEF EvenInv
<1>3. ASSUME UNCHANGED <<alive, died, forked, currentWorker, share>> PROVE EvenInv'
  BY <1>3 DEF EvenInv, Incomplete, NoDeath, Shared
<1>4. \/ \E e \in Events : newEvent(e)
      \/ \E w \in Ids : dies(w) \/ channelCloses(w) \/ exit(w)
      \/ UNCHANGED <<alive, died, forked, currentWorker, share>>
  BY DEF Next, Hear, process, disconnect, connection, subscribe, unsubscribe, vars, master
<1> QED
  BY <1>1, <1>2, <1>3, <1>4

(* While no worker has died, no worker has two events more than another.   *)
THEOREM TheTurnsAreEven == Spec => []EvenlyShared
<1>1. Init => EvenInv
  <2> SUFFICES ASSUME Init PROVE EvenInv
    OBVIOUS
  <2>1. Incomplete
    BY ServerTypes DEF Init, Incomplete
  <2>2. Shared(0)
    BY ServerTypes DEF Init, Shared
  <2> QED
    BY <2>1, <2>2 DEF EvenInv
<1>2. EvenInv => EvenlyShared
  <2> SUFFICES ASSUME EvenInv, NoDeath, NEW v \in 1..numCPUs, NEW w \in 1..numCPUs
               PROVE  share[v] - share[w] \in -1..1
    BY DEF EvenlyShared
  <2>1. PICK k \in Nat : Shared(k)
    BY DEF EvenInv
  <2> QED
    BY <2>1 DEF Shared
<1> QED
  BY <1>1, <1>2, EvenNext, TypeCorrect, PTL DEF Spec
-----------------------------------------------------------------------------
(* The workers come to know the same rooms.  A subscription is made and    *)
(* left at one worker, the socket's; each of the others will know of it,   *)
(* when it has heard all that the store has for it, what that one knows.   *)
Member(n) == <<n.topic, n.socket>>

Tells(q, m) == {i \in DOMAIN q : q[i].kind # "emit" /\ Member(q[i]) = m}

Comes(q, m, known, goal) ==
  /\ Tells(q, m) = {} => (m \in known <=> m \in goal)
  /\ \A i \in Tells(q, m) :
       (\A j \in Tells(q, m) : j <= i) => (q[i].kind = "join" <=> m \in goal)

Subscribed == {m \in Topics \X Sockets : home[m[2]] # 0 /\ m \in rooms[home[m[2]]]}

Settles(t, s) ==
  /\ \A w \in alive : Comes(redis[w], <<t, s>>, rooms[w], Subscribed)
  /\ home[s] # 0 => Tells(redis[home[s]], <<t, s>>) = {}
  /\ asked[s] = 0 =>
       \A w \in alive : <<t, s>> \notin rooms[w] /\ Tells(redis[w], <<t, s>>) = {}

RoomsInv == /\ Incomplete
            /\ NoDeath => \A t \in Topics, s \in Sockets : Settles(t, s)

(* Notes that say nothing of a subscription ...                            *)
LEMMA Silent ==
  ASSUME NEW q \in Seq(Notes), NEW new \in Seq(Notes), NEW m, Tells(new, m) = {}
  PROVE  /\ Tells(q \o new, m) = Tells(q, m)
         /\ \A known, goal : Comes(q, m, known, goal) => Comes(q \o new, m, known, goal)
<1>1. /\ DOMAIN (q \o new) = 1..(Len(q) + Len(new)) /\ DOMAIN q = 1..Len(q)
      /\ DOMAIN new = 1..Len(new) /\ Len(q) \in Nat /\ Len(new) \in Nat
      /\ \A i \in DOMAIN q : (q \o new)[i] = q[i]
      /\ \A i \in DOMAIN new : (q \o new)[Len(q) + i] = new[i]
  OBVIOUS
<1>2. \A i \in DOMAIN (q \o new) :
        i \in DOMAIN q \/ (i - Len(q) \in DOMAIN new /\ (q \o new)[i] = new[i - Len(q)])
  <2> SUFFICES ASSUME NEW i \in DOMAIN (q \o new), i \notin DOMAIN q
               PROVE  i - Len(q) \in DOMAIN new /\ (q \o new)[i] = new[i - Len(q)]
    OBVIOUS
  <2>1. i - Len(q) \in DOMAIN new /\ Len(q) + (i - Len(q)) = i
    BY <1>1
  <2> QED
    BY <1>1, <2>1
<1> DEFINE r == q \o new
<1> HIDE DEF r
<1>3. Tells(r, m) = Tells(q, m)
  <2>1. \A i \in DOMAIN q : i \in DOMAIN r /\ r[i] = q[i]
    BY <1>1 DEF r
  <2>2. \A i \in DOMAIN r :
          i \in DOMAIN q \/ \E j \in DOMAIN new : r[i] = new[j]
    BY <1>2 DEF r
  <2>3. \A j \in DOMAIN new : ~(new[j].kind # "emit" /\ Member(new[j]) = m)
    BY DEF Tells
  <2> QED
    BY <2>1, <2>2, <2>3 DEF Tells
<1>4. \A i \in Tells(q, m) : r[i] = q[i]
  BY <1>1 DEF r, Tells
<1>5. \A known, goal : Comes(q, m, known, goal) => Comes(r, m, known, goal)
  BY <1>3, <1>4 DEF Comes
<1> QED
  BY <1>3, <1>5 DEF r

(* ... and notes that say what is to come of it.                           *)
LEMMA Told ==
  ASSUME NEW q \in Seq(Notes), NEW new \in Seq(Notes), NEW m, NEW goal, NEW known,
         Tells(new, m) # {},
         \A i \in Tells(new, m) : (new[i].kind = "join" <=> m \in goal)
  PROVE  Comes(q \o new, m, known, goal)
<1>1. /\ DOMAIN (q \o new) = 1..(Len(q) + Len(new)) /\ DOMAIN q = 1..Len(q)
      /\ DOMAIN new = 1..Len(new) /\ Len(q) \in Nat /\ Len(new) \in Nat
      /\ \A i \in DOMAIN new : (q \o new)[Len(q) + i] = new[i]
  OBVIOUS
<1> DEFINE r == q \o new
           n == Len(q)
<1>2. PICK j \in Tells(new, m) : TRUE
  OBVIOUS
<1> HIDE DEF r, n
<1>3. n + j \in Tells(r, m) /\ j \in Nat /\ j > 0 /\ n \in Nat
  BY <1>1, <1>2 DEF Tells, r, n
<1>4. ASSUME NEW i \in Tells(r, m), \A k \in Tells(r, m) : k <= i
      PROVE  r[i].kind = "join" <=> m \in goal
  <2>1. i \in 1..(n + Len(new)) /\ n + j <= i
    BY <1>1, <1>3, <1>4 DEF Tells, r, n
  <2>2. i - n \in DOMAIN new /\ n + (i - n) = i
    BY <1>1, <1>3, <2>1
  <2>3. r[i] = new[i - n]
    BY <1>1, <2>2 DEF r, n
  <2>4. i - n \in Tells(new, m)
    BY <2>2, <2>3 DEF Tells
  <2> QED
    BY <2>3, <2>4
<1>5. Comes(r, m, known, goal)
  BY <1>3, <1>4 DEF Comes
<1> QED
  BY <1>5 DEF r

(* A worker that hears a note is as far from the goal as it was.           *)
LEMMA Heard ==
  ASSUME NEW q \in Seq(Notes), q # <<>>, NEW m, NEW known, NEW heard, NEW goal,
         Comes(q, m, known, goal),
         1 \in Tells(q, m) => (m \in heard <=> q[1].kind = "join"),
         1 \notin Tells(q, m) => (m \in heard <=> m \in known)
  PROVE  Comes(Tail(q), m, heard, goal) /\ (Tells(q, m) = {} => Tells(Tail(q), m) = {})
<1> DEFINE r == Tail(q)
<1>1. /\ DOMAIN q = 1..Len(q) /\ Len(q) \in Nat /\ Len(q) > 0
      /\ DOMAIN r = 1..(Len(q) - 1) /\ \A i \in DOMAIN r : r[i] = q[i + 1]
  OBVIOUS
<1> HIDE DEF r
<1>2. \A i \in Tells(r, m) : i \in Nat /\ i + 1 \in Tells(q, m)
  BY <1>1 DEF Tells
<1>3. \A i \in Tells(q, m) : i = 1 \/ (i \in Nat /\ i - 1 \in Tells(r, m))
  <2> SUFFICES ASSUME NEW i \in Tells(q, m), i # 1
               PROVE  i \in Nat /\ i - 1 \in Tells(r, m)
    OBVIOUS
  <2>1. i \in 1..Len(q) /\ q[i].kind # "emit" /\ Member(q[i]) = m
    BY <1>1 DEF Tells
  <2>2. i - 1 \in DOMAIN r /\ (i - 1) + 1 = i
    BY <1>1, <2>1
  <2> QED
    BY <1>1, <2>1, <2>2 DEF Tells
<1>4. ASSUME Tells(r, m) = {} PROVE m \in heard <=> m \in goal
  <2>1. \A i \in Tells(q, m) : i = 1
    BY <1>3, <1>4
  <2>2. CASE 1 \in Tells(q, m)
    <3>1. \A j \in Tells(q, m) : j <= 1
      BY <2>1
    <3> QED
      BY <2>2, <3>1 DEF Comes
  <2>3. CASE 1 \notin Tells(q, m)
    BY <2>1, <2>3 DEF Comes
  <2> QED
    BY <2>2, <2>3
<1>5. ASSUME NEW i \in Tells(r, m), \A j \in Tells(r, m) : j <= i
      PROVE  r[i].kind = "join" <=> m \in goal
  <2>1. i + 1 \in Tells(q, m) /\ i \in Nat /\ r[i] = q[i + 1]
    BY <1>1, <1>2 DEF Tells
  <2>2. \A j \in Tells(q, m) : j <= i + 1
    <3> SUFFICES ASSUME NEW j \in Tells(q, m) PROVE j <= i + 1
      OBVIOUS
    <3>1. j = 1 \/ (j \in Nat /\ j - 1 <= i)
      BY <1>3, <1>5
    <3> QED
      BY <2>1, <3>1
  <2> QED
    BY <2>1, <2>2 DEF Comes
<1>6. Tells(q, m) = {} => Tells(r, m) = {}
  BY <1>2
<1>7. Comes(r, m, heard, goal)
  BY <1>4, <1>5 DEF Comes
<1> QED
  BY <1>6, <1>7 DEF r

(* Only this much of what is known and wanted matters. *)
LEMMA OnlyThisOne ==
  ASSUME NEW q, NEW m, NEW known, NEW goal, NEW known2, NEW goal2, Comes(q, m, known, goal),
         m \in known <=> m \in known2, m \in goal <=> m \in goal2
  PROVE  Comes(q, m, known2, goal2)
BY DEF Comes

(* What a socket does to its own rooms is told to all the other workers.   *)
LEMMA Publishes ==
  ASSUME TypeOK, NEW h \in alive, NEW new \in Seq(Notes), Publish(h, new), NEW w \in alive
  PROVE  redis[w] \in Seq(Notes) /\ redis'[w] = IF w = h THEN redis[w] ELSE redis[w] \o new
BY LiveIds DEF TypeOK, Publish, Others

LEMMA OneNote ==
  ASSUME NEW n \in Notes, NEW m
  PROVE  /\ <<n>> \in Seq(Notes)
         /\ Tells(<<n>>, m) = IF n.kind # "emit" /\ Member(n) = m THEN {1} ELSE {}
BY DEF Tells

LEMMA SubscribeSettles ==
  ASSUME TypeOK, NEW s \in Sockets, NEW t \in Topics, subscribe(s, t) \/ unsubscribe(s, t),
         NEW u \in Topics, NEW x \in Sockets, Settles(u, x)
  PROVE  Settles(u, x)'
<1> DEFINE h == home[s]
<1>1. /\ h # 0 /\ h \in alive /\ h \in Ids /\ asked' = [asked EXCEPT ![s] = @ + 1]
      /\ asked[s] \in Nat /\ asked \in [Sockets -> 0..MaxRequests]
      /\ UNCHANGED <<alive, home>> /\ 0 \notin alive
  <2>1. Request(s) /\ UNCHANGED <<alive, home>>
    BY DEF subscribe, unsubscribe
  <2>2. /\ home \in [Sockets -> alive \cup {0}] /\ alive \subseteq Ids
        /\ asked \in [Sockets -> 0..MaxRequests]
    BY LiveIds DEF TypeOK
  <2>3. h # 0 /\ asked' = [asked EXCEPT ![s] = @ + 1]
    BY <2>1 DEF Request
  <2>4. h \in alive /\ h \in Ids
    BY <2>2, <2>3
  <2>5. asked[s] \in Nat
    BY <2>2, ServerTypes
  <2> QED
    BY <2>1, <2>2, <2>3, <2>4, <2>5, LiveIds
<1>2. PICK kind \in {"join", "leave"} :
        /\ Publish(h, <<Note(kind, s, t)>>)
        /\ rooms' = [rooms EXCEPT ![h] = IF kind = "join" THEN @ \cup {<<t, s>>}
                                                          ELSE @ \ {<<t, s>>}]
  <2>1. CASE subscribe(s, t)
    BY <2>1 DEF subscribe
  <2>2. CASE unsubscribe(s, t)
    BY <2>2 DEF unsubscribe
  <2> QED
    BY <2>1, <2>2
<1>3. Note(kind, s, t) \in Notes /\ Member(Note(kind, s, t)) = <<t, s>>
      /\ Note(kind, s, t).kind = kind
  BY <1>2 DEF Note, Notes, Member
<1> DEFINE new == <<Note(kind, s, t)>>
<1>4. new \in Seq(Notes) /\ Tells(new, <<u, x>>) = IF <<u, x>> = <<t, s>> THEN {1} ELSE {}
  BY <1>2, <1>3, OneNote
<1>5. \A w \in alive :
        redis[w] \in Seq(Notes) /\ redis'[w] = IF w = h THEN redis[w] ELSE redis[w] \o new
  BY <1>1, <1>2, <1>4, Publishes
<1>6. new[1].kind = kind
  BY <1>3
<1>7. rooms \in [Ids -> SUBSET (Topics \X Sockets)] /\ alive \subseteq Ids
  BY LiveIds DEF TypeOK
<1> HIDE DEF h, new
<1>8. CASE <<u, x>> = <<t, s>>
  <2>1. u = t /\ x = s /\ home[x] = h
    BY <1>8 DEF h
  <2>2. <<t, s>> \in Subscribed' <=> kind = "join"
    <3>1. <<t, s>> \in rooms'[h] <=> kind = "join"
      BY <1>1, <1>2, <1>7
    <3>2. <<t, s>> \in Topics \X Sockets /\ <<t, s>>[2] = s /\ home'[s] = h
      BY <1>1 DEF h
    <3> QED
      BY <1>1, <3>1, <3>2 DEF Subscribed
  <2>3. ASSUME NEW w \in alive
        PROVE  Comes(redis'[w], <<t, s>>, rooms'[w], Subscribed')
    <3>1. CASE w = h
      <4>1. Tells(redis'[w], <<t, s>>) = {}
        BY <1>1, <1>5, <2>1, <3>1 DEF Settles
      <4>2. <<t, s>> \in rooms'[w] <=> kind = "join"
        BY <1>1, <1>2, <1>7, <3>1
      <4> QED
        BY <2>2, <4>1, <4>2 DEF Comes
    <3>2. CASE w # h
      <4>1. Tells(new, <<t, s>>) = {1}
        BY <1>4, <2>1
      <4>2. \A i \in Tells(new, <<t, s>>) : new[i].kind = "join" <=> <<t, s>> \in Subscribed'
        BY <1>6, <2>2, <4>1
      <4>3. Comes(redis[w] \o new, <<t, s>>, rooms'[w], Subscribed')
        BY <1>4, <1>5, <4>1, <4>2, Told
      <4> QED
        BY <1>5, <3>2, <4>3
    <3> QED
      BY <3>1, <3>2
  <2>4. home'[s] = h /\ Tells(redis'[h], <<t, s>>) = {}
    BY <1>1, <1>5, <2>1 DEF Settles, h
  <2>5. asked'[s] # 0
    BY <1>1
  <2> QED
    BY <1>1, <2>1, <2>3, <2>4, <2>5 DEF Settles
<1>9. CASE <<u, x>> # <<t, s>>
  <2> DEFINE m == <<u, x>>
  <2>1. /\ Tells(new, m) = {} /\ m # <<t, s>> /\ m[2] = x
        /\ m \in Topics \X Sockets
    BY <1>4, <1>9
  <2>2. /\ \A w \in alive : Comes(redis[w], m, rooms[w], Subscribed)
        /\ home[x] # 0 => Tells(redis[home[x]], m) = {}
        /\ asked[x] = 0 => \A w \in alive : m \notin rooms[w] /\ Tells(redis[w], m) = {}
    BY DEF Settles
  <2>3. SUFFICES /\ \A w \in alive : Comes(redis'[w], m, rooms'[w], Subscribed')
                 /\ home'[x] # 0 => Tells(redis'[home'[x]], m) = {}
                 /\ asked'[x] = 0 => \A w \in alive : /\ m \notin rooms'[w]
                                                       /\ Tells(redis'[w], m) = {}
    BY <1>1 DEF Settles
  <2> HIDE DEF m
  <2>4. \A w \in alive : Tells(redis'[w], m) = Tells(redis[w], m)
    <3> SUFFICES ASSUME NEW w \in alive PROVE Tells(redis'[w], m) = Tells(redis[w], m)
      OBVIOUS
    <3>1. Tells(redis[w] \o new, m) = Tells(redis[w], m)
      BY <1>4, <1>5, <2>1, Silent
    <3> QED
      BY <1>5, <3>1
  <2>5. \A w \in alive : m \in rooms'[w] <=> m \in rooms[w]
    BY <1>2, <1>7, <2>1
  <2>6. home[x] # 0 => home[x] \in alive
    BY DEF TypeOK
  <2>7. m \in Subscribed' <=> m \in Subscribed
    BY <1>1, <2>1, <2>5, <2>6 DEF Subscribed
  <2>8. ASSUME NEW w \in alive PROVE Comes(redis'[w], m, rooms'[w], Subscribed')
    <3>1. Comes(redis[w], m, rooms[w], Subscribed)
      BY <2>2
    <3>2. Comes(redis[w] \o new, m, rooms[w], Subscribed)
      BY <1>4, <1>5, <2>1, <3>1, Silent
    <3>3. Comes(redis'[w], m, rooms[w], Subscribed)
      BY <1>5, <3>1, <3>2
    <3>4. m \in rooms[w] <=> m \in rooms'[w]
      BY <2>5
    <3> QED
      BY <2>7, <3>3, <3>4, OnlyThisOne
  <2>9. asked'[x] = 0 => asked[x] = 0
    BY <1>1
  <2> QED
    BY <1>1, <2>2, <2>4, <2>5, <2>6, <2>8, <2>9
<1> QED
  BY <1>8, <1>9

LEMMA DisconnectSettles ==
  ASSUME TypeOK, NEW s \in Sockets, disconnect(s), NEW u \in Topics, NEW x \in Sockets,
         \A t \in Topics : Settles(t, s), Settles(u, x)
  PROVE  Settles(u, x)'
<1> DEFINE h == home[s]
<1>1. /\ h # 0 /\ h \in alive /\ h \in Ids /\ home' = [home EXCEPT ![s] = 0]
      /\ home \in [Sockets -> alive \cup {0}] /\ alive \subseteq Ids
      /\ UNCHANGED <<alive, asked>>
  BY LiveIds DEF disconnect, TypeOK
<1>2. PICK T \in SUBSET Topics :
        /\ T = {t \in Topics : <<t, s>> \in rooms[h]}
        /\ rooms' = [rooms EXCEPT ![h] = {r \in @ : r[2] # s}]
        /\ Publish(h, SetToSeq(Leaves(s, T)))
  BY DisconnectTyped
<1> DEFINE new == SetToSeq(Leaves(s, T))
<1>3. /\ new \in Seq(Notes)
      /\ \A i \in DOMAIN new : new[i] \in Leaves(s, T)
      /\ \A n \in Leaves(s, T) : \E i \in DOMAIN new : new[i] = n
  <2>1. IsFiniteSet(Leaves(s, T)) /\ new \in Seq(Notes)
    BY LeavesTyped
  <2>2. new \in Seq(Leaves(s, T)) /\ \A n \in Leaves(s, T) : \E i \in DOMAIN new : new[i] = n
    BY <2>1, SetAsSeq
  <2> QED
    BY <2>1, <2>2
<1> HIDE DEF h, new
<1>4. \A w \in alive :
        redis[w] \in Seq(Notes) /\ redis'[w] = IF w = h THEN redis[w] ELSE redis[w] \o new
  BY <1>1, <1>2, <1>3, Publishes DEF new
<1>5. \A i \in DOMAIN new : \E t \in T : /\ new[i].kind = "leave" /\ Member(new[i]) = <<t, s>>
  BY <1>3 DEF Leaves, Note, Member
<1>6. \A t \in T : \E i \in DOMAIN new : new[i].kind = "leave" /\ Member(new[i]) = <<t, s>>
  <2> SUFFICES ASSUME NEW t \in T
               PROVE  \E i \in DOMAIN new : new[i].kind = "leave" /\ Member(new[i]) = <<t, s>>
    OBVIOUS
  <2>1. PICK i \in DOMAIN new : new[i] = Note("leave", s, t)
    BY <1>3 DEF Leaves
  <2> QED
    BY <2>1 DEF Note, Member
<1>7. rooms \in [Ids -> SUBSET (Topics \X Sockets)]
  BY DEF TypeOK
<1>8. <<u, x>> \in Subscribed' <=> x # s /\ <<u, x>> \in Subscribed
  <2>1. x # s => home'[x] = home[x]
    BY <1>1
  <2>2. x = s => home'[x] = 0
    BY <1>1
  <2>3. x # s /\ home[x] # 0 => (<<u, x>> \in rooms'[home[x]] <=> <<u, x>> \in rooms[home[x]])
    BY <1>1, <1>2, <1>7
  <2> QED
    BY <2>1, <2>2, <2>3 DEF Subscribed
<1>9. \A w \in alive :
        <<u, x>> \in rooms'[w] <=> <<u, x>> \in rooms[w] /\ ~(w = h /\ x = s)
  BY <1>1, <1>2, <1>7
<1>10. CASE x = s /\ u \in T
  <2>1. Tells(new, <<u, x>>) # {} /\ \A i \in Tells(new, <<u, x>>) : new[i].kind = "leave"
    BY <1>5, <1>6, <1>10 DEF Tells
  <2>2. <<u, x>> \notin Subscribed'
    BY <1>8, <1>10
  <2>3. ASSUME NEW w \in alive
        PROVE  Comes(redis'[w], <<u, x>>, rooms'[w], Subscribed')
    <3>1. CASE w = h
      <4>1. Tells(redis'[w], <<u, x>>) = {}
        BY <1>1, <1>4, <1>10, <3>1 DEF Settles, h
      <4>2. <<u, x>> \notin rooms'[w]
        BY <1>9, <1>10, <3>1
      <4> QED
        BY <2>2, <4>1, <4>2 DEF Comes
    <3>2. CASE w # h
      <4>1. \A i \in Tells(new, <<u, x>>) : new[i].kind = "join" <=> <<u, x>> \in Subscribed'
        BY <2>1, <2>2
      <4>2. Comes(redis[w] \o new, <<u, x>>, rooms'[w], Subscribed')
        BY <1>3, <1>4, <2>1, <4>1, Told
      <4> QED
        BY <1>4, <3>2, <4>2
    <3> QED
      BY <3>1, <3>2
  <2>4. home'[x] = 0
    BY <1>1, <1>10
  <2>5. asked'[x] # 0
    <3>1. <<u, x>> \in rooms[h]
      BY <1>2, <1>10
    <3> QED
      BY <1>1, <3>1 DEF Settles
  <2> QED
    BY <1>1, <2>3, <2>4, <2>5 DEF Settles
<1>11. CASE ~(x = s /\ u \in T)
  <2>1. Tells(new, <<u, x>>) = {}
    BY <1>5, <1>11 DEF Tells
  <2>2. \A w \in alive : Tells(redis'[w], <<u, x>>) = Tells(redis[w], <<u, x>>)
    <3> SUFFICES ASSUME NEW w \in alive
                 PROVE  Tells(redis'[w], <<u, x>>) = Tells(redis[w], <<u, x>>)
      OBVIOUS
    <3>1. redis[w] \in Seq(Notes) /\ new \in Seq(Notes)
      BY <1>3, <1>4
    <3> HIDE DEF new
    <3>2. Tells(redis[w] \o new, <<u, x>>) = Tells(redis[w], <<u, x>>)
      BY <2>1, <3>1, Silent
    <3> QED
      BY <1>4, <3>2
  <2>3. x = s => <<u, x>> \notin Subscribed /\ <<u, x>> \notin rooms[h]
    BY <1>2, <1>11 DEF Subscribed, h
  <2>4. ASSUME NEW w \in alive
        PROVE  Comes(redis'[w], <<u, x>>, rooms'[w], Subscribed')
    <3>1. Comes(redis[w], <<u, x>>, rooms[w], Subscribed)
      BY DEF Settles
    <3>2. Comes(redis[w] \o new, <<u, x>>, rooms[w], Subscribed)
      BY <1>3, <1>4, <2>1, <3>1, Silent
    <3>3. Comes(redis'[w], <<u, x>>, rooms[w], Subscribed)
      BY <1>4, <3>1, <3>2
    <3>4. <<u, x>> \in rooms'[w] <=> <<u, x>> \in rooms[w]
      BY <1>9, <2>3
    <3>5. <<u, x>> \in Subscribed' <=> <<u, x>> \in Subscribed
      BY <1>8, <2>3
    <3> QED
      BY <3>3, <3>4, <3>5, OnlyThisOne
  <2>5. home'[x] # 0 => Tells(redis'[home'[x]], <<u, x>>) = {}
    BY <1>1, <2>2 DEF Settles
  <2>6. asked'[x] = 0 =>
          \A w \in alive' : <<u, x>> \notin rooms'[w] /\ Tells(redis'[w], <<u, x>>) = {}
    BY <1>1, <1>9, <2>2 DEF Settles
  <2> QED
    BY <1>1, <2>4, <2>5, <2>6 DEF Settles
<1> QED
  BY <1>10, <1>11

LEMMA HearSettles ==
  ASSUME TypeOK, NEW w \in Ids, Hear(w), NEW u \in Topics, NEW x \in Sockets,
         \A t \in Topics : \A s \in Sockets : Settles(t, s)
  PROVE  Settles(u, x)'
<1> DEFINE q == redis[w]
           note == Head(q)
<1>1. /\ w \in alive /\ q # <<>> /\ q \in Seq(Notes) /\ redis' = [redis EXCEPT ![w] = Tail(@)]
      /\ UNCHANGED <<alive, home, asked>> /\ alive \subseteq Ids
      /\ redis \in [Ids -> Seq(Notes)]
      /\ rooms \in [Ids -> SUBSET (Topics \X Sockets)]
      /\ home \in [Sockets -> alive \cup {0}]
  BY LiveIds DEF Hear, TypeOK
<1>2. note \in Notes /\ note = q[1] /\ 1 \in DOMAIN q
  BY <1>1
<1>3. \/ note.kind = "emit" /\ UNCHANGED rooms
      \/ note.kind = "join" /\ rooms' = [rooms EXCEPT ![w] = @ \cup {Member(note)}]
      \/ note.kind = "leave" /\ rooms' = [rooms EXCEPT ![w] = @ \ {Member(note)}]
  <2>1. note.kind \in {"emit", "join", "leave"}
    BY <1>2 DEF Notes
  <2>2. CASE note.kind = "emit"
    BY <2>2 DEF Hear
  <2>3. CASE note.kind = "join"
    BY <2>3 DEF Hear, Member
  <2>4. CASE note.kind = "leave"
    BY <2>4 DEF Hear, Member
  <2> QED
    BY <2>1, <2>2, <2>3, <2>4
<1>4. note.kind # "emit" => /\ Member(note) \in Topics \X Sockets
                            /\ 1 \in Tells(q, Member(note))
  BY <1>2 DEF Notes, Member, Tells
<1>5. /\ redis'[w] = Tail(q)
      /\ \A v \in alive : v # w => redis'[v] = redis[v] /\ rooms'[v] = rooms[v]
  BY <1>1, <1>3
<1> HIDE DEF q, note
<1>6. ASSUME NEW m \in Topics \X Sockets, 1 \in Tells(q, m) PROVE home[m[2]] # w
  <2>1. PICK t \in Topics, s \in Sockets : m = <<t, s>>
    OBVIOUS
  <2>2. home[s] # 0 => Tells(redis[home[s]], m) = {}
    BY <2>1 DEF Settles
  <2>3. w # 0 /\ m[2] = s
    BY <1>1, <2>1, ServerTypes
  <2> QED
    BY <1>6, <2>2, <2>3 DEF q
<1>7. \A m \in Topics \X Sockets :
        1 \notin Tells(q, m) => (m \in rooms'[w] <=> m \in rooms[w])
  BY <1>1, <1>3, <1>4
<1>8. \A m \in Topics \X Sockets : m \in Subscribed' <=> m \in Subscribed
  <2> SUFFICES ASSUME NEW m \in Topics \X Sockets, home[m[2]] # 0
               PROVE  m \in rooms'[home[m[2]]] <=> m \in rooms[home[m[2]]]
    BY <1>1 DEF Subscribed
  <2>1. home[m[2]] \in alive
    BY <1>1
  <2> QED
    BY <1>5, <1>6, <1>7, <2>1
<1> DEFINE m == <<u, x>>
<1>9. m \in Topics \X Sockets /\ m[2] = x
  OBVIOUS
<1>10. Settles(u, x)
  OBVIOUS
<1>11. 1 \in Tells(q, m) => (m \in rooms'[w] <=> q[1].kind = "join")
  <2> SUFFICES ASSUME 1 \in Tells(q, m) PROVE m \in rooms'[w] <=> q[1].kind = "join"
    OBVIOUS
  <2>1. Member(note) = m /\ note.kind # "emit"
    BY <1>2 DEF Tells
  <2> QED
    BY <1>1, <1>2, <1>3, <2>1
<1> HIDE DEF m
<1>12. Comes(redis'[w], m, rooms'[w], Subscribed) /\ (Tells(q, m) = {} => Tells(redis'[w], m) = {})
  <2>1. Comes(q, m, rooms[w], Subscribed)
    BY <1>1, <1>10 DEF Settles, q, m
  <2> QED
    BY <1>1, <1>5, <1>7, <1>9, <1>11, <2>1, Heard
<1>13. \A v \in alive : Comes(redis'[v], m, rooms'[v], Subscribed')
  <2> SUFFICES ASSUME NEW v \in alive PROVE Comes(redis'[v], m, rooms'[v], Subscribed')
    OBVIOUS
  <2>1. Comes(redis'[v], m, rooms'[v], Subscribed)
    BY <1>5, <1>10, <1>12 DEF Settles, m
  <2> QED
    BY <1>8, <1>9, <2>1, OnlyThisOne
<1>14. \A v \in alive : Tells(redis[v], m) = {} => Tells(redis'[v], m) = {}
  BY <1>5, <1>12 DEF q
<1>15. home'[x] # 0 => Tells(redis'[home'[x]], m) = {}
  BY <1>1, <1>10, <1>14 DEF Settles, m
<1>16. asked'[x] = 0 => \A v \in alive : m \notin rooms'[v] /\ Tells(redis'[v], m) = {}
  <2> SUFFICES ASSUME asked'[x] = 0, NEW v \in alive
               PROVE  m \notin rooms'[v] /\ Tells(redis'[v], m) = {}
    OBVIOUS
  <2>1. m \notin rooms[v] /\ Tells(redis[v], m) = {}
    BY <1>1, <1>10 DEF Settles, m
  <2>2. v = w => 1 \notin Tells(q, m)
    BY <2>1 DEF q
  <2> QED
    BY <1>5, <1>7, <1>9, <1>14, <2>1, <2>2
<1> QED
  BY <1>1, <1>13, <1>15, <1>16 DEF Settles, m

LEMMA ConnectionSettles ==
  ASSUME TypeOK, NEW s \in Sockets, NEW w \in Ids, connection(s, w),
         NEW u \in Topics, NEW x \in Sockets, Settles(u, x)
  PROVE  Settles(u, x)'
<1>1. /\ home[s] = 0 /\ asked[s] = 0 /\ w \in alive /\ home' = [home EXCEPT ![s] = w]
      /\ home \in [Sockets -> alive \cup {0}]
      /\ UNCHANGED <<alive, rooms, redis, asked>>
  BY LiveIds DEF connection, TypeOK
<1>2. x = s => <<u, x>> \notin rooms[w] /\ Tells(redis[w], <<u, x>>) = {}
  BY <1>1 DEF Settles
<1>3. home'[x] = IF x = s THEN w ELSE home[x]
  BY <1>1
<1>4. <<u, x>> \in Subscribed' <=> <<u, x>> \in Subscribed
  BY <1>1, <1>2, <1>3 DEF Subscribed
<1>5. \A v \in alive : Comes(redis[v], <<u, x>>, rooms[v], Subscribed')
  BY <1>4, OnlyThisOne DEF Settles
<1>6. home'[x] # 0 => Tells(redis[home'[x]], <<u, x>>) = {}
  BY <1>2, <1>3 DEF Settles
<1> QED
  BY <1>1, <1>5, <1>6 DEF Settles

LEMMA ProcessSettles ==
  ASSUME TypeOK, NEW w \in Ids, process(w), NEW u \in Topics, NEW x \in Sockets, Settles(u, x)
  PROVE  Settles(u, x)'
<1> DEFINE e == Head(pipe[w])
<1>1. /\ w \in alive /\ pipe[w] # <<>> /\ pipe[w] \in Seq(forwarded) /\ forwarded \subseteq Events
      /\ UNCHANGED <<alive, rooms, home, asked>>
      /\ home \in [Sockets -> alive \cup {0}]
  BY LiveIds DEF process, TypeOK
<1>2. e \in Events
  BY <1>1
<1>3. CASE e \in Broken
  <2>1. UNCHANGED <<alive, rooms, home, asked, redis>>
    BY <1>1, <1>3 DEF process
  <2> QED
    BY <2>1 DEF Settles, Subscribed
<1>4. CASE e \notin Broken
  <2>1. PICK topics \in Emissions(w, e) :
          Publish(w, SetToSeq({Note("emit", e, t) : t \in topics}))
    BY <1>4 DEF process
  <2>2. topics \in SUBSET Topics
    BY EmissionsAreTopics
  <2> DEFINE new == SetToSeq({Note("emit", e, t) : t \in topics})
  <2>3. new \in Seq(Notes) /\ new \in Seq({n \in Notes : n.kind = "emit"})
    <3> HIDE DEF e
    <3> QED
      BY <1>2, <2>2, EmitsTyped
  <2> HIDE DEF new
  <2>4. Tells(new, <<u, x>>) = {}
    BY <2>3 DEF Tells
  <2>5. \A v \in alive :
          redis[v] \in Seq(Notes) /\ redis'[v] = IF v = w THEN redis[v] ELSE redis[v] \o new
    BY <1>1, <2>1, <2>3, Publishes DEF new
  <2>6. \A v \in alive : /\ Tells(redis'[v], <<u, x>>) = Tells(redis[v], <<u, x>>)
                           /\ Comes(redis'[v], <<u, x>>, rooms[v], Subscribed)
    <3> SUFFICES ASSUME NEW v \in alive
                 PROVE  /\ Tells(redis'[v], <<u, x>>) = Tells(redis[v], <<u, x>>)
                        /\ Comes(redis'[v], <<u, x>>, rooms[v], Subscribed)
      OBVIOUS
    <3>1. Comes(redis[v], <<u, x>>, rooms[v], Subscribed)
      BY DEF Settles
    <3>2. /\ Tells(redis[v] \o new, <<u, x>>) = Tells(redis[v], <<u, x>>)
          /\ Comes(redis[v] \o new, <<u, x>>, rooms[v], Subscribed)
      BY <2>3, <2>4, <2>5, <3>1, Silent
    <3> QED
      BY <2>5, <3>1, <3>2
  <2>7. Subscribed' = Subscribed
    BY <1>1 DEF Subscribed
  <2> QED
    BY <1>1, <2>6, <2>7 DEF Settles
<1> QED
  BY <1>3, <1>4

LEMMA RoomsNext == TypeOK /\ RoomsInv /\ [Next]_vars => RoomsInv'
<1> SUFFICES ASSUME TypeOK, RoomsInv, [Next]_vars PROVE RoomsInv'
  OBVIOUS
<1>1. ASSUME NEW w \in Ids, dies(w) \/ channelCloses(w) \/ exit(w) PROVE RoomsInv'
  BY <1>1, DeathEndsIt DEF RoomsInv
<1>2. ASSUME UNCHANGED processes, NoDeath => \A t \in Topics : \A s \in Sockets : Settles(t, s)'
      PROVE  RoomsInv'
  BY <1>2 DEF RoomsInv, Incomplete, NoDeath
<1>3. ASSUME NEW e \in Events, newEvent(e) PROVE RoomsInv'
  <2>1. UNCHANGED <<processes, rooms, redis, home, asked>>
    BY <1>3 DEF newEvent
  <2> QED
    BY <2>1 DEF RoomsInv, Incomplete, NoDeath, Settles, Subscribed
<1>4. ASSUME UNCHANGED vars PROVE RoomsInv'
  BY <1>4 DEF vars, RoomsInv, Incomplete, NoDeath, Settles, Subscribed
<1>5. ASSUME NEW w \in Ids, Hear(w) PROVE RoomsInv'
  <2>1. UNCHANGED processes
    BY <1>5 DEF Hear
  <2> QED
    BY <1>2, <1>5, <2>1, HearSettles DEF RoomsInv
<1>6. ASSUME NEW w \in Ids, process(w) PROVE RoomsInv'
  <2>1. UNCHANGED processes
    BY <1>6 DEF process
  <2> QED
    BY <1>2, <1>6, <2>1, ProcessSettles DEF RoomsInv
<1>7. ASSUME NEW s \in Sockets, disconnect(s) PROVE RoomsInv'
  <2>1. UNCHANGED processes
    BY <1>7 DEF disconnect
  <2> QED
    BY <1>2, <1>7, <2>1, DisconnectSettles DEF RoomsInv
<1>8. ASSUME NEW s \in Sockets, NEW w \in Ids, connection(s, w) PROVE RoomsInv'
  <2>1. UNCHANGED processes
    BY <1>8 DEF connection
  <2> QED
    BY <1>2, <1>8, <2>1, ConnectionSettles DEF RoomsInv
<1>9. ASSUME NEW s \in Sockets, NEW t \in Topics, subscribe(s, t) \/ unsubscribe(s, t)
      PROVE  RoomsInv'
  <2>1. UNCHANGED processes
    BY <1>9 DEF subscribe, unsubscribe
  <2> QED
    BY <1>2, <1>9, <2>1, SubscribeSettles DEF RoomsInv
<1> QED
  BY <1>1, <1>3, <1>4, <1>5, <1>6, <1>7, <1>8, <1>9 DEF Next

(* Once the workers have heard everything, they know the same rooms.       *)
THEOREM TheRoomsAgree == Spec => []RoomsAgree
<1>1. Init => RoomsInv
  <2> SUFFICES ASSUME Init PROVE RoomsInv
    OBVIOUS
  <2>1. Incomplete
    BY ServerTypes DEF Init, Incomplete
  <2>2. \A w \in alive : redis[w] = <<>> /\ rooms[w] = {}
    BY ServerTypes DEF Init
  <2>3. Subscribed = {} /\ \A s \in Sockets : home[s] = 0
    BY DEF Init, Subscribed
  <2>4. \A t \in Topics, s \in Sockets : Settles(t, s)
    BY <2>2, <2>3 DEF Settles, Comes, Tells
  <2> QED
    BY <2>1, <2>4 DEF RoomsInv
<1>2. TypeOK /\ RoomsInv => RoomsAgree
  <2> SUFFICES ASSUME TypeOK, RoomsInv, NoDeath, \A w \in alive : redis[w] = <<>>,
                      NEW v \in alive, NEW w \in alive
               PROVE  rooms[v] = rooms[w]
    BY DEF RoomsAgree
  <2>1. rooms[v] \subseteq Topics \X Sockets /\ rooms[w] \subseteq Topics \X Sockets
    BY LiveIds DEF TypeOK
  <2>2. \A t \in Topics, s \in Sockets : <<t, s>> \in rooms[v] <=> <<t, s>> \in rooms[w]
    <3> SUFFICES ASSUME NEW t \in Topics, NEW s \in Sockets
                 PROVE  <<t, s>> \in rooms[v] <=> <<t, s>> \in rooms[w]
      OBVIOUS
    <3>1. Settles(t, s)
      BY DEF RoomsInv
    <3>2. Tells(redis[v], <<t, s>>) = {} /\ Tells(redis[w], <<t, s>>) = {}
      BY DEF Tells
    <3> QED
      BY <3>1, <3>2 DEF Settles, Comes
  <2>3. \A m \in Topics \X Sockets : m \in rooms[v] <=> m \in rooms[w]
    <3> SUFFICES ASSUME NEW m \in Topics \X Sockets PROVE m \in rooms[v] <=> m \in rooms[w]
      OBVIOUS
    <3>1. m = <<m[1], m[2]>> /\ m[1] \in Topics /\ m[2] \in Sockets
      OBVIOUS
    <3> QED
      BY <2>2, <3>1
  <2> DEFINE R == rooms[v]
             Q == rooms[w]
             P == Topics \X Sockets
  <2>4. R \subseteq P /\ Q \subseteq P /\ \A m \in P : m \in R <=> m \in Q
    BY <2>1, <2>3
  <2> HIDE DEF R, Q, P
  <2>5. R = Q
    BY <2>4
  <2> QED
    BY <2>5 DEF R, Q
<1> QED
  BY <1>1, <1>2, RoomsNext, TypeCorrect, PTL DEF Spec
-----------------------------------------------------------------------------
(* The versions.  What the recursive definitions of EiffelVersions compute. *)

LEMMA TensIs == \A n \in Nat : Tens[n] = IF n < 10 THEN 10 ELSE 10 * Tens[n \div 10]
<1> DEFINE P == {n \in Nat : 10 <= n}
           prev == [n \in Nat |-> n \div 10]
           base == [n \in Nat |-> 10]
           step == [n \in Nat |-> [s \in Nat |-> 10 * s]]
<1>1. PICK g \in [Nat -> Nat] : Solves(g, Nat, P, prev, base, step)
  <2>1. Founded(Nat, Nat, P, prev, base, step)
    BY DEF Founded
  <2> HIDE DEF P, prev, base, step
  <2> QED
    BY <2>1, RecursionExists
<1>2. \A n \in Nat : n \div 10 \in Nat
  OBVIOUS
<1>3. g = [n \in Nat |-> IF n < 10 THEN 10 ELSE 10 * g[n \div 10]]
  <2>1. ASSUME NEW n \in Nat PROVE g[n] = IF n < 10 THEN 10 ELSE 10 * g[n \div 10]
    <3>1. g[n] = IF n \in P THEN step[n][g[prev[n]]] ELSE base[n]
      BY <1>1 DEF Solves
    <3>2. g[n \div 10] \in Nat
      BY <1>1, <1>2
    <3> QED
      BY <3>1, <3>2
  <2> QED
    BY <1>1, <2>1
<1>4. Tens = [n \in Nat |-> IF n < 10 THEN 10 ELSE 10 * Tens[n \div 10]]
  BY <1>3 DEF Tens
<1> QED
  BY <1>4

(* A number is smaller than the power of ten that makes room for it. *)
LEMMA TensBounds == \A n \in Nat : Tens[n] \in Nat /\ n < Tens[n]
<1> DEFINE B == {n \in Nat : ~(Tens[n] \in Nat /\ n < Tens[n])}
<1> SUFFICES ASSUME B # {} PROVE FALSE
  OBVIOUS
<1>1. PICK n \in B : \A m \in B : n <= m
  <2>1. B \in SUBSET Nat
    OBVIOUS
  <2> HIDE DEF B
  <2> QED
    BY <2>1, LeastNumber
<1>2. n \in Nat /\ ~(Tens[n] \in Nat /\ n < Tens[n])
  OBVIOUS
<1>3. n >= 10 /\ Tens[n] = 10 * Tens[n \div 10]
  BY <1>2, TensIs
<1>4. n \div 10 \in Nat /\ n \div 10 < n /\ n < 10 * (n \div 10) + 10
  BY <1>2, <1>3
<1>5. Tens[n \div 10] \in Nat /\ n \div 10 < Tens[n \div 10]
  BY <1>1, <1>2, <1>4
<1> QED
  BY <1>2, <1>3, <1>4, <1>5

LEMMA ProductAndSum ==
  ASSUME NEW a \in Nat, NEW b \in Nat, NEW c \in Nat
  PROVE  a * b \in Nat /\ a * b + c \in Nat
OBVIOUS

(* The numbers that are left of the first i parts of a version. *)
Joins(v) ==
  CHOOSE join : join = [i \in 0..Len(v) |-> IF i = 0 THEN 0 ELSE join[i - 1] * Tens[v[i]] + v[i]]

LEMMA JoinsAre ==
  ASSUME NEW v \in Seq(Nat)
  PROVE  /\ Joins(v) \in [0..Len(v) -> Nat] /\ Joins(v)[0] = 0
         /\ \A i \in 1..Len(v) : Joins(v)[i] = Joins(v)[i - 1] * Tens[v[i]] + v[i]
         /\ Joined(v) = Joins(v)[Len(v)]
<1> DEFINE D == 0..Len(v)
           P == D \ {0}
           prev == [n \in D |-> n - 1]
           base == [n \in D |-> 0]
           step == [n \in D |-> [s \in Nat |-> s * Tens[v[n]] + v[n]]]
<1>1. Len(v) \in Nat /\ \A i \in 1..Len(v) : v[i] \in Nat /\ Tens[v[i]] \in Nat
  BY TensBounds
<1>2. \A i \in P : i \in 1..Len(v) /\ i - 1 \in D /\ i - 1 < i
  BY <1>1
<1>3. PICK g \in [D -> Nat] : Solves(g, D, P, prev, base, step)
  <2>1. \A n \in D \cap P : prev[n] \in D /\ prev[n] < n
    BY <1>2
  <2>2. \A n \in D \cap P, s \in Nat : step[n][s] \in Nat
    <3> SUFFICES ASSUME NEW n \in D \cap P, NEW s \in Nat PROVE s * Tens[v[n]] + v[n] \in Nat
      OBVIOUS
    <3> DEFINE a == Tens[v[n]]
               b == v[n]
    <3>1. a \in Nat /\ b \in Nat
      BY <1>1, <1>2
    <3> HIDE DEF a, b
    <3>2. s * a + b \in Nat
      BY <3>1, ProductAndSum
    <3> QED
      BY <3>2 DEF a, b
  <2>3. D \subseteq Nat /\ \A n \in D \ P : base[n] \in Nat
    BY <1>1
  <2> HIDE DEF D, P, prev, base, step
  <2>4. Founded(D, Nat, P, prev, base, step)
    BY <2>1, <2>2, <2>3 DEF Founded
  <2> QED
    BY <2>4, RecursionExists
<1>4. g = [i \in D |-> IF i = 0 THEN 0 ELSE g[i - 1] * Tens[v[i]] + v[i]]
  BY <1>2, <1>3 DEF Solves
<1>5. Joins(v) = [i \in D |-> IF i = 0 THEN 0 ELSE Joins(v)[i - 1] * Tens[v[i]] + v[i]]
  BY <1>4 DEF Joins
<1>6. Joined(v) = Joins(v)[Len(v)]
  BY DEF Joined, Joins
<1>7. \A n \in D : Joins(v)[n] \in Nat
  <2> DEFINE T == {n \in Nat : n \in D => Joins(v)[n] \in Nat}
  <2>1. 0 \in T
    BY <1>1, <1>5
  <2>2. ASSUME NEW n \in Nat, n \in T PROVE n + 1 \in T
    <3> SUFFICES ASSUME n + 1 \in D PROVE Joins(v)[n + 1] \in Nat
      OBVIOUS
    <3>1. n \in D /\ n + 1 \in 1..Len(v) /\ Joins(v)[n] \in Nat /\ (n + 1) - 1 = n
      BY <1>1, <2>2
    <3>2. Joins(v)[n + 1] = Joins(v)[n] * Tens[v[n + 1]] + v[n + 1]
      BY <1>5, <3>1
    <3>3. Tens[v[n + 1]] \in Nat /\ v[n + 1] \in Nat
      BY <1>1, <3>1
    <3> QED
      <4> DEFINE a == Joins(v)[n]
                 b == Tens[v[n + 1]]
                 c == v[n + 1]
      <4>1. a \in Nat /\ b \in Nat /\ c \in Nat
        BY <3>1, <3>3
      <4>2. Joins(v)[n + 1] = a * b + c
        BY <3>1, <3>2
      <4> HIDE DEF a, b, c, D, T
      <4>3. a * b + c \in Nat
        BY <4>1, ProductAndSum
      <4> QED
        BY <4>2, <4>3
  <2>3. Nat \subseteq T
    <3> HIDE DEF T
    <3> QED
      BY <2>1, <2>2, SetInduction
  <2> QED
    BY <1>1, <2>3
<1>8. Joins(v) \in [0..Len(v) -> Nat] /\ Joins(v)[0] = 0
  <2>1. Joins(v) = [i \in D |-> Joins(v)[i]]
    BY <1>5
  <2>2. Joins(v) \in [D -> Nat]
    BY <1>7, <2>1
  <2> QED
    BY <1>1, <1>5, <2>2
<1>9. ASSUME NEW i \in 1..Len(v) PROVE Joins(v)[i] = Joins(v)[i - 1] * Tens[v[i]] + v[i]
  <2>1. i \in D /\ i # 0
    BY <1>1
  <2> HIDE DEF D
  <2> QED
    BY <1>5, <2>1
<1> QED
  BY <1>6, <1>8, <1>9

(* A greater number stays greater when as many digits are put behind it as *)
(* behind a smaller one.                                                   *)
LEMMA StaysGreater ==
  ASSUME NEW a \in Nat, NEW b \in Nat, NEW t \in Nat, NEW m \in Nat, NEW n \in Nat, a > b, n < t
  PROVE  a * t + m > b * t + n
<1>1. a * t = (a - b - 1) * t + b * t + t
  OBVIOUS
<1>2. (a - b - 1) * t \in Nat /\ b * t \in Nat
  OBVIOUS
<1> QED
  BY <1>1, <1>2

(* Of two versions of the same shape the higher one is joined to the       *)
(* greater number.                                                         *)
LEMMA HigherIsGreater ==
  ASSUME NEW v \in Seq(Nat), NEW u \in Seq(Nat), SameShape(v, u), Higher(v, u)
  PROVE  Joined(v) > Joined(u)
<1> DEFINE f == Joins(v)
           g == Joins(u)
           k == Len(v)
<1>1. k \in Nat /\ Len(u) = k /\ \A i \in 1..k : Tens[v[i]] = Tens[u[i]]
  BY DEF SameShape
<1>2. PICK i \in 1..k : (\A j \in 1..(i - 1) : v[j] = u[j]) /\ v[i] > u[i]
  BY <1>1 DEF Higher
<1>3. \A j \in 1..k : v[j] \in Nat /\ u[j] \in Nat /\ Tens[u[j]] \in Nat /\ u[j] < Tens[u[j]]
  BY <1>1, TensBounds
<1>4. /\ f \in [0..k -> Nat] /\ f[0] = 0 /\ Joined(v) = f[k]
      /\ \A j \in 1..k : f[j] = f[j - 1] * Tens[u[j]] + v[j]
      /\ g \in [0..k -> Nat] /\ g[0] = 0 /\ Joined(u) = g[k]
      /\ \A j \in 1..k : g[j] = g[j - 1] * Tens[u[j]] + u[j]
  BY <1>1, JoinsAre
<1> HIDE DEF f, g, k
<1> DEFINE T == {j \in Nat : j <= k => /\ j < i => f[j] = g[j]
                                       /\ i <= j => f[j] > g[j]}
<1>5. 0 \in T
  BY <1>2, <1>4
<1>6. ASSUME NEW j \in Nat, j \in T PROVE j + 1 \in T
  <2> SUFFICES ASSUME j + 1 <= k
               PROVE  /\ j + 1 < i => f[j + 1] = g[j + 1]
                      /\ i <= j + 1 => f[j + 1] > g[j + 1]
    OBVIOUS
  <2>1. /\ j + 1 \in 1..k /\ j \in 0..k /\ (j + 1) - 1 = j /\ i \in Nat
        /\ (j < i => f[j] = g[j]) /\ (i <= j => f[j] > g[j])
    BY <1>1, <1>2, <1>6
  <2> DEFINE t == Tens[u[j + 1]]
             a == v[j + 1]
             b == u[j + 1]
  <2>2. f[j + 1] = f[j] * t + a /\ g[j + 1] = g[j] * t + b /\ f[j] \in Nat /\ g[j] \in Nat
    BY <1>4, <2>1
  <2>3. a \in Nat /\ b \in Nat /\ t \in Nat /\ b < t
    BY <1>3, <2>1
  <2>4. (j + 1 < i => a = b) /\ (j + 1 = i => a > b)
    BY <1>2, <2>1
  <2> HIDE DEF t, a, b
  <2>5. CASE i <= j
    <3>1. f[j] > g[j]
      BY <2>1, <2>5
    <3>2. f[j] * t + a > g[j] * t + b
      BY <2>2, <2>3, <3>1, StaysGreater
    <3>3. f[j + 1] > g[j + 1]
      BY <2>2, <3>2
    <3>4. ~(j + 1 < i)
      BY <2>1, <2>5
    <3> QED
      BY <3>3, <3>4
  <2>6. CASE j < i
    <3> DEFINE c == f[j] * t
    <3>1. f[j] = g[j]
      BY <2>1, <2>6
    <3>2. f[j + 1] = c + a /\ g[j + 1] = c + b
      BY <2>2, <3>1
    <3>3. c \in Nat
      BY <2>2, <2>3, ProductAndSum
    <3> HIDE DEF c
    <3>4. CASE j + 1 < i
      <4>1. a = b /\ ~(i <= j + 1)
        BY <2>1, <2>4, <3>4
      <4> QED
        BY <3>2, <4>1
    <3>5. CASE j + 1 = i
      <4>1. a > b /\ ~(j + 1 < i)
        BY <2>1, <2>4, <3>5
      <4>2. c + a > c + b
        BY <2>3, <3>3, <4>1
      <4> QED
        BY <3>2, <4>1, <4>2
    <3> QED
      BY <2>1, <2>6, <3>4, <3>5
  <2> QED
    BY <2>1, <2>5, <2>6
<1>7. Nat \subseteq T
  <2> HIDE DEF T
  <2> QED
    BY <1>5, <1>6, SetInduction
<1>8. k \in T /\ i <= k
  BY <1>1, <1>2, <1>7
<1> QED
  BY <1>1, <1>4, <1>8

(* What was emitted is a latest version of the event as the code takes it. *)
Emitted == \A x \in emitted : x[2] \in Events /\ x[3] \in LatestOf[x[2]]

LEMMA EmittedNext == TypeOK /\ Emitted /\ [Next]_vars => Emitted'
<1> SUFFICES ASSUME TypeOK, Emitted, [Next]_vars PROVE Emitted'
  OBVIOUS
<1> USE DEF master, output
<1>1. ASSUME NEW w \in Ids, process(w) PROVE Emitted'
  <2> DEFINE e == Head(pipe[w])
  <2>1. e \in Events
    BY <1>1 DEF process, TypeOK
  <2>2. CASE e \in Broken
    BY <1>1, <2>2 DEF process, Emitted
  <2>3. CASE e \notin Broken
    <3>1. PICK topics \in Emissions(w, e), v \in LatestOf[e] :
            emitted' = emitted \cup (topics \X {e} \X {v})
      BY <1>1, <2>3 DEF process
    <3> HIDE DEF e
    <3>2. \A x \in topics \X {e} \X {v} : x[2] = e /\ x[3] = v
      OBVIOUS
    <3> QED
      BY <2>1, <3>1, <3>2 DEF Emitted
  <2> QED
    BY <2>2, <2>3
<1>2. CASE UNCHANGED emitted
  BY <1>2 DEF Emitted
<1>3. CASE Next
  <2>1. \A w \in Ids : dies(w) \/ channelCloses(w) \/ exit(w) \/ Hear(w)
          => UNCHANGED emitted
    BY DEF dies, channelCloses, exit, Hear
  <2>2. \A e \in Events : newEvent(e) => UNCHANGED emitted
    BY DEF newEvent
  <2>3. \A s \in Sockets : disconnect(s) \/ (\E w \in Ids : connection(s, w))
                           \/ (\E t \in Topics : subscribe(s, t) \/ unsubscribe(s, t))
          => UNCHANGED emitted
    BY DEF disconnect, connection, subscribe, unsubscribe
  <2> QED
    BY <1>1, <1>2, <1>3, <2>1, <2>2, <2>3 DEF Next
<1> QED
  BY <1>2, <1>3 DEF vars

(* The version that is emitted is supported and as high as each supported  *)
(* one of its shape, whatever versions, of whatever length and numbers, a  *)
(* message offers.                                                         *)
THEOREM TheHighestIsEmitted == Spec => []HighestOfItsShape
<1>1. Init => Emitted
  BY DEF Init, Emitted
<1>2. Emitted => HighestOfItsShape
  <2> SUFFICES ASSUME Emitted, NEW x \in emitted, NEW v \in Supported(Versions[x[2]])
               PROVE  /\ x[3] \in Supported(Versions[x[2]])
                      /\ SameShape(v, x[3]) => ~Higher(v, x[3])
    BY DEF HighestOfItsShape
  <2> DEFINE e == x[2]
  <2>1. e \in Events /\ x[3] \in LatestOf[e]
    BY DEF Emitted
  <2>2. x[3] \in Supported(Versions[e]) /\ Joined(x[3]) >= Joined(v)
    BY <2>1 DEF LatestOf, getLatestSupportedVersion
  <2>3. v \in Seq(Nat) /\ x[3] \in Seq(Nat)
    BY <2>1, <2>2, ServerAssumption DEF ServerAssumption, Supported
  <2>4. Joined(v) \in Nat /\ Joined(x[3]) \in Nat
    <3>1. \A u \in Seq(Nat) : Joined(u) \in Nat
      <4> SUFFICES ASSUME NEW u \in Seq(Nat) PROVE Joined(u) \in Nat
        OBVIOUS
      <4>1. Len(u) \in 0..Len(u)
        OBVIOUS
      <4> QED
        BY <4>1, JoinsAre
    <3> QED
      BY <2>3, <3>1
  <2> QED
    BY <2>2, <2>3, <2>4, HigherIsGreater
<1> QED
  BY <1>1, <1>2, EmittedNext, TypeCorrect, PTL DEF Spec
=============================================================================
