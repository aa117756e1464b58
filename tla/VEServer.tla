------------------------------ MODULE VEServer ------------------------------
(***************************************************************************)
(* The clustered event server of the visualization engine                  *)
(* (src/VisualizationEngineApp/server): the master process reads events    *)
(* from the message bus and hands them to its workers in turn; a worker    *)
(* matches an event against the rooms it knows and emits it to each of     *)
(* those that match, and to the room "all".                                *)
(*                                                                         *)
(* The browsers' sockets are spread over the workers.  socket.io's Redis   *)
(* store tells the other workers of joins, leaves and emits, so a worker's *)
(* knowledge of the rooms lags behind, and a worker that replaces one that *)
(* died starts with none.  The master learns of a death later, in two      *)
(* events: the channel closes, the process exits.  A handler is one step:  *)
(* JavaScript runs it to completion.                                       *)
(***************************************************************************)
EXTENDS EiffelVersions, FiniteSets, FiniteSetsExt

CONSTANTS
  numCPUs,       \* the number of workers
  Sockets,       \* the browsers' connections
  Topics,        \* the topics a browser can subscribe to, "all" among them
  Events,        \* the events on the message bus
  Broken,        \* those that cannot be parsed
  Versions,      \* Versions[e]: the versions in which the message has event e
  Verdict,       \* Verdict[t][e]: "match", "differ", or "throws" when the topic's
                 \* key leads through a part that the event does not have
  MaxRequests,   \* bound: subscribe and unsubscribe requests of a socket
  MaxDeaths      \* bound: workers that die

ASSUME ServerAssumption ==
  /\ numCPUs \in Nat \ {0} /\ MaxRequests \in Nat /\ MaxDeaths \in Nat
  /\ IsFiniteSet(Topics) /\ "all" \in Topics
  /\ Broken \subseteq Events /\ DOMAIN Versions = Events
  /\ supportedEiffelVersion \in Nat /\ \A e \in Events : Versions[e] \subseteq Seq(Nat) \ {<<>>}
  /\ Verdict \in [Topics -> [Events -> {"match", "differ", "throws"}]]

VARIABLES
  alive,         \* the ids of the workers whose processes live
  workers,       \* cluster.workers: those that the master knows
  died,          \* dead ones whose exit the master has not handled
  forked,        \* the last id
  ended,         \* the master has thrown, having no worker to send an event to
  currentWorker, \* the master's turn
  forwarded,     \* the events taken from the bus
  share,         \* share[w]: how many events worker w was given
  pipe,          \* pipe[w]: events on their way to worker w
  rooms,         \* rooms[w]: pairs <<topic, socket>> that worker w knows
  redis,         \* redis[w]: what the store has still to tell worker w
  home,          \* home[s]: the worker of socket s, 0 when it is not connected
  asked,         \* asked[s]: requests of the socket
  emitted,       \* triples <<topic, event, version>> that were emitted
  handled,       \* the events that parsed and were processed
  received       \* received[s]: pairs <<topic, event>>, in order

vars == <<alive, workers, died, forked, ended, currentWorker, forwarded, share, pipe,
          rooms, redis, home, asked, emitted, handled, received>>
processes == <<alive, workers, died, forked>>
master == <<ended, currentWorker, forwarded, share>>
output == <<emitted, handled, received>>

Ids == 1..(numCPUs + MaxDeaths)

Init ==
  /\ alive = 1..numCPUs /\ workers = alive /\ died = {} /\ forked = numCPUs
  /\ ended = FALSE /\ currentWorker = 1
  /\ forwarded = {} /\ share = [w \in Ids |-> 0]
  /\ pipe = [w \in Ids |-> <<>>]
  /\ rooms = [w \in Ids |-> {}]
  /\ redis = [w \in Ids |-> <<>>]
  /\ home = [s \in Sockets |-> 0]
  /\ asked = [s \in Sockets |-> 0]
  /\ emitted = {} /\ handled = {}
  /\ received = [s \in Sockets |-> <<>>]
-----------------------------------------------------------------------------
(* The master. *)

(* Mutant of getNextWorker: the turn's own worker is skipped. *)
MutSkipTurn(ids, turn) ==
  IF \E w \in ids : w > turn THEN Min({w \in ids : w > turn}) ELSE Max(ids)

(* Mutant of getNextWorker: the turn is the id. *)
MutTurnIsId(ids, turn) == turn

(* The first id from the turn on; when there is none, the last one. *)
getNextWorker(ids, turn) ==
  IF \E w \in ids : w >= turn THEN Min({w \in ids : w >= turn}) ELSE Max(ids)

(* Mutant of Turn: it wraps around too late. *)
MutLateWrap == IF currentWorker = numCPUs + 1 THEN 1 ELSE currentWorker + 1

Turn == IF currentWorker = numCPUs THEN 1 ELSE currentWorker + 1

newEvent(e) ==
  /\ ~ended /\ e \notin forwarded
  /\ forwarded' = forwarded \cup {e}
  /\ UNCHANGED <<processes, rooms, redis, home, asked, output>>
  /\ \/ workers = {} /\ ended' = TRUE /\ UNCHANGED <<currentWorker, share, pipe>>
     \/ /\ workers # {}
        /\ LET w == getNextWorker(workers, currentWorker) IN
             /\ pipe' = IF w \in alive THEN [pipe EXCEPT ![w] = Append(@, e)] ELSE pipe
             /\ share' = [share EXCEPT ![w] = @ + 1]
        /\ currentWorker' = Turn /\ UNCHANGED ended

(* A worker dies with its sockets and all that was on its way to it.       *)
dies(w) ==
  /\ w \in alive /\ forked + Cardinality(died) < numCPUs + MaxDeaths
  /\ alive' = alive \ {w} /\ died' = died \cup {w}
  /\ pipe' = [pipe EXCEPT ![w] = <<>>]
  /\ redis' = [redis EXCEPT ![w] = <<>>]
  /\ rooms' = [rooms EXCEPT ![w] = {}]
  /\ home' = [s \in Sockets |-> IF home[s] = w THEN 0 ELSE home[s]]
  /\ UNCHANGED <<workers, forked, master, asked, output>>

(* The channel to a dead worker closes: cluster.workers loses it.  Until   *)
(* then what the master sends it is lost.                                  *)
channelCloses(w) ==
  /\ ~ended /\ w \in died \cap workers
  /\ workers' = workers \ {w}
  /\ UNCHANGED <<alive, died, forked, master, pipe, rooms, redis, home, asked, output>>

(* The master hears that a worker has exited, and forks another one, which *)
(* knows no rooms.                                                         *)
exit(w) ==
  /\ ~ended /\ w \in died
  /\ died' = died \ {w} /\ forked' = forked + 1
  /\ alive' = alive \cup {forked + 1}
  /\ workers' = (workers \ {w}) \cup {forked + 1}
  /\ UNCHANGED <<master, pipe, rooms, redis, home, asked, output>>
-----------------------------------------------------------------------------
(* The sockets, and the store that connects the workers. *)

Others(w) == alive \ {w}

(* What a worker publishes, the other workers hear in that order. *)
Publish(w, messages) ==
  redis' = [v \in Ids |-> IF v \in Others(w) THEN redis[v] \o messages ELSE redis[v]]

Note(kind, s, t) == [kind |-> kind, socket |-> s, topic |-> t]

Notes == [kind : {"join", "leave"}, socket : Sockets, topic : Topics]
         \cup [kind : {"emit"}, socket : Events, topic : Topics]

connection(s, w) ==
  /\ home[s] = 0 /\ asked[s] = 0 /\ w \in alive
  /\ home' = [home EXCEPT ![s] = w]
  /\ UNCHANGED <<processes, master, pipe, rooms, redis, asked, output>>

Request(s) ==
  /\ home[s] # 0 /\ asked[s] < MaxRequests
  /\ asked' = [asked EXCEPT ![s] = @ + 1]

subscribe(s, t) ==
  /\ Request(s)
  /\ rooms' = [rooms EXCEPT ![home[s]] = @ \cup {<<t, s>>}]
  /\ Publish(home[s], <<Note("join", s, t)>>)
  /\ UNCHANGED <<processes, master, pipe, home, output>>

unsubscribe(s, t) ==
  /\ Request(s)
  /\ rooms' = [rooms EXCEPT ![home[s]] = @ \ {<<t, s>>}]
  /\ Publish(home[s], <<Note("leave", s, t)>>)
  /\ UNCHANGED <<processes, master, pipe, home, output>>

(* Mutant of Closed: the other workers are not told. *)
MutCloseQuietly(w, notes) == UNCHANGED redis

Closed(w, notes) == Publish(w, notes)

(* A socket that closes leaves its rooms. *)
disconnect(s) ==
  /\ home[s] # 0 /\ asked[s] = MaxRequests
  /\ LET mine == {r \in rooms[home[s]] : r[2] = s} IN
       /\ rooms' = [rooms EXCEPT ![home[s]] = @ \ mine]
       /\ Closed(home[s], SetToSeq({Note("leave", s, r[1]) : r \in mine}))
  /\ home' = [home EXCEPT ![s] = 0]
  /\ UNCHANGED <<processes, master, pipe, asked, output>>

(* What the sockets of worker w in one of the rooms get: an emit to a room *)
(* of a process reaches the sockets of that process that it knows in it.   *)
Delivered(w, topics, e) ==
  [s \in Sockets |->
     IF home[s] = w
     THEN received[s] \o SetToSeq({<<t, e>> : t \in {u \in topics : <<u, s>> \in rooms[w]}})
     ELSE received[s]]

Hear(w) ==
  /\ w \in alive /\ redis[w] # <<>>
  /\ redis' = [redis EXCEPT ![w] = Tail(@)]
  /\ LET note == Head(redis[w])  member == <<note.topic, note.socket>> IN
     CASE note.kind = "join" ->
            rooms' = [rooms EXCEPT ![w] = @ \cup {member}] /\ UNCHANGED received
       [] note.kind = "leave" ->
            rooms' = [rooms EXCEPT ![w] = @ \ {member}] /\ UNCHANGED received
       [] note.kind = "emit" ->
            received' = Delivered(w, {note.topic}, note.socket) /\ UNCHANGED rooms
  /\ UNCHANGED <<processes, master, pipe, home, asked, emitted, handled>>
-----------------------------------------------------------------------------
(* EventHandler.process, in a worker. *)

(* The rooms of the worker other than "all", each of them once. *)
getUniqueSubscriptions(w) == {r[1] : r \in rooms[w]} \ {"all"}

None == <<>>
LatestOf == [e \in Events |-> IF Supported(Versions[e]) = {} THEN {None}
                              ELSE getLatestSupportedVersion(Versions[e])]

(* A message without a supported version is an undefined event, of which   *)
(* no key can be looked up.                                                *)
shouldEmit(t, e) == IF LatestOf[e] = {None} THEN "throws" ELSE Verdict[t][e]

Throws(w, e) == {t \in getUniqueSubscriptions(w) : shouldEmit(t, e) = "throws"}
Matches(w, e) == {t \in getUniqueSubscriptions(w) : shouldEmit(t, e) = "match"}

(* Mutant of Emissions: the first match is all. *)
MutFirstMatch(w, e) == {{CHOOSE t \in Matches(w, e) \cup {"all"} : TRUE}}

(* The rooms an event is emitted to.  The topics are tried in the order in *)
(* which the rooms were made; the first one that throws ends it all, and   *)
(* "all" comes last.                                                       *)
Emissions(w, e) ==
  IF Throws(w, e) = {} THEN {Matches(w, e) \cup {"all"}} ELSE SUBSET Matches(w, e)

(* Mutant of process: the event stays in the pipe. *)
MutProcessAgain(w) ==
  /\ w \in alive /\ pipe[w] # <<>>
  /\ pipe' \in {pipe, [pipe EXCEPT ![w] = Tail(@)]}
  /\ LET e == Head(pipe[w]) IN
     IF e \in Broken
     THEN UNCHANGED <<output, redis>>
     ELSE \E topics \in Emissions(w, e), v \in LatestOf[e] :
            /\ emitted' = emitted \cup (topics \X {e} \X {v})
            /\ handled' = handled \cup {e}
            /\ received' = Delivered(w, topics, e)
            /\ Publish(w, SetToSeq({Note("emit", e, t) : t \in topics}))
  /\ UNCHANGED <<processes, master, rooms, home, asked>>

process(w) ==
  /\ w \in alive /\ pipe[w] # <<>>
  /\ pipe' = [pipe EXCEPT ![w] = Tail(@)]
  /\ LET e == Head(pipe[w]) IN
     IF e \in Broken
     THEN UNCHANGED <<output, redis>>
     ELSE \E topics \in Emissions(w, e), v \in LatestOf[e] :
            /\ emitted' = emitted \cup (topics \X {e} \X {v})
            /\ handled' = handled \cup {e}
            /\ received' = Delivered(w, topics, e)
            /\ Publish(w, SetToSeq({Note("emit", e, t) : t \in topics}))
  /\ UNCHANGED <<processes, master, rooms, home, asked>>
-----------------------------------------------------------------------------
Next ==
  \/ \E e \in Events : newEvent(e)
  \/ \E w \in Ids : dies(w) \/ channelCloses(w) \/ exit(w) \/ Hear(w) \/ process(w)
  \/ \E s \in Sockets : \/ disconnect(s)
                        \/ \E w \in Ids : connection(s, w)
                        \/ \E t \in Topics : subscribe(s, t) \/ unsubscribe(s, t)

Spec == Init /\ [][Next]_vars

(* Worker processes run, and the store delivers. *)
Fairness == \A w \in Ids : WF_vars(process(w)) /\ WF_vars(Hear(w))

FairSpec == Spec /\ Fairness
-----------------------------------------------------------------------------
NoDeath == alive = 1..numCPUs

(* Who lives, who died, and whom the master knows. *)
ProcessesOK ==
  /\ alive \cap died = {} /\ alive \cup died \subseteq 1..forked
  /\ Cardinality(alive) + Cardinality(died) = numCPUs
  /\ alive \subseteq workers /\ workers \subseteq alive \cup died
  /\ forked \in Nat /\ numCPUs <= forked /\ forked + Cardinality(died) <= numCPUs + MaxDeaths

TypeOK ==
  /\ ProcessesOK
  /\ ended \in BOOLEAN /\ currentWorker \in 1..numCPUs
  /\ forwarded \subseteq Events /\ share \in [Ids -> Nat]
  /\ pipe \in [Ids -> Seq(forwarded)]
  /\ rooms \in [Ids -> SUBSET (Topics \X Sockets)]
  /\ redis \in [Ids -> Seq(Notes)]
  /\ \A w \in Ids \ alive : pipe[w] = <<>> /\ redis[w] = <<>>
  /\ home \in [Sockets -> alive \cup {0}] /\ asked \in [Sockets -> 0..MaxRequests]
  /\ handled \subseteq forwarded \ Broken
  /\ \A x \in emitted : x[1] \in Topics /\ x[2] \in handled
  /\ received \in [Sockets -> Seq(Topics \X Events)]

(* Whatever the turn and whoever was replaced, the master finds a worker   *)
(* as long as cluster.workers has one; it has none, so that the next event *)
(* ends the master, only while all numCPUs workers are dead at once.       *)
AlwaysAWorker ==
  /\ workers # {} => getNextWorker(workers, currentWorker) \in workers
  /\ workers = {} \/ ended => Cardinality(died) = numCPUs

(* While no worker has died, the events are spread evenly. *)
EvenlyShared ==
  NoDeath => \A v, w \in 1..numCPUs : share[v] - share[w] \in -1..1

(* No socket gets an event twice for a topic, though the event goes to it  *)
(* directly or over the store, and though it may subscribe, leave and      *)
(* subscribe again meanwhile.                                              *)
NoDuplicates == \A s \in Sockets : IsInjective(received[s])

(* Once the store has told everybody everything, all the workers know the  *)
(* same rooms, as long as none of them has died.                           *)
RoomsAgree ==
  NoDeath /\ (\A w \in alive : redis[w] = <<>>) =>
    \A v, w \in alive : rooms[v] = rooms[w]

(* Event e is with worker w, which knows that s subscribed to a topic of it. *)
Due(w, s, t, e) ==
  /\ e \in ToSet(pipe[w]) /\ <<t, s>> \in rooms[w]
  /\ t = "all" \/ Verdict[t][e] = "match"

LookedUp == {e \in Events : \A t \in Topics : shouldEmit(t, e) # "throws"}

(* An event that reaches a worker which knows a subscription for it is     *)
(* sent to the socket, unless the socket leaves the room or is gone: an    *)
(* event in which every topic can be looked up, since one that throws ends *)
(* the handling of the event for all.                                      *)
EventsReachSockets ==
  \A w \in Ids, s \in Sockets, t \in Topics, e \in LookedUp \ Broken :
    Due(w, s, t, e)
    ~> \/ <<t, e>> \in ToSet(received[s])
       \/ w \notin alive \/ <<t, s>> \notin rooms[w]
       \/ home[s] = 0 \/ <<t, s>> \notin rooms[home[s]]

(* Whatever versions the message offers, the one that is emitted is        *)
(* supported, and as high as each supported one of the same length whose   *)
(* numbers have as many digits.                                            *)
HighestOfItsShape ==
  \A x \in emitted : \A v \in Supported(Versions[x[2]]) :
    x[3] \in Supported(Versions[x[2]]) /\ (SameShape(v, x[3]) => ~Higher(v, x[3]))

(* The version that is emitted is the highest supported one ("should       *)
(* return the highest supported version when supported major version is    *)
(* 2").                                                                    *)
HighestSupported ==
  \A x \in emitted : \A v \in Supported(Versions[x[2]]) : ~Higher(v, x[3])

(* Every event that is processed is emitted to the subscribers on "all"    *)
(* ("should send eiffel message to subscribers on all").                   *)
SentToAll == \A e \in handled : \E x \in emitted : x[1] = "all" /\ x[2] = e
=============================================================================
