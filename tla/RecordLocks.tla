----------------------------- MODULE RecordLocks -----------------------------
(***************************************************************************)
(* The record locks of the test data management service                    *)
(* (src/taf-data-management).                                              *)
(*                                                                         *)
(* A test run that needs exclusive test data POSTs a lock: the service     *)
(* finds the records its predicates select, stores the selection in the    *)
(* collection dataSourceExecutions, the lock in locks, and one entry per   *)
(* record in dataRecordLocks.  A unique index on the record of an entry is *)
(* the only mutual exclusion there is; a TTL index removes the entries     *)
(* when the lock times out.  None of this is one transaction: every call   *)
(* to MongoDB is a step of its own here, the entries are inserted one      *)
(* after the other, any call may fail with or without having been applied, *)
(* and the server may crash between any two of them.                       *)
(***************************************************************************)
EXTENDS Integers, FiniteSets

CONSTANTS
  Requests,      \* the POSTs of a lock; each gets an object id of its own
  Records,       \* the data records, numbered in the collection's natural order
  Selections,    \* the sets of records that the predicates of a request select
  Timeouts,      \* the timeouts a request may ask for, in ticks of the clock
  MaxFaults,     \* bound: MongoDB calls that fail in one behaviour
  CanCrash       \* whether the server process may crash

ASSUME RecordsAssumption == Records \subseteq Nat
ASSUME SelectionsAssumption == Selections \subseteq SUBSET Records
ASSUME TimeoutsAssumption == Timeouts \subseteq Nat
ASSUME FaultsAssumption == MaxFaults \in Nat /\ CanCrash \in BOOLEAN

VARIABLES
  pc,            \* pc[r]: where the thread that serves r is
  wanted,        \* wanted[r]: the recordIds of its DataSourceExecution
  todo,          \* todo[r]: the records whose entry is still to be inserted
  timer,         \* timer[r]: ticks until the expireAt of the entries of r
  executions,    \* collection dataSourceExecutions, by request
  locks,         \* collection locks, by request
  entries,       \* collection dataRecordLocks: pairs <<record, request>>
  released,      \* the requests whose lock was released by a DELETE
  faults         \* MongoDB calls that have failed

server == <<pc, wanted, todo>>
store == <<executions, locks, entries>>
vars == <<pc, wanted, todo, timer, executions, locks, entries, released, faults>>

(* The thread of a request that is not answered. *)
InCreate == {"insertLock", "lockRecords", "saveLock"}
InCatch == {"deleteExecution", "deleteLock", "deleteEntries"}
InFlight == InCreate \cup InCatch
(* The answers: the lock, the LockException, any other exception, none.    *)
Answered == {"granted", "refused", "error", "crashed"}

TypeOK ==
  /\ pc \in [Requests -> {"new"} \cup InFlight \cup Answered]
  /\ wanted \in [Requests -> SUBSET Records]
  /\ todo \in [Requests -> SUBSET Records]
  /\ timer \in [Requests -> Nat]
  /\ executions \subseteq Requests
  /\ locks \subseteq Requests
  /\ entries \subseteq Records \X Requests
  /\ released \subseteq Requests
  /\ faults \in 0..MaxFaults

Init ==
  /\ pc = [r \in Requests |-> "new"]
  /\ wanted = [r \in Requests |-> {}]
  /\ todo = [r \in Requests |-> {}]
  /\ timer = [r \in Requests |-> 0]
  /\ executions = {}
  /\ locks = {}
  /\ entries = {}
  /\ released = {}
  /\ faults = 0

EntriesOf(r) == {e \in entries : e[2] = r}

Goto(r, label) == pc' = [pc EXCEPT ![r] = label]
-----------------------------------------------------------------------------
(* createLock, the try block. *)

(* createExecutionRecord finds the data source and the execution, collects *)
(* the records that the predicates select and inserts the selection.       *)
CreateExecution(r) ==
  /\ pc[r] = "new"
  /\ \E S \in Selections : wanted' = [wanted EXCEPT ![r] = S]
  /\ executions' = executions \cup {r}
  /\ Goto(r, "insertLock")
  /\ UNCHANGED <<todo, timer, locks, entries, released, faults>>

(* The data source or the execution does not exist: the catch block then   *)
(* fails on the null id of the lock, and that exception is the answer.     *)
RejectRequest(r) ==
  /\ pc[r] = "new"
  /\ Goto(r, "error")
  /\ UNCHANGED <<wanted, todo, timer, store, released, faults>>

(* The lock gets its id and its document; lockRecords then builds all the  *)
(* entries, whose expireAt counts from now.                                *)
InsertLock(r) ==
  /\ pc[r] = "insertLock"
  /\ locks' = locks \cup {r}
  /\ todo' = [todo EXCEPT ![r] = wanted[r]]
  /\ \E t \in Timeouts : timer' = [timer EXCEPT ![r] = t]
  /\ Goto(r, "lockRecords")
  /\ UNCHANGED <<wanted, executions, entries, released, faults>>

(* Mutant of IsNext: each thread inserts in whatever order it likes. *)
MutUnordered(x, S) == x \in S

(* The bulk insert is ordered, and the records come in natural order. *)
IsNext(x, S) == x \in S /\ \A y \in S : x <= y

(* Mutant of IsLocked: no unique index on dataRecordId. *)
MutNoUniqueIndex(x) == FALSE

(* The unique index admits one entry for each record. *)
IsLocked(x) == \E e \in entries : e[1] = x

InsertEntry(r, x) ==
  /\ pc[r] = "lockRecords"
  /\ IsNext(x, todo[r])
  /\ ~IsLocked(x)
  /\ entries' = entries \cup {<<x, r>>}
  /\ todo' = [todo EXCEPT ![r] = @ \ {x}]
  /\ UNCHANGED <<pc, wanted, timer, executions, locks, released, faults>>

(* A duplicate key ends the bulk insert; the entries inserted so far stay  *)
(* until the catch block removes them.                                     *)
DuplicateKey(r, x) ==
  /\ pc[r] = "lockRecords"
  /\ IsNext(x, todo[r])
  /\ IsLocked(x)
  /\ Goto(r, "deleteExecution")
  /\ UNCHANGED <<wanted, todo, timer, store, released, faults>>

(* Mutant of EntriesInserted: the lock is answered before its entries are in. *)
MutSaveEarly(r) ==
  /\ pc[r] = "lockRecords"
  /\ Goto(r, "saveLock")
  /\ UNCHANGED <<wanted, todo, timer, store, released, faults>>

(* Every entry is in; the lock document is saved once more. *)
EntriesInserted(r) ==
  /\ pc[r] = "lockRecords"
  /\ todo[r] = {}
  /\ Goto(r, "saveLock")
  /\ UNCHANGED <<wanted, todo, timer, store, released, faults>>

(* The driver may refuse to insert an empty list. *)
NothingToInsert(r) ==
  /\ pc[r] = "lockRecords"
  /\ wanted[r] = {}
  /\ Goto(r, "deleteExecution")
  /\ UNCHANGED <<wanted, todo, timer, store, released, faults>>

(* Mutant of SaveLock: the save is retried for ever. *)
MutSaveAgain(r) ==
  /\ pc[r] = "saveLock"
  /\ locks' = locks \cup {r}
  /\ UNCHANGED <<server, timer, executions, entries, released, faults>>

SaveLock(r) ==
  /\ pc[r] = "saveLock"
  /\ locks' = locks \cup {r}
  /\ Goto(r, "granted")
  /\ UNCHANGED <<wanted, todo, timer, executions, entries, released, faults>>
-----------------------------------------------------------------------------
(* createLock, the catch block. *)

DeleteExecution(r) ==
  /\ pc[r] = "deleteExecution"
  /\ executions' = executions \ {r}
  /\ Goto(r, "deleteLock")
  /\ UNCHANGED <<wanted, todo, timer, locks, entries, released, faults>>

(* Mutant of DeleteLock: delete forgets the lock document. *)
MutKeepLock(r) ==
  /\ pc[r] = "deleteLock"
  /\ Goto(r, "deleteEntries")
  /\ UNCHANGED <<wanted, todo, timer, store, released, faults>>

DeleteLock(r) ==
  /\ pc[r] = "deleteLock"
  /\ locks' = locks \ {r}
  /\ Goto(r, "deleteEntries")
  /\ UNCHANGED <<wanted, todo, timer, executions, entries, released, faults>>

(* Mutant of DeleteEntries: the clean-up removes by record, not by lock. *)
MutDeleteByRecord(r) ==
  /\ pc[r] = "deleteEntries"
  /\ entries' = {e \in entries : e[1] \notin wanted[r]}
  /\ Goto(r, "refused")
  /\ UNCHANGED <<wanted, todo, timer, executions, locks, released, faults>>

DeleteEntries(r) ==
  /\ pc[r] = "deleteEntries"
  /\ entries' = entries \ EntriesOf(r)
  /\ Goto(r, "refused")
  /\ UNCHANGED <<wanted, todo, timer, executions, locks, released, faults>>
-----------------------------------------------------------------------------
(* DELETE /api/locks/{lockId}: only the answer of a granted lock tells a   *)
(* client the id.  The lock document and the selection stay.               *)
ReleaseLock(r) ==
  /\ pc[r] = "granted"
  /\ r \in locks
  /\ entries' = entries \ EntriesOf(r)
  /\ released' = released \cup {r}
  /\ UNCHANGED <<server, timer, executions, locks, faults>>
-----------------------------------------------------------------------------
(* Failures. *)

(* A call of the try block throws, whether or not MongoDB applied it: one  *)
(* that inserts the selection leaves executionRecord and the lock's id     *)
(* null, so the catch block itself fails; the others run the catch block.  *)
FaultInCreate(r) ==
  /\ faults < MaxFaults
  /\ faults' = faults + 1
  /\ \/ /\ pc[r] = "new"
        /\ executions' \in {executions, executions \cup {r}}
        /\ Goto(r, "error")
        /\ UNCHANGED <<locks, entries, todo>>
     \/ /\ pc[r] \in {"insertLock", "saveLock"}
        /\ locks' \in {locks, locks \cup {r}}
        /\ Goto(r, "deleteExecution")
        /\ UNCHANGED <<executions, entries, todo>>
     \/ /\ pc[r] = "lockRecords"
        /\ \E x \in todo[r] :
             /\ IsNext(x, todo[r])
             /\ entries' \in {entries, IF IsLocked(x) THEN entries
                                       ELSE entries \cup {<<x, r>>}}
        /\ Goto(r, "deleteExecution")
        /\ UNCHANGED <<executions, locks, todo>>
  /\ UNCHANGED <<wanted, timer, released>>

(* A call of the catch block throws: what follows it is skipped. *)
FaultInCatch(r) ==
  /\ faults < MaxFaults
  /\ faults' = faults + 1
  /\ \/ /\ pc[r] = "deleteExecution"
        /\ executions' \in {executions, executions \ {r}}
        /\ UNCHANGED <<locks, entries>>
     \/ /\ pc[r] = "deleteLock"
        /\ locks' \in {locks, locks \ {r}}
        /\ UNCHANGED <<executions, entries>>
     \/ /\ pc[r] = "deleteEntries"
        /\ entries' \in {entries, entries \ EntriesOf(r)}
        /\ UNCHANGED <<executions, locks>>
  /\ Goto(r, "error")
  /\ UNCHANGED <<wanted, todo, timer, released>>

(* The server process dies, and every thread with it; MongoDB goes on. *)
Crash ==
  /\ CanCrash
  /\ \E r \in Requests : pc[r] \in InFlight
  /\ pc' = [r \in Requests |-> IF pc[r] \in InFlight THEN "crashed" ELSE pc[r]]
  /\ UNCHANGED <<wanted, todo, timer, store, released, faults>>
-----------------------------------------------------------------------------
(* Mutant of Tick: expired locks count on. *)
MutTickOn ==
  /\ \E r \in Requests : timer[r] > 0
  /\ timer' = [r \in Requests |-> timer[r] - 1]
  /\ UNCHANGED <<server, store, released, faults>>

(* Time passes, and MongoDB's TTL monitor deletes, one by one and whenever *)
(* it gets to it, the entries whose expireAt is past.                      *)
Tick ==
  /\ \E r \in Requests : timer[r] > 0
  /\ timer' = [r \in Requests |-> IF timer[r] > 0 THEN timer[r] - 1 ELSE 0]
  /\ UNCHANGED <<server, store, released, faults>>

(* Mutant of ExpireEntry: only the entries of answered locks are given an  *)
(* expireAt.                                                               *)
MutExpireGranted(e) ==
  /\ e \in entries
  /\ timer[e[2]] = 0
  /\ pc[e[2]] = "granted"
  /\ entries' = entries \ {e}
  /\ UNCHANGED <<server, timer, executions, locks, released, faults>>

(* Mutant of ExpireEntry: the TTL monitor does not look at expireAt. *)
MutExpireEarly(e) ==
  /\ e \in entries
  /\ entries' = entries \ {e}
  /\ UNCHANGED <<server, timer, executions, locks, released, faults>>

ExpireEntry(e) ==
  /\ e \in entries
  /\ timer[e[2]] = 0
  /\ entries' = entries \ {e}
  /\ UNCHANGED <<server, timer, executions, locks, released, faults>>
-----------------------------------------------------------------------------
Serve(r) ==
  \/ CreateExecution(r) \/ RejectRequest(r) \/ InsertLock(r)
  \/ \E x \in Records : InsertEntry(r, x) \/ DuplicateKey(r, x)
  \/ EntriesInserted(r) \/ NothingToInsert(r) \/ SaveLock(r)
  \/ DeleteExecution(r) \/ DeleteLock(r) \/ DeleteEntries(r)

Next ==
  \/ \E r \in Requests : \/ Serve(r) \/ ReleaseLock(r)
                         \/ FaultInCreate(r) \/ FaultInCatch(r)
  \/ Crash
  \/ Tick
  \/ \E e \in entries : ExpireEntry(e)

Spec == Init /\ [][Next]_vars

(* Each request has a thread that keeps running, the clock advances, and   *)
(* the TTL monitor comes back to every expired entry.  Nothing makes a     *)
(* client release its lock.                                                *)
Fairness ==
  /\ \A r \in Requests : WF_vars(pc[r] # "new" /\ Serve(r))
  /\ WF_vars(Tick)
  /\ \A e \in Records \X Requests : WF_vars(ExpireEntry(e))

FairSpec == Spec /\ Fairness
-----------------------------------------------------------------------------
(* A lock a test run may rely on: granted, not released, not timed out. *)
Active(r) == pc[r] = "granted" /\ r \notin released /\ timer[r] > 0

(* Why locks exclude each other, the strengthening that is inductive: the  *)
(* index keeps one entry per record, and a request that has not timed out  *)
(* holds the entries it has inserted until it is released or cleans up.    *)
OneEntryPerRecord == \A e, f \in entries : e[1] = f[1] => e = f

HoldsWhatItInserted ==
  \A r \in Requests :
    timer[r] > 0 /\ r \notin released /\ pc[r] \in {"lockRecords", "saveLock", "granted"}
      => (wanted[r] \ todo[r]) \X {r} \subseteq entries

AllInsertedWhenSaved ==
  \A r \in Requests : pc[r] \in {"saveLock", "granted"} => todo[r] = {}

OnlyGrantedReleased == \A r \in released : pc[r] = "granted"

LockInv == /\ TypeOK /\ OneEntryPerRecord /\ HoldsWhatItInserted
           /\ AllInsertedWhenSaved /\ OnlyGrantedReleased

(* No two test runs are ever handed the same record: whatever the inserts, *)
(* clean-ups, expiries, failures and crashes of LockRepository interleave  *)
(* to, the locks that clients may rely on have disjoint records.           *)
MutualExclusion ==
  \A q, r \in Requests : Active(q) /\ Active(r) /\ q # r => wanted[q] \cap wanted[r] = {}

(* A lock that a client may rely on still has the entry of each of its     *)
(* records, so nobody else can be granted one of them.                     *)
HeldWhileActive ==
  \A r \in Requests : Active(r) => wanted[r] \X {r} \subseteq entries

(* A request that is refused with a LockException leaves nothing behind:   *)
(* no selection, no lock, no entry that would block others until it times  *)
(* out (the catch block of createLock).                                    *)
RefusedLeavesNothing ==
  \A r \in Requests :
    pc[r] = "refused" => r \notin executions /\ r \notin locks /\ EntriesOf(r) = {}

(* An entry only disappears when it has timed out, when its own lock is    *)
(* released or when the request that made it cleans up after itself; the   *)
(* release and the clean-up of a lock never free a record of another one.  *)
FreesOnlyItsOwn ==
  [][\A e \in entries \ entries' :
       timer[e[2]] = 0 \/ e[2] \in released' \/ pc[e[2]] \in InCatch]_vars

(* Requests that compete for the same records and back off do not all back *)
(* off: since every bulk insert goes through the records in one order,     *)
(* some request is not refused, as long as no call has failed and none of  *)
(* them selects nothing.                                                   *)
SomeoneIsNotRefused ==
  faults = 0 /\ (\A r \in Requests : wanted[r] # {}) /\ Requests # {}
    => \E r \in Requests : pc[r] # "refused"

(* A request in the hands of the service is answered, or dies with it. *)
EveryRequestAnswered ==
  \A r \in Requests : pc[r] \in InFlight ~> pc[r] \in Answered

(* An entry does not block its record for ever, even when its lock was     *)
(* never granted, its answer was lost or the server died while inserting:  *)
(* the TTL index gets it.                                                  *)
EveryEntryExpires ==
  \A e \in Records \X Requests : e \in entries ~> e \notin entries

(* The service implements the leases of RecordLeases: a lease starts when  *)
(* the lock is answered and runs until it is released or times out.        *)
Leases == INSTANCE RecordLeases WITH leased <- {r \in Requests : Active(r)}, covers <- wanted

ImplementsLeases == Leases!Spec
=============================================================================
