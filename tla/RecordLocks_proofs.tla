-------------------------- MODULE RecordLocks_proofs --------------------------
(***************************************************************************)
(* Proofs about RecordLocks, for any requests, records, selections,        *)
(* timeouts and number of failing calls: its types, that locks exclude     *)
(* each other, that it implements RecordLeases, that a clean-up leaves     *)
(* nothing and frees nothing of others, and that somebody gets a lock.     *)
(***************************************************************************)
EXTENDS RecordLocks, LeastNumbers

(* Every reachable state is well typed: no thread is at a label that       *)
(* createLock does not have, no timer runs below zero.                     *)
THEOREM TypeCorrect == Spec => []TypeOK
<1>1. Init => TypeOK
  BY FaultsAssumption DEF Init, TypeOK
<1>2. TypeOK /\ [Next]_vars => TypeOK'
  <2> SUFFICES ASSUME TypeOK, [Next]_vars PROVE TypeOK'
    OBVIOUS
  <2> USE RecordsAssumption, SelectionsAssumption, TimeoutsAssumption,
          FaultsAssumption
      DEF TypeOK, InFlight, InCreate, InCatch, Answered, Goto, server, store
  <2>1. ASSUME NEW r \in Requests, Serve(r) PROVE TypeOK'
    <3>1. CASE CreateExecution(r)
      <4>1. PICK S \in Selections : wanted' = [wanted EXCEPT ![r] = S]
        BY <3>1 DEF CreateExecution
      <4>2. S \in SUBSET Records
        BY <4>1
      <4> QED
        BY <3>1, <4>1, <4>2 DEF CreateExecution
    <3>5. CASE RejectRequest(r)
      BY <3>5 DEF RejectRequest
    <3>6. CASE InsertLock(r)
      BY <3>6 DEF InsertLock
    <3>2. ASSUME NEW x \in Records, InsertEntry(r, x) \/ DuplicateKey(r, x)
          PROVE TypeOK'
      BY <3>2 DEF InsertEntry, DuplicateKey
    <3>3. CASE EntriesInserted(r) \/ NothingToInsert(r) \/ SaveLock(r)
      BY <3>3 DEF EntriesInserted, NothingToInsert, SaveLock
    <3>4. CASE DeleteExecution(r) \/ DeleteLock(r) \/ DeleteEntries(r)
      BY <3>4 DEF DeleteExecution, DeleteLock, DeleteEntries, EntriesOf
    <3> QED
      BY <2>1, <3>1, <3>2, <3>3, <3>4, <3>5, <3>6 DEF Serve
  <2>2. ASSUME NEW r \in Requests, ReleaseLock(r) PROVE TypeOK'
    BY <2>2 DEF ReleaseLock, EntriesOf
  <2>3. ASSUME NEW r \in Requests, FaultInCreate(r) PROVE TypeOK'
    <3>1. faults' \in 0..MaxFaults
      BY <2>3 DEF FaultInCreate
    <3>2. entries' \subseteq Records \X Requests
      BY <2>3 DEF FaultInCreate
    <3>3. QED
      BY <2>3, <3>1, <3>2 DEF FaultInCreate
  <2>4. ASSUME NEW r \in Requests, FaultInCatch(r) PROVE TypeOK'
    BY <2>4 DEF FaultInCatch, EntriesOf
  <2>5. CASE Crash
    BY <2>5 DEF Crash
  <2>6. CASE Tick
    BY <2>6 DEF Tick
  <2>7. ASSUME NEW e \in entries, ExpireEntry(e) PROVE TypeOK'
    BY <2>7 DEF ExpireEntry
  <2>8. CASE UNCHANGED vars
    BY <2>8 DEF vars
  <2> QED
    BY <2>1, <2>2, <2>3, <2>4, <2>5, <2>6, <2>7, <2>8 DEF Next
<1> QED
  BY <1>1, <1>2, PTL DEF Spec
-----------------------------------------------------------------------------
(* The step lemma of the strengthening: whatever the threads, failures,    *)
(* crash, clock and TTL monitor do next, LockInv survives it.              *)
LEMMA LockInvStep == LockInv /\ TypeOK' /\ [Next]_vars => LockInv'
<1> SUFFICES ASSUME LockInv, TypeOK', [Next]_vars PROVE LockInv'
  OBVIOUS
<1> USE DEF LockInv, TypeOK, OneEntryPerRecord, HoldsWhatItInserted,
            AllInsertedWhenSaved, OnlyGrantedReleased, Goto, server, store,
            EntriesOf, InFlight, InCreate, InCatch
<1>1. ASSUME NEW r \in Requests, CreateExecution(r) PROVE LockInv'
  BY <1>1 DEF CreateExecution
<1>2. ASSUME NEW r \in Requests, RejectRequest(r) PROVE LockInv'
  BY <1>2 DEF RejectRequest
<1>3. ASSUME NEW r \in Requests, InsertLock(r) PROVE LockInv'
  BY <1>3 DEF InsertLock
<1>4. ASSUME NEW r \in Requests, NEW x \in Records, InsertEntry(r, x)
      PROVE LockInv'
  <2>1. OneEntryPerRecord'
    BY <1>4 DEF InsertEntry, IsLocked
  <2>2. HoldsWhatItInserted'
    BY <1>4 DEF InsertEntry, IsNext
  <2>3. AllInsertedWhenSaved' /\ OnlyGrantedReleased'
    BY <1>4 DEF InsertEntry
  <2> QED
    BY <2>1, <2>2, <2>3
<1>5. ASSUME NEW r \in Requests, NEW x \in Records, DuplicateKey(r, x)
      PROVE LockInv'
  BY <1>5 DEF DuplicateKey
<1>6. ASSUME NEW r \in Requests, EntriesInserted(r) PROVE LockInv'
  BY <1>6 DEF EntriesInserted
<1>7. ASSUME NEW r \in Requests, NothingToInsert(r) PROVE LockInv'
  BY <1>7 DEF NothingToInsert
<1>8. ASSUME NEW r \in Requests, SaveLock(r) PROVE LockInv'
  BY <1>8 DEF SaveLock
<1>9. ASSUME NEW r \in Requests, DeleteExecution(r) \/ DeleteLock(r)
      PROVE LockInv'
  BY <1>9 DEF DeleteExecution, DeleteLock
<1>10. ASSUME NEW r \in Requests, DeleteEntries(r) PROVE LockInv'
  BY <1>10 DEF DeleteEntries
<1>11. ASSUME NEW r \in Requests, ReleaseLock(r) PROVE LockInv'
  BY <1>11 DEF ReleaseLock
<1>12. ASSUME NEW r \in Requests, FaultInCreate(r) PROVE LockInv'
  <2>1. OneEntryPerRecord'
    BY <1>12 DEF FaultInCreate, IsLocked
  <2>2. entries \subseteq entries'
    BY <1>12 DEF FaultInCreate
  <2>3. HoldsWhatItInserted'
    BY <1>12, <2>2 DEF FaultInCreate
  <2>4. AllInsertedWhenSaved' /\ OnlyGrantedReleased'
    BY <1>12 DEF FaultInCreate
  <2> QED
    BY <2>1, <2>3, <2>4
<1>13. ASSUME NEW r \in Requests, FaultInCatch(r) PROVE LockInv'
  BY <1>13 DEF FaultInCatch
<1>14. CASE Crash
  BY <1>14 DEF Crash
<1>15. CASE Tick
  BY <1>15 DEF Tick
<1>16. ASSUME NEW e \in entries, ExpireEntry(e) PROVE LockInv'
  BY <1>16 DEF ExpireEntry
<1>17. CASE UNCHANGED vars
  BY <1>17 DEF vars
<1> QED
  BY <1>1, <1>2, <1>3, <1>4, <1>5, <1>6, <1>7, <1>8, <1>9, <1>10, <1>11,
     <1>12, <1>13, <1>14, <1>15, <1>16, <1>17 DEF Next, Serve

(* The strengthening holds in every reachable state. *)
THEOREM LockInvariant == Spec => []LockInv
<1>1. Init => LockInv
  BY FaultsAssumption DEF Init, LockInv, TypeOK, OneEntryPerRecord,
     HoldsWhatItInserted, AllInsertedWhenSaved, OnlyGrantedReleased
<1>2. TypeOK /\ LockInv /\ TypeOK' /\ [Next]_vars => LockInv'
  BY LockInvStep
<1> QED
  BY <1>1, <1>2, TypeCorrect, PTL DEF Spec

(* A lock a client may rely on has all its entries (lockRecords, the TTL   *)
(* index and the clean-up of other requests put together).                 *)
LEMMA ActiveHolds == LockInv => HeldWhileActive
  BY DEF LockInv, HeldWhileActive, Active, HoldsWhatItInserted,
     AllInsertedWhenSaved, TypeOK

THEOREM LocksHeld == Spec => []HeldWhileActive
  BY LockInvariant, ActiveHolds, PTL

(* With the unique index, holding all entries excludes everybody else. *)
LEMMA HoldersDisjoint == LockInv => MutualExclusion
<1> SUFFICES ASSUME LockInv, NEW q \in Requests, NEW r \in Requests,
                    Active(q), Active(r), NEW x \in wanted[q] \cap wanted[r]
             PROVE  q = r
  BY DEF MutualExclusion
<1>1. <<x, q>> \in entries /\ <<x, r>> \in entries
  BY ActiveHolds DEF HeldWhileActive
<1> QED
  BY <1>1 DEF LockInv, OneEntryPerRecord

(* The locks clients may rely on never share a record, for any number of   *)
(* requests, records, timeouts, failing calls and crashes.                 *)
THEOREM LocksExclude == Spec => []MutualExclusion
  BY LockInvariant, HoldersDisjoint, PTL
-----------------------------------------------------------------------------
(* Refinement: only the answer of a lock that has not timed out starts a   *)
(* lease, and by LockInv its records are then under no other lease.        *)
LEMMA GrantIsDisjoint ==
  ASSUME LockInv, NEW r \in Requests, SaveLock(r)
  PROVE  \A q \in Requests : Active(q) /\ timer[r] > 0
                              => wanted[q] \cap wanted[r] = {}
<1> SUFFICES ASSUME NEW q \in Requests, Active(q), timer[r] > 0,
                    NEW x \in wanted[q] \cap wanted[r]
             PROVE  FALSE
  OBVIOUS
<1>1. r \notin released /\ todo[r] = {} /\ pc[r] = "saveLock"
  BY DEF SaveLock, LockInv, OnlyGrantedReleased, AllInsertedWhenSaved
<1>2. <<x, r>> \in entries
  BY <1>1 DEF LockInv, HoldsWhatItInserted, TypeOK
<1>3. <<x, q>> \in entries
  BY ActiveHolds DEF HeldWhileActive
<1>4. q = r
  BY <1>2, <1>3 DEF LockInv, OneEntryPerRecord
<1> QED
  BY <1>1, <1>4 DEF Active

(* A step that changes no selection and lets no lock become active ends    *)
(* the leases of the locks it makes inactive, if any.                      *)
LEMMA OnlyEnds ==
  ASSUME wanted' = wanted, \A r \in Requests : Active(r)' => Active(r)
  PROVE  [Leases!Next]_(Leases!vars)
<1> DEFINE L == {r \in Requests : Active(r)}
<1>1. L' = L \ (L \ L')
  OBVIOUS
<1>2. Leases!End(L \ L')
  BY <1>1 DEF Leases!End
<1> QED
  BY <1>2 DEF Leases!Next

(* Every step of the service is a step of the leases or changes none.      *)
LEMMA LeaseStep == LockInv /\ [Next]_vars => [Leases!Next]_(Leases!vars)
<1> SUFFICES ASSUME LockInv, [Next]_vars PROVE [Leases!Next]_(Leases!vars)
  OBVIOUS
<1> DEFINE L == {r \in Requests : Active(r)}
<1> USE DEF Goto, server, store
<1>1. ASSUME NEW r \in Requests, CreateExecution(r)
      PROVE  [Leases!Next]_(Leases!vars)
  <2>1. PICK S \in Selections : wanted' = [wanted EXCEPT ![r] = S]
    BY <1>1 DEF CreateExecution
  <2>2. S \in SUBSET Records
    BY <2>1, SelectionsAssumption
  <2>3. \A q \in Requests : Active(q)' <=> Active(q)
    BY <1>1 DEF CreateExecution, Active, LockInv, TypeOK
  <2>4. r \notin L /\ L' = L
    BY <1>1, <2>3 DEF CreateExecution, Active
  <2>5. Leases!Ask(r, S)
    BY <2>1, <2>4 DEF Leases!Ask
  <2> QED
    BY <2>2, <2>5 DEF Leases!Next
<1>2. ASSUME NEW r \in Requests, SaveLock(r)
      PROVE  [Leases!Next]_(Leases!vars)
  <2>1. /\ wanted' = wanted /\ timer' = timer /\ released' = released
        /\ pc[r] = "saveLock" /\ pc' = [pc EXCEPT ![r] = "granted"]
    BY <1>2 DEF SaveLock
  <2>2. \A q \in Requests \ {r} : Active(q)' <=> Active(q)
    BY <2>1 DEF Active, LockInv, TypeOK
  <2>3. ~Active(r)
    BY <2>1 DEF Active
  <2>4. CASE timer[r] > 0
    <3>1. Active(r)'
      BY <2>1, <2>4 DEF Active, LockInv, TypeOK, OnlyGrantedReleased
    <3>2. L' = L \cup {r} /\ r \notin L
      BY <2>2, <2>3, <3>1
    <3>3. \A q \in L : wanted[q] \cap wanted[r] = {}
      BY <1>2, <2>4, GrantIsDisjoint
    <3>4. Leases!Grant(r)
      BY <2>1, <3>2, <3>3 DEF Leases!Grant
    <3> QED
      BY <3>4 DEF Leases!Next
  <2>5. CASE ~(timer[r] > 0)
    <3>1. ~Active(r)'
      BY <2>1, <2>5 DEF Active
    <3> QED
      BY <2>1, <2>2, <3>1, OnlyEnds
  <2> QED
    BY <2>4, <2>5
<1>3. ASSUME wanted' = wanted,
             \A r \in Requests : pc'[r] = "granted" => pc[r] = "granted",
             released \subseteq released',
             \A r \in Requests : pc[r] = "granted" /\ timer'[r] > 0 => timer[r] > 0
      PROVE  [Leases!Next]_(Leases!vars)
  <2>1. \A r \in Requests : Active(r)' => Active(r)
    BY <1>3 DEF Active
  <2> QED
    BY <1>3, <2>1, OnlyEnds
<1>4. ASSUME NEW r \in Requests, RejectRequest(r) \/ InsertLock(r)
      PROVE  [Leases!Next]_(Leases!vars)
  BY <1>3, <1>4 DEF RejectRequest, InsertLock, LockInv, TypeOK
<1>5. ASSUME NEW r \in Requests, NEW x \in Records,
             InsertEntry(r, x) \/ DuplicateKey(r, x)
      PROVE  [Leases!Next]_(Leases!vars)
  BY <1>3, <1>5 DEF InsertEntry, DuplicateKey, LockInv, TypeOK
<1>6. ASSUME NEW r \in Requests, EntriesInserted(r) \/ NothingToInsert(r)
      PROVE  [Leases!Next]_(Leases!vars)
  BY <1>3, <1>6 DEF EntriesInserted, NothingToInsert, LockInv, TypeOK
<1>7. ASSUME NEW r \in Requests,
             DeleteExecution(r) \/ DeleteLock(r) \/ DeleteEntries(r)
      PROVE  [Leases!Next]_(Leases!vars)
  BY <1>3, <1>7 DEF DeleteExecution, DeleteLock, DeleteEntries, LockInv, TypeOK
<1>8. ASSUME NEW r \in Requests, ReleaseLock(r)
      PROVE  [Leases!Next]_(Leases!vars)
  BY <1>3, <1>8 DEF ReleaseLock, LockInv, TypeOK
<1>9. ASSUME NEW r \in Requests, FaultInCreate(r)
      PROVE  [Leases!Next]_(Leases!vars)
  BY <1>3, <1>9 DEF FaultInCreate, LockInv, TypeOK
<1>10. ASSUME NEW r \in Requests, FaultInCatch(r)
       PROVE  [Leases!Next]_(Leases!vars)
  BY <1>3, <1>10 DEF FaultInCatch, LockInv, TypeOK
<1>11. CASE Crash
  BY <1>3, <1>11 DEF Crash, LockInv, TypeOK
<1>12. CASE Tick
  BY <1>3, <1>12 DEF Tick, LockInv, TypeOK
<1>13. ASSUME NEW e \in entries, ExpireEntry(e)
       PROVE  [Leases!Next]_(Leases!vars)
  BY <1>3, <1>13 DEF ExpireEntry, LockInv, TypeOK
<1>14. CASE UNCHANGED vars
  BY <1>3, <1>14 DEF vars
<1> QED
  BY <1>1, <1>2, <1>4, <1>5, <1>6, <1>7, <1>8, <1>9, <1>10, <1>11, <1>12,
     <1>13, <1>14 DEF Next, Serve

(* The lock service implements the leases: clients see its many MongoDB    *)
(* calls as leases that start at once and are disjoint while they run.     *)
THEOREM LocksImplementLeases == Spec => ImplementsLeases
<1>1. Init => Leases!Init
  BY DEF Init, Leases!Init, Active
<1>2. LockInv /\ [Next]_vars => [Leases!Next]_(Leases!vars)
  BY LeaseStep
<1> QED
  BY <1>1, <1>2, LockInvariant, PTL DEF Spec, Leases!Spec, ImplementsLeases
-----------------------------------------------------------------------------
(* What a clean-up leaves.  A thread of the catch block has undone what    *)
(* the calls before have done, and nobody does it again.                   *)
Undone ==
  \A r \in Requests :
    /\ pc[r] \in {"deleteLock", "deleteEntries", "refused"} => r \notin executions
    /\ pc[r] \in {"deleteEntries", "refused"} => r \notin locks
    /\ pc[r] = "refused" => EntriesOf(r) = {}

LEMMA UndoneNext == TypeOK /\ Undone /\ [Next]_vars => Undone'
<1> SUFFICES ASSUME TypeOK, Undone, [Next]_vars PROVE Undone'
  OBVIOUS
<1> USE DEF TypeOK, Undone, Goto, server, store, EntriesOf
<1>1. ASSUME NEW r \in Requests, Serve(r) PROVE Undone'
  <2>1. CASE CreateExecution(r) \/ RejectRequest(r)
    BY <2>1 DEF CreateExecution, RejectRequest
  <2>2. CASE InsertLock(r)
    BY <2>2 DEF InsertLock
  <2>3. ASSUME NEW x \in Records, InsertEntry(r, x) PROVE Undone'
    BY <2>3 DEF InsertEntry
  <2>4. ASSUME NEW x \in Records, DuplicateKey(r, x) PROVE Undone'
    BY <2>4 DEF DuplicateKey
  <2>5. CASE EntriesInserted(r) \/ NothingToInsert(r) \/ SaveLock(r)
    BY <2>5 DEF EntriesInserted, NothingToInsert, SaveLock
  <2>6. CASE DeleteExecution(r) \/ DeleteLock(r)
    BY <2>6 DEF DeleteExecution, DeleteLock
  <2>7. CASE DeleteEntries(r)
    BY <2>7 DEF DeleteEntries
  <2> QED
    BY <1>1, <2>1, <2>2, <2>3, <2>4, <2>5, <2>6, <2>7 DEF Serve
<1>2. ASSUME NEW r \in Requests, ReleaseLock(r) PROVE Undone'
  BY <1>2 DEF ReleaseLock
<1>3. ASSUME NEW r \in Requests, FaultInCreate(r) PROVE Undone'
  BY <1>3 DEF FaultInCreate
<1>4. ASSUME NEW r \in Requests, FaultInCatch(r) PROVE Undone'
  BY <1>4 DEF FaultInCatch
<1>5. CASE Crash
  BY <1>5 DEF Crash, InFlight, InCreate, InCatch
<1>6. CASE Tick
  BY <1>6 DEF Tick
<1>7. ASSUME NEW e \in entries, ExpireEntry(e) PROVE Undone'
  BY <1>7 DEF ExpireEntry
<1>8. CASE UNCHANGED vars
  BY <1>8 DEF vars
<1> QED
  BY <1>1, <1>2, <1>3, <1>4, <1>5, <1>6, <1>7, <1>8 DEF Next

(* A request that is refused with a LockException leaves nothing behind,   *)
(* whatever calls failed before or at the time.                            *)
THEOREM TheRefusedLeaveNothing == Spec => []RefusedLeavesNothing
<1>1. Init => Undone
  BY DEF Init, Undone
<1>2. Undone => RefusedLeavesNothing
  BY DEF Undone, RefusedLeavesNothing
<1> QED
  BY <1>1, <1>2, UndoneNext, TypeCorrect, PTL DEF Spec

(* Entries go by their own timeout, release or clean-up only. *)
THEOREM TheirOwnIsFreed == Spec => FreesOnlyItsOwn
<1> DEFINE Own == \A e \in entries \ entries' :
                    timer[e[2]] = 0 \/ e[2] \in released' \/ pc[e[2]] \in InCatch
<1>1. [Next]_vars => [Own]_vars
  <2> SUFFICES ASSUME Next, NEW e \in entries \ entries'
               PROVE  timer[e[2]] = 0 \/ e[2] \in released' \/ pc[e[2]] \in InCatch
    OBVIOUS
  <2> USE DEF EntriesOf, InCatch, server, store
  <2>1. ASSUME NEW r \in Requests, Serve(r) PROVE DeleteEntries(r)
    <3>1. CASE CreateExecution(r) \/ RejectRequest(r) \/ InsertLock(r)
      BY <3>1 DEF CreateExecution, RejectRequest, InsertLock
    <3>2. ASSUME NEW x \in Records, InsertEntry(r, x) \/ DuplicateKey(r, x) PROVE FALSE
      BY <3>2 DEF InsertEntry, DuplicateKey
    <3>3. CASE \/ EntriesInserted(r) \/ NothingToInsert(r) \/ SaveLock(r)
               \/ DeleteExecution(r) \/ DeleteLock(r)
      BY <3>3 DEF EntriesInserted, NothingToInsert, SaveLock, DeleteExecution, DeleteLock
    <3> QED
      BY <2>1, <3>1, <3>2, <3>3 DEF Serve
  <2>2. ASSUME NEW r \in Requests, DeleteEntries(r) PROVE pc[e[2]] \in InCatch
    BY <2>2 DEF DeleteEntries
  <2>3. ASSUME NEW r \in Requests, ReleaseLock(r) PROVE e[2] \in released'
    BY <2>3 DEF ReleaseLock
  <2>4. ASSUME NEW r \in Requests, FaultInCreate(r) PROVE FALSE
    BY <2>4 DEF FaultInCreate
  <2>5. ASSUME NEW r \in Requests, FaultInCatch(r) PROVE pc[e[2]] \in InCatch
    BY <2>5 DEF FaultInCatch
  <2>6. ~Crash /\ ~Tick
    BY DEF Crash, Tick
  <2>7. ASSUME NEW f \in entries, ExpireEntry(f) PROVE timer[e[2]] = 0
    BY <2>7 DEF ExpireEntry
  <2> QED
    BY <2>1, <2>2, <2>3, <2>4, <2>5, <2>6, <2>7 DEF Next
<1> QED
  BY <1>1, PTL DEF Spec, FreesOnlyItsOwn
-----------------------------------------------------------------------------
(* Somebody wins.  A request inserts its entries from the least record on, *)
(* and one that is refused was stopped at a record by a request that had   *)
(* got further.  If all were refused, each would have another one that got *)
(* further, which finitely many requests cannot.                           *)
Inserted(r) == IF pc[r] \in {"new", "insertLock"} THEN {} ELSE wanted[r] \ todo[r]

BackingOff == {"deleteExecution", "deleteLock", "deleteEntries", "refused"}

Upwards ==
  \A r \in Requests :
    /\ todo[r] \subseteq wanted[r] /\ (pc[r] \in {"new", "insertLock"} => todo[r] = {})
    /\ \A x \in Inserted(r), y \in todo[r] : x < y

OwnEntries == \A e \in entries : e[1] \in Inserted(e[2])

Stopped ==
  \A r \in Requests : pc[r] \in BackingOff /\ wanted[r] # {} =>
    \E x \in Records, q \in Requests : IsNext(x, todo[r]) /\ x \in Inserted(q)

Begun == {r \in Requests : pc[r] # "new"}

Race == Upwards /\ OwnEntries /\ Stopped

RaceInv == IsFiniteSet(Begun) /\ (faults = 0 => Race)

LEMMA BegunNext == TypeOK /\ IsFiniteSet(Begun) /\ [Next]_vars => IsFiniteSet(Begun')
<1> SUFFICES ASSUME TypeOK, IsFiniteSet(Begun), [Next]_vars PROVE IsFiniteSet(Begun')
  OBVIOUS
<1> USE DEF TypeOK, server
<1>1. \A r \in Requests : (\E label : Goto(r, label)) => Begun' \subseteq Begun \cup {r}
  BY DEF Goto, Begun
<1>2. UNCHANGED pc \/ Crash => Begun' \subseteq Begun
  BY DEF Begun, Crash, InFlight, InCreate, InCatch
<1>3. UNCHANGED pc \/ Crash \/ \E r \in Requests : \E label : Goto(r, label)
  <2>1. ASSUME NEW r \in Requests, Serve(r) PROVE UNCHANGED pc \/ \E label : Goto(r, label)
    BY <2>1 DEF Serve, CreateExecution, RejectRequest, InsertLock, InsertEntry, DuplicateKey,
                EntriesInserted, NothingToInsert, SaveLock, DeleteExecution, DeleteLock,
                DeleteEntries
  <2>2. ASSUME NEW r \in Requests, FaultInCreate(r) \/ FaultInCatch(r)
        PROVE  \E label : Goto(r, label)
    BY <2>2 DEF FaultInCreate, FaultInCatch
  <2>3. ASSUME NEW r \in Requests, ReleaseLock(r) PROVE UNCHANGED pc
    BY <2>3 DEF ReleaseLock
  <2>4. Tick \/ (\E e \in entries : ExpireEntry(e)) \/ UNCHANGED vars => UNCHANGED pc
    BY DEF Tick, ExpireEntry, vars
  <2> QED
    BY <2>1, <2>2, <2>3, <2>4 DEF Next
<1>4. \E r : Begun' \subseteq Begun \cup {r}
  BY <1>1, <1>2, <1>3
<1> QED
  BY <1>4, FS_AddElement, FS_Subset

(* What a request has inserted is not taken back, except by its clean-up,  *)
(* which does not count here.                                              *)
LEMMA InsertedGrows ==
  ASSUME TypeOK, Upwards, [Next]_vars, faults' = 0
  PROVE  faults = 0 /\ \A r \in Requests : Inserted(r) \subseteq Inserted(r)'
<1> USE DEF TypeOK, server, Goto, Inserted, Upwards
<1>1. ASSUME NEW r \in Requests, Serve(r)
      PROVE  UNCHANGED faults /\ \A q \in Requests : Inserted(q) \subseteq Inserted(q)'
  <2>1. CASE CreateExecution(r)
    BY <2>1 DEF CreateExecution
  <2>2. CASE RejectRequest(r) \/ InsertLock(r)
    BY <2>2 DEF RejectRequest, InsertLock
  <2>3. ASSUME NEW x \in Records, InsertEntry(r, x)
        PROVE  UNCHANGED faults /\ \A q \in Requests : Inserted(q) \subseteq Inserted(q)'
    BY <2>3 DEF InsertEntry
  <2>4. ASSUME NEW x \in Records, DuplicateKey(r, x)
        PROVE  UNCHANGED faults /\ \A q \in Requests : Inserted(q) \subseteq Inserted(q)'
    BY <2>4 DEF DuplicateKey
  <2>5. CASE EntriesInserted(r) \/ NothingToInsert(r) \/ SaveLock(r)
    BY <2>5 DEF EntriesInserted, NothingToInsert, SaveLock
  <2>6. CASE DeleteExecution(r) \/ DeleteLock(r) \/ DeleteEntries(r)
    BY <2>6 DEF DeleteExecution, DeleteLock, DeleteEntries
  <2> QED
    BY <1>1, <2>1, <2>2, <2>3, <2>4, <2>5, <2>6 DEF Serve
<1>2. ASSUME NEW r \in Requests, FaultInCreate(r) \/ FaultInCatch(r) PROVE FALSE
  <2>1. faults' = faults + 1 /\ faults \in Nat
    BY <1>2, FaultsAssumption DEF FaultInCreate, FaultInCatch
  <2> QED
    BY <2>1
<1>3. ASSUME NEW r \in Requests, ReleaseLock(r)
      PROVE  UNCHANGED faults /\ \A q \in Requests : Inserted(q) \subseteq Inserted(q)'
  BY <1>3 DEF ReleaseLock
<1>4. CASE Crash
  BY <1>4 DEF Crash, InFlight, InCreate, InCatch
<1>5. CASE Tick
  BY <1>5 DEF Tick
<1>6. ASSUME NEW e \in entries, ExpireEntry(e)
      PROVE  UNCHANGED faults /\ \A q \in Requests : Inserted(q) \subseteq Inserted(q)'
  BY <1>6 DEF ExpireEntry
<1>7. CASE UNCHANGED vars
  BY <1>7 DEF vars
<1> QED
  BY <1>1, <1>2, <1>3, <1>4, <1>5, <1>6, <1>7 DEF Next

LEMMA UpwardsNext ==
  ASSUME TypeOK, Upwards, [Next]_vars, faults' = 0
  PROVE  Upwards'
<1> USE DEF TypeOK, server, store, Goto, Inserted, Upwards
<1>1. ASSUME NEW r \in Requests, Serve(r) PROVE Upwards'
  <2>1. CASE CreateExecution(r)
    BY <2>1 DEF CreateExecution
  <2>2. CASE RejectRequest(r)
    BY <2>2 DEF RejectRequest
  <2>3. CASE InsertLock(r)
    BY <2>3 DEF InsertLock
  <2>4. ASSUME NEW x \in Records, InsertEntry(r, x) PROVE Upwards'
    <3> SUFFICES ASSUME NEW q \in Requests
                 PROVE  /\ todo'[q] \subseteq wanted'[q]
                        /\ pc'[q] \in {"new", "insertLock"} => todo'[q] = {}
                        /\ \A z \in Inserted(q)', y \in todo'[q] : z < y
      OBVIOUS
    <3>1. CASE q # r
      BY <2>4, <3>1 DEF InsertEntry
    <3>2. CASE q = r
      <4>1. todo'[r] = todo[r] \ {x} /\ x \in todo[r] /\ (\A y \in todo[r] : x <= y)
            /\ pc'[r] = "lockRecords" /\ pc[r] = "lockRecords" /\ wanted'[r] = wanted[r]
        BY <2>4 DEF InsertEntry, IsNext
      <4>2. Inserted(r)' = Inserted(r) \cup {x}
        BY <4>1
      <4>3. \A y \in todo[r] \ {x} : x < y
        BY <4>1, RecordsAssumption
      <4> QED
        BY <3>2, <4>1, <4>2, <4>3
    <3> QED
      BY <3>1, <3>2
  <2>5. ASSUME NEW x \in Records, DuplicateKey(r, x) PROVE Upwards'
    BY <2>5 DEF DuplicateKey
  <2>6. CASE EntriesInserted(r) \/ NothingToInsert(r) \/ SaveLock(r)
    BY <2>6 DEF EntriesInserted, NothingToInsert, SaveLock
  <2>7. CASE DeleteExecution(r) \/ DeleteLock(r) \/ DeleteEntries(r)
    BY <2>7 DEF DeleteExecution, DeleteLock, DeleteEntries
  <2> QED
    BY <1>1, <2>1, <2>2, <2>3, <2>4, <2>5, <2>6, <2>7 DEF Serve
<1>2. ASSUME NEW r \in Requests, FaultInCreate(r) \/ FaultInCatch(r) PROVE FALSE
  <2>1. faults' = faults + 1 /\ faults \in Nat
    BY <1>2, FaultsAssumption DEF FaultInCreate, FaultInCatch
  <2> QED
    BY <2>1
<1>3. ASSUME NEW r \in Requests, ReleaseLock(r) PROVE Upwards'
  BY <1>3 DEF ReleaseLock
<1>4. CASE Crash
  BY <1>4 DEF Crash, InFlight, InCreate, InCatch
<1>5. CASE Tick
  BY <1>5 DEF Tick
<1>6. ASSUME NEW e \in entries, ExpireEntry(e) PROVE Upwards'
  BY <1>6 DEF ExpireEntry
<1>7. CASE UNCHANGED vars
  BY <1>7 DEF vars
<1> QED
  BY <1>1, <1>2, <1>3, <1>4, <1>5, <1>6, <1>7 DEF Next

LEMMA OwnEntriesNext ==
  ASSUME TypeOK, Upwards, OwnEntries, [Next]_vars, faults' = 0
  PROVE  OwnEntries'
<1>1. faults = 0 /\ \A r \in Requests : Inserted(r) \subseteq Inserted(r)'
  BY InsertedGrows
<1> SUFFICES ASSUME NEW e \in entries' PROVE e[1] \in Inserted(e[2])'
  BY DEF OwnEntries
<1>2. ASSUME e \in entries PROVE e[1] \in Inserted(e[2])'
  BY <1>1, <1>2 DEF OwnEntries, TypeOK
<1>3. ASSUME NEW r \in Requests, NEW x \in Records, InsertEntry(r, x)
      PROVE  e[1] \in Inserted(e[2])'
  <2>1. x \in wanted'[r] \ todo'[r] /\ pc'[r] = "lockRecords"
    BY <1>3 DEF InsertEntry, IsNext, TypeOK, Upwards
  <2>2. CASE e = <<x, r>>
    BY <2>1, <2>2 DEF Inserted
  <2>3. CASE e # <<x, r>>
    BY <1>2, <1>3, <2>3 DEF InsertEntry
  <2> QED
    BY <2>2, <2>3
<1>4. ASSUME NEW r \in Requests, Serve(r) PROVE e[1] \in Inserted(e[2])'
  <2>1. e \in entries \/ \E x \in Records : InsertEntry(r, x)
    BY <1>4 DEF Serve, CreateExecution, RejectRequest, InsertLock, DuplicateKey, EntriesInserted,
                NothingToInsert, SaveLock, DeleteExecution, DeleteLock, DeleteEntries, store
  <2> QED
    BY <1>2, <1>3, <2>1
<1>5. ASSUME NEW r \in Requests, FaultInCreate(r) \/ FaultInCatch(r) PROVE FALSE
  BY <1>1, <1>5 DEF FaultInCreate, FaultInCatch
<1>6. (\E r \in Requests : ReleaseLock(r)) \/ Crash \/ Tick \/ (\E f \in entries : ExpireEntry(f))
        \/ UNCHANGED vars => e \in entries
  BY DEF ReleaseLock, Crash, Tick, ExpireEntry, vars, store
<1> QED
  BY <1>2, <1>4, <1>5, <1>6 DEF Next

LEMMA StoppedNext ==
  ASSUME TypeOK, Race, [Next]_vars, faults' = 0
  PROVE  Stopped'
<1>1. faults = 0 /\ \A r \in Requests : Inserted(r) \subseteq Inserted(r)'
  BY InsertedGrows DEF Race
<1> SUFFICES ASSUME NEW r \in Requests, pc'[r] \in BackingOff, wanted'[r] # {}
             PROVE  \E x \in Records, q \in Requests : IsNext(x, todo'[r]) /\ x \in Inserted(q)'
  BY DEF Stopped, IsNext
<1>2. ASSUME pc[r] \in BackingOff, wanted[r] # {}, todo'[r] = todo[r]
      PROVE  \E x \in Records, q \in Requests : IsNext(x, todo'[r]) /\ x \in Inserted(q)'
  BY <1>1, <1>2 DEF Race, Stopped
<1> USE DEF TypeOK, server, Goto, BackingOff
<1>3. ASSUME NEW s \in Requests, Serve(s)
      PROVE  \/ pc[r] \in BackingOff /\ wanted[r] # {} /\ todo'[r] = todo[r]
             \/ \E x \in Records : DuplicateKey(r, x)
  <2>1. CASE CreateExecution(s)
    BY <2>1 DEF CreateExecution
  <2>2. CASE RejectRequest(s) \/ InsertLock(s)
    BY <2>2 DEF RejectRequest, InsertLock
  <2>3. ASSUME NEW x \in Records, InsertEntry(s, x)
        PROVE  pc[r] \in BackingOff /\ wanted[r] # {} /\ todo'[r] = todo[r]
    BY <2>3 DEF InsertEntry
  <2>4. ASSUME NEW x \in Records, DuplicateKey(s, x)
        PROVE  \/ pc[r] \in BackingOff /\ wanted[r] # {} /\ todo'[r] = todo[r]
               \/ DuplicateKey(r, x)
    <3>1. CASE s = r
      BY <2>4, <3>1
    <3>2. CASE s # r
      BY <2>4, <3>2 DEF DuplicateKey
    <3> QED
      BY <3>1, <3>2
  <2>5. CASE EntriesInserted(s) \/ SaveLock(s)
    BY <2>5 DEF EntriesInserted, SaveLock
  <2>6. CASE NothingToInsert(s)
    BY <2>6 DEF NothingToInsert
  <2>7. CASE DeleteExecution(s) \/ DeleteLock(s) \/ DeleteEntries(s)
    BY <2>7 DEF DeleteExecution, DeleteLock, DeleteEntries
  <2> QED
    BY <1>3, <2>1, <2>2, <2>3, <2>4, <2>5, <2>6, <2>7 DEF Serve
<1>4. ASSUME NEW x \in Records, DuplicateKey(r, x)
      PROVE  \E z \in Records, q \in Requests : IsNext(z, todo'[r]) /\ z \in Inserted(q)'
  <2>1. IsNext(x, todo'[r]) /\ IsLocked(x)
    BY <1>4 DEF DuplicateKey
  <2>2. PICK e \in entries : e[1] = x
    BY <2>1 DEF IsLocked
  <2>3. x \in Inserted(e[2]) /\ e[2] \in Requests
    BY <2>2 DEF Race, OwnEntries
  <2> QED
    BY <1>1, <2>1, <2>3
<1>5. ASSUME NEW s \in Requests, FaultInCreate(s) \/ FaultInCatch(s) PROVE FALSE
  BY <1>1, <1>5 DEF FaultInCreate, FaultInCatch
<1>6. ASSUME (\E s \in Requests : ReleaseLock(s)) \/ Crash \/ Tick
               \/ (\E f \in entries : ExpireEntry(f)) \/ UNCHANGED vars
      PROVE  pc[r] \in BackingOff /\ wanted[r] # {} /\ todo'[r] = todo[r]
  BY <1>6 DEF ReleaseLock, Crash, InFlight, InCreate, InCatch, Tick, ExpireEntry, vars
<1> QED
  BY <1>2, <1>3, <1>4, <1>5, <1>6 DEF Next

LEMMA RaceNext == TypeOK /\ RaceInv /\ [Next]_vars => RaceInv'
<1> SUFFICES ASSUME TypeOK, RaceInv, [Next]_vars PROVE RaceInv'
  OBVIOUS
<1>1. IsFiniteSet(Begun')
  BY BegunNext DEF RaceInv
<1>2. ASSUME faults' = 0 PROVE Race'
  <2>1. faults = 0
    <3>1. faults' >= faults /\ faults \in Nat
      BY FaultsAssumption DEF Next, vars, Serve, CreateExecution, RejectRequest, InsertLock,
         InsertEntry, DuplicateKey, EntriesInserted, NothingToInsert, SaveLock, DeleteExecution, DeleteLock,
         DeleteEntries, ReleaseLock, FaultInCreate, FaultInCatch, Crash, Tick, ExpireEntry, TypeOK
    <3> QED
      BY <1>2, <3>1
  <2>2. Race
    BY <2>1 DEF RaceInv
  <2> QED
    BY <1>2, <2>2, UpwardsNext, OwnEntriesNext, StoppedNext DEF Race
<1> QED
  BY <1>1, <1>2 DEF RaceInv, Begun

(* If all were refused, the one that got furthest would have been stopped  *)
(* by one that got further.                                                *)
LEMMA SomebodyGetsFurthest == TypeOK /\ RaceInv => SomeoneIsNotRefused
<1> SUFFICES ASSUME TypeOK, RaceInv, faults = 0, \A r \in Requests : wanted[r] # {},
                    \A r \in Requests : pc[r] = "refused"
             PROVE  Requests = {}
  BY DEF SomeoneIsNotRefused
<1>1. Race
  BY DEF RaceInv
<1>2. IsFiniteSet(Requests)
  <2>1. Begun = Requests
    BY DEF Begun
  <2> QED
    BY <2>1 DEF RaceInv
<1> DEFINE f == [r \in Requests |-> CHOOSE x \in Records : IsNext(x, todo[r])]
<1>3. \A r \in Requests : f[r] \in Records /\ IsNext(f[r], todo[r])
  <2> SUFFICES ASSUME NEW r \in Requests
               PROVE  f[r] \in Records /\ IsNext(f[r], todo[r])
    OBVIOUS
  <2>1. \E x \in Records : IsNext(x, todo[r])
    BY <1>1 DEF Race, Stopped, BackingOff
  <2> QED
    BY <2>1
<1>4. \A r \in Requests : \E q \in Requests : f[r] < f[q]
  <2> SUFFICES ASSUME NEW r \in Requests PROVE \E q \in Requests : f[r] < f[q]
    OBVIOUS
  <2> HIDE DEF f
  <2>1. PICK x \in Records, q \in Requests : IsNext(x, todo[r]) /\ x \in Inserted(q)
    BY <1>1 DEF Race, Stopped, BackingOff
  <2>2. x = f[r]
    <3>1. x <= f[r] /\ f[r] <= x
      BY <1>3, <2>1 DEF IsNext
    <3>2. x \in Nat /\ f[r] \in Nat
      BY <1>3, RecordsAssumption
    <3> QED
      BY <3>1, <3>2
  <2>3. f[q] \in todo[q]
    BY <1>3 DEF IsNext
  <2>4. x < f[q]
    BY <1>1, <2>1, <2>3 DEF Race, Upwards
  <2> QED
    BY <2>2, <2>4
<1>5. f \in [Requests -> Nat]
  BY <1>3, RecordsAssumption
<1> HIDE DEF f
<1> QED
  BY <1>2, <1>4, <1>5, NoAscent

(* Competing requests do not all back off, however many they are.          *)
THEOREM SomebodyWins == Spec => []SomeoneIsNotRefused
<1>1. Init => RaceInv
  <2>1. ASSUME Init PROVE IsFiniteSet(Begun)
    <3>1. Begun = {}
      BY <2>1 DEF Init, Begun
    <3> QED
      BY <3>1, FS_EmptySet
  <2>2. Init => Race
    BY DEF Init, Race, Upwards, OwnEntries, Stopped, Inserted, BackingOff
  <2> QED
    BY <2>1, <2>2 DEF RaceInv
<1> QED
  BY <1>1, RaceNext, SomebodyGetsFurthest, TypeCorrect, PTL DEF Spec
=============================================================================
