---------------------------- MODULE RecordLeases ----------------------------
(***************************************************************************)
(* What the lock service of taf-data-management promises to test runs that *)
(* share test data: a lock is a lease over a set of data records, and no   *)
(* record is ever under two leases.  How the service gets there with       *)
(* several independent MongoDB calls is the subject of RecordLocks, which  *)
(* implements this specification.                                          *)
(***************************************************************************)
CONSTANTS Requests,     \* the lock requests ever made
          Records       \* the data records that can be locked

VARIABLES leased,       \* the requests whose lease is running
          covers        \* covers[r]: the records request r asked for

vars == <<leased, covers>>

Init == /\ leased = {}
        /\ covers = [r \in Requests |-> {}]

(* A request names its records before it is granted anything. *)
Ask(r, S) == /\ r \notin leased
             /\ covers' = [covers EXCEPT ![r] = S]
             /\ UNCHANGED leased

(* A lease starts only if none of its records is leased already. *)
Grant(r) == /\ r \notin leased
            /\ \A q \in leased : covers[q] \cap covers[r] = {}
            /\ leased' = leased \cup {r}
            /\ UNCHANGED covers

(* Leases end, by release or by timeout, several of them at once when the  *)
(* clock advances.                                                         *)
End(S) == /\ leased' = leased \ S
          /\ UNCHANGED covers

Next == \/ \E r \in Requests, S \in SUBSET Records : Ask(r, S)
        \/ \E r \in Requests : Grant(r)
        \/ \E S \in SUBSET leased : End(S)

Spec == Init /\ [][Next]_vars
=============================================================================
