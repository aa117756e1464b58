--------------------------- MODULE EiffelVersions ---------------------------
(***************************************************************************)
(* Which version of an Eiffel message the event server emits               *)
(* (getLatestSupportedVersion of EventHandler.js): pure operators.         *)
(*                                                                         *)
(* A message holds the same event in several versions, each named by       *)
(* numbers with dots, here a sequence of numbers.  The code drops those    *)
(* whose major number is not supported, strikes the dots from the others   *)
(* and takes the greatest of the numbers that are left.  (JavaScript's     *)
(* numbers are exact up to 16 digits, far more than a version has.)        *)
(***************************************************************************)
EXTENDS Integers, Sequences, SequencesExt

CONSTANT supportedEiffelVersion \* the greatest major number that is supported

(* The least power of ten, from ten on, above n: what the number in front  *)
(* of n is multiplied with when the digits of n are put behind it.         *)
Tens[n \in Nat] == IF n < 10 THEN 10 ELSE 10 * Tens[n \div 10]

(* Mutant of Joined: only the last number counts. *)
MutJoinedLast(v) == Last(v)

(* The number that is left when the dots are struck: 2.1.1.0.10 is 211010. *)
Joined(v) ==
  LET join[i \in 0..Len(v)] == IF i = 0 THEN 0 ELSE join[i - 1] * Tens[v[i]] + v[i]
  IN  join[Len(v)]

Supported(versions) == {v \in versions : supportedEiffelVersion >= v[1]}

(* Of versions that are joined to the same number, which the object has in *)
(* any order, the first one is taken.                                      *)
getLatestSupportedVersion(versions) ==
  {v \in Supported(versions) : \A u \in Supported(versions) : Joined(v) >= Joined(u)}

(* v is a higher version than u: their first different numbers say so. *)
Higher(v, u) ==
  \E i \in 1..Len(v) : /\ \A j \in 1..(i - 1) : j <= Len(u) /\ v[j] = u[j]
                       /\ i <= Len(u) => v[i] > u[i]

SameShape(v, u) ==
  Len(v) = Len(u) /\ \A i \in 1..Len(v) : Tens[v[i]] = Tens[u[i]]
=============================================================================
