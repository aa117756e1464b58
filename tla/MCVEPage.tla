------------------------------ MODULE MCVEPage ------------------------------
(* Small instances of VEPage. *)
EXTENDS VEPage, TLC

CONSTANTS r1, r2, r3, x1, e1

(* Both topics match every execution, the topic "suite" comes first. *)
AllMatch == Topics \X Executions
SuiteFirst == "suite" :> 1 @@ "test.execution" :> 2

(* Whichever of the two tree maps asks for an epic first is served: they   *)
(* are alike, so that it is enough to follow one of them.                  *)
TheFirstIsAnswered == \A e \in Epics : FirstAskerAnswered(r1, e)
=============================================================================
