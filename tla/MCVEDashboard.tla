---------------------------- MODULE MCVEDashboard ----------------------------
(* Small instances of VEDashboard. *)
EXTENDS VEDashboard, TLC

CONSTANTS s1, s2, t1, m1, m2, m3, m4

First == {<<t1, m1>>}

(* m1 matches its topic and has no type, its child m2 does not match.      *)
Couple == m1 :> m1 @@ m2 :> m1
AnyOrder == [m \in Messages |-> {}]
Untyped == [m \in Messages |-> IF m = m1 THEN "untyped" ELSE "other"]

(* The same after a third message.                                         *)
Triple == Couple @@ m3 :> m3
AfterThird == [m \in Messages |-> {m3} \ {m}]

(* A job step, a suite in it, a test case in that, and the verdict on it.  *)
Family == m1 :> m1 @@ m2 :> m1 @@ m3 :> m2 @@ m4 :> m3
InTurn == m1 :> {} @@ m2 :> {m1} @@ m3 :> {m2} @@ m4 :> {m3}
Verdict == [m \in Messages |-> IF m = m4 THEN "verdict" ELSE "other"]
Ends == {<<t1, m1>>, <<t1, m4>>}
=============================================================================
