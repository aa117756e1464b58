----------------------------- MODULE MCTestGrid -----------------------------
(* Small instances of TestGrid. *)
EXTENDS TestGrid, TLC

CONSTANTS n1, n2, t1, t2

TwoNodes == <<n1, n2>>

Step(members, vusers, repeat) == [members |-> members, vusers |-> vusers, repeat |-> repeat]

(* Two client threads: one virtual user for all nodes, who runs the test   *)
(* twice, and one for a node of theirs.                                    *)
TwoClients == t1 :> <<Step(<<>>, 1, 2)>> @@ t2 :> <<Step(<<n2>>, 1, 1)>>

(* A client thread with two steps on one node, and another thread whose    *)
(* virtual user repeats the test on the other node.                        *)
MixedClients == t1 :> <<Step(<<n1>>, 1, 1), Step(<<n1>>, 1, 1)>> @@ t2 :> <<Step(<<n2>>, 1, 2)>>
=============================================================================
