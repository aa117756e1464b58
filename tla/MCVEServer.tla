----------------------------- MODULE MCVEServer -----------------------------
(* Small instances of VEServer. *)
EXTENDS VEServer, TLC

CONSTANTS s1, s2, e1, e2, e3

(* Topic "job" matches every event. *)
Plain == "all" :> [e \in Events |-> "differ"] @@ "job" :> [e \in Events |-> "match"]

(* The key of topic "deep" leads through a part that e1 does not have. *)
WithDeep == "all" :> [e \in Events |-> "differ"]
            @@ "deep" :> [e \in Events |-> IF e = e1 THEN "throws" ELSE "differ"]

(* The versions of the unit test of EventHandler.js in one message, a      *)
(* version with a shorter number among them in another, none that is       *)
(* supported in a third.                                                   *)
Tested == {<<4, 3, 5, 0, 15>>, <<3, 3, 6, 1, 13>>, <<2, 1, 2, 0, 16>>, <<2, 1, 1, 0, 10>>,
           <<2, 1, 1, 0, 6>>, <<1, 5, 3, 2, 9>>}

Offers == [e \in Events |-> CASE e = e1 -> Tested
                              [] e = e2 -> {<<2, 1, 1, 0, 10>>, <<2, 1, 1, 1, 6>>, <<2, 1, 0, 3, 11>>}
                              [] e = e3 -> {<<4, 3, 5, 0, 15>>}]
=============================================================================
