-------------------------- MODULE TaskDistribution --------------------------
(***************************************************************************)
(* How the test grid client splits a test specification over the nodes     *)
(* (hazelcast-proto, TaskDistribution.java): pure operators.               *)
(*                                                                         *)
(* A step is a record [members, vusers, repeat]: the nodes that it names   *)
(* (a sequence, empty for "all"), its virtual users and how often each of  *)
(* them runs the test.  A specification is a sequence of steps.            *)
(***************************************************************************)
EXTENDS Integers, Sequences, FiniteSets

NamesOf(seq) == {seq[i] : i \in 1..Len(seq)}

(* Mutant of ShareAt: the remainder of the division is dropped. *)
MutNoRemainder(i, k, vusers) == vusers \div k

(* The i-th of k members gets the quotient, the last one the remainder too. *)
ShareAt(i, k, vusers) == IF i < k THEN vusers \div k
                         ELSE (vusers \div k) + (vusers % k)

(* The load map: a member that is named twice keeps its last share. *)
distributeLoad(members, vusers) ==
  [n \in NamesOf(members) |->
     LET last == CHOOSE i \in 1..Len(members) :
                   members[i] = n /\ \A j \in (i+1)..Len(members) : members[j] # n
     IN  ShareAt(last, Len(members), vusers)]

StepMembers(step, memberNames) ==
  IF step.members = <<>> THEN memberNames ELSE step.members

(* The instruction for each node.  The map is keyed by node alone, so of   *)
(* several steps that use a node only the last one reaches it.             *)
distributeTasks(steps, memberNames) ==
  LET Uses(i, n) == n \in NamesOf(StepMembers(steps[i], memberNames))
      used == UNION {NamesOf(StepMembers(steps[i], memberNames)) : i \in 1..Len(steps)}
  IN [n \in used |->
        LET i == CHOOSE j \in 1..Len(steps) :
                   Uses(j, n) /\ \A k \in (j+1)..Len(steps) : ~Uses(k, n)
            members == StepMembers(steps[i], memberNames)
        IN  [step |-> i,
             vusers |-> distributeLoad(members, steps[i].vusers)[n],
             repeat |-> steps[i].repeat]]
=============================================================================
