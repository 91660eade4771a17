----------------------------- MODULE MCKnowledge -----------------------------
(* The answers that runs store for each other, on a small instance: two runs  *)
(* of one organisation ask similar questions, a third belongs to another.     *)
EXTENDS KnowledgeReuse

TwoOrgs == [t \in Threads |-> IF t = "t3" THEN "orgB" ELSE "orgA"]
CloseGoals == [t \in Threads |-> IF t = "t2" THEN {1, 2, 3} ELSE {1, 2}]
=============================================================================
