----------------------------- MODULE MCGrounds ------------------------------
(* What a memo rests on: the evidence and the passes of its own run, and the  *)
(* answers that earlier runs stored.  One side moves, the other stays in one  *)
(* initial state.                                                             *)
EXTENDS MCEvidence, MCKnowledge

VARIABLE side
groundVars == <<evidenceVars, knowledgeVars, side>>

GroundsInit ==
    /\ side \in {"memo", "store"}
    /\ EvidenceInit /\ KnowledgeInit
    /\ side = "store" => part = "retrieval"

GroundsNext ==
    \/ side = "memo" /\ EvidenceNext /\ UNCHANGED <<knowledgeVars, side>>
    \/ side = "store" /\ KnowledgeNext /\ UNCHANGED <<evidenceVars, side>>

GroundsSpec == GroundsInit /\ [][GroundsNext]_groundVars
=============================================================================
