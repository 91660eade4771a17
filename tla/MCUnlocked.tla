----------------------------- MODULE MCUnlocked ------------------------------
(* Where no lock keeps two at work apart, on a small instance: a run whose     *)
(* workers lose their job while they live, two ingests of one corpus, and      *)
(* calls that embed texts beside each other.  They share no state and are      *)
(* explored apart; one that is not explored has one initial state.             *)
EXTENDS MCRunLifecycle, MCCorpus

VARIABLE part
unlockedVars == <<vars, stockVars, part>>

Alike == {p @@ d : p \in Permutations(Syncers), d \in Permutations(Docs)}

UnlockedInit ==
    /\ part \in {"run", "stock"}
    /\ Init /\ StockInit
    /\ part = "run" => stock = "embedding" /\ keyed

UnlockedNext ==
    \/ part = "run" /\ Next /\ UNCHANGED <<stockVars, part>>
    \/ part = "stock" /\ StockNext /\ UNCHANGED <<vars, part>>

UnlockedSpec == UnlockedInit /\ [][UnlockedNext]_unlockedVars
=============================================================================
