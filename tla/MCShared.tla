--------------------------- MODULE MCShared ---------------------------
(* What runs have to do with each other, on a small instance: how the API      *)
(* admits one beside another, and how the page goes from one to the next.      *)
(* They share no state and are explored apart; where admission is explored the *)
(* page views nothing, so that the fairness of the view asks nothing there.    *)
EXTENDS RunView, Admission
CONSTANTS a, b, q1, q2

VARIABLE part
sharedVars == <<viewVars, admissionVars, part>>

SharedInit == ViewInit /\ AdmissionInit /\ part \in {"view", "admission"}

SharedNext ==
    \/ part = "view" /\ ViewNext /\ UNCHANGED <<admissionVars, part>>
    \/ part = "admission" /\ AdmissionNext /\ UNCHANGED <<viewVars, part>>

SharedSpec == SharedInit /\ [][SharedNext]_sharedVars /\ ViewFairness
=============================================================================
