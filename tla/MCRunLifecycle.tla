--------------------------- MODULE MCRunLifecycle ---------------------------
(* RunLifecycle on small instances: processes and runs are interchangeable. *)
EXTENDS RunLifecycle, TLC

CONSTANTS a1, a2

ApiSymmetry == Permutations({a1, a2})
=============================================================================
