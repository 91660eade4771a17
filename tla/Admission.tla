----------------------------- MODULE Admission -----------------------------
(***************************************************************************)
(* How a request becomes a run of one organisation (ResearchService        *)
(* .enqueue, BillingService): the recent runs are counted, the usage of    *)
(* the month is compared with the quota, the run is created, the usage is  *)
(* recorded: four statements, no lock and no transaction around them.      *)
(***************************************************************************)
EXTENDS Naturals, FiniteSets

CONSTANTS Requests,             \* requests the API can be serving at once
          RateLimit,            \* runs in 60 seconds (8)
          FreeQuota, ProQuota,  \* PLAN_QUOTAS (50, 500)
          MaxRuns               \* BOUND on the runs of a month

ASSUME AdmissionAssumption ==
    /\ IsFiniteSet(Requests) /\ RateLimit \in Nat \ {0}
    /\ FreeQuota \in Nat /\ ProQuota \in Nat /\ MaxRuns \in Nat

VARIABLES
    step,      \* where each request is
    recent,    \* runs of the last 60 seconds that are not deleted
    runs,      \* runs created this month
    usage,     \* rows of usage_ledger this month
    quota      \* monthly_run_quota

admissionVars == <<step, recent, runs, usage, quota>>

Steps == {"new", "counted", "within", "created"}
InFlight == {q \in Requests : step[q] \in {"counted", "within"}}
Moves(q, to) == step' = [step EXCEPT ![q] = to]

AdmissionInit ==
    /\ step = [q \in Requests |-> "new"]
    /\ recent = 0 /\ runs = 0 /\ usage = 0 /\ quota = FreeQuota

-----------------------------------------------------------------------------

\* Mutant: one run too many is let through.
UnderRateLimitOffByOne == recent <= RateLimit

UnderRateLimit == recent < RateLimit

CountRecent(q) ==
    /\ step[q] = "new" /\ UnderRateLimit /\ Moves(q, "counted")
    /\ UNCHANGED <<recent, runs, usage, quota>>

\* assertWithinQuota; over the quota the request is refused (402).
CheckQuota(q) ==
    /\ step[q] = "counted" /\ Moves(q, IF usage < quota THEN "within" ELSE "new")
    /\ UNCHANGED <<recent, runs, usage, quota>>

\* createRunWithOutbox
Create(q) ==
    /\ step[q] = "within" /\ runs < MaxRuns /\ Moves(q, "created")
    /\ recent' = recent + 1 /\ runs' = runs + 1
    /\ UNCHANGED <<usage, quota>>

RecordUsage(q) ==
    /\ step[q] = "created" /\ Moves(q, "new") /\ usage' = usage + 1
    /\ UNCHANGED <<recent, runs, quota>>

\* A statement fails or the process stops: what was written stays written.
Dies(q) ==
    /\ step[q] # "new" /\ Moves(q, "new")
    /\ UNCHANGED <<recent, runs, usage, quota>>

\* A run leaves the window, with time or because it is deleted.
LeavesWindow == recent > 0 /\ recent' = recent - 1 /\ UNCHANGED <<step, runs, usage, quota>>

\* setPlan: what the last Stripe event to arrive says, in whatever order.
SetPlan == quota' \in {FreeQuota, ProQuota} /\ UNCHANGED <<step, recent, runs, usage>>

AdmissionNext ==
    \/ \E q \in Requests : \/ CountRecent(q) \/ CheckQuota(q) \/ Create(q)
                           \/ RecordUsage(q) \/ Dies(q)
    \/ LeavesWindow \/ SetPlan

AdmissionSpec == AdmissionInit /\ [][AdmissionNext]_admissionVars

-----------------------------------------------------------------------------

AdmissionTypeOK ==
    /\ step \in [Requests -> Steps] /\ {recent, runs, usage, quota} \subseteq Nat

\* The rate limit is overrun by the requests that counted before the others
\* inserted, and by no more.
OverrunBounded == recent < RateLimit + Cardinality(Requests)

\* Why: whoever is past the count has not inserted yet.
OverrunInv == recent + Cardinality(InFlight) < RateLimit + Cardinality(Requests)
=============================================================================
