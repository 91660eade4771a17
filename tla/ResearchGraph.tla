---------------------------- MODULE ResearchGraph ----------------------------
(***************************************************************************)
(* One research run inside the agent: the LangGraph state machine of       *)
(* apps/agent/app/graph with its four human gates, its retrieval loop, its *)
(* memo rewrites and its budget, and the part of runtime.py that streams   *)
(* it.  The state is what the checkpoint keeps between two nodes.  What    *)
(* the models, the searches and the memo say is a nondeterministic choice; *)
(* who may run after whom, and what each node writes, is the code's.       *)
(*                                                                         *)
(* A node's conditional edge is taken in the node's own step: nothing can  *)
(* come between the two.  The deep profile is modelled (every brief is     *)
(* forced to depth "deep"), with the human gates enabled.                  *)
(***************************************************************************)
EXTENDS Naturals

CONSTANTS
    InitIterations,   \* what settings may give as max_iterations (runtime.new_budget)
    MinIterations,    \* the first plan raises max_iterations to this (6)
    ReviseCap,        \* REVISE_MAX_ITERATIONS_CAP (8)
    Pool,             \* the retrieval pool of a run (40)
    AugmentPool,      \* the smaller pool when a stored answer is augmented (6)
    MaxCharge,        \* BOUND on the calls the collector charges for one pass
    ReloopCalls,      \* calls an integrity re-loop needs (2)
    MaxRegenerations, \* MAX_QUALITY_REGENERATIONS (2)
    MaxPasses         \* BOUND on planner passes a human may ask for

ASSUME IterationsAssumption ==
    /\ InitIterations \subseteq Nat \ {0}
    /\ MinIterations \in Nat \ {0} /\ ReviseCap \in Nat /\ MaxPasses \in Nat
ASSUME PoolAssumption ==
    /\ Pool \in Nat /\ AugmentPool \in Nat /\ MaxCharge \in Nat
    /\ ReloopCalls \in Nat \ {0} /\ MaxRegenerations \in Nat

VARIABLES
    node,           \* the next node to run, or "end"
    status,         \* state["status"]
    gate,           \* the interrupt the run is parked on, or "none"
    frame,          \* what the stream last told its caller: "none" while it runs
    iter, maxIter,  \* budget.iterations, budget.max_iterations
    calls,          \* budget.remaining_calls
    tokensLeft,     \* budget.remaining_tokens > 0
    agents,         \* agents_to_run is not empty
    planConfirmed,  \* state["plan_confirmed"]
    followups,      \* why the next plan has questions to chase
    reuse,          \* state["reuse_mode"]
    prior,          \* prior_knowledge is set
    draft,          \* the report has a body
    missing,        \* constraint_audit lists missing mandatory sources
    regens,         \* quality_regeneration_count
    mandatory,      \* mandatory_retrieval_retries
    integrity,      \* integrity_retries
    fresh,          \* the owner asked to ignore stored answers
    anonymous,      \* an organisation is required and the run has none
    said,           \* history: what the human has answered so far
    promised        \* history: extra passes promised and not planned yet

control  == <<node, status, gate, frame>>
budget   == <<iter, maxIter, calls, tokensLeft>>
planning == <<agents, planConfirmed, followups, reuse, prior>>
memo     == <<draft, missing, regens, mandatory, integrity>>
request  == <<fresh, anonymous>>
history  == <<said, promised>>
vars     == <<control, budget, planning, memo, request, history>>

Terminal == {"completed", "cancelled", "out_of_scope"}
Nodes    == {"briefing", "planner", "plan_gate", "search", "collector", "enrich",
             "retrieve", "extract", "critic", "hitl", "report", "memo_gate", "end"}
Gates    == {"briefing", "plan_gate", "hitl", "memo_gate"}
Statuses == Terminal \cup {"running", "failed", "researching", "collected", "retrieved",
             "extracted", "approved", "revising", "draft", "integrity_research",
             "revising_quality"}
Passes   == {"human", "memo", "mandatory", "integrity"}
Answers  == {"brief", "plan", "approve", "dig", "revise_critic", "publish", "cancel"}

\* The nodes whose model calls can park the run when every key is out of credits.
\* (The reranker in "retrieve" swallows the interrupt; the gates call no model.)
ModelNodes == {"briefing", "planner", "extract", "critic", "report"}

GMax(a, b) == IF a >= b THEN a ELSE b
GMin(a, b) == IF a <= b THEN a ELSE b

------------------------------------------------------------------------------
(* Steps every node takes one of.                                          *)

Running(n) == frame = "none" /\ node = n

Go(n, s) == node' = n /\ status' = s /\ UNCHANGED <<gate, frame>>

Park(g) == gate' = g /\ frame' = "interrupt" /\ UNCHANGED <<node, status>>

\* The stream resumes: Command(resume=decision, update={status: "running"}),
\* unless the checkpoint already carries a terminal status.
Resume(g) == frame = "interrupt" /\ gate = g /\ status \notin Terminal

Resumed(n, s) == node' = n /\ status' = s /\ gate' = "none" /\ frame' = "none"

\* Nothing is left to run: the stream yields its terminal frame.
End(s) == node' = "end" /\ status' = s /\ gate' = "none" /\ frame' = "terminal"

\* used_tokens only grows.
Spend == tokensLeft' \in {tokensLeft, FALSE}

RemainingIterations == iter < maxIter

\* The status the terminal frame reports.
Outcome == IF status \in Terminal THEN status ELSE "completed"

Init ==
    /\ node = "briefing" /\ status = "running" /\ gate = "none" /\ frame = "none"
    /\ iter = 0 /\ maxIter \in InitIterations /\ calls = Pool /\ tokensLeft = TRUE
    /\ agents = FALSE /\ planConfirmed = FALSE /\ followups = {} /\ prior = FALSE
    /\ draft = FALSE /\ missing = FALSE
    /\ regens = 0 /\ mandatory = 0 /\ integrity = 0
    /\ fresh \in BOOLEAN /\ anonymous \in BOOLEAN
    /\ reuse = IF fresh THEN "off" ELSE ""
    /\ said = {} /\ promised = {}

------------------------------------------------------------------------------
(* briefing                                                                *)

\* The tenancy guard only writes a status: after_briefing looks at nothing else.
Briefing ==
    /\ Running("briefing")
    /\ \/ anonymous /\ Go("planner", "failed")
       \/ ~anonymous /\ Go("report", "out_of_scope")
       \/ ~anonymous /\ Park("briefing")
    /\ UNCHANGED <<budget, planning, memo, request, history>>

AnswerBrief ==
    /\ Resume("briefing")
    /\ \/ /\ Resumed("planner", "researching")
          /\ said' = said \cup {"brief"} /\ Spend
       \/ /\ Resumed("report", "cancelled")
          /\ said' = said \cup {"cancel"} /\ UNCHANGED tokensLeft
    /\ UNCHANGED <<iter, maxIter, calls, planning, memo, request, promised>>

------------------------------------------------------------------------------
(* planner: every plan counts an iteration and the first one sets the cap. *)

FirstPlan == iter = 0 /\ followups = {}

CountIteration ==
    /\ iter' = iter + 1
    /\ maxIter' = IF iter = 0 THEN GMax(maxIter, MinIterations) ELSE maxIter

PlanOutOfScope ==
    /\ Running("planner") /\ FirstPlan
    /\ CountIteration /\ agents' = FALSE
    /\ Go("report", "out_of_scope")
    /\ UNCHANGED <<calls, tokensLeft, planConfirmed, followups, reuse, prior>>
    /\ UNCHANGED <<memo, request, history>>

\* Mutant: the planner goes by the reuse mark alone.
MayReuseByMark == reuse = ""

MayReuse == FirstPlan /\ reuse = ""

PlanCached ==
    /\ Running("planner") /\ MayReuse
    /\ CountIteration /\ agents' = FALSE /\ reuse' = "cached" /\ prior' = TRUE
    /\ Go("report", "researching")
    /\ UNCHANGED <<calls, tokensLeft, planConfirmed, followups>>
    /\ UNCHANGED <<memo, request, history>>

\* A plan to search; `hit` is a stored answer close enough to augment.
PlanSearch ==
    /\ Running("planner")
    /\ CountIteration
    /\ \E hit \in BOOLEAN :
          /\ hit => MayReuse
          /\ reuse' = IF hit THEN "augment" ELSE ""
          /\ prior' = (prior \/ hit)
          /\ calls' = IF hit THEN AugmentPool ELSE calls
    /\ agents' \in BOOLEAN /\ (agents' => calls' > 0)
    /\ planConfirmed' = FALSE /\ followups' = {}
    /\ promised' = IF calls' > 0 THEN promised \ followups ELSE promised
    /\ Go("plan_gate", "researching") /\ Spend
    /\ UNCHANGED <<memo, request, said>>

------------------------------------------------------------------------------
(* plan_gate: the human reviews a first, fresh plan only.                  *)

Retrieval == IF agents' THEN "search" ELSE "collector"

\* Mutant: the gate takes the first pass for a later one.
PlanGateFromFirst ==
    /\ Running("plan_gate")
    /\ \/ /\ planConfirmed \/ iter >= 1 \/ reuse # ""
          /\ planConfirmed' = TRUE /\ UNCHANGED agents
          /\ Go(Retrieval, status)
       \/ /\ ~planConfirmed /\ iter < 1 /\ reuse = ""
          /\ Park("plan_gate") /\ UNCHANGED <<agents, planConfirmed>>
    /\ UNCHANGED <<followups, reuse, prior, budget, memo, request, history>>

PlanGate ==
    /\ Running("plan_gate")
    /\ \/ /\ planConfirmed \/ iter > 1 \/ reuse # ""
          /\ planConfirmed' = TRUE /\ UNCHANGED agents
          /\ Go(Retrieval, status)
       \/ /\ ~planConfirmed /\ iter <= 1 /\ reuse = ""
          /\ Park("plan_gate") /\ UNCHANGED <<agents, planConfirmed>>
    /\ UNCHANGED <<followups, reuse, prior, budget, memo, request, history>>

\* The human may name agents the plan left out, and cannot name none.
AnswerPlan ==
    /\ Resume("plan_gate")
    /\ \/ /\ agents' \in {agents, TRUE} /\ planConfirmed' = TRUE
          /\ said' = said \cup {"plan"}
          /\ Resumed(Retrieval, "running")
       \/ /\ planConfirmed' = FALSE /\ UNCHANGED agents
          /\ said' = said \cup {"cancel"}
          /\ Resumed("report", "cancelled")
    /\ UNCHANGED <<followups, reuse, prior, budget, memo, request, promised>>

------------------------------------------------------------------------------
(* search, scholar and docs in one superstep, then the evidence pipeline.  *)

Search ==
    /\ Running("search") /\ Go("collector", status)
    /\ UNCHANGED <<budget, planning, memo, request, history>>

\* What is charged is whatever the latest trace of each agent says.
Collector ==
    /\ Running("collector") /\ Go("enrich", "collected")
    /\ \E c \in 0..MaxCharge : calls' = IF c >= calls THEN 0 ELSE calls - c
    /\ UNCHANGED <<iter, maxIter, tokensLeft, planning, memo, request, history>>

Enrich ==
    /\ Running("enrich") /\ Go("retrieve", status)
    /\ UNCHANGED <<budget, planning, memo, request, history>>

Retrieve ==
    /\ Running("retrieve") /\ Go("extract", "retrieved") /\ Spend
    /\ UNCHANGED <<iter, maxIter, calls, planning, memo, request, history>>

Extract ==
    /\ Running("extract") /\ Go("critic", "extracted")
    /\ UNCHANGED <<budget, planning, memo, request, history>>

------------------------------------------------------------------------------
(* critic: judges the coverage and writes the follow-ups anew, whatever    *)
(* was in them; after_critic then loops or goes to the human.              *)

CanLoop == RemainingIterations /\ calls > 0

\* Mutant: the critic goes round without a question to chase.
CriticUnasked ==
    /\ Running("critic") /\ Spend
    /\ \E gaps, stop \in BOOLEAN :
          /\ followups' = IF gaps /\ CanLoop THEN {"gap"} ELSE {}
          /\ Go(IF CanLoop /\ tokensLeft' /\ ~stop THEN "planner" ELSE "hitl", status)
    /\ UNCHANGED <<iter, maxIter, calls, agents, planConfirmed, reuse, prior>>
    /\ UNCHANGED <<memo, request, history>>

\* `gaps`: the verdict is not "sufficient" and there is a gap left to chase;
\* `stop`: the early stops, coverage already excellent or stagnant.
Critic ==
    /\ Running("critic") /\ Spend
    /\ \E gaps, stop \in BOOLEAN :
          /\ followups' = IF gaps /\ CanLoop THEN {"gap"} ELSE {}
          /\ LET loop == followups' # {} /\ tokensLeft' /\ ~stop
             IN  Go(IF loop THEN "planner" ELSE "hitl", status)
    /\ UNCHANGED <<iter, maxIter, calls, agents, planConfirmed, reuse, prior>>
    /\ UNCHANGED <<memo, request, history>>

Hitl ==
    /\ Running("hitl") /\ Park("hitl")
    /\ UNCHANGED <<budget, planning, memo, request, history>>

\* "Dig further" raises max_iterations, and max_tool_calls, but not the pool
\* of retrieval calls the planner goes by.
AnswerHitl ==
    /\ Resume("hitl")
    /\ \/ /\ said' = said \cup {"approve"} /\ followups' = {}
          /\ \E s \in {"approved", "revising"} : Resumed("report", s)
          /\ UNCHANGED <<maxIter, promised>>
       \/ /\ iter < MaxPasses
          /\ said' = said \cup {"dig"} /\ promised' = promised \cup {"human"}
          /\ followups' = {"human"}
          /\ maxIter' = GMin(ReviseCap, GMax(maxIter, iter + 1))
          /\ Resumed("planner", "revising")
    /\ UNCHANGED <<iter, calls, tokensLeft, agents, planConfirmed, reuse, prior>>
    /\ UNCHANGED <<memo, request>>

------------------------------------------------------------------------------
(* report: serves the stored memo, rewrites a memo for quality, or writes  *)
(* one, which may send the run back for evidence once.                     *)

ReportCached ==
    /\ Running("report") /\ reuse = "cached"
    /\ draft' \in {draft, TRUE} /\ missing' = FALSE
    /\ Go("memo_gate", "completed")
    /\ UNCHANGED <<regens, mandatory, integrity, budget, planning, request, history>>

\* Without a key and without citations the rewrite leaves an empty body.
ReportRewrite ==
    /\ Running("report") /\ reuse # "cached" /\ status = "revising_quality"
    /\ draft' \in BOOLEAN /\ missing' \in BOOLEAN
    /\ Go("memo_gate", "draft") /\ Spend
    /\ UNCHANGED <<iter, maxIter, calls, regens, mandatory, integrity>>
    /\ UNCHANGED <<planning, request, history>>

\* Kept for a run that is out of scope or cancelled, "draft" for any other.
TerminalStatus == IF status \in {"out_of_scope", "cancelled"} THEN status ELSE "draft"

\* Mutant: the calls left are not looked at.
ReloopsUnpaid == integrity < 1 /\ RemainingIterations /\ TerminalStatus = "draft"

Reloops ==
    /\ integrity < 1 /\ RemainingIterations /\ calls >= ReloopCalls
    /\ TerminalStatus = "draft"

WriteReport ==
    /\ Running("report") /\ reuse # "cached" /\ status # "revising_quality"
    /\ draft' = TRUE /\ missing' \in BOOLEAN /\ Spend
    /\ \/ /\ Go("memo_gate", TerminalStatus)
          /\ UNCHANGED <<integrity, followups, planConfirmed, promised>>
       \/ /\ Reloops
          /\ integrity' = integrity + 1
          /\ followups' = {"integrity"} /\ planConfirmed' = TRUE
          /\ promised' = promised \cup {"integrity"}
          /\ Go("planner", "integrity_research")
    /\ UNCHANGED <<iter, maxIter, calls, agents, reuse, prior, regens, mandatory>>
    /\ UNCHANGED <<request, said>>

------------------------------------------------------------------------------
(* memo_gate: the checks come first, then the human.                       *)

Reviewable == draft \/ status \in {"draft", "approved", "revising"}

MemoSkipped ==
    /\ Running("memo_gate") /\ ~Reviewable
    /\ End(status)
    /\ UNCHANGED <<budget, planning, memo, request, history>>

\* Mutant: the retry is not counted.
MemoMandatoryUncounted ==
    /\ Running("memo_gate") /\ Reviewable /\ missing /\ mandatory < 1
    /\ followups' = {"mandatory"} /\ promised' = promised \cup {"mandatory"}
    /\ Go("critic", "revising")
    /\ UNCHANGED <<memo, agents, planConfirmed, reuse, prior, budget, request, said>>

\* A missing mandatory source is worth one more pass.
MemoMandatory ==
    /\ Running("memo_gate") /\ Reviewable /\ missing /\ mandatory < 1
    /\ mandatory' = mandatory + 1
    /\ followups' = {"mandatory"} /\ promised' = promised \cup {"mandatory"}
    /\ Go("critic", "revising")
    /\ UNCHANGED <<draft, missing, regens, integrity, agents, planConfirmed, reuse, prior>>
    /\ UNCHANGED <<budget, request, said>>

\* Mutant: the rewrite is not counted.
MemoRewriteUncounted ==
    /\ Running("memo_gate") /\ Reviewable /\ (missing => mandatory >= 1)
    /\ regens < MaxRegenerations
    /\ Go("report", "revising_quality")
    /\ UNCHANGED <<memo, budget, planning, request, history>>

\* A memo that fails the quality checks, or still misses a source, is rewritten.
MemoRewrite ==
    /\ Running("memo_gate") /\ Reviewable /\ (missing => mandatory >= 1)
    /\ regens < MaxRegenerations /\ regens' = regens + 1
    /\ Go("report", "revising_quality")
    /\ UNCHANGED <<draft, missing, mandatory, integrity>>
    /\ UNCHANGED <<budget, planning, request, history>>

\* Mutant: a memo past its rewrites is published without the human.
MemoReviewForced ==
    /\ Running("memo_gate") /\ Reviewable
    /\ missing => (mandatory >= 1 /\ regens >= MaxRegenerations)
    /\ IF regens >= MaxRegenerations THEN End("completed") ELSE Park("memo_gate")
    /\ UNCHANGED <<budget, planning, memo, request, history>>

\* A missing source forces the rewrites; a memo good enough goes to the human.
MemoReview ==
    /\ Running("memo_gate") /\ Reviewable
    /\ missing => (mandatory >= 1 /\ regens >= MaxRegenerations)
    /\ Park("memo_gate")
    /\ UNCHANGED <<budget, planning, memo, request, history>>

\* The gate runs again under status "running": without a body it now ends.
AnswerMemo ==
    /\ Resume("memo_gate")
    /\ \/ /\ draft /\ End("completed")
          /\ said' = said \cup {"publish"} /\ UNCHANGED <<followups, promised>>
       \/ /\ draft /\ Resumed("critic", "revising")
          /\ said' = said \cup {"revise_critic"}
          /\ followups' = {"memo"} /\ promised' = promised \cup {"memo"}
       \/ /\ ~draft /\ End("running")
          /\ UNCHANGED <<said, followups, promised>>
    /\ UNCHANGED <<agents, planConfirmed, reuse, prior, budget, memo, request>>

------------------------------------------------------------------------------
(* The stream around the graph.                                            *)

\* Every key is out of credits: the model call parks the run where it is.
PauseForCredits ==
    /\ frame = "none" /\ node \in ModelNodes
    /\ node = "briefing" => ~anonymous
    /\ node = "report" => reuse # "cached"
    /\ Park("credits")
    /\ UNCHANGED <<budget, planning, memo, request, history>>

\* "continue" runs the node again.  In briefing the resume value is the one
\* the brief's own interrupt then takes for its answer.
ContinueCredits ==
    /\ Resume("credits")
    /\ IF node = "briefing" THEN Resumed("planner", "researching") /\ Spend
                            ELSE Resumed(node, "running") /\ UNCHANGED tokensLeft
    /\ UNCHANGED <<iter, maxIter, calls, planning, memo, request, history>>

\* "Cancel run" on that pause answers the model call: it parks again, or,
\* when the call now succeeds, the node goes on; in briefing the brief's
\* interrupt takes the answer and cancels.  A pause that no interrupt() made
\* leaves the status as it is.
CancelCredits ==
    /\ Resume("credits") /\ status # "failed"
    /\ said' = said \cup {"cancel"}
    /\ \E left \in {"running"} \cup IF node = "briefing" THEN {} ELSE {status} :
         \/ status' = left /\ UNCHANGED <<node, gate, frame>>
         \/ IF node = "briefing" THEN Resumed("report", "cancelled")
                                 ELSE Resumed(node, left)
    /\ UNCHANGED <<budget, planning, memo, request, promised>>

\* A checkpoint that already carries a terminal status is reported as it is, and
\* a failed one takes "continue" only: the answer is not delivered.
AnswerIgnored ==
    /\ frame = "interrupt" /\ gate' = "none" /\ UNCHANGED <<node, status>>
    /\ \/ status \in Terminal /\ frame' = "terminal"
       \/ status = "failed" /\ frame' = "error"
    /\ \/ gate = "memo_gate" /\ said' = said \cup {"publish"} /\ UNCHANGED promised
       \/ gate = "memo_gate" /\ said' = said \cup {"revise_critic"}
                             /\ promised' = promised \cup {"memo"}
       \/ gate = "credits" /\ said' = said \cup {"cancel"} /\ UNCHANGED promised
    /\ UNCHANGED <<budget, planning, memo, request>>

\* The worker died between two nodes and the execution starts again from the
\* checkpoint: it goes on, unless its status already says it is over.
Restart ==
    /\ frame = "none" /\ node # "end"
    /\ \/ status \in Terminal /\ frame' = "terminal"
       \/ status = "failed" /\ frame' = "error"
    /\ UNCHANGED <<node, status, gate, budget, planning, memo, request, history>>

------------------------------------------------------------------------------
Plan   == PlanOutOfScope \/ PlanCached \/ PlanSearch
Report == ReportCached \/ ReportRewrite \/ WriteReport
Memo   == MemoSkipped \/ MemoMandatory \/ MemoRewrite \/ MemoReview

Step == \/ Briefing \/ Plan \/ PlanGate
        \/ Search \/ Collector \/ Enrich \/ Retrieve \/ Extract
        \/ Critic \/ Hitl \/ Report \/ Memo

Human == \/ AnswerBrief \/ AnswerPlan \/ AnswerHitl \/ AnswerMemo
         \/ ContinueCredits \/ CancelCredits \/ AnswerIgnored

Next == Step \/ PauseForCredits \/ Restart \/ Human

Spec == Init /\ [][Next]_vars

\* The worker keeps the stream running: a node that can run does.
FairSpec == Spec /\ WF_vars(Step)
------------------------------------------------------------------------------
(* What the graph promises.                                                *)

ControlOK ==
    /\ node \in Nodes /\ status \in Statuses
    /\ gate \in Gates \cup {"none", "credits"}
    /\ frame \in {"none", "interrupt", "terminal", "error"}
    /\ frame = "interrupt" <=> gate # "none"
    /\ gate \in Gates => node = gate
    /\ gate = "credits" => node \in ModelNodes

CountersOK ==
    /\ iter \in Nat /\ maxIter \in Nat /\ calls \in Nat
    /\ regens \in 0..MaxRegenerations /\ mandatory \in 0..1 /\ integrity \in 0..1

FlagsOK ==
    /\ tokensLeft \in BOOLEAN /\ agents \in BOOLEAN /\ planConfirmed \in BOOLEAN
    /\ prior \in BOOLEAN /\ draft \in BOOLEAN /\ missing \in BOOLEAN
    /\ fresh \in BOOLEAN /\ anonymous \in BOOLEAN

NotesOK ==
    /\ followups \subseteq Passes \cup {"gap"} /\ promised \subseteq Passes
    /\ said \subseteq Answers /\ reuse \in {"", "off", "cached", "augment"}

TypeOK == ControlOK /\ CountersOK /\ FlagsOK /\ NotesOK

\* A memo that was researched for this run is reported as completed only after
\* the human said "publish", whatever rewrites, pauses and restarts came before.
PublishedAfterReview ==
    frame = "terminal" /\ Outcome = "completed" /\ draft /\ reuse # "cached"
        => "publish" \in said

\* The first plan of a question is searched only after the human has seen it.
PlanReviewedBeforeSearch ==
    node = "search" /\ iter <= 1 /\ reuse # "augment" => "plan" \in said

\* "Fresh" means no stored answer, on no pass: the planner itself forgets the
\* "off" mark once it has planned.
FreshNeverReused == fresh => reuse \notin {"cached", "augment"}

\* A repeated pass has something to look for: whoever sends the run back to the
\* planner leaves it the questions to chase.
RepeatPassHasQuestion == node = "planner" /\ iter > 0 => followups # {}

\* The pass an integrity failure asks for finds calls left to search with.
IntegrityReloopRuns == "integrity" \in promised => node = "planner"

\* On its own the graph never plans beyond its iterations: only a human who
\* digs further can take it past them.
IterationCap == iter <= maxIter \/ "dig" \in said

\* The work left before the run must stop or ask: passes left, then the single
\* retries of the memo, then the way to the next stop.
Rank == [n \in Nodes |->
            CASE n = "briefing" -> 13 [] n = "planner" -> 12 [] n = "plan_gate" -> 11
              [] n = "search"   -> 10 [] n = "collector" -> 9 [] n = "enrich" -> 8
              [] n = "retrieve" -> 7  [] n = "extract" -> 6   [] n = "critic" -> 5
              [] n = "hitl" -> 4 [] n = "report" -> 3 [] n = "memo_gate" -> 2 [] n = "end" -> 1]

IterationsToCome == IF iter = 0 THEN GMax(maxIter, MinIterations) ELSE maxIter

\* The pass the planner is about to count is not a repetition any more.
PassesLeft ==
    LET left == IF iter <= IterationsToCome THEN IterationsToCome - iter ELSE 0
    IN  IF node = "planner" /\ left > 0 THEN left - 1 ELSE left

RetriesLeft == (1 - mandatory) + (1 - integrity) + (MaxRegenerations - regens)

WorkLeft == 30 * (PassesLeft + RetriesLeft) + 2 * Rank[node]
                + (IF frame = "none" THEN 1 ELSE 0)

\* Every step taken without a human consumes some of it, so that the loops
\* critic-planner, report-planner, memo-critic and memo-report all end.
AutoStepsDecrease == [][frame = "none" => WorkLeft' < WorkLeft]_vars

\* A run that is being streamed always stops or asks somebody.
AlwaysSettles == []<>(frame # "none")
\* The inductive invariant of the proofs: what every step relies on.
BriefingComesFirst == node = "briefing" => iter = 0
PassHasIteration   == node = "planner" /\ iter > 0 => iter < maxIter \/ "dig" \in said
FreshFromTheStart  == fresh => reuse \in {"", "off"} /\ (iter = 0 => reuse = "off")
PlanUnconfirmed    == node = "plan_gate" => ~planConfirmed /\ reuse \in {"", "augment"}
IntegrityPassPaid  == "integrity" \in promised
                        => node = "planner" /\ "integrity" \in followups /\ calls > 0
CompletedIsKnown   == status = "completed" => reuse = "cached" \/ "publish" \in said
TerminalIsOver     == frame = "terminal" /\ status \notin Terminal => ~draft

IInv == /\ TypeOK /\ BriefingComesFirst /\ PassHasIteration /\ IterationCap
        /\ RepeatPassHasQuestion /\ FreshFromTheStart /\ PlanUnconfirmed
        /\ PlanReviewedBeforeSearch /\ IntegrityPassPaid
        /\ CompletedIsKnown /\ TerminalIsOver

------------------------------------------------------------------------------
(* What comments and texts of the code say of it, and the code does not do. *)

\* report.py: report generation "must not erase a routing/cancellation decision
\* made earlier in the graph".
CancellationKept == [][status = "cancelled" => status' = "cancelled"]_vars

\* memo_gate.py: a missing mandatory source is worth "one retrieval pass toward
\* the missing arXiv ids"; once past the critic the questions are still there.
MandatoryRetrieved ==
    node \in {"planner", "hitl"} /\ "mandatory" \in promised => "mandatory" \in followups

\* memo_gate.py: the human may "send back to the critic for another evidence
\* pass"; a memo served from the store does not end the run on that answer.
SentBackMemoGetsPass == frame = "terminal" /\ reuse = "cached" => "memo" \notin promised

\* hitl.py: "Dig further" always gets one more research loop: it has searched
\* before the human is asked again.
DigFurtherRetrieves == node = "hitl" => "human" \notin promised

\* briefing.py: the brief is for review "before Kiln starts searching".
BriefReviewed == ~anonymous /\ node = "search" => "brief" \in said

\* memo_gate.py: augmenting a stored memo "can only hold steady or improve":
\* the draft is compared with it before the human is asked to publish.
PriorComparedBeforePublish ==
    gate = "memo_gate" /\ prior /\ reuse # "cached" => reuse = "augment"
=============================================================================
