------------------------ MODULE ResearchGraphProofs -------------------------
(***************************************************************************)
(* Proofs about ResearchGraph, for every size of the pools, every number   *)
(* of iterations a run may be given, and every number of memo rewrites.    *)
(***************************************************************************)
EXTENDS ResearchGraph, Integers, TLAPS

-----------------------------------------------------------------------------
(* Types.                                                                  *)

\* A plan counts one iteration.
LEMMA CountIterationTypes ==
    ASSUME CountersOK, CountIteration
    PROVE  iter' \in Nat /\ maxIter' \in Nat /\ iter' > 0
  BY IterationsAssumption DEF CountersOK, CountIteration, GMax

\* The two plans that go on keep the counters counters.
LEMMA PlanCounters == ASSUME TypeOK, PlanCached \/ PlanSearch PROVE CountersOK'
<1>1. CountIteration /\ calls' \in {AugmentPool, calls} /\ UNCHANGED memo
  BY DEF PlanCached, PlanSearch
<1>2. UNCHANGED <<regens, mandatory, integrity>>
  BY <1>1 DEF memo
<1> QED BY <1>1, <1>2, CountIterationTypes, PoolAssumption DEF TypeOK, CountersOK

LEMMA PlanFlags == ASSUME TypeOK, PlanSearch PROVE FlagsOK'
<1>1. /\ prior' = TRUE \/ prior' = prior
      /\ Spend /\ agents' \in BOOLEAN /\ planConfirmed' = FALSE
  BY DEF PlanSearch, TypeOK, FlagsOK
<1>2. prior' \in BOOLEAN
  BY <1>1 DEF TypeOK, FlagsOK
<1>3. tokensLeft' \in BOOLEAN
  BY <1>1 DEF TypeOK, FlagsOK, Spend
<1>4. UNCHANGED <<memo, request>>
  BY DEF PlanSearch
<1> QED BY <1>1, <1>2, <1>3, <1>4 DEF TypeOK, FlagsOK, memo, request

\* The node, its status and the gate stay in agreement.
LEMMA ControlStep ==
    ASSUME TypeOK, Next
    PROVE  ControlOK'
<1> USE DEF TypeOK, ControlOK, Nodes, Statuses, Terminal, Gates, ModelNodes
<1>1. CASE Briefing
  BY <1>1 DEF Briefing, Go, Park, Running
<1>2. CASE AnswerBrief
  BY <1>2 DEF AnswerBrief, Resume, Resumed, Spend
<1>3. CASE PlanOutOfScope
  BY <1>3 DEF PlanOutOfScope, Running, FirstPlan, CountIteration, Go, GMax
<1>4. CASE PlanCached
  BY <1>4 DEF PlanCached, Running, MayReuse, FirstPlan, CountIteration, Go,
     GMax
<1>5. CASE PlanSearch
  BY <1>5 DEF PlanSearch, Running, MayReuse, FirstPlan, CountIteration, Go,
     Spend, GMax
<1>6. CASE PlanGate
  BY <1>6 DEF PlanGate, Running, Go, Park, Retrieval
<1>7. CASE AnswerPlan
  BY <1>7 DEF AnswerPlan, Resume, Resumed, Retrieval
<1>8. CASE Search
  BY <1>8 DEF Search, Running, Go
<1>9. CASE Collector
  BY <1>9 DEF Collector, Running, Go
<1>10. CASE Enrich
  BY <1>10 DEF Enrich, Running, Go
<1>11. CASE Retrieve
  BY <1>11 DEF Retrieve, Running, Go, Spend
<1>12. CASE Extract
  BY <1>12 DEF Extract, Running, Go
<1>13. CASE Critic
  BY <1>13 DEF Critic, Running, Go, Spend, CanLoop, RemainingIterations
<1>14. CASE Hitl
  BY <1>14 DEF Hitl, Running, Park
<1>15. CASE AnswerHitl
  BY <1>15 DEF AnswerHitl, Resume, Resumed, GMin, GMax
<1>16. CASE ReportCached
  BY <1>16 DEF ReportCached, Running, Go
<1>17. CASE ReportRewrite
  BY <1>17 DEF ReportRewrite, Running, Go, Spend
<1>18. CASE WriteReport
  BY <1>18 DEF WriteReport, Running, Go, Spend, Reloops,
     RemainingIterations, TerminalStatus
<1>19. CASE MemoSkipped
  BY <1>19 DEF MemoSkipped, Running, Reviewable, End
<1>20. CASE MemoMandatory
  BY <1>20 DEF MemoMandatory, Running, Go
<1>21. CASE MemoRewrite
  BY <1>21 DEF MemoRewrite, Running, Go
<1>22. CASE MemoReview
  BY <1>22 DEF MemoReview, Running, Park
<1>23. CASE AnswerMemo
  BY <1>23 DEF AnswerMemo, Resume, Resumed, End
<1>24. CASE PauseForCredits
  BY <1>24 DEF PauseForCredits, Park
<1>25. CASE ContinueCredits
  BY <1>25 DEF ContinueCredits, Resume, Resumed, Spend
<1>26. CASE CancelCredits
  BY <1>26 DEF CancelCredits, Resume, Resumed
<1>27. CASE AnswerIgnored
  BY <1>27 DEF AnswerIgnored
<1>28. CASE Restart
  BY <1>28 DEF Restart
<1> QED BY <1>1, <1>2, <1>3, <1>4, <1>5, <1>6, <1>7, <1>8, <1>9, <1>10,
        <1>11, <1>12, <1>13, <1>14, <1>15, <1>16, <1>17, <1>18, <1>19,
        <1>20, <1>21, <1>22, <1>23, <1>24, <1>25, <1>26, <1>27, <1>28 DEF
        Next, Step, Human, Plan, Report, Memo

\* No counter leaves its range.
LEMMA CountersStep ==
    ASSUME TypeOK, Next
    PROVE  CountersOK'
<1> USE PoolAssumption, IterationsAssumption DEF TypeOK, CountersOK
<1>1. CASE Briefing
  BY <1>1 DEF Briefing, Go, Park, Running, budget, memo
<1>2. CASE AnswerBrief
  BY <1>2 DEF AnswerBrief, Resume, Resumed, Spend, budget, memo
<1>3. CASE PlanOutOfScope
  BY <1>3 DEF PlanOutOfScope, Running, FirstPlan, CountIteration, Go, GMax,
     budget, memo
<1>4. CASE PlanCached
  BY <1>4, PlanCounters
<1>5. CASE PlanSearch
  BY <1>5, PlanCounters
<1>6. CASE PlanGate
  BY <1>6 DEF PlanGate, Running, Go, Park, Retrieval, budget, memo
<1>7. CASE AnswerPlan
  BY <1>7 DEF AnswerPlan, Resume, Resumed, Retrieval, budget, memo
<1>8. CASE Search
  BY <1>8 DEF Search, Running, Go, budget, memo
<1>9. CASE Collector
  BY <1>9 DEF Collector, Running, Go, budget, memo
<1>10. CASE Enrich
  BY <1>10 DEF Enrich, Running, Go, budget, memo
<1>11. CASE Retrieve
  BY <1>11 DEF Retrieve, Running, Go, Spend, budget, memo
<1>12. CASE Extract
  BY <1>12 DEF Extract, Running, Go, budget, memo
<1>13. CASE Critic
  BY <1>13 DEF Critic, Running, Go, Spend, CanLoop, RemainingIterations,
     budget, memo
<1>14. CASE Hitl
  BY <1>14 DEF Hitl, Running, Park, budget, memo
<1>15. CASE AnswerHitl
  BY <1>15 DEF AnswerHitl, Resume, Resumed, GMin, GMax, budget, memo
<1>16. CASE ReportCached
  BY <1>16 DEF ReportCached, Running, Go, budget, memo
<1>17. CASE ReportRewrite
  BY <1>17 DEF ReportRewrite, Running, Go, Spend, budget, memo
<1>18. CASE WriteReport
  BY <1>18 DEF WriteReport, Running, Go, Spend, Reloops,
     RemainingIterations, TerminalStatus, budget, memo
<1>19. CASE MemoSkipped
  BY <1>19 DEF MemoSkipped, Running, Reviewable, End, budget, memo
<1>20. CASE MemoMandatory
  BY <1>20 DEF MemoMandatory, Running, Go, budget, memo
<1>21. CASE MemoRewrite
  BY <1>21 DEF MemoRewrite, Running, Go, budget, memo
<1>22. CASE MemoReview
  BY <1>22 DEF MemoReview, Running, Park, budget, memo
<1>23. CASE AnswerMemo
  BY <1>23 DEF AnswerMemo, Resume, Resumed, End, budget, memo
<1>24. CASE PauseForCredits
  BY <1>24 DEF PauseForCredits, Park, budget, memo
<1>25. CASE ContinueCredits
  BY <1>25 DEF ContinueCredits, Resume, Resumed, Spend, budget, memo
<1>26. CASE CancelCredits
  BY <1>26 DEF CancelCredits, Resume, Resumed, budget, memo
<1>27. CASE AnswerIgnored
  BY <1>27 DEF AnswerIgnored, budget, memo
<1>28. CASE Restart
  BY <1>28 DEF Restart, budget, memo
<1> QED BY <1>1, <1>2, <1>3, <1>4, <1>5, <1>6, <1>7, <1>8, <1>9, <1>10,
        <1>11, <1>12, <1>13, <1>14, <1>15, <1>16, <1>17, <1>18, <1>19,
        <1>20, <1>21, <1>22, <1>23, <1>24, <1>25, <1>26, <1>27, <1>28 DEF
        Next, Step, Human, Plan, Report, Memo

\* The flags stay Boolean.
LEMMA FlagsStep ==
    ASSUME TypeOK, Next
    PROVE  FlagsOK'
<1> USE DEF TypeOK, FlagsOK
<1>1. CASE Briefing
  BY <1>1 DEF Briefing, Go, Park, Running, budget, planning, memo, request
<1>2. CASE AnswerBrief
  BY <1>2 DEF AnswerBrief, Resume, Resumed, Spend, budget, planning, memo,
     request
<1>3. CASE PlanOutOfScope
  BY <1>3 DEF PlanOutOfScope, Running, FirstPlan, CountIteration, Go, GMax,
     budget, planning, memo, request
<1>4. CASE PlanCached
  BY <1>4 DEF PlanCached, Running, MayReuse, FirstPlan, CountIteration, Go,
     GMax, budget, planning, memo, request
<1>5. CASE PlanSearch
  BY <1>5, PlanFlags
<1>6. CASE PlanGate
  BY <1>6 DEF PlanGate, Running, Go, Park, Retrieval, budget, planning,
     memo, request
<1>7. CASE AnswerPlan
  BY <1>7 DEF AnswerPlan, Resume, Resumed, Retrieval, budget, planning,
     memo, request
<1>8. CASE Search
  BY <1>8 DEF Search, Running, Go, budget, planning, memo, request
<1>9. CASE Collector
  BY <1>9 DEF Collector, Running, Go, budget, planning, memo, request
<1>10. CASE Enrich
  BY <1>10 DEF Enrich, Running, Go, budget, planning, memo, request
<1>11. CASE Retrieve
  BY <1>11 DEF Retrieve, Running, Go, Spend, budget, planning, memo, request
<1>12. CASE Extract
  BY <1>12 DEF Extract, Running, Go, budget, planning, memo, request
<1>13. CASE Critic
  BY <1>13 DEF Critic, Running, Go, Spend, CanLoop, RemainingIterations,
     budget, planning, memo, request
<1>14. CASE Hitl
  BY <1>14 DEF Hitl, Running, Park, budget, planning, memo, request
<1>15. CASE AnswerHitl
  BY <1>15 DEF AnswerHitl, Resume, Resumed, GMin, GMax, budget, planning,
     memo, request
<1>16. CASE ReportCached
  BY <1>16 DEF ReportCached, Running, Go, budget, planning, memo, request
<1>17. CASE ReportRewrite
  BY <1>17 DEF ReportRewrite, Running, Go, Spend, budget, planning, memo,
     request
<1>18. CASE WriteReport
  BY <1>18 DEF WriteReport, Running, Go, Spend, Reloops,
     RemainingIterations, TerminalStatus, budget, planning, memo, request
<1>19. CASE MemoSkipped
  BY <1>19 DEF MemoSkipped, Running, Reviewable, End, budget, planning,
     memo, request
<1>20. CASE MemoMandatory
  BY <1>20 DEF MemoMandatory, Running, Go, budget, planning, memo, request
<1>21. CASE MemoRewrite
  BY <1>21 DEF MemoRewrite, Running, Go, budget, planning, memo, request
<1>22. CASE MemoReview
  BY <1>22 DEF MemoReview, Running, Park, budget, planning, memo, request
<1>23. CASE AnswerMemo
  BY <1>23 DEF AnswerMemo, Resume, Resumed, End, budget, planning, memo,
     request
<1>24. CASE PauseForCredits
  BY <1>24 DEF PauseForCredits, Park, budget, planning, memo, request
<1>25. CASE ContinueCredits
  BY <1>25 DEF ContinueCredits, Resume, Resumed, Spend, budget, planning,
     memo, request
<1>26. CASE CancelCredits
  BY <1>26 DEF CancelCredits, Resume, Resumed, budget, planning, memo,
     request
<1>27. CASE AnswerIgnored
  BY <1>27 DEF AnswerIgnored, budget, planning, memo, request
<1>28. CASE Restart
  BY <1>28 DEF Restart, budget, planning, memo, request
<1> QED BY <1>1, <1>2, <1>3, <1>4, <1>5, <1>6, <1>7, <1>8, <1>9, <1>10,
        <1>11, <1>12, <1>13, <1>14, <1>15, <1>16, <1>17, <1>18, <1>19,
        <1>20, <1>21, <1>22, <1>23, <1>24, <1>25, <1>26, <1>27, <1>28 DEF
        Next, Step, Human, Plan, Report, Memo

\* The sets keep to their names.
LEMMA NotesStep ==
    ASSUME TypeOK, Next
    PROVE  NotesOK'
<1> USE DEF TypeOK, NotesOK, Passes, Answers
<1>1. CASE Briefing
  BY <1>1 DEF Briefing, Go, Park, Running, planning, history
<1>2. CASE AnswerBrief
  BY <1>2 DEF AnswerBrief, Resume, Resumed, Spend, planning, history
<1>3. CASE PlanOutOfScope
  BY <1>3 DEF PlanOutOfScope, Running, FirstPlan, CountIteration, Go, GMax,
     planning, history
<1>4. CASE PlanCached
  BY <1>4 DEF PlanCached, Running, MayReuse, FirstPlan, CountIteration, Go,
     GMax, planning, history
<1>5. CASE PlanSearch
  BY <1>5 DEF PlanSearch, Running, MayReuse, FirstPlan, CountIteration, Go,
     Spend, GMax, planning, history
<1>6. CASE PlanGate
  BY <1>6 DEF PlanGate, Running, Go, Park, Retrieval, planning, history
<1>7. CASE AnswerPlan
  BY <1>7 DEF AnswerPlan, Resume, Resumed, Retrieval, planning, history
<1>8. CASE Search
  BY <1>8 DEF Search, Running, Go, planning, history
<1>9. CASE Collector
  BY <1>9 DEF Collector, Running, Go, planning, history
<1>10. CASE Enrich
  BY <1>10 DEF Enrich, Running, Go, planning, history
<1>11. CASE Retrieve
  BY <1>11 DEF Retrieve, Running, Go, Spend, planning, history
<1>12. CASE Extract
  BY <1>12 DEF Extract, Running, Go, planning, history
<1>13. CASE Critic
  BY <1>13 DEF Critic, Running, Go, Spend, CanLoop, RemainingIterations,
     planning, history
<1>14. CASE Hitl
  BY <1>14 DEF Hitl, Running, Park, planning, history
<1>15. CASE AnswerHitl
  BY <1>15 DEF AnswerHitl, Resume, Resumed, GMin, GMax, planning, history
<1>16. CASE ReportCached
  BY <1>16 DEF ReportCached, Running, Go, planning, history
<1>17. CASE ReportRewrite
  BY <1>17 DEF ReportRewrite, Running, Go, Spend, planning, history
<1>18. CASE WriteReport
  BY <1>18 DEF WriteReport, Running, Go, Spend, Reloops,
     RemainingIterations, TerminalStatus, planning, history
<1>19. CASE MemoSkipped
  BY <1>19 DEF MemoSkipped, Running, Reviewable, End, planning, history
<1>20. CASE MemoMandatory
  BY <1>20 DEF MemoMandatory, Running, Go, planning, history
<1>21. CASE MemoRewrite
  BY <1>21 DEF MemoRewrite, Running, Go, planning, history
<1>22. CASE MemoReview
  BY <1>22 DEF MemoReview, Running, Park, planning, history
<1>23. CASE AnswerMemo
  BY <1>23 DEF AnswerMemo, Resume, Resumed, End, planning, history
<1>24. CASE PauseForCredits
  BY <1>24 DEF PauseForCredits, Park, planning, history
<1>25. CASE ContinueCredits
  BY <1>25 DEF ContinueCredits, Resume, Resumed, Spend, planning, history
<1>26. CASE CancelCredits
  BY <1>26 DEF CancelCredits, Resume, Resumed, planning, history
<1>27. CASE AnswerIgnored
  BY <1>27 DEF AnswerIgnored, planning, history
<1>28. CASE Restart
  BY <1>28 DEF Restart, planning, history
<1> QED BY <1>1, <1>2, <1>3, <1>4, <1>5, <1>6, <1>7, <1>8, <1>9, <1>10,
        <1>11, <1>12, <1>13, <1>14, <1>15, <1>16, <1>17, <1>18, <1>19,
        <1>20, <1>21, <1>22, <1>23, <1>24, <1>25, <1>26, <1>27, <1>28 DEF
        Next, Step, Human, Plan, Report, Memo

-----------------------------------------------------------------------------
(* The conjuncts of the inductive invariant.                               *)

\* A counted pass fits: the cap was not reached, or a human asked for it.
LEMMA CountIterationFits ==
    ASSUME CountersOK, PassHasIteration, node = "planner", CountIteration
    PROVE  iter' <= maxIter' \/ "dig" \in said
<1>1. CASE iter = 0
  BY <1>1, IterationsAssumption DEF CountersOK, CountIteration, GMax
<1>2. CASE iter > 0
  BY <1>2 DEF CountersOK, CountIteration, PassHasIteration
<1> QED BY <1>1, <1>2 DEF CountersOK

LEMMA PlannerLeaves ==
    ASSUME IInv, PlanCached \/ PlanSearch
    PROVE  BriefingComesFirst' /\ PassHasIteration' /\ IterationCap'
<1>1. CountIteration /\ node = "planner" /\ node' \in {"report", "plan_gate"} /\ UNCHANGED said
  BY DEF PlanCached, PlanSearch, Running, Go, history
<1>2. iter' <= maxIter' \/ "dig" \in said
  BY <1>1, CountIterationFits DEF IInv, TypeOK
<1> QED BY <1>1, <1>2 DEF BriefingComesFirst, PassHasIteration, IterationCap

\* "Continue" runs the node again, or answers the brief.
LEMMA ContinueRuns ==
    ASSUME IInv, ContinueCredits
    PROVE  /\ BriefingComesFirst' /\ PassHasIteration' /\ IterationCap'
           /\ RepeatPassHasQuestion'
<1>1. UNCHANGED <<iter, maxIter, followups, said>>
  BY DEF ContinueCredits, planning, history
<1>2. CASE node = "briefing"
  <2>1. node' = "planner" /\ iter = 0
    BY <1>2 DEF ContinueCredits, Resumed, IInv, BriefingComesFirst
  <2> QED BY <1>1, <2>1 DEF BriefingComesFirst, PassHasIteration, IterationCap,
                            RepeatPassHasQuestion, IInv
<1>3. CASE node # "briefing"
  <2>1. node' = node
    BY <1>3 DEF ContinueCredits, Resumed
  <2> QED BY <1>1, <2>1 DEF BriefingComesFirst, PassHasIteration, IterationCap,
                            RepeatPassHasQuestion, IInv
<1> QED BY <1>2, <1>3

\* A run that is fresh takes nothing from the store, though the planner clears
\* the mark: by then the first iteration is counted.
LEMMA FreshPlan == ASSUME IInv, PlanSearch PROVE FreshFromTheStart'
<1>1. iter' # 0
  <2>1. CountersOK /\ CountIteration
    BY DEF PlanSearch, IInv, TypeOK
  <2> QED BY <2>1, CountIterationTypes
<1>2. UNCHANGED fresh
  BY DEF PlanSearch, request
<1>3. ASSUME fresh PROVE reuse' = ""
  <2>1. PICK hit \in BOOLEAN : (hit => MayReuse) /\ reuse' = IF hit THEN "augment" ELSE ""
    BY DEF PlanSearch
  <2>2. ~MayReuse
    BY <1>3 DEF IInv, FreshFromTheStart, MayReuse, FirstPlan
  <2> QED BY <2>1, <2>2
<1>4. fresh' => reuse' \in {"", "off"}
  BY <1>2, <1>3
<1> QED BY <1>1, <1>4 DEF FreshFromTheStart

\* The gate lets a plan through unseen only on a later pass or an augmented one.
LEMMA GatedPlan == ASSUME IInv, PlanGate PROVE PlanUnconfirmed' /\ PlanReviewedBeforeSearch'
<1>1. node = "plan_gate" /\ UNCHANGED <<iter, reuse, said>>
  BY DEF PlanGate, Running, budget, history
<1>2. ~planConfirmed /\ reuse \in {"", "augment"} /\ iter \in Nat
  BY <1>1 DEF IInv, PlanUnconfirmed, TypeOK, CountersOK
<1>3. CASE UNCHANGED <<node, planConfirmed>>
  BY <1>1, <1>2, <1>3 DEF PlanUnconfirmed, PlanReviewedBeforeSearch
<1>4. CASE node' \in {"search", "collector"} /\ (iter > 1 \/ reuse # "")
  <2>1. PlanUnconfirmed'
    BY <1>4 DEF PlanUnconfirmed
  <2>2. iter' \in Nat /\ (iter' > 1 \/ reuse' = "augment")
    BY <1>1, <1>2, <1>4
  <2> QED BY <2>1, <2>2 DEF PlanReviewedBeforeSearch
<1>5. \/ node' \in {"search", "collector"} /\ (iter > 1 \/ reuse # "")
      \/ UNCHANGED <<node, planConfirmed>>
  BY <1>2 DEF PlanGate, Go, Park, Retrieval
<1> QED BY <1>3, <1>4, <1>5

\* Iterations.
LEMMA CountStep ==
    ASSUME IInv, Next
    PROVE  BriefingComesFirst' /\ PassHasIteration' /\ IterationCap'
<1> USE IterationsAssumption DEF IInv, TypeOK, ControlOK, CountersOK, BriefingComesFirst,
        PassHasIteration, IterationCap, Gates
<1>1. CASE Briefing
  BY <1>1 DEF Briefing, Go, Park, Running, budget, history
<1>2. CASE AnswerBrief
  BY <1>2 DEF AnswerBrief, Resume, Resumed, Spend, budget, history
<1>3. CASE PlanOutOfScope
  BY <1>3 DEF PlanOutOfScope, Running, FirstPlan, CountIteration, Go, GMax,
     budget, history
<1>4. CASE PlanCached
  BY <1>4, PlannerLeaves
<1>5. CASE PlanSearch
  BY <1>5, PlannerLeaves
<1>6. CASE PlanGate
  BY <1>6 DEF PlanGate, Running, Go, Park, Retrieval, budget, history
<1>7. CASE AnswerPlan
  BY <1>7 DEF AnswerPlan, Resume, Resumed, Retrieval, budget, history
<1>8. CASE Search
  BY <1>8 DEF Search, Running, Go, budget, history
<1>9. CASE Collector
  BY <1>9 DEF Collector, Running, Go, budget, history
<1>10. CASE Enrich
  BY <1>10 DEF Enrich, Running, Go, budget, history
<1>11. CASE Retrieve
  BY <1>11 DEF Retrieve, Running, Go, Spend, budget, history
<1>12. CASE Extract
  BY <1>12 DEF Extract, Running, Go, budget, history
<1>13. CASE Critic
  BY <1>13 DEF Critic, Running, Go, Spend, CanLoop, RemainingIterations,
     budget, history
<1>14. CASE Hitl
  BY <1>14 DEF Hitl, Running, Park, budget, history
<1>15. CASE AnswerHitl
  BY <1>15 DEF AnswerHitl, Resume, Resumed, GMin, GMax, budget, history
<1>16. CASE ReportCached
  BY <1>16 DEF ReportCached, Running, Go, budget, history
<1>17. CASE ReportRewrite
  BY <1>17 DEF ReportRewrite, Running, Go, Spend, budget, history
<1>18. CASE WriteReport
  BY <1>18 DEF WriteReport, Running, Go, Spend, Reloops,
     RemainingIterations, TerminalStatus, budget, history
<1>19. CASE MemoSkipped
  BY <1>19 DEF MemoSkipped, Running, Reviewable, End, budget, history
<1>20. CASE MemoMandatory
  BY <1>20 DEF MemoMandatory, Running, Go, budget, history
<1>21. CASE MemoRewrite
  BY <1>21 DEF MemoRewrite, Running, Go, budget, history
<1>22. CASE MemoReview
  BY <1>22 DEF MemoReview, Running, Park, budget, history
<1>23. CASE AnswerMemo
  BY <1>23 DEF AnswerMemo, Resume, Resumed, End, budget, history
<1>24. CASE PauseForCredits
  BY <1>24 DEF PauseForCredits, Park, budget, history
<1>25. CASE ContinueCredits
  BY <1>25, ContinueRuns
<1>26. CASE CancelCredits
  BY <1>26 DEF CancelCredits, Resume, Resumed, budget, history
<1>27. CASE AnswerIgnored
  BY <1>27 DEF AnswerIgnored, budget, history
<1>28. CASE Restart
  BY <1>28 DEF Restart, budget, history
<1> QED BY <1>1, <1>2, <1>3, <1>4, <1>5, <1>6, <1>7, <1>8, <1>9, <1>10,
        <1>11, <1>12, <1>13, <1>14, <1>15, <1>16, <1>17, <1>18, <1>19,
        <1>20, <1>21, <1>22, <1>23, <1>24, <1>25, <1>26, <1>27, <1>28 DEF
        Next, Step, Human, Plan, Report, Memo

\* Questions for a repeated pass.
LEMMA QuestionStep ==
    ASSUME IInv, Next
    PROVE  RepeatPassHasQuestion'
<1> USE DEF IInv, RepeatPassHasQuestion, BriefingComesFirst, TypeOK, ControlOK, Gates
<1>1. CASE Briefing
  BY <1>1 DEF Briefing, Go, Park, Running, budget, planning
<1>2. CASE AnswerBrief
  BY <1>2 DEF AnswerBrief, Resume, Resumed, Spend, budget, planning
<1>3. CASE PlanOutOfScope
  BY <1>3 DEF PlanOutOfScope, Running, FirstPlan, CountIteration, Go, GMax,
     budget, planning
<1>4. CASE PlanCached
  BY <1>4 DEF PlanCached, Running, MayReuse, FirstPlan, CountIteration, Go,
     GMax, budget, planning
<1>5. CASE PlanSearch
  BY <1>5 DEF PlanSearch, Running, MayReuse, FirstPlan, CountIteration, Go,
     Spend, GMax, budget, planning
<1>6. CASE PlanGate
  BY <1>6 DEF PlanGate, Running, Go, Park, Retrieval, budget, planning
<1>7. CASE AnswerPlan
  BY <1>7 DEF AnswerPlan, Resume, Resumed, Retrieval, budget, planning
<1>8. CASE Search
  BY <1>8 DEF Search, Running, Go, budget, planning
<1>9. CASE Collector
  BY <1>9 DEF Collector, Running, Go, budget, planning
<1>10. CASE Enrich
  BY <1>10 DEF Enrich, Running, Go, budget, planning
<1>11. CASE Retrieve
  BY <1>11 DEF Retrieve, Running, Go, Spend, budget, planning
<1>12. CASE Extract
  BY <1>12 DEF Extract, Running, Go, budget, planning
<1>13. CASE Critic
  BY <1>13 DEF Critic, Running, Go, Spend, CanLoop, RemainingIterations,
     budget, planning
<1>14. CASE Hitl
  BY <1>14 DEF Hitl, Running, Park, budget, planning
<1>15. CASE AnswerHitl
  BY <1>15 DEF AnswerHitl, Resume, Resumed, GMin, GMax, budget, planning
<1>16. CASE ReportCached
  BY <1>16 DEF ReportCached, Running, Go, budget, planning
<1>17. CASE ReportRewrite
  BY <1>17 DEF ReportRewrite, Running, Go, Spend, budget, planning
<1>18. CASE WriteReport
  BY <1>18 DEF WriteReport, Running, Go, Spend, Reloops,
     RemainingIterations, TerminalStatus, budget, planning
<1>19. CASE MemoSkipped
  BY <1>19 DEF MemoSkipped, Running, Reviewable, End, budget, planning
<1>20. CASE MemoMandatory
  BY <1>20 DEF MemoMandatory, Running, Go, budget, planning
<1>21. CASE MemoRewrite
  BY <1>21 DEF MemoRewrite, Running, Go, budget, planning
<1>22. CASE MemoReview
  BY <1>22 DEF MemoReview, Running, Park, budget, planning
<1>23. CASE AnswerMemo
  BY <1>23 DEF AnswerMemo, Resume, Resumed, End, budget, planning
<1>24. CASE PauseForCredits
  BY <1>24 DEF PauseForCredits, Park, budget, planning
<1>25. CASE ContinueCredits
  BY <1>25, ContinueRuns
<1>26. CASE CancelCredits
  BY <1>26 DEF CancelCredits, Resume, Resumed, budget, planning
<1>27. CASE AnswerIgnored
  BY <1>27 DEF AnswerIgnored, budget, planning
<1>28. CASE Restart
  BY <1>28 DEF Restart, budget, planning
<1> QED BY <1>1, <1>2, <1>3, <1>4, <1>5, <1>6, <1>7, <1>8, <1>9, <1>10,
        <1>11, <1>12, <1>13, <1>14, <1>15, <1>16, <1>17, <1>18, <1>19,
        <1>20, <1>21, <1>22, <1>23, <1>24, <1>25, <1>26, <1>27, <1>28 DEF
        Next, Step, Human, Plan, Report, Memo

\* Stored answers.
LEMMA FreshStep ==
    ASSUME IInv, Next
    PROVE  FreshFromTheStart'
<1> USE DEF IInv, TypeOK, CountersOK, FreshFromTheStart
<1>1. CASE Briefing
  BY <1>1 DEF Briefing, Go, Park, Running, budget, planning, request
<1>2. CASE AnswerBrief
  BY <1>2 DEF AnswerBrief, Resume, Resumed, Spend, budget, planning, request
<1>3. CASE PlanOutOfScope
  BY <1>3 DEF PlanOutOfScope, Running, FirstPlan, CountIteration, Go, GMax,
     budget, planning, request
<1>4. CASE PlanCached
  BY <1>4 DEF PlanCached, Running, MayReuse, FirstPlan, CountIteration, Go,
     GMax, budget, planning, request
<1>5. CASE PlanSearch
  BY <1>5, FreshPlan
<1>6. CASE PlanGate
  BY <1>6 DEF PlanGate, Running, Go, Park, Retrieval, budget, planning,
     request
<1>7. CASE AnswerPlan
  BY <1>7 DEF AnswerPlan, Resume, Resumed, Retrieval, budget, planning,
     request
<1>8. CASE Search
  BY <1>8 DEF Search, Running, Go, budget, planning, request
<1>9. CASE Collector
  BY <1>9 DEF Collector, Running, Go, budget, planning, request
<1>10. CASE Enrich
  BY <1>10 DEF Enrich, Running, Go, budget, planning, request
<1>11. CASE Retrieve
  BY <1>11 DEF Retrieve, Running, Go, Spend, budget, planning, request
<1>12. CASE Extract
  BY <1>12 DEF Extract, Running, Go, budget, planning, request
<1>13. CASE Critic
  BY <1>13 DEF Critic, Running, Go, Spend, CanLoop, RemainingIterations,
     budget, planning, request
<1>14. CASE Hitl
  BY <1>14 DEF Hitl, Running, Park, budget, planning, request
<1>15. CASE AnswerHitl
  BY <1>15 DEF AnswerHitl, Resume, Resumed, GMin, GMax, budget, planning,
     request
<1>16. CASE ReportCached
  BY <1>16 DEF ReportCached, Running, Go, budget, planning, request
<1>17. CASE ReportRewrite
  BY <1>17 DEF ReportRewrite, Running, Go, Spend, budget, planning, request
<1>18. CASE WriteReport
  BY <1>18 DEF WriteReport, Running, Go, Spend, Reloops,
     RemainingIterations, TerminalStatus, budget, planning, request
<1>19. CASE MemoSkipped
  BY <1>19 DEF MemoSkipped, Running, Reviewable, End, budget, planning,
     request
<1>20. CASE MemoMandatory
  BY <1>20 DEF MemoMandatory, Running, Go, budget, planning, request
<1>21. CASE MemoRewrite
  BY <1>21 DEF MemoRewrite, Running, Go, budget, planning, request
<1>22. CASE MemoReview
  BY <1>22 DEF MemoReview, Running, Park, budget, planning, request
<1>23. CASE AnswerMemo
  BY <1>23 DEF AnswerMemo, Resume, Resumed, End, budget, planning, request
<1>24. CASE PauseForCredits
  BY <1>24 DEF PauseForCredits, Park, budget, planning, request
<1>25. CASE ContinueCredits
  BY <1>25 DEF ContinueCredits, Resume, Resumed, Spend, budget, planning,
     request
<1>26. CASE CancelCredits
  BY <1>26 DEF CancelCredits, Resume, Resumed, budget, planning, request
<1>27. CASE AnswerIgnored
  BY <1>27 DEF AnswerIgnored, budget, planning, request
<1>28. CASE Restart
  BY <1>28 DEF Restart, budget, planning, request
<1> QED BY <1>1, <1>2, <1>3, <1>4, <1>5, <1>6, <1>7, <1>8, <1>9, <1>10,
        <1>11, <1>12, <1>13, <1>14, <1>15, <1>16, <1>17, <1>18, <1>19,
        <1>20, <1>21, <1>22, <1>23, <1>24, <1>25, <1>26, <1>27, <1>28 DEF
        Next, Step, Human, Plan, Report, Memo

\* The plan and its gate.
LEMMA PlanStep ==
    ASSUME IInv, Next
    PROVE  PlanUnconfirmed' /\ PlanReviewedBeforeSearch'
<1> USE DEF IInv, TypeOK, ControlOK, NotesOK, Gates, PlanUnconfirmed,
        PlanReviewedBeforeSearch
<1>1. CASE Briefing
  BY <1>1 DEF Briefing, Go, Park, Running, budget, planning, history
<1>2. CASE AnswerBrief
  BY <1>2 DEF AnswerBrief, Resume, Resumed, Spend, budget, planning, history
<1>3. CASE PlanOutOfScope
  BY <1>3 DEF PlanOutOfScope, Running, FirstPlan, CountIteration, Go, GMax,
     budget, planning, history
<1>4. CASE PlanCached
  BY <1>4 DEF PlanCached, Running, MayReuse, FirstPlan, CountIteration, Go,
     GMax, budget, planning, history
<1>5. CASE PlanSearch
  BY <1>5 DEF PlanSearch, Running, MayReuse, FirstPlan, CountIteration, Go,
     Spend, GMax, budget, planning, history
<1>6. CASE PlanGate
  BY <1>6, GatedPlan
<1>7. CASE AnswerPlan
  BY <1>7 DEF AnswerPlan, Resume, Resumed, Retrieval, budget, planning,
     history
<1>8. CASE Search
  BY <1>8 DEF Search, Running, Go, budget, planning, history
<1>9. CASE Collector
  BY <1>9 DEF Collector, Running, Go, budget, planning, history
<1>10. CASE Enrich
  BY <1>10 DEF Enrich, Running, Go, budget, planning, history
<1>11. CASE Retrieve
  BY <1>11 DEF Retrieve, Running, Go, Spend, budget, planning, history
<1>12. CASE Extract
  BY <1>12 DEF Extract, Running, Go, budget, planning, history
<1>13. CASE Critic
  BY <1>13 DEF Critic, Running, Go, Spend, CanLoop, RemainingIterations,
     budget, planning, history
<1>14. CASE Hitl
  BY <1>14 DEF Hitl, Running, Park, budget, planning, history
<1>15. CASE AnswerHitl
  BY <1>15 DEF AnswerHitl, Resume, Resumed, GMin, GMax, budget, planning,
     history
<1>16. CASE ReportCached
  BY <1>16 DEF ReportCached, Running, Go, budget, planning, history
<1>17. CASE ReportRewrite
  BY <1>17 DEF ReportRewrite, Running, Go, Spend, budget, planning, history
<1>18. CASE WriteReport
  BY <1>18 DEF WriteReport, Running, Go, Spend, Reloops,
     RemainingIterations, TerminalStatus, budget, planning, history
<1>19. CASE MemoSkipped
  BY <1>19 DEF MemoSkipped, Running, Reviewable, End, budget, planning,
     history
<1>20. CASE MemoMandatory
  BY <1>20 DEF MemoMandatory, Running, Go, budget, planning, history
<1>21. CASE MemoRewrite
  BY <1>21 DEF MemoRewrite, Running, Go, budget, planning, history
<1>22. CASE MemoReview
  BY <1>22 DEF MemoReview, Running, Park, budget, planning, history
<1>23. CASE AnswerMemo
  BY <1>23 DEF AnswerMemo, Resume, Resumed, End, budget, planning, history
<1>24. CASE PauseForCredits
  BY <1>24 DEF PauseForCredits, Park, budget, planning, history
<1>25. CASE ContinueCredits
  BY <1>25 DEF ContinueCredits, Resume, Resumed, Spend, budget, planning,
     history
<1>26. CASE CancelCredits
  BY <1>26 DEF CancelCredits, Resume, Resumed, budget, planning, history
<1>27. CASE AnswerIgnored
  BY <1>27 DEF AnswerIgnored, budget, planning, history
<1>28. CASE Restart
  BY <1>28 DEF Restart, budget, planning, history
<1> QED BY <1>1, <1>2, <1>3, <1>4, <1>5, <1>6, <1>7, <1>8, <1>9, <1>10,
        <1>11, <1>12, <1>13, <1>14, <1>15, <1>16, <1>17, <1>18, <1>19,
        <1>20, <1>21, <1>22, <1>23, <1>24, <1>25, <1>26, <1>27, <1>28 DEF
        Next, Step, Human, Plan, Report, Memo

\* The integrity pass.
LEMMA IntegrityStep ==
    ASSUME IInv, Next
    PROVE  IntegrityPassPaid'
<1> USE PoolAssumption DEF IInv, TypeOK, ControlOK, CountersOK, Gates, IntegrityPassPaid
<1>1. CASE Briefing
  BY <1>1 DEF Briefing, Go, Park, Running, budget, planning, history
<1>2. CASE AnswerBrief
  BY <1>2 DEF AnswerBrief, Resume, Resumed, Spend, budget, planning, history
<1>3. CASE PlanOutOfScope
  BY <1>3 DEF PlanOutOfScope, Running, FirstPlan, CountIteration, Go, GMax,
     budget, planning, history
<1>4. CASE PlanCached
  BY <1>4 DEF PlanCached, Running, MayReuse, FirstPlan, CountIteration, Go,
     GMax, budget, planning, history
<1>5. CASE PlanSearch
  BY <1>5 DEF PlanSearch, Running, MayReuse, FirstPlan, CountIteration, Go,
     Spend, GMax, budget, planning, history
<1>6. CASE PlanGate
  BY <1>6 DEF PlanGate, Running, Go, Park, Retrieval, budget, planning,
     history
<1>7. CASE AnswerPlan
  BY <1>7 DEF AnswerPlan, Resume, Resumed, Retrieval, budget, planning,
     history
<1>8. CASE Search
  BY <1>8 DEF Search, Running, Go, budget, planning, history
<1>9. CASE Collector
  BY <1>9 DEF Collector, Running, Go, budget, planning, history
<1>10. CASE Enrich
  BY <1>10 DEF Enrich, Running, Go, budget, planning, history
<1>11. CASE Retrieve
  BY <1>11 DEF Retrieve, Running, Go, Spend, budget, planning, history
<1>12. CASE Extract
  BY <1>12 DEF Extract, Running, Go, budget, planning, history
<1>13. CASE Critic
  BY <1>13 DEF Critic, Running, Go, Spend, CanLoop, RemainingIterations,
     budget, planning, history
<1>14. CASE Hitl
  BY <1>14 DEF Hitl, Running, Park, budget, planning, history
<1>15. CASE AnswerHitl
  BY <1>15 DEF AnswerHitl, Resume, Resumed, GMin, GMax, budget, planning,
     history
<1>16. CASE ReportCached
  BY <1>16 DEF ReportCached, Running, Go, budget, planning, history
<1>17. CASE ReportRewrite
  BY <1>17 DEF ReportRewrite, Running, Go, Spend, budget, planning, history
<1>18. CASE WriteReport
  BY <1>18 DEF WriteReport, Running, Go, Spend, Reloops,
     RemainingIterations, TerminalStatus, budget, planning, history
<1>19. CASE MemoSkipped
  BY <1>19 DEF MemoSkipped, Running, Reviewable, End, budget, planning,
     history
<1>20. CASE MemoMandatory
  BY <1>20 DEF MemoMandatory, Running, Go, budget, planning, history
<1>21. CASE MemoRewrite
  BY <1>21 DEF MemoRewrite, Running, Go, budget, planning, history
<1>22. CASE MemoReview
  BY <1>22 DEF MemoReview, Running, Park, budget, planning, history
<1>23. CASE AnswerMemo
  BY <1>23 DEF AnswerMemo, Resume, Resumed, End, budget, planning, history
<1>24. CASE PauseForCredits
  BY <1>24 DEF PauseForCredits, Park, budget, planning, history
<1>25. CASE ContinueCredits
  BY <1>25 DEF ContinueCredits, Resume, Resumed, Spend, budget, planning,
     history
<1>26. CASE CancelCredits
  BY <1>26 DEF CancelCredits, Resume, Resumed, budget, planning, history
<1>27. CASE AnswerIgnored
  BY <1>27 DEF AnswerIgnored, budget, planning, history
<1>28. CASE Restart
  BY <1>28 DEF Restart, budget, planning, history
<1> QED BY <1>1, <1>2, <1>3, <1>4, <1>5, <1>6, <1>7, <1>8, <1>9, <1>10,
        <1>11, <1>12, <1>13, <1>14, <1>15, <1>16, <1>17, <1>18, <1>19,
        <1>20, <1>21, <1>22, <1>23, <1>24, <1>25, <1>26, <1>27, <1>28 DEF
        Next, Step, Human, Plan, Report, Memo

\* How a run ends.
LEMMA EndStep ==
    ASSUME IInv, Next
    PROVE  CompletedIsKnown' /\ TerminalIsOver'
<1> USE DEF IInv, CompletedIsKnown, TerminalIsOver, Terminal
<1>1. CASE Briefing
  BY <1>1 DEF Briefing, Go, Park, Running, planning, memo, history
<1>2. CASE AnswerBrief
  BY <1>2 DEF AnswerBrief, Resume, Resumed, Spend, planning, memo, history
<1>3. CASE PlanOutOfScope
  BY <1>3 DEF PlanOutOfScope, Running, FirstPlan, CountIteration, Go, GMax,
     planning, memo, history
<1>4. CASE PlanCached
  BY <1>4 DEF PlanCached, Running, MayReuse, FirstPlan, CountIteration, Go,
     GMax, planning, memo, history
<1>5. CASE PlanSearch
  BY <1>5 DEF PlanSearch, Running, MayReuse, FirstPlan, CountIteration, Go,
     Spend, GMax, planning, memo, history
<1>6. CASE PlanGate
  BY <1>6 DEF PlanGate, Running, Go, Park, Retrieval, planning, memo,
     history
<1>7. CASE AnswerPlan
  BY <1>7 DEF AnswerPlan, Resume, Resumed, Retrieval, planning, memo,
     history
<1>8. CASE Search
  BY <1>8 DEF Search, Running, Go, planning, memo, history
<1>9. CASE Collector
  BY <1>9 DEF Collector, Running, Go, planning, memo, history
<1>10. CASE Enrich
  BY <1>10 DEF Enrich, Running, Go, planning, memo, history
<1>11. CASE Retrieve
  BY <1>11 DEF Retrieve, Running, Go, Spend, planning, memo, history
<1>12. CASE Extract
  BY <1>12 DEF Extract, Running, Go, planning, memo, history
<1>13. CASE Critic
  BY <1>13 DEF Critic, Running, Go, Spend, CanLoop, RemainingIterations,
     planning, memo, history
<1>14. CASE Hitl
  BY <1>14 DEF Hitl, Running, Park, planning, memo, history
<1>15. CASE AnswerHitl
  BY <1>15 DEF AnswerHitl, Resume, Resumed, GMin, GMax, planning, memo,
     history
<1>16. CASE ReportCached
  BY <1>16 DEF ReportCached, Running, Go, planning, memo, history
<1>17. CASE ReportRewrite
  BY <1>17 DEF ReportRewrite, Running, Go, Spend, planning, memo, history
<1>18. CASE WriteReport
  BY <1>18 DEF WriteReport, Running, Go, Spend, Reloops,
     RemainingIterations, TerminalStatus, planning, memo, history
<1>19. CASE MemoSkipped
  BY <1>19 DEF MemoSkipped, Running, Reviewable, End, planning, memo,
     history
<1>20. CASE MemoMandatory
  BY <1>20 DEF MemoMandatory, Running, Go, planning, memo, history
<1>21. CASE MemoRewrite
  BY <1>21 DEF MemoRewrite, Running, Go, planning, memo, history
<1>22. CASE MemoReview
  BY <1>22 DEF MemoReview, Running, Park, planning, memo, history
<1>23. CASE AnswerMemo
  BY <1>23 DEF AnswerMemo, Resume, Resumed, End, planning, memo, history
<1>24. CASE PauseForCredits
  BY <1>24 DEF PauseForCredits, Park, planning, memo, history
<1>25. CASE ContinueCredits
  BY <1>25 DEF ContinueCredits, Resume, Resumed, Spend, planning, memo,
     history
<1>26. CASE CancelCredits
  BY <1>26 DEF CancelCredits, Resume, Resumed, planning, memo, history
<1>27. CASE AnswerIgnored
  BY <1>27 DEF AnswerIgnored, planning, memo, history
<1>28. CASE Restart
  BY <1>28 DEF Restart, planning, memo, history
<1> QED BY <1>1, <1>2, <1>3, <1>4, <1>5, <1>6, <1>7, <1>8, <1>9, <1>10,
        <1>11, <1>12, <1>13, <1>14, <1>15, <1>16, <1>17, <1>18, <1>19,
        <1>20, <1>21, <1>22, <1>23, <1>24, <1>25, <1>26, <1>27, <1>28 DEF
        Next, Step, Human, Plan, Report, Memo

\* Leaving everything as it is.
LEMMA Stutter == ASSUME IInv, UNCHANGED vars PROVE IInv'
<1>1. UNCHANGED <<node, status, gate, frame, iter, maxIter, calls, tokensLeft, agents,
                  planConfirmed, followups, reuse, prior, draft, missing, regens,
                  mandatory, integrity, fresh, anonymous, said, promised>>
  BY DEF vars, control, budget, planning, memo, request, history
<1>2. TypeOK'
  <2>1. ControlOK' /\ NotesOK'
    BY <1>1 DEF IInv, TypeOK, ControlOK, NotesOK
  <2>2. CountersOK'
    BY <1>1 DEF IInv, TypeOK, CountersOK
  <2>3. FlagsOK'
    BY <1>1 DEF IInv, TypeOK, FlagsOK
  <2> QED BY <2>1, <2>2, <2>3 DEF TypeOK
<1>3. /\ BriefingComesFirst' /\ PassHasIteration' /\ IterationCap'
      /\ RepeatPassHasQuestion' /\ FreshFromTheStart'
  BY <1>1 DEF IInv, BriefingComesFirst, PassHasIteration, IterationCap,
              RepeatPassHasQuestion, FreshFromTheStart
<1>4. /\ PlanUnconfirmed' /\ PlanReviewedBeforeSearch' /\ IntegrityPassPaid'
      /\ CompletedIsKnown' /\ TerminalIsOver'
  BY <1>1 DEF IInv, PlanUnconfirmed, PlanReviewedBeforeSearch, IntegrityPassPaid,
              CompletedIsKnown, TerminalIsOver
<1> QED BY <1>2, <1>3, <1>4 DEF IInv

\* The first state.
LEMMA InitInv == Init => IInv
<1>1. Init => ControlOK
  BY DEF Init, ControlOK, Nodes, Statuses, Terminal, Gates, ModelNodes
<1>2. Init => maxIter \in Nat \ {0}
  BY IterationsAssumption DEF Init
<1>3. Init => iter = 0 /\ calls = Pool /\ regens = 0 /\ mandatory = 0 /\ integrity = 0
  BY DEF Init
<1>4. Init => CountersOK /\ IterationCap
  BY <1>2, <1>3, PoolAssumption DEF CountersOK, IterationCap
<1>5. Init => FlagsOK /\ NotesOK
  BY DEF Init, FlagsOK, NotesOK
<1>6. Init => /\ BriefingComesFirst /\ PassHasIteration /\ RepeatPassHasQuestion
              /\ FreshFromTheStart /\ PlanUnconfirmed /\ PlanReviewedBeforeSearch
              /\ IntegrityPassPaid /\ CompletedIsKnown /\ TerminalIsOver
  BY DEF Init, BriefingComesFirst, PassHasIteration, RepeatPassHasQuestion,
         FreshFromTheStart, PlanUnconfirmed, PlanReviewedBeforeSearch,
         IntegrityPassPaid, CompletedIsKnown, TerminalIsOver
<1> QED BY <1>1, <1>4, <1>5, <1>6 DEF IInv, TypeOK

LEMMA NextInv == ASSUME IInv, [Next]_vars PROVE IInv'
<1>1. CASE Next
  <2>1. TypeOK'
    BY <1>1, ControlStep, CountersStep, FlagsStep, NotesStep DEF IInv, TypeOK
  <2> QED BY <1>1, <2>1, CountStep, QuestionStep, FreshStep, PlanStep, IntegrityStep, EndStep
             DEF IInv
<1>2. CASE UNCHANGED vars
  BY <1>2, Stutter
<1> QED BY <1>1, <1>2

\* The inductive invariant holds in every state of the graph (builder.py and its
\* nodes).
THEOREM GraphInvariance == Spec => []IInv
<1> QED BY InitInv, NextInv, PTL DEF Spec

\* Every part of the checkpoint keeps its type, and a parked run is parked at
\* the node whose gate it waits on.
THEOREM GraphTypeCorrect == Spec => []TypeOK
<1>1. IInv => TypeOK
  BY DEF IInv
<1> QED BY <1>1, GraphInvariance, PTL

\* What a human must have seen, what a fresh run must not take from the store,
\* and what every pass is allowed and asked to do.
LEMMA InvariantImplies ==
    IInv => /\ PublishedAfterReview /\ PlanReviewedBeforeSearch /\ FreshNeverReused
            /\ RepeatPassHasQuestion /\ IntegrityReloopRuns /\ IterationCap
<1>1. IInv => PublishedAfterReview
  BY DEF IInv, PublishedAfterReview, CompletedIsKnown, TerminalIsOver, Outcome, Terminal
<1>2. IInv => FreshNeverReused
  BY DEF IInv, FreshNeverReused, FreshFromTheStart
<1>3. IInv => IntegrityReloopRuns
  BY DEF IInv, IntegrityReloopRuns, IntegrityPassPaid
<1> QED BY <1>1, <1>2, <1>3 DEF IInv

\* No researched memo is reported as completed that no human published
\* (memo_gate.py, runtime.py).
THEOREM MemosAreReviewed == Spec => []PublishedAfterReview
<1> QED BY InvariantImplies, GraphInvariance, PTL

\* No first plan is searched that no human saw (plan_gate.py).
THEOREM PlansAreReviewed == Spec => []PlanReviewedBeforeSearch
<1> QED BY InvariantImplies, GraphInvariance, PTL

\* A fresh run is never answered from the store (planner.py).
THEOREM FreshStaysFresh == Spec => []FreshNeverReused
<1> QED BY InvariantImplies, GraphInvariance, PTL

\* The integrity re-loop of report.py always finds calls to search with.
THEOREM IntegrityPassSearches == Spec => []IntegrityReloopRuns
<1> QED BY InvariantImplies, GraphInvariance, PTL

\* Whoever sends a run back to the planner leaves it questions to chase
\* (critic.py, hitl.py, memo_gate.py, report.py).
THEOREM RepeatPassesAreAsked == Spec => []RepeatPassHasQuestion
<1> QED BY InvariantImplies, GraphInvariance, PTL

\* Only a human takes a run past its iterations (planner.py, critic.py, hitl.py).
THEOREM IterationsAreCapped == Spec => []IterationCap
<1> QED BY InvariantImplies, GraphInvariance, PTL

-----------------------------------------------------------------------------
(* Termination: what is left to do without a human decreases.              *)

\* Every node has its rank.
LEMMA RankValues ==
    /\ Rank["briefing"] = 13 /\ Rank["planner"] = 12 /\ Rank["plan_gate"] = 11
    /\ Rank["search"] = 10 /\ Rank["collector"] = 9 /\ Rank["enrich"] = 8
    /\ Rank["retrieve"] = 7 /\ Rank["extract"] = 6 /\ Rank["critic"] = 5
    /\ Rank["hitl"] = 4 /\ Rank["report"] = 3 /\ Rank["memo_gate"] = 2 /\ Rank["end"] = 1
  BY DEF Rank, Nodes

LEMMA RankTypes == \A n \in Nodes : Rank[n] \in 1..13
  BY RankValues DEF Nodes

\* Moving down costs nothing else.
LEMMA Descent ==
    ASSUME TypeOK, TypeOK', frame = "none",
           UNCHANGED <<iter, maxIter, mandatory, integrity, regens>>,
           \/ node' = node /\ frame' # "none"
           \/ node # "planner" /\ node' # "planner" /\ Rank[node'] < Rank[node]
           \/ node = "briefing" /\ node' = "planner"
    PROVE  WorkLeft' < WorkLeft
<1>1. /\ iter \in Nat /\ maxIter \in Nat /\ node \in Nodes /\ node' \in Nodes
      /\ regens \in Nat /\ mandatory \in Nat /\ integrity \in Nat
  BY PoolAssumption DEF TypeOK, CountersOK, ControlOK
<1>2. RetriesLeft' = RetriesLeft /\ RetriesLeft \in Int
  BY <1>1, PoolAssumption DEF RetriesLeft
<1>3. IterationsToCome' = IterationsToCome /\ IterationsToCome \in Nat
  BY <1>1, IterationsAssumption DEF IterationsToCome, GMax
<1>4. PassesLeft \in Int /\ PassesLeft' \in Int
  BY <1>1, <1>3 DEF PassesLeft
<1>5. CASE node' = node /\ frame' # "none"
  <2>1. PassesLeft' = PassesLeft
    BY <1>3, <1>5 DEF PassesLeft
  <2> QED BY <1>1, <1>2, <1>4, <1>5, <2>1, RankTypes DEF WorkLeft
<1>6. CASE node' # "planner" /\ Rank[node'] < Rank[node] /\ node # "planner"
  <2>1. PassesLeft' = PassesLeft
    BY <1>3, <1>6 DEF PassesLeft
  <2> QED BY <1>1, <1>2, <1>4, <1>6, <2>1, RankTypes DEF WorkLeft
<1>8. CASE node = "briefing" /\ node' = "planner"
  <2>1. PassesLeft' = PassesLeft \/ PassesLeft' = PassesLeft - 1
    BY <1>1, <1>3, <1>8 DEF PassesLeft
  <2>2. Rank[node] = 13 /\ Rank[node'] = 12
    BY <1>8, RankValues
  <2>3. CASE PassesLeft' = PassesLeft
    BY <1>2, <1>4, <2>2, <2>3 DEF WorkLeft
  <2>4. CASE PassesLeft' = PassesLeft - 1
    BY <1>2, <1>4, <2>2, <2>4 DEF WorkLeft
  <2> QED BY <2>1, <2>3, <2>4
<1> QED BY <1>5, <1>6, <1>8

\* A pass that is counted is one the measure had already taken off.
LEMMA PassCounted ==
    ASSUME TypeOK, TypeOK', frame = "none", node = "planner", CountIteration,
           UNCHANGED <<mandatory, integrity, regens>>, node' \in {"report", "plan_gate"}
    PROVE  WorkLeft' < WorkLeft
<1>1. /\ iter \in Nat /\ maxIter \in Nat /\ iter' = iter + 1
      /\ regens \in Nat /\ mandatory \in Nat /\ integrity \in Nat
  BY PoolAssumption DEF TypeOK, CountersOK, CountIteration
<1>2. RetriesLeft' = RetriesLeft /\ RetriesLeft \in Int
  BY <1>1, PoolAssumption DEF RetriesLeft
<1>3. maxIter' = IterationsToCome /\ IterationsToCome \in Nat /\ IterationsToCome' = maxIter'
  BY <1>1, IterationsAssumption DEF IterationsToCome, CountIteration, GMax
<1>4. PassesLeft' = PassesLeft /\ PassesLeft \in Int
  BY <1>1, <1>3 DEF PassesLeft
<1>5. Rank[node] = 12 /\ Rank[node'] \in {3, 11}
  BY RankValues
<1> QED BY <1>2, <1>4, <1>5 DEF WorkLeft

\* Going back to the planner takes a pass; a retry of the memo is one less.
LEMMA BackToPlanner ==
    ASSUME TypeOK, TypeOK', frame = "none", node # "planner", node' = "planner",
           iter < maxIter, UNCHANGED <<iter, maxIter, mandatory, regens>>,
           integrity' \in {integrity, integrity + 1}
    PROVE  WorkLeft' < WorkLeft
<1>1. /\ iter \in Nat /\ maxIter \in Nat /\ node \in Nodes
      /\ regens \in Nat /\ mandatory \in Nat /\ integrity \in Nat
  BY PoolAssumption DEF TypeOK, CountersOK, ControlOK
<1>2. RetriesLeft \in Int /\ (RetriesLeft' = RetriesLeft \/ RetriesLeft' = RetriesLeft - 1)
  <2>1. CASE integrity' = integrity
    BY <1>1, <2>1, PoolAssumption DEF RetriesLeft
  <2>2. CASE integrity' = integrity + 1
    BY <1>1, <2>2, PoolAssumption DEF RetriesLeft
  <2> QED BY <2>1, <2>2
<1>3. /\ IterationsToCome' = IterationsToCome /\ IterationsToCome \in Nat
      /\ iter < IterationsToCome
  BY <1>1, IterationsAssumption DEF IterationsToCome, GMax
<1>4. PassesLeft \in Int /\ PassesLeft' = PassesLeft - 1
  BY <1>1, <1>3 DEF PassesLeft
<1>5. Rank[node'] = 12 /\ Rank[node] \in 1..13
  BY <1>1, RankValues, RankTypes
<1> QED BY <1>2, <1>4, <1>5 DEF WorkLeft

LEMMA RetryOfMemo ==
    ASSUME TypeOK, TypeOK', frame = "none", node = "memo_gate",
           node' \in {"critic", "report"}, UNCHANGED <<iter, maxIter, integrity>>,
           \/ mandatory' = mandatory + 1 /\ UNCHANGED regens
           \/ regens' = regens + 1 /\ UNCHANGED mandatory
    PROVE  WorkLeft' < WorkLeft
<1>1. /\ iter \in Nat /\ maxIter \in Nat
      /\ regens \in Nat /\ mandatory \in Nat /\ integrity \in Nat
  BY PoolAssumption DEF TypeOK, CountersOK
<1>2. RetriesLeft' = RetriesLeft - 1 /\ RetriesLeft \in Int
  BY <1>1, PoolAssumption DEF RetriesLeft
<1>3. IterationsToCome' = IterationsToCome /\ IterationsToCome \in Nat
  BY <1>1, IterationsAssumption DEF IterationsToCome, GMax
<1>4. PassesLeft \in Int /\ PassesLeft' = PassesLeft
  BY <1>1, <1>3 DEF PassesLeft
<1>5. Rank[node] = 2 /\ Rank[node'] \in {5, 3}
  BY RankValues
<1> QED BY <1>2, <1>4, <1>5 DEF WorkLeft


\* The steps that only go down, or stop.
LEMMA DescentStep ==
    ASSUME TypeOK, TypeOK', frame = "none",
           \/ Briefing \/ PlanGate \/ Search \/ Collector \/ Enrich \/ Retrieve
           \/ Extract \/ Hitl \/ ReportCached \/ ReportRewrite \/ MemoSkipped
           \/ MemoReview \/ PauseForCredits \/ Restart
    PROVE  WorkLeft' < WorkLeft
<1> USE RankValues DEF budget, memo, Running, Go, Park
<1>1. CASE Briefing
  BY <1>1, Descent DEF Briefing
<1>2. CASE PlanGate
  <2>1. node = "plan_gate" /\ UNCHANGED <<iter, maxIter, mandatory, integrity, regens>>
    BY <1>2 DEF PlanGate
  <2>2. \/ node' = node /\ frame' # "none"
        \/ node' \in {"search", "collector"}
    BY <1>2 DEF PlanGate, Retrieval
  <2> QED BY <2>1, <2>2, Descent
<1>3. CASE Search
  BY <1>3, Descent DEF Search
<1>4. CASE Collector
  BY <1>4, Descent DEF Collector
<1>5. CASE Enrich
  BY <1>5, Descent DEF Enrich
<1>6. CASE Retrieve
  BY <1>6, Descent DEF Retrieve
<1>7. CASE Extract
  BY <1>7, Descent DEF Extract
<1>8. CASE Hitl
  BY <1>8, Descent DEF Hitl
<1>9. CASE ReportCached
  BY <1>9, Descent DEF ReportCached
<1>10. CASE ReportRewrite
  BY <1>10, Descent DEF ReportRewrite
<1>11. CASE MemoSkipped
  BY <1>11, Descent DEF MemoSkipped, End
<1>12. CASE MemoReview
  BY <1>12, Descent DEF MemoReview
<1>13. CASE PauseForCredits
  BY <1>13, Descent DEF PauseForCredits
<1>14. CASE Restart
  BY <1>14, Descent DEF Restart
<1> QED BY <1>1, <1>2, <1>3, <1>4, <1>5, <1>6, <1>7, <1>8, <1>9,
            <1>10, <1>11, <1>12, <1>13, <1>14

\* Every step that no human takes.
LEMMA AutoStep ==
    ASSUME TypeOK, TypeOK', Next, frame = "none"
    PROVE  WorkLeft' < WorkLeft
<1>1. CASE PlanOutOfScope \/ PlanCached \/ PlanSearch
  <2>1. /\ node = "planner" /\ CountIteration /\ node' \in {"report", "plan_gate"}
        /\ UNCHANGED <<mandatory, integrity, regens>>
    BY <1>1 DEF PlanOutOfScope, PlanCached, PlanSearch, Running, Go, memo
  <2> QED BY <2>1, PassCounted
<1>2. CASE Critic
  <2>1. /\ node = "critic" /\ UNCHANGED <<iter, maxIter, mandatory, integrity, regens>>
        /\ node' \in {"planner", "hitl"}
    BY <1>2 DEF Critic, Running, Go, memo
  <2>2. node' = "planner" => iter < maxIter
    BY <1>2 DEF Critic, Go, CanLoop, RemainingIterations
  <2>3. CASE node' = "planner"
    BY <2>1, <2>2, <2>3, BackToPlanner
  <2>4. CASE node' = "hitl"
    BY <2>1, <2>4, Descent, RankValues
  <2> QED BY <2>1, <2>3, <2>4
<1>3. CASE WriteReport
  <2>1. node = "report" /\ UNCHANGED <<iter, maxIter, mandatory, regens>>
    BY <1>3 DEF WriteReport, Running
  <2>2. \/ node' = "memo_gate" /\ UNCHANGED integrity
        \/ node' = "planner" /\ integrity' = integrity + 1 /\ iter < maxIter
    BY <1>3 DEF WriteReport, Go, Reloops, RemainingIterations
  <2>3. CASE node' = "memo_gate" /\ UNCHANGED integrity
    BY <2>1, <2>3, Descent, RankValues
  <2>4. CASE node' = "planner" /\ integrity' = integrity + 1 /\ iter < maxIter
    BY <2>1, <2>4, BackToPlanner
  <2> QED BY <2>2, <2>3, <2>4
<1>4. CASE MemoMandatory \/ MemoRewrite
  BY <1>4, RetryOfMemo DEF MemoMandatory, MemoRewrite, Running, Go, budget
<1>5. CASE Human
  BY <1>5 DEF Human, AnswerBrief, AnswerPlan, AnswerHitl, AnswerMemo, ContinueCredits,
              CancelCredits, AnswerIgnored, Resume
<1> QED BY <1>1, <1>2, <1>3, <1>4, <1>5, DescentStep DEF Next, Step, Plan, Report, Memo

\* Between two answers of a human, every step of the graph leaves less to do: no
\* loop of builder.py runs for ever.
THEOREM LoopsEnd == Spec => AutoStepsDecrease
<1>1. ASSUME IInv, IInv', [Next]_vars
      PROVE  [frame = "none" => WorkLeft' < WorkLeft]_vars
  BY <1>1, AutoStep DEF IInv
<1> QED BY <1>1, GraphInvariance, PTL DEF Spec, AutoStepsDecrease
=============================================================================
