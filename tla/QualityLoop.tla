---------------------------- MODULE QualityLoop ----------------------------
(* When a run has read enough, and when its memo is good enough               *)
(* (domain/coverage.py, graph/nodes/critic.py, after_critic of               *)
(* graph/builder.py, graph/nodes/memo_gate.py, domain/memo_quality.py).       *)
(*                                                                            *)
(* Three judges look at the same evidence with thresholds of their own: the   *)
(* critic, which asks for another round; the edge after it, which may stop    *)
(* the rounds early; and the memo gate, which has a badly written memo        *)
(* rewritten unless the evidence is to blame.                                 *)
(*                                                                            *)
(* The dimensions of a question are numbered from the critical ones on, and   *)
(* so are the gaps a follow-up may be about: a dimension, a named subject,    *)
(* the want of a primary source, or a question of the model's own.            *)
EXTENDS Integers, Sequences, FiniteSets

CONSTANTS
  Dims, CriticalDims,  \* 1..N, the critical ones first
  Questions,           \* what is asked: [numbers: BOOLEAN, code: SUBSET Dims]
  Grades,              \* the evidence a run may come to the critic with
  Findings,            \* the evidence further rounds may lead to
  GapLimit,            \* follow-ups of one round, by the depth of the brief
  MaxRounds,           \* budget.max_iterations
  MaxSentBack,         \* bound: times a person asks for more
  MaxRegenerations     \* QualityThresholds.MAX_QUALITY_REGENERATIONS

\* What a run may know: the status of each dimension and what _research_quality counts.
Gradable == [status : [Dims -> {"open", "weak", "covered"}], rows : Nat, primary : Nat, works : Nat,
             measured : Nat, topShare : Nat, named : BOOLEAN, impl : BOOLEAN]

ASSUME DimsAssumption ==
  /\ IsFiniteSet(Dims) /\ CriticalDims \subseteq Dims /\ Dims \subseteq Nat \ {0}
  /\ Grades \cup Findings \subseteq Gradable
  /\ Questions \subseteq [numbers : BOOLEAN, code : SUBSET Dims]

NamedSubject == Cardinality(Dims) + 1
PrimarySource == NamedSubject + 1
OwnQuestion == PrimarySource + 1

Faults == {"duplicate", "stacked", "saturated", "filler", "placeholder",
           "composite", "no_analysis", "mandatory"}

VARIABLES
  where,        \* "critic", "edge", "search", "hitl", "report", "memo_gate", "review", "end"
  question,
  found,        \* the evidence, as scored per dimension
  verdict,      \* [status, gate, coverage, score, must]
  followups,    \* the gaps the next round searches for
  attempted,    \* _last_followup_gap_ids
  unproductive, \* _unproductive_gap_ids
  history,      \* the last three snapshots of _quality_history
  rounds,       \* budget.iterations
  calls,        \* the retrieval pool is not empty
  tokens,       \* the token budget is not spent
  draft,        \* the faults of the memo
  regenerations, mandatoryRetries, sentBack,
  fruitless     \* history: gaps whose search changed nothing

qualityVars == <<where, question, found, verdict, followups, attempted, unproductive,
                 history, rounds, calls, tokens, draft, regenerations,
                 mandatoryRetries, sentBack, fruitless>>
memoVars == <<draft, regenerations, mandatoryRetries>>

----------------------------------------------------------------------------
(* score_must_answer and _research_quality.  A finding has a status for each  *)
(* dimension, rows, primary sources, works, rows with a measured figure, the  *)
(* share (%) of its largest work, whether each subject the question names has *)
(* evidence of its own, and whether it holds an official implementation.      *)

\* Python's round: to the nearest, ties to even.
Rounded(a, b) ==
  LET q == a \div b  r == a % b
  IN  IF 2 * r > b \/ (2 * r = b /\ q % 2 = 1) THEN q + 1 ELSE q
Percent(n, d) == Rounded(100 * (IF n < d THEN n ELSE d), d)

With(f, status) == {d \in Dims : f.status[d] = status}
CriticalGaps(f) == {d \in CriticalDims : f.status[d] # "covered"}
Total(dims) == IF dims = {} THEN 1 ELSE Cardinality(dims)
MustPct(f) == Percent(Cardinality(With(f, "covered")), Total(Dims))

CriticalPct(f) ==
  LET half == 2 * Cardinality(CriticalDims \cap With(f, "covered"))
              + Cardinality(CriticalDims \cap With(f, "weak"))
  IN  Percent(half, 2 * Total(CriticalDims))

PrimaryPct(f) ==
  LET half == Cardinality(Dims) \div 2
  IN  Percent(f.primary, IF half > 3 THEN half ELSE 3)

ImplementationPct(f, q) ==
  CASE q.code \subseteq With(f, "covered") -> 100
    [] ~(q.code \subseteq With(f, "covered"))
       /\ (f.impl \/ q.code \cap With(f, "weak") # {}) -> 50
    [] OTHER -> 0
FifthPct(f, q) == IF q.code # {} THEN ImplementationPct(f, q) ELSE Percent(f.works, 4)
QuantPct(f, q) == IF q.numbers THEN Percent(f.measured, 3) ELSE 100

Weighted(f, q) ==
  Rounded(35 * MustPct(f) + 30 * CriticalPct(f) + 15 * PrimaryPct(f)
          + 5 * Percent(Cardinality(With(f, "covered")), 4)
          + 5 * FifthPct(f, q) + 10 * QuantPct(f, q), 100)

Least(S) == CHOOSE x \in S : \A y \in S : x <= y

Ceilings(f, q) ==
  {c \in {35, 45, 55, 65, 70, 80} :
     \/ c = 80 /\ CriticalDims \cap With(f, "weak") # {}
     \/ c = 65 /\ CriticalDims \cap With(f, "open") # {}
     \/ c = 35 /\ f.primary = 0 /\ f.rows < 3
     \/ c = 45 /\ f.primary = 0 /\ f.rows \in 3 .. 4
     \/ c = 55 /\ f.primary = 0 /\ f.rows >= 5
     \/ c = 70 /\ q.numbers /\ f.measured < 2}

NoWeakPenalty(f) ==     \* mutant: weak dimensions cost nothing
  Least({10, 3 * Cardinality(With(f, "open"))})
Penalty(f) ==
  LET few == CASE f.rows \in 1 .. 2 -> 25
               [] f.rows \in 3 .. 4 -> 15
               [] f.rows \in 5 .. 7 -> 8
               [] OTHER -> 0
  IN  Least({10, 3 * Cardinality(With(f, "open"))})
      + Least({5, 2 * Cardinality(With(f, "weak"))})
      + (IF f.primary \in 1 .. 2 THEN 5 ELSE 0) + few

\* One dimension in two unanswered, or one work behind most of it.
LateCeilings(f) ==
  {c \in {45, 52, 70} :
     \/ c = 45 /\ MustPct(f) < 50
     \/ c = 52 /\ MustPct(f) \in 50 .. 59
     \/ c = 70 /\ f.topShare > 35}

DepthScore(f, q) ==
  LET capped == Least({Weighted(f, q)} \cup Ceilings(f, q)) - Penalty(f)
  IN  Least({IF capped > 0 THEN capped ELSE 0} \cup LateCeilings(f))

DepthLabel(f, q) ==
  CASE DepthScore(f, q) >= 85 /\ CriticalGaps(f) = {} -> "deep"
    [] DepthScore(f, q) < 55 -> "shallow"
    [] OTHER -> "standard"

----------------------------------------------------------------------------
(* The critic's gate and the gaps it has searched for.                        *)

(* critic_should_pass *)
ShouldPass(f, q) ==
  /\ f.rows > 0
  /\ f.named
  /\ CriticalGaps(f) = {}
  /\ f.primary > 0
  /\ MustPct(f) >= 65
  /\ f.impl \/ q.code \subseteq With(f, "covered")

OpenGaps(f) ==
  (Dims \ With(f, "covered"))
  \cup {g \in {NamedSubject} : ~f.named}
  \cup {g \in {PrimarySource} : f.primary = 0}

(* followups_for_gaps: critical gaps first, then the others in their order. *)
First(gaps, limit) == {g \in gaps : Cardinality({h \in gaps : h < g}) < limit}
FollowupsForgetful(f, aside, limit) == First(OpenGaps(f), limit)   \* mutant
FollowupsForGaps(f, aside, limit) == First(OpenGaps(f) \ aside, limit)

Snapshot(f, q) == [sources |-> f.rows, must |-> MustPct(f), score |-> DepthScore(f, q)]

CanLoop2 == rounds < MaxRounds /\ calls
Exhausted == ~calls \/ ~tokens \/ rounds >= MaxRounds

(* compute_coverage_gate *)
GateReason(ok, status, loops) ==
  CASE status = "contradicted" -> "contradicted"
    [] status # "contradicted" /\ ok -> "sufficient"
    [] status # "contradicted" /\ ~ok /\ loops /\ ~Exhausted -> "insufficient_coverage"
    [] OTHER -> "insufficient_budget"

(* What the verdict keeps of the coverage for the nodes after the critic; the
   depth score goes to a field of its own. *)
CoverageOf(f) == [gaps |-> CriticalGaps(f), primary |-> f.primary, sources |-> f.rows]

LastThree(h) == IF Len(h) > 3 THEN Tail(h) ELSE h

(* The verdict of the model or of _heuristic_critic, then the hard gate over
   it.  A contradicted verdict keeps its own follow-ups when the gate holds. *)
Unmoved == history # <<>> /\ history[Len(history)] = Snapshot(found, question)
Aside == unproductive \cup (IF Unmoved THEN attempted ELSE {})
CriticJudges ==
  /\ where = "critic"
  /\ LET ok == ShouldPass(found, question)
         now == Snapshot(found, question)
         label == DepthLabel(found, question)
         asked == FollowupsForGaps(found, Aside, GapLimit)
         own == {{}, {OwnQuestion}, FollowupsForGaps(found, {}, 2)}
     IN  /\ \E opinion \in {"sufficient", "contradicted"} :    \* or insufficient, alike
           LET status == IF opinion = "contradicted" THEN opinion
                         ELSE IF ok THEN "sufficient" ELSE "insufficient"
           IN  /\ verdict' = [status |-> status, gate |-> GateReason(ok, status, CanLoop2),
                              coverage |-> CoverageOf(found),
                              must |-> now.must, score |-> now.score, label |-> label]
               /\ followups' \in CASE ~CanLoop2 -> {{}}
                                   [] CanLoop2 /\ ~ok -> {asked}
                                   [] CanLoop2 /\ ok /\ status = "contradicted" -> own
                                   [] OTHER -> {{}}
         /\ attempted' = IF CanLoop2 /\ ~ok THEN asked ELSE {}
         /\ unproductive' = Aside
         /\ history' = LastThree(Append(history, now))
  /\ where' = "edge"
  /\ UNCHANGED <<question, found, rounds, calls, tokens, memoVars, sentBack, fruitless>>

Excellent == verdict.must >= 75 /\ verdict.score >= 80

Distance(a, b) == IF a > b THEN a - b ELSE b - a
Stagnant ==
  /\ Len(history) = 3
  /\ \A i \in 1 .. 2 :
       /\ history[i].sources = history[i + 1].sources
       /\ Distance(history[i].must, history[i + 1].must) < 2
       /\ Distance(history[i].score, history[i + 1].score) < 3

(* after_critic *)
AfterCritic ==
  /\ where = "edge"
  /\ where' = IF Exhausted \/ verdict.status = "sufficient" \/ followups = {}
                 \/ Excellent \/ Stagnant
              THEN "hitl" ELSE "search"
  /\ UNCHANGED <<question, found, verdict, followups, attempted, unproductive, history,
                 rounds, calls, tokens, memoVars, sentBack, fruitless>>

(* A round of the planner, the collectors, merge, enrich and extract: nothing
   a run has read is taken away, but what it says of a dimension is scored anew. *)
SearchAgain ==
  /\ where = "search"
  /\ found' \in {found} \cup {f \in Findings : f.rows >= found.rows}
  /\ rounds' = rounds + 1
  /\ calls' \in {c \in BOOLEAN : c => calls}
  /\ tokens' \in {t \in BOOLEAN : t => tokens}
  /\ fruitless' = IF verdict.status = "insufficient"
                      /\ Snapshot(found', question) = Snapshot(found, question)
                   THEN fruitless \cup (followups \ {OwnQuestion}) ELSE fruitless
  /\ where' = "critic"
  /\ UNCHANGED <<question, verdict, followups, attempted, unproductive, history,
                 memoVars, sentBack>>

(* The person at the evidence gate approves, or asks for more in words of
   their own. *)
ApproveEvidence ==
  /\ where = "hitl" /\ where' = "report"
  /\ UNCHANGED <<question, found, verdict, followups, attempted, unproductive, history,
                 rounds, calls, tokens, memoVars, sentBack, fruitless>>
DigFurther ==
  /\ where = "hitl" /\ sentBack < MaxSentBack
  /\ sentBack' = sentBack + 1 /\ followups' = {OwnQuestion} /\ where' = "search"
  /\ UNCHANGED <<question, found, verdict, attempted, unproductive, history,
                 rounds, calls, tokens, memoVars, fruitless>>

----------------------------------------------------------------------------
(* The memo gate.                                                             *)

WriteReport ==
  /\ where = "report"
  /\ draft' \in {{}} \cup {{x} : x \in Faults}
  /\ where' = "memo_gate"
  /\ UNCHANGED <<question, found, verdict, followups, attempted, unproductive, history,
                 rounds, calls, tokens, regenerations, mandatoryRetries, sentBack, fruitless>>

(* declutter_citations takes surplus markers out of the prose. *)
Decluttered(d) == d \ {"stacked", "saturated"}

(* validate_memo_structure: what counts as an error; generic headings, dense
   citations and an empty table are warnings. *)
StructureErrors(d) == d \cap {"composite", "no_analysis"}

(* check_memo_quality.  A worked example drawn from several sources is an
   issue, but no cause for a rewrite. *)
GenerationFaults(d) == d \cap {"duplicate", "stacked", "saturated", "filler", "placeholder"}

(* _is_retrieval_issue reads coverage["depth_score"]["must_answer"]["pct"], and
   0 when there is none. *)
MustOf(coverage) == IF "must" \in DOMAIN coverage THEN coverage.must ELSE 0
IsRetrievalIssue(coverage) ==
  MustOf(coverage) < 65 \/ coverage.gaps # {} \/ coverage.primary = 0

ShouldRegenerate(d, coverage) ==
  \/ GenerationFaults(d) # {} /\ ~IsRetrievalIssue(coverage)
  \/ StructureErrors(d) # {}
  \/ "mandatory" \in d

MandatoryPass ==
  /\ where = "memo_gate" /\ "mandatory" \in draft /\ mandatoryRetries < 1
  /\ mandatoryRetries' = mandatoryRetries + 1
  /\ followups' = {OwnQuestion}
  /\ where' = "critic"
  /\ draft' = {}    \* it is written anew
  /\ UNCHANGED <<question, found, verdict, attempted, unproductive, history,
                 rounds, calls, tokens, regenerations, sentBack, fruitless>>

ReviewOrRewrite ==
  /\ where = "memo_gate"
  /\ "mandatory" \in draft => mandatoryRetries >= 1
  /\ IF /\ ShouldRegenerate(Decluttered(draft), verdict.coverage)
        /\ regenerations < MaxRegenerations
     THEN /\ regenerations' = regenerations + 1 /\ where' = "report"
          /\ UNCHANGED draft
     ELSE /\ draft' = Decluttered(draft) /\ where' = "review"
          /\ UNCHANGED regenerations
  /\ UNCHANGED <<question, found, verdict, followups, attempted, unproductive, history,
                 rounds, calls, tokens, mandatoryRetries, sentBack, fruitless>>

PublishMemo ==
  /\ where = "review" /\ where' = "end"
  /\ UNCHANGED <<question, found, verdict, followups, attempted, unproductive, history,
                 rounds, calls, tokens, memoVars, sentBack, fruitless>>

(* "revise_critic": the memo goes back to the critic, which looks again at what
   is there; the person's questions are its follow-ups until then. *)
SendBack ==
  /\ where = "review" /\ sentBack < MaxSentBack
  /\ sentBack' = sentBack + 1 /\ followups' = {OwnQuestion} /\ where' = "critic"
  /\ draft' = {}
  /\ UNCHANGED <<question, found, verdict, attempted, unproductive, history,
                 rounds, calls, tokens, regenerations, mandatoryRetries, fruitless>>

NoVerdict == [status |-> "none", gate |-> "none", must |-> 0, score |-> 0, label |-> "none",
              coverage |-> [gaps |-> {}, primary |-> 0, sources |-> 0]]

QualityInit ==
  /\ where = "critic"
  /\ question \in Questions /\ found \in Grades
  /\ verdict = NoVerdict /\ followups = {} /\ attempted = {} /\ unproductive = {}
  /\ history = <<>> /\ calls = TRUE /\ tokens = TRUE /\ rounds \in 1 .. MaxRounds
  /\ draft = {} /\ regenerations = 0 /\ mandatoryRetries = 0 /\ sentBack = 0
  /\ fruitless = {}

QualityNext ==
  \/ CriticJudges \/ AfterCritic \/ SearchAgain \/ ApproveEvidence \/ DigFurther
  \/ WriteReport \/ MandatoryPass \/ ReviewOrRewrite \/ PublishMemo \/ SendBack

QualitySpec == QualityInit /\ [][QualityNext]_qualityVars

----------------------------------------------------------------------------
(* Properties.                                                                *)

(* The judges do not contradict each other: evidence that is called deep, or
   so good that the rounds are cut short, leaves no critical dimension, no want
   of a primary source and no third of the dimensions open for the critic to
   reject.  The score, its ceilings and penalties, and the critic's gate are
   computed apart from each other. *)
GradesAgree ==
  verdict.label = "deep" \/ Excellent =>
    verdict.coverage.gaps = {} /\ verdict.coverage.primary > 0 /\ verdict.must >= 65

(* A gap that an insufficient round searched for, with nothing known afterwards
   that was not known before, is never what a later insufficient round searches
   for: the round is left to another gap. *)
FruitlessNotRepeated ==
  where = "edge" /\ verdict.status = "insufficient" => followups \cap fruitless = {}

(* "Align with memo_quality.py threshold to prevent dead zone where critic
   passes but memo_quality refuses regeneration": a badly written memo on
   evidence the critic passed is rewritten before a person has to judge it, as
   long as rewrites are left. *)
NoDeadZone ==
  where = "review" /\ verdict.status = "sufficient" /\ GenerationFaults(draft) # {}
    => regenerations = MaxRegenerations

----------------------------------------------------------------------------
(* What makes them inductive: a fruitless gap is either put aside, or was       *)
(* searched for in the last round with the critic about to see that nothing     *)
(* has moved; and a verdict is always that of some evidence.                    *)

Evidences == Grades \cup Findings
Snapshots == {Snapshot(f, q) : f \in Evidences, q \in Questions}
FruitlessAside ==
  /\ found \in Evidences /\ question \in Questions /\ history \in Seq(Snapshots)
  /\ fruitless \subseteq IF where = "critic" THEN Aside ELSE unproductive
  /\ where # "critic" => Unmoved
  /\ where \in {"edge", "search"} /\ verdict.status = "insufficient" =>
       followups \subseteq attempted \cup {OwnQuestion}
JudgedBy(f, q) ==
  /\ verdict.must = MustPct(f) /\ verdict.score = DepthScore(f, q)
  /\ verdict.label = DepthLabel(f, q) /\ verdict.coverage = CoverageOf(f)
QualityInv ==
  /\ FruitlessAside /\ FruitlessNotRepeated
  /\ verdict = NoVerdict \/ \E f \in Evidences, q \in Questions : JudgedBy(f, q)
=============================================================================
