----------------------------- MODULE MCEvidence -----------------------------
(* What a memo rests on, on a small instance: the retrieval of a run, the     *)
(* grading of what it found, the writing, the passes a report goes through    *)
(* and the check of its claims.  Each takes whatever the others may leave it  *)
(* from a small set, so they share no state and are explored each on its own. *)
EXTENDS Retrieval, ReportPipeline, QualityLoop, MemoWriter, ClaimCheck
CONSTANTS paper, blog, note, how, much

VARIABLE part
evidenceVars == <<vars, reportVars, qualityVars, writerVars, claimVars, part>>

(* Retrieval: a paper at two addresses, a blog that speaks to the second      *)
(* dimension only in full, a note of the corpus.                              *)
Relevance == [s \in Slots |-> [w \in Works |->
    CASE s = how /\ w = paper  -> [thin |-> 2, full |-> 3]
      [] s = how /\ w = blog   -> [thin |-> 1, full |-> 1]
      [] s = much /\ w = paper -> [thin |-> 1, full |-> 2]
      [] s = much /\ w = blog  -> [thin |-> 0, full |-> 2]
      [] OTHER                 -> [thin |-> 1, full |-> 1]]]

(* The report: two sources in the ledger, the second off topic, and a third   *)
(* that the writer planned to cite and nobody fetched.                        *)
AnySource == {1, 2, 3}
Plain == [sec |-> "findings", marks |-> {{1}}, about |-> AnySource, figure |-> "none",
          credit |-> "none", inScope |-> TRUE, labelled |-> FALSE]
Rule == [Plain EXCEPT !.sec = "rule"]
TheLines ==
    {Rule,
     [Plain EXCEPT !.figure = "held", !.credit = "span"],
     [Plain EXCEPT !.marks = {{1, 3}}],
     [Plain EXCEPT !.marks = {{1}, {2}}],
     [Plain EXCEPT !.marks = {{1}, {1, 2}}, !.figure = "held", !.credit = "span"],
     [Plain EXCEPT !.about = {}, !.credit = "span", !.figure = "held"],
     [Plain EXCEPT !.marks = {{1}, {3}}, !.inScope = FALSE],
     [Plain EXCEPT !.sec = "worked", !.figure = "elsewhere"],
     [Rule EXCEPT !.figure = "held"],
     [Rule EXCEPT !.figure = "elsewhere"],
     [Rule EXCEPT !.figure = "held", !.credit = "stretched"],
     [Rule EXCEPT !.marks = {{3}}, !.figure = "held"]}

(* The grades: any status of five dimensions, two of them critical, with the  *)
(* numbers of rows, sources and figures at which the ceilings and penalties   *)
(* set in; and a few findings that lead from one to the next over the rounds. *)
FiveDims == 1..5
TwoCritical == 1..2
TheQuestions == [numbers : {TRUE}, code : {{}, {3}}]
Evidence(status, rows, sources, works, figures, named) ==
    [status |-> status, rows |-> rows, primary |-> sources, works |-> works,
     measured |-> figures, topShare |-> 30, named |-> named, impl |-> FALSE]
AnyGrade == {Evidence(status, rows, sources, 3, figures, TRUE) :
               status \in [FiveDims -> {"open", "weak", "covered"}],
               rows \in {2, 6, 9}, sources \in {0, 1, 3}, figures \in {1, 3}}
NoFinding == Evidence(<<"open", "open", "open", "open", "open">>, 4, 0, 4, 3, FALSE)
TheFindings ==
    {NoFinding,
     Evidence(<<"covered", "weak", "weak", "open", "open">>, 6, 1, 4, 3, FALSE),
     Evidence(<<"covered", "covered", "covered", "covered", "open">>, 9, 3, 4, 3, TRUE),
     Evidence(<<"covered", "covered", "weak", "weak", "weak">>, 9, 3, 4, 3, TRUE)}
AllGrades == AnyGrade \cup TheFindings

(* The writer: answers that are empty, thin, whole, cut off or unclean.       *)
Words(n, held, ends, clean) == [words |-> n, has |-> held, ends |-> ends, clean |-> clean]
FirstHalf == {"body", "parts"}
TheDrafts ==
    {NoText, Words(150, {"body"}, TRUE, TRUE), Words(350, Whole, TRUE, TRUE),
     Words(900, Whole, TRUE, TRUE), Words(900, Whole, TRUE, FALSE),
     Words(900, {"body", "rule"}, TRUE, TRUE), Words(1900, FirstHalf, TRUE, TRUE),
     Words(1900, Whole, FALSE, TRUE), Words(1900, Whole, TRUE, TRUE)}
TheParts ==
    {NoText, Words(200, {"body"}, FALSE, TRUE), Words(800, FirstHalf, TRUE, TRUE),
     Words(300, {"rule"}, TRUE, TRUE), Words(300, {"rule"}, TRUE, FALSE)}

(* The claims: a paper known by its abstract, its body or not at all, a blog, *)
(* and a page nobody cites; claims with one figure, two figures of a rise or  *)
(* of two sources, a wider subject than the source's, and none.               *)
Page(n, sentences) == [chars |-> n, says |-> sentences]
Abstract == Page(200, <<{"lora", "memory", "1 GB"}>>)
Body == Page(4000, <<{"lora", "memory", "seven", "1 GB"},
                     {"lora", "gain", "intervention", "1 GB", "2 GB"},
                     {"hard", "subset", "3 GB"}>>)
Notice == Page(90, <<{"cookies"}>>)
Blog == Page(900, <<{"small", "narrow", "lora", "3 GB"}>>)
Claim(url, from, against, says, quote, kind, delta) ==
    [url |-> url, from |-> from, against |-> against, says |-> says,
     quote |-> quote, kind |-> kind, delta |-> delta]
GainClaim == Claim("paper", "paper", NoUrl, {"lora", "gain", "1 GB", "2 GB"}, {}, "direct",
                   <<"1 GB", "2 GB">>)
Memory == Claim("paper", "paper", NoUrl, {"lora", "memory", "1 GB"}, {"lora", "memory", "1 GB"},
                "direct", <<>>)
Apart == Claim("paper", "blog", NoUrl, {"lora", "hard", "1 GB", "3 GB"}, {}, "direct", <<>>)
Broad == Claim("blog", "blog", "paper", {"lora", "broad", "3 GB"}, {}, "direct", <<>>)
Routed == Claim("blog", "paper", NoUrl, {"seven", "lora", "memory", "routing"}, {}, "direct", <<>>)
View == Claim("away", "paper", NoUrl, {"lora", "memory", "small"}, {}, "inferred", <<>>)
TheLists == {<<GainClaim, Memory>>, <<Memory, Apart>>, <<Memory, GainClaim>>, <<Apart, Memory>>,
             <<Broad, GainClaim>>, <<Routed, View>>, <<View, Memory>>}
Known(t) == [u \in Urls |-> IF u = "paper" THEN t ELSE Blog]
KnownBodies == Known(Body)
TheWorkingSets == {Known(t) : t \in {Abstract, Body, EmptyText}}
TheAnswers == [u \in Urls |-> IF u = "paper" THEN {EmptyText, Notice, Body} ELSE {EmptyText}]

----------------------------------------------------------------------------
(* A part that is not explored has one initial state.                         *)
PartInit ==
    /\ part \in {"retrieval", "report", "grading", "quality", "writer", "claims"}
    /\ rounds = 1
    /\ question \in [numbers : {TRUE}, code : IF part = "grading" THEN {{}, {3}} ELSE {{}}]
    /\ found \in CASE part = "grading" -> AllGrades
                   [] part = "quality" -> TheFindings
                   [] OTHER -> {NoFinding}
    /\ brief \in IF part = "writer" THEN Briefs
                 ELSE {[depth |-> "deep", items |-> 40, score |-> 70, key |-> TRUE,
                        ended |-> FALSE]}
    /\ claims \in IF part = "claims" THEN TheLists ELSE {<<Memory, GainClaim>>}
    /\ texts \in IF part = "claims" THEN TheWorkingSets ELSE {KnownBodies}

EvidenceInit ==
    /\ PartInit
    /\ Init /\ ReportInit /\ QualityInit /\ WriterInit /\ ClaimInit

EvidenceNext ==
    \/ /\ part = "retrieval" /\ Next
       /\ UNCHANGED <<reportVars, qualityVars, writerVars, claimVars, part>>
    \/ /\ part = "report" /\ ReportNext
       /\ UNCHANGED <<vars, qualityVars, writerVars, claimVars, part>>
    \/ /\ part = "grading" /\ CriticJudges
       /\ UNCHANGED <<vars, reportVars, writerVars, claimVars, part>>
    \/ /\ part = "quality" /\ QualityNext
       /\ UNCHANGED <<vars, reportVars, writerVars, claimVars, part>>
    \/ /\ part = "writer" /\ WriterNext
       /\ UNCHANGED <<vars, reportVars, qualityVars, claimVars, part>>
    \/ /\ part = "claims" /\ ClaimNext
       /\ UNCHANGED <<vars, reportVars, qualityVars, writerVars, part>>

EvidenceSpec == EvidenceInit /\ [][EvidenceNext]_evidenceVars
=============================================================================
