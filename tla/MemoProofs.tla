----------------------------- MODULE MemoProofs -----------------------------
(***************************************************************************)
(* Proofs about a memo on its way from the draft to the reader: what its    *)
(* writing may lose, what the passes of the report may change, and what the *)
(* stored check of its claims is worth.                                     *)
(***************************************************************************)
EXTENDS MemoWriter, ReportPipeline, ClaimCheck, TLAPS

(* The writing, whatever the model answers. *)

LEMMA TextFacts ==
    ASSUME NEW t \in Texts
    PROVE  /\ t.words \in Nat /\ t.has \in SUBSET Whole
           /\ t.ends \in BOOLEAN /\ t.clean \in BOOLEAN
  BY DEF Texts

LEMMA PolishedFacts ==
    ASSUME NEW t \in Texts, NEW p \in Polished(t)
    PROVE  /\ p \in Texts /\ p.has = t.has /\ p.ends = t.ends /\ p.clean = t.clean
           /\ p.words + PolishLoss >= t.words
<1>1. PolishLoss \in Nat /\ t.words \in Nat
  BY WriterAssumption, TextFacts
<1>2. CASE p = t
  BY <1>1, <1>2
<1>3. CASE p = [t EXCEPT !.words = Larger(0, @ - PolishLoss)]
  <2>1. /\ Larger(0, t.words - PolishLoss) \in Nat
        /\ Larger(0, t.words - PolishLoss) + PolishLoss >= t.words
    BY <1>1 DEF Larger
  <2>2. p = [t EXCEPT !.words = Larger(0, t.words - PolishLoss)]
    BY <1>3
  <2> HIDE DEF Larger
  <2> QED BY <2>1, <2>2 DEF Texts
<1> QED BY <1>2, <1>3 DEF Polished

LEMMA CleanedFacts ==
    ASSUME NEW t \in Texts
    PROVE  /\ WithoutTelemetry(t) \in Texts
           /\ WithoutTelemetry(t).words + TelemetryWords >= t.words
           /\ WithoutTelemetry(t).has = t.has
<1>1. TelemetryWords \in Nat /\ t.words \in Nat
  BY WriterAssumption, TextFacts
<1>2. /\ Larger(0, t.words - TelemetryWords) \in Nat
      /\ Larger(0, t.words - TelemetryWords) + TelemetryWords >= t.words
  BY <1>1 DEF Larger
<1> QED BY <1>2 DEF WithoutTelemetry, Texts

LEMMA JoinedFacts ==
    ASSUME NEW a \in Texts, NEW b \in Texts
    PROVE  Joined(a, b) \in Texts
  BY TextFacts DEF Joined, Texts

LEMMA SomeTexts == NoText \in Texts /\ Composed \in Texts /\ Composed.words = 600
  BY DEF NoText, Composed, Texts, Whole
Statuses == {"none", "terminal_fallback", "truncated_unrepaired", "revising",
             "gemini_failed_fallback", "gemini_success", "quality_regenerated"}

\* A memo is published.
LEMMA PublishKeeps ==
    ASSUME WriterTypeOK, UNCHANGED <<brief, again, pauses>>,
           NEW t \in Texts, NEW rewritten \in BOOLEAN,
           NEW status \in Statuses \ {"none", "revising"}, Publish(t, status, rewritten),
           status = "gemini_success" /\ ~rewritten =>
               ~Truncated([t EXCEPT !.words = @ + PolishLoss]) /\ t.clean,
           status # "quality_regenerated" => t.words + PolishLoss + TelemetryWords >= 300
    PROVE  WriterInv'
<1>1. PICK label \in {status, "terminal_fallback"} :
          /\ outcome' = [text |-> t, rewritten |-> rewritten, status |-> label]
          /\ status = "quality_regenerated" => label = status
  BY DEF Publish
<1>2. WriterTypeOK'
  BY <1>1, SomeTexts DEF WriterTypeOK, Publish, Statuses
<1>3. SuccessIsWhole'
  BY <1>1 DEF SuccessIsWhole, Truncated
<1>4. NeverGutted'
  BY <1>1 DEF NeverGutted
<1> QED BY <1>2, <1>3, <1>4 DEF WriterInv, Publish

\* The text of a draft changes before the audit.
LEMMA DraftKeeps ==
    ASSUME WriterInv, UNCHANGED <<brief, outcome>>, text' \in Texts, passes' \in 0..2,
           again' \in 0..MaxAgain, pauses' \in 0..MaxPauses,
           step' \in {"write", "back", "fallback", "retry", "repair", "expand", "judge",
                      "regenerated"}
    PROVE  WriterInv'
  BY DEF WriterInv, WriterTypeOK, SuccessIsWhole, NeverGutted, Truncated

\* What is not worth keeping gives way to the composed memo.
LEMMA KeptOrComposedKeeps ==
    ASSUME WriterTypeOK, UNCHANGED <<brief, again, pauses>>, NEW t \in Texts,
           NEW reason \in {"truncated_unrepaired", "gemini_failed_fallback"},
           KeptOrComposed(t, reason)
    PROVE  WriterInv'
<1>1. PICK k \in Texts : Publish(k, reason, FALSE) /\ k.words >= 400
  <2>1. Composed \in Texts /\ Composed.words >= 400
    BY SomeTexts
  <2> QED BY <2>1 DEF KeptOrComposed, WorthKeeping
<1>2. k.words + PolishLoss + TelemetryWords >= 300
  BY <1>1, TextFacts, WriterAssumption
<1> QED BY <1>1, <1>2, PublishKeeps DEF Statuses

LEMMA WritingKeeps ==
    ASSUME WriterInv,
           \/ WriteInOnePass \/ WriteFront \/ WriteBack \/ RetryIfThin
           \/ RepairIfTruncated \/ LongEnough \/ AskAgain \/ StartOver
    PROVE  WriterInv'
<1>1. WriterTypeOK /\ text \in Texts /\ NoText \in Texts
  BY SomeTexts DEF WriterInv, WriterTypeOK
<1>2. /\ \A t \in Drafts \cup Parts : t \in Texts
      /\ \A t \in Texts : \A p \in Polished(t) : p \in Texts
      /\ \A a, b \in Texts : Joined(a, b) \in Texts
  BY WriterAssumption, PolishedFacts, JoinedFacts
<1>3. CASE WriteInOnePass \/ WriteFront \/ WriteBack \/ RetryIfThin \/ LongEnough
  <2>1. UNCHANGED <<brief, passes, outcome, again, pauses>> /\ text' \in Texts
    BY <1>1, <1>2, <1>3 DEF WriteInOnePass, WriteFront, WriteBack, RetryIfThin, LongEnough
  <2>2. step' \in {"back", "fallback", "retry", "repair", "judge", "regenerated"}
    BY <1>3 DEF WriteInOnePass, WriteFront, WriteBack, RetryIfThin, LongEnough
  <2> QED BY <1>1, <2>1, <2>2, DraftKeeps DEF WriterTypeOK
<1>4. CASE RepairIfTruncated
  <2>1. PICK more \in Texts :
            text' \in Polished(IF more.words = 0 THEN text ELSE Joined(text, more))
    BY <1>1, <1>2, <1>4 DEF RepairIfTruncated
  <2>2. text' \in Texts
    BY <1>1, <1>2, <2>1
  <2> QED BY <1>1, <1>4, <2>2, DraftKeeps DEF RepairIfTruncated, WriterTypeOK
<1>5. CASE StartOver
  <2>1. pauses' \in 0..MaxPauses
    BY <1>1, <1>5, WriterAssumption DEF StartOver, WriterTypeOK
  <2> QED BY <1>1, <1>5, <2>1, DraftKeeps DEF StartOver, WriterTypeOK
<1>6. CASE AskAgain
  <2>1. again' \in 0..MaxAgain
    BY <1>1, <1>6, WriterAssumption DEF AskAgain, WriterTypeOK
  <2>2. /\ outcome' = [outcome EXCEPT !.status = "revising"] /\ step' \in {"write", "regenerated"}
        /\ UNCHANGED <<brief, text, passes, pauses>>
    BY <1>6 DEF AskAgain
  <2>3. WriterTypeOK'
    BY <1>1, <2>1, <2>2 DEF WriterTypeOK
  <2>4. outcome'.status = "revising"
    BY <1>1, <2>2 DEF WriterTypeOK
  <2> QED BY <2>2, <2>3, <2>4 DEF WriterInv, SuccessIsWhole, NeverGutted
<1> QED BY <1>3, <1>4, <1>5, <1>6

LEMMA ExpandKeeps == ASSUME WriterInv, Expand PROVE WriterInv'
<1>1. WriterTypeOK /\ text \in Texts
  BY DEF WriterInv, WriterTypeOK
<1>2. PICK longer \in Texts :
          \/ /\ passes' = passes + 1
             /\ \/ text' \in Polished(longer) /\ step' = "judge"
                \/ text' = longer /\ step' = "expand"
          \/ text' \in Polished(text) /\ step' = "judge" /\ passes' = passes
  BY WriterAssumption DEF Expand
<1>3. text' \in Texts /\ step' \in {"judge", "expand"}
  BY <1>1, <1>2, PolishedFacts
<1>4. passes' \in 0..2
  BY <1>1, <1>2 DEF Expand, WriterTypeOK
<1> QED BY <1>1, <1>3, <1>4, DraftKeeps DEF Expand, WriterTypeOK

LEMMA JudgeKeeps == ASSUME WriterInv, JudgeDraft PROVE WriterInv'
<1>1. WriterTypeOK /\ text \in Texts /\ WithoutTelemetry(text) \in Texts
  BY CleanedFacts DEF WriterInv, WriterTypeOK
<1>2. CASE Truncated(text) \/ ~text.clean
  BY <1>1, <1>2, KeptOrComposedKeeps DEF JudgeDraft
<1>3. CASE ~Truncated(text) /\ text.clean
  <2>1. step' = "audit" /\ UNCHANGED <<text, passes, outcome, brief, again, pauses>>
    BY <1>3 DEF JudgeDraft
  <2> QED BY <1>3, <2>1 DEF WriterInv, WriterTypeOK, SuccessIsWhole, NeverGutted, Truncated
<1> QED BY <1>2, <1>3

\* A whole text is whole enough after a polishing.
LEMMA WholeFacts ==
    ASSUME NEW t \in Texts, NEW p \in Texts, ~Truncated(t),
           p.words + PolishLoss >= t.words, p.has = t.has, p.ends = t.ends
    PROVE  /\ ~Truncated([p EXCEPT !.words = @ + PolishLoss])
           /\ p.words + PolishLoss + TelemetryWords >= 300
<1>1. t.words >= 400 /\ t.has = Whole /\ t.ends
  BY TextFacts DEF Truncated
<1>2. PolishLoss \in Nat /\ TelemetryWords \in Nat /\ p.words \in Nat
  BY WriterAssumption, TextFacts
<1>3. /\ [p EXCEPT !.words = @ + PolishLoss].words = p.words + PolishLoss
      /\ [p EXCEPT !.words = @ + PolishLoss].has = p.has
      /\ [p EXCEPT !.words = @ + PolishLoss].ends = p.ends
  BY DEF Texts
<1>4. p.words + PolishLoss >= 400
  BY <1>1, <1>2, TextFacts
<1>5. PICK w \in Texts : w = [p EXCEPT !.words = @ + PolishLoss]
  <2>1. p.words + PolishLoss \in Nat
    BY <1>2
  <2>2. [p EXCEPT !.words = p.words + PolishLoss] \in Texts
    BY <2>1 DEF Texts
  <2> QED BY <2>2
<1>6. ~Truncated(w)
  <2>1. w.words = p.words + PolishLoss /\ w.has = Whole /\ w.ends = t.ends
    BY <1>1, <1>3, <1>5
  <2>2. ~(w.words < 400) /\ w.ends
    BY <1>1, <1>2, <1>4, <2>1
  <2> QED BY <2>1, <2>2 DEF Truncated
<1>7. p.words + PolishLoss + TelemetryWords >= 300
  BY <1>2, <1>4
<1> QED BY <1>5, <1>6, <1>7

LEMMA PublicationKeeps ==
    ASSUME WriterInv,
           WithoutModel \/ NothingToRewrite \/ RewriteForQuality \/ RegeneratedReport
    PROVE  WriterInv'
<1>1. WriterTypeOK /\ text \in Texts /\ PolishLoss \in Nat /\ TelemetryWords \in Nat
  BY WriterAssumption DEF WriterInv, WriterTypeOK
<1>2. CASE WithoutModel
  <2>1. Composed.words + PolishLoss + TelemetryWords >= 300
    BY <1>1, SomeTexts
  <2> QED BY <1>1, <1>2, <2>1, SomeTexts, PublishKeeps DEF WithoutModel, Statuses
<1>3. CASE NothingToRewrite
  <2>1. ~Truncated(text) /\ text.clean
    BY <1>3 DEF NothingToRewrite, WriterInv
  <2>2. text.words + PolishLoss >= text.words
    BY <1>1, TextFacts
  <2>3. /\ ~Truncated([text EXCEPT !.words = @ + PolishLoss])
        /\ text.words + PolishLoss + TelemetryWords >= 300
    BY <1>1, <2>1, <2>2, WholeFacts
  <2> QED BY <1>1, <1>3, <2>1, <2>3, PublishKeeps DEF NothingToRewrite, Statuses
<1>4. CASE RewriteForQuality
  <2>1. ~Truncated(text) /\ text.clean
    BY <1>4 DEF RewriteForQuality, WriterInv
  <2>2. PICK new \in Texts, taken \in BOOLEAN :
            /\ taken => new.words >= Larger(300, text.words \div 2)
            /\ \E t \in Polished(IF taken THEN new ELSE text) : Publish(t, "gemini_success", taken)
    BY <1>4, WriterAssumption DEF RewriteForQuality, RewriteAccepted
  <2>3. PICK t \in Polished(IF taken THEN new ELSE text) : Publish(t, "gemini_success", taken)
    BY <2>2
  <2>4. CASE taken
    <3>1. t \in Texts /\ t.words + PolishLoss >= new.words
      BY <2>3, <2>4, PolishedFacts
    <3>2. new.words >= 300
      <4>1. text.words \div 2 \in Int /\ new.words \in Nat
        BY <1>1, TextFacts
      <4> QED BY <2>2, <2>4, <4>1 DEF Larger
    <3>3. t.words + PolishLoss + TelemetryWords >= 300
      BY <1>1, <3>1, <3>2, TextFacts
    <3> QED BY <1>1, <1>4, <2>3, <2>4, <3>1, <3>3, PublishKeeps DEF RewriteForQuality, Statuses
  <2>5. CASE ~taken
    <3>1. /\ t \in Texts /\ t.words + PolishLoss >= text.words
          /\ t.has = text.has /\ t.ends = text.ends /\ t.clean = text.clean
      BY <1>1, <2>3, <2>5, PolishedFacts
    <3>2. /\ ~Truncated([t EXCEPT !.words = @ + PolishLoss])
          /\ t.words + PolishLoss + TelemetryWords >= 300
      BY <1>1, <2>1, <3>1, WholeFacts
    <3> QED BY <1>1, <1>4, <2>1, <2>3, <3>1, <3>2, PublishKeeps DEF RewriteForQuality, Statuses
  <2> QED BY <2>4, <2>5
<1>5. CASE RegeneratedReport
  <2>1. PICK t \in Texts : Publish(t, "quality_regenerated", FALSE)
    BY <1>1, <1>5, PolishedFacts DEF RegeneratedReport
  <2> QED BY <1>1, <1>5, <2>1, PublishKeeps DEF RegeneratedReport, Statuses
<1> QED BY <1>2, <1>3, <1>4, <1>5

\* Drafts, memos and outcomes are typed, and success and length go with what was done.
THEOREM WriterInvariance == WriterSpec => []WriterInv
<1>1. WriterInit => WriterInv
  <2> SUFFICES ASSUME WriterInit PROVE WriterInv
    OBVIOUS
  <2>1. WriterTypeOK
    BY SomeTexts, WriterAssumption DEF WriterInit, WriterTypeOK, NoOutcome
  <2> QED BY <2>1 DEF WriterInit, WriterInv, SuccessIsWhole, NeverGutted, NoOutcome
<1>2. ASSUME WriterInv, [WriterNext]_writerVars PROVE WriterInv'
  <2>1. CASE UNCHANGED writerVars
    BY <1>2, <2>1 DEF writerVars, WriterInv, WriterTypeOK, SuccessIsWhole, NeverGutted, Truncated
  <2> QED
    BY <1>2, <2>1, WritingKeeps, ExpandKeeps, JudgeKeeps, PublicationKeeps DEF WriterNext
<1> QED BY <1>1, <1>2, PTL DEF WriterSpec

\* The state of the writing has its types (compose, expand, judge, publish).
THEOREM WriterTypeCorrect == WriterSpec => []WriterTypeOK
<1>1. WriterInv => WriterTypeOK
  BY DEF WriterInv
<1> QED BY <1>1, WriterInvariance, PTL

\* A memo reported as the model's success is whole, whatever the model answered to
\* the writer, the retry, the repair and the expansions.
THEOREM SuccessesAreWhole == WriterSpec => []SuccessIsWhole
<1>1. WriterInv => SuccessIsWhole
  BY DEF WriterInv
<1> QED BY <1>1, WriterInvariance, PTL

\* No answer of the model leaves a memo of less than 300 words, but for what a
\* polishing and the telemetry take, outside a quality regeneration.
THEOREM MemosAreNotGutted == WriterSpec => []NeverGutted
<1>1. WriterInv => NeverGutted
  BY DEF WriterInv
<1> QED BY <1>1, WriterInvariance, PTL

-----------------------------------------------------------------------------
(* The passes of the report. *)

\* Lines and memos with one part replaced.
WithMarks(l, marks) == [l EXCEPT !.marks = marks]
Example(l) == [l EXCEPT !.marks = {}, !.labelled = TRUE]
Uncredited(l) == [l EXCEPT !.credit = "none"]
WithBody(m, body) == [m EXCEPT !.body = body]
WithCopies(m, rule, body) == [m EXCEPT !.rule = rule, !.body = body]
WithField(m, rule) == [m EXCEPT !.rule = rule]

LEMMA LineFacts ==
    ASSUME NEW l \in AllLines
    PROVE  /\ l.sec \in {"findings", "rule", "worked"} /\ l.marks \in SUBSET SUBSET Nat
           /\ l.labelled \in BOOLEAN /\ l.inScope \in BOOLEAN
           /\ \A M \in SUBSET SUBSET Nat : WithMarks(l, M) \in AllLines
           /\ WithMarks(l, l.marks) = l
           /\ Example(l) \in AllLines
           /\ Labelled(l) \in AllLines /\ Labelled(l).sec = l.sec
           /\ Labelled(l).figure = l.figure /\ Labelled(l).labelled
           /\ Labelled(Labelled(l)) = Labelled(l) /\ (Good(l) => Good(Labelled(l)))
           /\ Uncredited(l) \in AllLines /\ Uncredited(l).sec = l.sec
           /\ Uncredited(l).figure = l.figure /\ Uncredited(l).labelled = l.labelled
<1>1. /\ l.sec \in {"findings", "rule", "worked"} /\ l.marks \in SUBSET SUBSET Nat
      /\ l.labelled \in BOOLEAN /\ l.inScope \in BOOLEAN
  BY DEF AllLines
<1>2. /\ \A M \in SUBSET SUBSET Nat : WithMarks(l, M) \in AllLines
      /\ WithMarks(l, l.marks) = l
  BY DEF AllLines, WithMarks
<1>3. Example(l) \in AllLines
  BY DEF AllLines, Example
<1>4. /\ Labelled(l) \in AllLines /\ Labelled(l).sec = l.sec
      /\ Labelled(l).figure = l.figure /\ Labelled(l).labelled
  BY DEF AllLines, Labelled
<1>5. Labelled(Labelled(l)) = Labelled(l)
  BY DEF AllLines, Labelled
<1>6. Good(l) => Good(Labelled(l))
  <2>1. /\ Labelled(l).sec = l.sec /\ Labelled(l).marks = l.marks /\ Labelled(l).about = l.about
        /\ Labelled(l).figure = l.figure /\ Labelled(l).credit = l.credit
        /\ Labelled(l).inScope = l.inScope
    BY DEF AllLines, Labelled
  <2>2. Synthesis(Labelled(l)) <=> Synthesis(l)
    BY <2>1, Zenon DEF Synthesis
  <2> QED BY <2>1, <2>2 DEF Good
<1>7. /\ Uncredited(l) \in AllLines /\ Uncredited(l).sec = l.sec
      /\ Uncredited(l).figure = l.figure /\ Uncredited(l).labelled = l.labelled
  BY DEF AllLines, Uncredited
<1> QED BY <1>1, <1>2, <1>3, <1>4, <1>5, <1>6, <1>7

LEMMA MemoFacts ==
    ASSUME NEW m \in Memos
    PROVE  /\ m.body \in SUBSET AllLines /\ m.rule \in SUBSET Section(AllLines, "rule")
           /\ \A b \in SUBSET AllLines :
                 /\ WithBody(m, b) \in Memos
                 /\ WithBody(m, b).body = b /\ WithBody(m, b).rule = m.rule
           /\ \A r \in SUBSET Section(AllLines, "rule") :
                 /\ WithField(m, r) \in Memos
                 /\ WithField(m, r).body = m.body /\ WithField(m, r).rule = r
           /\ \A b \in SUBSET AllLines, r \in SUBSET Section(AllLines, "rule") :
                 WithCopies(m, r, b) \in Memos /\ WithCopies(m, r, b).body = b
<1>1. m.body \in SUBSET AllLines /\ m.rule \in SUBSET Section(AllLines, "rule")
  BY DEF Memos
<1>2. \A b \in SUBSET AllLines : /\ WithBody(m, b) \in Memos
                                 /\ WithBody(m, b).body = b /\ WithBody(m, b).rule = m.rule
  BY DEF Memos, WithBody
<1>3. \A r \in SUBSET Section(AllLines, "rule") :
         /\ WithField(m, r) \in Memos
         /\ WithField(m, r).body = m.body /\ WithField(m, r).rule = r
  BY DEF Memos, WithField
<1>4. \A b \in SUBSET AllLines, r \in SUBSET Section(AllLines, "rule") :
         WithCopies(m, r, b) \in Memos /\ WithCopies(m, r, b).body = b
  BY DEF Memos, WithCopies
<1> QED BY <1>1, <1>2, <1>3, <1>4

Keeps(m, n) == n \in Memos /\ \A k \in m.body : Good(k) => k \in n.body

LEMMA BodyKeeps ==
    ASSUME NEW m \in Memos, NEW b \in SUBSET AllLines, \A k \in m.body : Good(k) => k \in b
    PROVE  Keeps(m, WithBody(m, b))
  BY MemoFacts DEF Keeps

LEMMA UnmarkedFacts ==
    ASSUME NEW l \in AllLines, NEW numbers
    PROVE  /\ Unmarked(l, numbers) \in AllLines
           /\ (\A n \in numbers : {n} \notin l.marks) => Unmarked(l, numbers) = l
<1>1. PICK M \in SUBSET SUBSET Nat : M = l.marks \ {{n} : n \in numbers}
  BY LineFacts
<1>2. (\A n \in numbers : {n} \notin l.marks) => M = l.marks
  BY <1>1
<1>3. Unmarked(l, numbers) = WithMarks(l, M)
  BY <1>1, Zenon DEF Unmarked, WithMarks
<1>4. WithMarks(l, M) \in AllLines /\ WithMarks(l, l.marks) = l
  BY LineFacts
<1>5. M = l.marks => WithMarks(l, M) = l
  BY <1>4
<1> QED BY <1>2, <1>3, <1>4, <1>5, Zenon

LEMMA DanglingKeeps == ASSUME NEW m \in Memos PROVE Keeps(m, DanglingStripped(m))
<1> DEFINE dangling == Cited(m.body) \ Ledger
           b == {Unmarked(l, dangling) : l \in m.body}
<1>1. b \in SUBSET AllLines
  BY UnmarkedFacts, MemoFacts
<1>2. DanglingStripped(m) = WithBody(m, b)
  BY Zenon DEF DanglingStripped, MapBody, WithBody
<1>3. ASSUME NEW k \in m.body, Good(k) PROVE k \in b
  <2>1. k \in AllLines /\ Unmarked(k, dangling) \in b
    BY MemoFacts
  <2>2. \A n \in dangling : {n} \notin k.marks
    BY <1>3 DEF Good
  <2> QED BY <2>1, <2>2, UnmarkedFacts
<1> HIDE DEF b
<1> QED BY <1>1, <1>2, <1>3, BodyKeeps

LEMMA OffTopicKeeps == ASSUME NEW m \in Memos PROVE Keeps(m, OffTopicStripped(m))
<1> DEFINE b == {Unmarked(l, OffTopicNumbers) : l \in m.body}
<1>1. b \in SUBSET AllLines
  BY UnmarkedFacts, MemoFacts
<1>2. OffTopicStripped(m) = WithBody(m, b)
  BY Zenon DEF OffTopicStripped, MapBody, WithBody
<1>3. ASSUME NEW k \in m.body, Good(k) PROVE k \in b
  <2>1. k \in AllLines /\ Unmarked(k, OffTopicNumbers) \in b
    BY MemoFacts
  <2>2. \A n \in OffTopicNumbers : {n} \notin k.marks
    BY <1>3 DEF Good
  <2> QED BY <2>1, <2>2, UnmarkedFacts
<1> HIDE DEF b
<1> QED BY <1>1, <1>2, <1>3, BodyKeeps

Named(l) == WithMarks(l, {g \in l.marks : g \cap Ledger = {} \/ g \cap l.about # {}})

LEMMA NamedFacts == ASSUME NEW l \in AllLines PROVE Named(l) \in AllLines /\ (Good(l) => Named(l) = l)
<1>1. PICK M \in SUBSET SUBSET Nat : M = {g \in l.marks : g \cap Ledger = {} \/ g \cap l.about # {}}
  BY LineFacts
<1>2. Good(l) => M = l.marks
  BY <1>1 DEF Good
<1>3. Named(l) = WithMarks(l, M)
  BY <1>1, Zenon DEF Named
<1> QED BY <1>2, <1>3, LineFacts

LEMMA EntityKeeps == ASSUME NEW m \in Memos PROVE Keeps(m, EntityStripped(m))
<1> DEFINE b == {Named(l) : l \in m.body}
<1>1. b \in SUBSET AllLines
  BY NamedFacts, MemoFacts
<1>2. EntityStripped(m) = WithBody(m, b)
  BY Zenon DEF EntityStripped, MapBody, WithBody, WithMarks, Named
<1>3. ASSUME NEW k \in m.body, Good(k) PROVE k \in b
  BY <1>3, NamedFacts, MemoFacts
<1> HIDE DEF b
<1> QED BY <1>1, <1>2, <1>3, BodyKeeps

LEMMA DemotedKeeps == ASSUME NEW m \in Memos, NEW s \in Scenes PROVE Keeps(m, Demoted(m, s))
<1> DEFINE b == {l \in m.body : ~OffScope(l)}
<1>1. b \in SUBSET AllLines
  BY MemoFacts
<1>2. \A k \in m.body : Good(k) => k \in b
  BY DEF Good, OffScope
<1>3. CASE s.scoped
  <2>1. Demoted(m, s) = WithBody(m, b)
    BY <1>3, Zenon DEF Demoted, WithBody
  <2> QED BY <1>1, <1>2, <2>1, BodyKeeps
<1>4. CASE ~s.scoped
  BY <1>4 DEF Demoted, Keeps
<1> QED BY <1>3, <1>4

LEMMA EmptyKeeps == ASSUME NEW m \in Memos PROVE Keeps(m, EmptyDropped(m))
<1> DEFINE b == {l \in m.body : \E k \in Section(m.body, l.sec) :
                    k.marks # {} \/ (k.sec = "worked" /\ k.labelled)}
<1>1. b \in SUBSET AllLines
  BY MemoFacts
<1>2. \A k \in m.body : Good(k) => k \in b
  BY DEF Good, Section
<1>3. EmptyDropped(m) = WithBody(m, b)
  BY Zenon DEF EmptyDropped, WithBody
<1> HIDE DEF b
<1> QED BY <1>1, <1>2, <1>3, BodyKeeps

\* Replacing the decision rule leaves the findings alone.
LEMMA WithRuleFacts ==
    ASSUME NEW b \in SUBSET AllLines, NEW r \in SUBSET Section(AllLines, "rule")
    PROVE  /\ WithRule(b, r) \in SUBSET AllLines
           /\ \A k \in b : Good(k) => k \in WithRule(b, r)
  BY DEF WithRule, Section, Good

LEMMA RuleKeeps ==
    ASSUME NEW m \in Memos, NEW b \in SUBSET AllLines, NEW r \in SUBSET Section(AllLines, "rule"),
           \A k \in m.body : Good(k) => k \in b
    PROVE  Keeps(m, WithCopies(m, r, b))
  BY MemoFacts DEF Keeps

LEMMA MisattributedKeeps == ASSUME NEW m \in Memos PROVE Keeps(m, MisattributedDropped(m))
<1> DEFINE r == {l \in m.rule : ~(l.figure = "elsewhere" /\ l.marks # {})}
<1>1. r \in SUBSET Section(AllLines, "rule")
  BY MemoFacts
<1>2. CASE r = m.rule
  BY <1>2 DEF MisattributedDropped, Keeps
<1>3. CASE r # m.rule
  <2>1. MisattributedDropped(m) = WithCopies(m, r, WithRule(m.body, r))
    BY <1>3, Zenon DEF MisattributedDropped, WithCopies
  <2> HIDE DEF r
  <2>2. /\ WithRule(m.body, r) \in SUBSET AllLines
        /\ \A k \in m.body : Good(k) => k \in WithRule(m.body, r)
    BY <1>1, WithRuleFacts, MemoFacts
  <2> QED BY <1>1, <2>1, <2>2, RuleKeeps
<1> QED BY <1>2, <1>3

LEMMA IllustrativeFacts ==
    ASSUME NEW b \in SUBSET AllLines
    PROVE  /\ Illustrative(b) \in SUBSET AllLines
           /\ \A k \in b : Good(k) => k \in Illustrative(b)
<1>1. \A l \in AllLines : (IF l.sec = "worked" THEN Example(l) ELSE l) \in AllLines
  BY LineFacts
<1>2. Illustrative(b) = {IF l.sec = "worked" THEN Example(l) ELSE l : l \in b}
  BY Zenon DEF Illustrative, Example
<1> QED BY <1>1, <1>2 DEF Good

LEMMA TableKeeps == ASSUME NEW m \in Memos, NEW s \in Scenes PROVE Keeps(m, TableChecked(m, s))
<1> DEFINE worked == Section(m.body, "worked")
           r == {l \in m.rule : l.figure = "none" \/ l.marks # {}}
           b == IF \E l \in worked : l.figure # "none" /\ l.marks = {}
                THEN Illustrative(m.body) ELSE m.body
<1>1. m.body \in SUBSET AllLines /\ r \in SUBSET Section(AllLines, "rule")
  BY MemoFacts
<1>2. b \in SUBSET AllLines /\ \A k \in m.body : Good(k) => k \in b
  BY <1>1, IllustrativeFacts
<1>3. /\ WithRule(b, r) \in SUBSET AllLines
      /\ \A k \in m.body : Good(k) => k \in WithRule(b, r)
  BY <1>1, <1>2, WithRuleFacts
<1>4. CASE s.noTable
  <2>1. TableChecked(m, s) = WithCopies(m, r, WithRule(b, r))
    BY <1>4 DEF TableChecked, WithCopies
  <2> HIDE DEF r, b
  <2> QED BY <1>1, <1>3, <2>1, RuleKeeps
<1>5. CASE ~s.noTable /\ MostlyUnheld(worked)
  <2>1. TableChecked(m, s) = WithBody(m, Illustrative(m.body))
    BY <1>5 DEF TableChecked, WithBody
  <2> QED BY <1>1, <2>1, IllustrativeFacts, BodyKeeps
<1>6. CASE ~s.noTable /\ ~MostlyUnheld(worked)
  BY <1>6 DEF TableChecked, Keeps
<1> QED BY <1>4, <1>5, <1>6

LEMMA BoundKeeps == ASSUME NEW m \in Memos PROVE Keeps(m, Bound(m))
<1>1. CitedOnly(m.body) \in SUBSET Ledger
  BY DEF CitedOnly
<1>2. \A r \in SUBSET Ledger : /\ [m EXCEPT !.refs = r] \in Memos
                               /\ [m EXCEPT !.refs = r].body = m.body
  BY DEF Memos
<1> QED BY <1>1, <1>2, Zenon DEF Bound, Keeps

LEMMA ChosenKeeps == ASSUME NEW m \in Memos, NEW s \in Scenes PROVE Keeps(m, RuleChosen(m, s))
<1>1. {Template} \in SUBSET Section(AllLines, "rule")
  BY LedgerAssumption DEF Section
<1>2. RuleChosen(m, s) \in {m, WithField(m, {Template})}
  BY Zenon DEF RuleChosen, WithField
<1> QED BY <1>1, <1>2, MemoFacts DEF Keeps

\* The passes before the labels.
LEMMA RepairedBody ==
    ASSUME NEW m \in Memos, NEW s \in Scenes
    PROVE  \E n : /\ Keeps(m, n)
                  /\ Integrity(m, s) = RuleSynced(Hardened(n, s))
<1>1. PICK m1 : m1 = DanglingStripped(m) /\ Keeps(m, m1)
  BY DanglingKeeps
<1>2. PICK m2 : m2 = TableChecked(m1, s) /\ Keeps(m1, m2)
  BY <1>1, TableKeeps DEF Keeps
<1>3. PICK m3 : m3 = EmptyDropped(m2) /\ Keeps(m2, m3)
  BY <1>2, EmptyKeeps DEF Keeps
<1>4. PICK m4 : m4 = MisattributedDropped(m3) /\ Keeps(m3, m4)
  BY <1>3, MisattributedKeeps DEF Keeps
<1>5. PICK m5 : m5 = EntityStripped(m4) /\ Keeps(m4, m5)
  BY <1>4, EntityKeeps DEF Keeps
<1>6. PICK m6 : m6 = Demoted(m5, s) /\ Keeps(m5, m6)
  BY <1>5, DemotedKeeps DEF Keeps
<1>7. PICK m7 : m7 = OffTopicStripped(m6) /\ Keeps(m6, m7)
  BY <1>6, OffTopicKeeps DEF Keeps
<1>8. PICK n : n = Bound(m7) /\ Keeps(m7, n)
  BY <1>7, BoundKeeps DEF Keeps
<1>9. Integrity(m, s) = RuleSynced(Hardened(n, s))
  BY <1>1, <1>2, <1>3, <1>4, <1>5, <1>6, <1>7, <1>8, Zenon DEF Integrity, Corrected
<1>10. Keeps(m, n)
  BY <1>1, <1>2, <1>3, <1>4, <1>5, <1>6, <1>7, <1>8 DEF Keeps
<1> QED BY <1>9, <1>10

\* The labels, and the section back into the field.
LEMMA LabelledFacts ==
    ASSUME NEW m \in Memos, NEW s \in Scenes
    PROVE  /\ Hardened(m, s) \in Memos
           /\ \A k \in m.body : Good(k) =>
                 \E j \in Hardened(m, s).body : Good(j) /\ Labelled(j) = Labelled(k)
           /\ s.noTable /\ s.measurable =>
                 \A l \in Hardened(m, s).body : l.sec # "worked" /\ l.figure # "none" => l.labelled
<1> DEFINE L(l) == IF l.sec # "worked" /\ l.figure # "none" THEN Labelled(l) ELSE l
           b == {L(l) : l \in m.body}
<1>1. CASE s.noTable /\ s.measurable
  <2>1. Hardened(m, s) = WithBody(m, b)
    BY <1>1, Zenon DEF Hardened, MapBody, WithBody, Labelled
  <2>2. \A l \in AllLines : /\ L(l) \in AllLines /\ Labelled(L(l)) = Labelled(l)
                            /\ Good(l) => Good(L(l))
                            /\ L(l).sec # "worked" /\ L(l).figure # "none" => L(l).labelled
    BY LineFacts
  <2> HIDE DEF L
  <2>3. b \in SUBSET AllLines
    BY <2>2, MemoFacts
  <2>4. Hardened(m, s) \in Memos /\ Hardened(m, s).body = b
    BY <2>1, <2>3, MemoFacts
  <2> QED BY <2>2, <2>4, MemoFacts
<1>2. CASE ~(s.noTable /\ s.measurable)
  <2>1. Hardened(m, s) = m
    BY <1>2 DEF Hardened
  <2> QED BY <1>2, <2>1
<1> QED BY <1>1, <1>2

LEMMA SyncedFacts ==
    ASSUME NEW m \in Memos
    PROVE  /\ RuleSynced(m) \in Memos /\ RuleSynced(m).body = m.body
           /\ TheRule(m) # {} => RuleSynced(m).rule = TheRule(m)
<1>1. TheRule(m) = Section(m.body, "rule") /\ TheRule(m) \in SUBSET Section(AllLines, "rule")
  BY MemoFacts DEF TheRule, Section
<1>2. RuleSynced(m) = IF TheRule(m) = {} THEN m ELSE WithField(m, TheRule(m))
  BY <1>1, Zenon DEF RuleSynced, WithField
<1> QED BY <1>1, <1>2, MemoFacts

LEMMA DemotedSound ==
    ASSUME NEW m \in Memos, scene \in Scenes, Sound(m)
    PROVE  Demoted(m, scene) \in Memos /\ Sound(Demoted(m, scene))
<1>1. PICK d \in Memos : d = Demoted(m, scene) /\ Keeps(m, d)
  BY DemotedKeeps DEF Keeps
<1>2. d.body \subseteq m.body /\ d.rule = m.rule
  <2> DEFINE b == {l \in m.body : ~OffScope(l)}
  <2>1. d \in {m, WithBody(m, b)}
    BY <1>1, Zenon DEF Demoted, WithBody
  <2>2. b \in SUBSET AllLines /\ b \subseteq m.body
    BY MemoFacts
  <2> HIDE DEF b
  <2> QED BY <2>1, <2>2, MemoFacts
<1>3. TheRule(d) # {} => TheRule(m) # {}
  BY <1>2 DEF TheRule
<1>4. HardLabelled(d, scene)
  BY <1>2, <1>3 DEF HardLabelled, Sound
<1>5. KeptGood(d)
  BY <1>1 DEF KeptGood, Sound, Keeps
<1> QED BY <1>1, <1>2, <1>3, <1>4, <1>5 DEF Sound

Recredit(l) == IF Overcredited(l) THEN Uncredited(l) ELSE l

LEMMA RecreditedSound ==
    ASSUME NEW m \in Memos, Sound(m)
    PROVE  Recredited(m) \in Memos /\ Sound(Recredited(m))
<1> DEFINE b == {Recredit(l) : l \in m.body}
<1>1. \A l \in AllLines : /\ Recredit(l) \in AllLines /\ Recredit(l).sec = l.sec
                          /\ Recredit(l).figure = l.figure /\ Recredit(l).labelled = l.labelled
  BY LineFacts DEF Recredit
<1>2. b \in SUBSET AllLines
  BY <1>1, MemoFacts
<1>3. Recredited(m) = WithBody(m, b)
  BY Zenon DEF Recredited, MapBody, WithBody, Recredit, Uncredited
<1>4. \A k \in m.body : Good(k) => Recredit(k) = k
  <2> SUFFICES ASSUME NEW k \in m.body, Good(k) PROVE Recredit(k) = k
    OBVIOUS
  <2>1. /\ k.credit = "none" \/ (k.credit = "span" /\ ~Synthesis(k))
        /\ \E g \in k.marks : g \subseteq Ledger /\ g # {}
    BY DEF Good
  <2>2. Cited({k}) = UNION k.marks
    BY DEF Cited
  <2>3. Cited({k}) \cap Ledger # {}
    BY <2>1, <2>2
  <2> QED BY <2>1, <2>3 DEF Recredit, Overcredited
<1>5. PICK r \in Memos : r = Recredited(m) /\ r.body = b /\ r.rule = m.rule
  BY <1>2, <1>3, MemoFacts
<1>6. KeptGood(r)
  BY <1>4, <1>5 DEF KeptGood, Sound
<1>7. TheRule(r) # {} => TheRule(m) # {}
  BY <1>1, <1>5, MemoFacts DEF TheRule
<1>8. HardLabelled(r, scene)
  <2> SUFFICES ASSUME scene.noTable, scene.measurable,
                      NEW l \in r.body \cup (IF TheRule(r) = {} THEN {} ELSE r.rule),
                      l.sec # "worked", l.figure # "none"
               PROVE  l.labelled
    BY Zenon DEF HardLabelled
  <2>1. \A k \in m.body \cup (IF TheRule(m) = {} THEN {} ELSE m.rule) :
            k.sec # "worked" /\ k.figure # "none" => k.labelled
    BY DEF HardLabelled, Sound
  <2>2. CASE l \in r.body
    <3>1. PICK k \in m.body : l = Recredit(k)
      BY <1>5, <2>2
    <3> QED BY <1>1, <2>1, <3>1, MemoFacts
  <2>3. CASE TheRule(r) # {} /\ l \in r.rule
    BY <1>5, <1>7, <2>1, <2>3
  <2> QED BY <2>2, <2>3
<1> QED BY <1>5, <1>6, <1>7, <1>8 DEF Sound

LEMMA StitchedSound ==
    ASSUME NEW m \in Memos, Sound(m)
    PROVE  /\ Stitched(m) \in Memos /\ Sound(Stitched(m))
           /\ TheRule(Stitched(m)) # {} => TheRule(Stitched(m)) = Stitched(m).rule
<1>1. TheRule(m) = Section(m.body, "rule")
  BY DEF TheRule, Section
<1>2. CASE TheRule(m) = {}
  <2>1. Stitched(m) = WithBody(m, m.body) /\ WithBody(m, m.body) = m
    <3>1. WithRule(m.body, m.rule) = m.body
      BY <1>1, <1>2 DEF WithRule
    <3>2. Stitched(m) = WithBody(m, WithRule(m.body, m.rule))
      BY Zenon DEF Stitched, WithBody
    <3>3. WithBody(m, m.body) = m
      BY DEF WithBody, Memos
    <3> QED BY <3>1, <3>2, <3>3
  <2> QED BY <1>2, <2>1
<1>3. CASE TheRule(m) # {}
  <2> DEFINE b == (m.body \ Section(m.body, "rule")) \cup m.rule
  <2>1. m.rule # {}
    BY <1>3 DEF Sound
  <2>2. WithRule(m.body, m.rule) = b
    BY <1>1, <1>3, <2>1 DEF WithRule
  <2>3. b \in SUBSET AllLines /\ m.rule \in SUBSET Section(AllLines, "rule")
    BY MemoFacts DEF Section
  <2>4. PICK t \in Memos : t = Stitched(m) /\ t.body = b /\ t.rule = m.rule
    <3>1. Stitched(m) = WithBody(m, b)
      BY <2>2, Zenon DEF Stitched, WithBody
    <3> QED BY <2>3, <3>1, MemoFacts
  <2>5. TheRule(t) = t.rule
    BY <2>3, <2>4 DEF TheRule, Section
  <2>6. HardLabelled(t, scene)
    BY <1>3, <2>4, <2>5 DEF HardLabelled, Sound
  <2>7. KeptGood(t)
    BY <2>4 DEF KeptGood, Sound, Good, Section
  <2> QED BY <2>1, <2>4, <2>5, <2>6, <2>7 DEF Sound
<1> QED BY <1>2, <1>3

LEMMA RepairSound ==
    ASSUME ReportInv, Repair
    PROVE  memo' \in Memos /\ Sound(memo)'
<1>1. memo \in Memos /\ scene \in Scenes /\ memo = written
  BY DEF ReportInv, ReportTypeOK, Repair
<1>2. PICK c \in Memos : Keeps(memo, c) /\ memo' = Integrity(c, scene)
  <2>1. PICK b \in Memos : b = Bound(memo) /\ Keeps(memo, b)
    BY <1>1, BoundKeeps DEF Keeps
  <2>2. PICK c \in Memos : c = RuleChosen(b, scene) /\ Keeps(b, c)
    BY <1>1, ChosenKeeps DEF Keeps
  <2>3. memo' = Integrity(IF via = "draft" THEN c ELSE b, scene)
    BY <2>1, <2>2, Zenon DEF Repair
  <2>4. Keeps(memo, c)
    BY <2>1, <2>2 DEF Keeps
  <2> QED BY <2>1, <2>3, <2>4
<1>3. PICK n \in Memos : Keeps(c, n) /\ memo' = RuleSynced(Hardened(n, scene))
  BY <1>1, <1>2, RepairedBody DEF Keeps
<1>4. PICK h \in Memos :
          /\ memo' = RuleSynced(h)
          /\ \A k \in n.body : Good(k) => \E j \in h.body : Good(j) /\ Labelled(j) = Labelled(k)
          /\ scene.noTable /\ scene.measurable =>
                \A l \in h.body : l.sec # "worked" /\ l.figure # "none" => l.labelled
  BY <1>1, <1>3, LabelledFacts
<1>5. PICK r \in Memos : r = memo' /\ r.body = h.body /\ (TheRule(h) # {} => r.rule = TheRule(h))
  BY <1>4, SyncedFacts
<1>6. TheRule(r) = TheRule(h) /\ TheRule(h) \subseteq h.body
  BY <1>5 DEF TheRule
<1>7. KeptGood(r)
  BY <1>1, <1>2, <1>3, <1>4, <1>5 DEF KeptGood, Keeps
<1>8. HardLabelled(r, scene)
  BY <1>4, <1>5, <1>6 DEF HardLabelled
<1>9. Sound(r)
  BY <1>5, <1>6, <1>7, <1>8 DEF Sound
<1> QED BY <1>5, <1>9 DEF Sound, KeptGood, HardLabelled, TheRule, Repair

LEMMA RepairKeeps == ASSUME ReportInv, Repair PROVE ReportInv'
<1>1. memo' \in Memos /\ Sound(memo)'
  BY RepairSound
<1> QED BY <1>1 DEF ReportInv, ReportTypeOK, Repair, OneDecisionRule, Published

LEMMA AuditsKeep == ASSUME ReportInv, ConstraintAudit \/ NumberProvenance PROVE ReportInv'
<1>1. memo \in Memos /\ scene \in Scenes /\ Sound(memo)
  BY DEF ReportInv, ReportTypeOK, ConstraintAudit, NumberProvenance
<1>2. PICK m \in Memos : m = memo' /\ Sound(m)
  BY <1>1, DemotedSound, RecreditedSound DEF ConstraintAudit, NumberProvenance
<1>3. UNCHANGED <<via, scene, written, panel, retries, rewrites>> /\ phase' \in {"audited", "polished"}
  BY DEF ConstraintAudit, NumberProvenance
<1>4. Sound(memo)'
  BY <1>2, <1>3 DEF Sound, KeptGood, HardLabelled, TheRule
<1> QED BY <1>2, <1>3, <1>4 DEF ReportInv, ReportTypeOK, OneDecisionRule, Published

LEMMA PublishReportKeeps == ASSUME ReportInv, PublishReport PROVE ReportInv'
<1>1. memo \in Memos /\ Sound(memo)
  BY DEF ReportInv, ReportTypeOK, PublishReport
<1>2. UNCHANGED <<via, scene, written, retries, rewrites>> /\ phase' = "published"
  BY DEF PublishReport
<1>3. PICK m \in Memos : /\ m = memo' /\ Sound(m)
                         /\ via = "draft" /\ TheRule(m) # {} => TheRule(m) = m.rule
  BY <1>1, StitchedSound DEF PublishReport
<1>4. Sound(memo)'
  BY <1>2, <1>3 DEF Sound, KeptGood, HardLabelled, TheRule
<1>5. OneDecisionRule'
  BY <1>2, <1>3 DEF OneDecisionRule, TheRule
<1>6. panel' \subseteq Ledger
  BY DEF PublishReport, CitedOnly, ReportInv, ReportTypeOK
<1> QED BY <1>2, <1>3, <1>4, <1>5, <1>6 DEF ReportInv, ReportTypeOK

LEMMA EmptyMemo == NoMemo \in Memos /\ NoScene \in Scenes
  BY DEF NoMemo, Memos, NoScene, Scenes

LEMMA WritingAgainKeeps == ASSUME ReportInv, Draft \/ Reloop \/ Regenerate \/ Revise PROVE ReportInv'
<1>1. CASE Draft
  <2>1. PICK body \in Bodies : \E rule \in Rules(body) :
            memo' = [body |-> body, rule |-> rule, refs |-> Ledger]
    BY <1>1 DEF Draft
  <2>2. PICK rule \in Rules(body) : memo' = [body |-> body, rule |-> rule, refs |-> Ledger]
    BY <2>1
  <2>3. body \in SUBSET AllLines /\ rule \in SUBSET Section(AllLines, "rule")
    BY LedgerAssumption DEF Bodies, Rules, Section
  <2>4. memo' \in Memos
    BY <2>2, <2>3 DEF Memos
  <2> QED BY <1>1, <2>4 DEF Draft, ReportInv, ReportTypeOK, OneDecisionRule, Published
<1>2. CASE Reloop \/ Regenerate \/ Revise
  <2>1. phase' = "writing" /\ scene' = NoScene /\ written' = NoMemo /\ memo' = NoMemo /\ panel' = {}
    BY <1>2 DEF Reloop, Regenerate, Revise, WriteAgain
  <2>2. via' \in {"draft", "quality"} /\ retries' \in 0..1 /\ rewrites' \in 0..MaxRewrites
    BY <1>2, LedgerAssumption DEF Reloop, Regenerate, Revise, ReportInv, ReportTypeOK
  <2> QED BY <2>1, <2>2, EmptyMemo DEF ReportInv, ReportTypeOK, OneDecisionRule, Published
<1> QED BY <1>1, <1>2

\* The three copies of a memo are typed, stay sound and keep what is good in the draft.
THEOREM ReportInvariance == ReportSpec => []ReportInv
<1>1. ReportInit => ReportInv
  BY EmptyMemo, LedgerAssumption
  DEF ReportInit, ReportInv, ReportTypeOK, OneDecisionRule, Published
<1>2. ASSUME ReportInv, [ReportNext]_reportVars PROVE ReportInv'
  <2>1. CASE UNCHANGED reportVars
    BY <1>2, <2>1
    DEF reportVars, ReportInv, ReportTypeOK, OneDecisionRule, Published, TheRule,
        Sound, KeptGood, HardLabelled
  <2> QED
    BY <1>2, <2>1, RepairKeeps, AuditsKeep, PublishReportKeeps, WritingAgainKeeps DEF ReportNext
<1> QED BY <1>1, <1>2, PTL DEF ReportSpec

\* The state of the report has its types through every pass of the node.
THEOREM ReportTypeCorrect == ReportSpec => []ReportTypeOK
<1>1. ReportInv => ReportTypeOK
  BY DEF ReportInv
<1> QED BY <1>1, ReportInvariance, PTL

\* No pass of the report costs the reader a good line, whatever the draft.
THEOREM GoodLinesAreKept == ReportSpec => []GoodLinesKept
<1>1. ReportInv => GoodLinesKept
  BY DEF ReportInv, GoodLinesKept, Published, Sound, KeptGood
<1> QED BY <1>1, ReportInvariance, PTL

\* On the main path the published section and field of the decision rule agree.
THEOREM DecisionRulesAgree == ReportSpec => []OneDecisionRule
<1>1. ReportInv => OneDecisionRule
  BY DEF ReportInv
<1> QED BY <1>1, ReportInvariance, PTL

\* Hard numbers that nothing measured are labelled in all that is published.
THEOREM HardNumbersAreLabelled == ReportSpec => []HardNumbersLabelled
<1>1. ReportInv => HardNumbersLabelled
  BY DEF ReportInv, HardNumbersLabelled, Published, Sound, HardLabelled
<1> QED BY <1>1, ReportInvariance, PTL

-----------------------------------------------------------------------------
(* The check of the claims. *)

LEMMA ReadingFacts ==
    ASSUME NEW t \in Readings
    PROVE  /\ t.chars \in Nat /\ t.says \in Seq(SUBSET STRING)
           /\ Len(t.says) \in Nat /\ DOMAIN t.says = 1..Len(t.says)
           /\ \A i \in DOMAIN t.says : t.says[i] \in SUBSET STRING
<1>1. t.chars \in Nat /\ t.says \in Seq(SUBSET STRING)
  BY DEF Readings
<1> QED BY <1>1

\* A span is a sentence or two neighbouring ones.
LEMMA SpanFacts ==
    ASSUME NEW t \in Readings, NEW i \in DOMAIN Spans(t), t.says # <<>>
    PROVE  \/ \E j \in DOMAIN t.says : Spans(t)[i] = t.says[j]
           \/ \E j \in DOMAIN t.says : j < Len(t.says) /\ Spans(t)[i] = t.says[j] \cup t.says[j + 1]
<1> DEFINE n == Len(t.says)
<1>1. t.says \in Seq(SUBSET STRING) /\ n \in Nat /\ DOMAIN t.says = 1..n /\ n # 0
  BY ReadingFacts
<1>2. PICK p \in Seq(SUBSET STRING) : p = Pairs(t) /\ Len(p) = n - 1
  <2>1. Pairs(t) = [j \in 1..n - 1 |-> t.says[j] \cup t.says[j + 1]]
    BY DEF Pairs
  <2>2. \A j \in 1..n - 1 : t.says[j] \cup t.says[j + 1] \in SUBSET STRING
    BY <1>1
  <2>3. n - 1 \in Nat
    BY <1>1
  <2>4. Pairs(t) \in [1..n - 1 -> SUBSET STRING]
    BY <2>1, <2>2
  <2> QED BY <2>3, <2>4
<1>3. Spans(t) = t.says \o p
  BY <1>2 DEF Spans
<1>4. i \in 1..(n + (n - 1))
  BY <1>1, <1>2, <1>3
<1>5. CASE i <= n
  BY <1>1, <1>2, <1>3, <1>4, <1>5
<1>6. CASE ~(i <= n)
  <2>1. i - n \in 1..n - 1 /\ Spans(t)[i] = p[i - n]
    BY <1>1, <1>2, <1>3, <1>4, <1>6
  <2>2. p[i - n] = t.says[i - n] \cup t.says[i - n + 1]
    BY <1>2, <2>1 DEF Pairs
  <2> QED BY <1>1, <2>1, <2>2
<1> QED BY <1>5, <1>6

LEMMA CausalFacts ==
    ASSUME NEW c, NEW t
    PROVE  CausalDelta(c, t) \in {"none", "source_missing", "wrong_number", "wrong_causal", "ok"}
  BY DEF CausalDelta

LEMMA StatusTypes ==
    ASSUME NEW c, NEW t
    PROVE  StatusOf(c, t) \in Verdicts
  BY CausalFacts DEF StatusOf, Verdicts

LEMMA RelationTypes ==
    ASSUME NEW c, NEW s
    PROVE  Relation(c, s) \in {"none", "supports", "qualifies", "contradicts"}
  BY DEF Relation

\* What "verified" means.
LEMMA VerifiedIsShown ==
    ASSUME NEW c \in AnyClaim, NEW t \in Readings, StatusOf(c, t) = "verified"
    PROVE  c.url # NoUrl /\ Shown(c, t)
<1>1. c.url # NoUrl /\ ~(t.chars < 40)
  BY CausalFacts DEF StatusOf
<1>2. Located(Sought(c), t)
  BY CausalFacts DEF StatusOf
<1>3. SpanGate(c, t) # "ungrounded"
  BY CausalFacts DEF StatusOf
<1>4. t.says # <<>> /\ Len(t.says) # 0
  BY <1>2, ReadingFacts DEF Located
<1>5. ASSUME c.kind \notin Opinions
      PROVE  \E j \in DOMAIN t.says :
                 \/ c.says \cap Numbers \subseteq t.says[j]
                 \/ j < Len(t.says) /\ c.says \cap Numbers \subseteq t.says[j] \cup t.says[j + 1]
  <2>1. CASE c.says \cap Numbers = {}
    <3>1. 1 \in DOMAIN t.says
      BY <1>4, ReadingFacts
    <3> QED BY <2>1, <3>1
  <2>2. CASE c.says \cap Numbers # {}
    <3>1. t.chars >= 40
      BY <1>1, ReadingFacts
    <3>2. Holding(t, c.says \cap Numbers) # {}
      BY <1>3, <1>5, <2>2, <3>1 DEF SpanGate
    <3>3. PICK i \in DOMAIN Spans(t) : c.says \cap Numbers \subseteq Spans(t)[i]
      BY <3>2 DEF Holding
    <3> QED BY <1>4, <3>3, SpanFacts
  <2> QED BY <2>1, <2>2
<1> QED BY <1>1, <1>2, <1>5 DEF Shown

\* Filling a claim in leaves it a claim, at an address of the run's or at none.
LEMMA QuotedIsClaim ==
    ASSUME NEW c \in AnyClaim, NEW q \in SUBSET STRING
    PROVE  [c EXCEPT !.quote = q] \in AnyClaim
  BY DEF AnyClaim

LEMMA AddressedIsClaim ==
    ASSUME NEW c \in AnyClaim
    PROVE  Addressed(c) \in AnyClaim /\ Addressed(c).url \in Urls \cup {NoUrl}
<1> DEFINE u == IF c.url \in Citable \cup {NoUrl} THEN c.url
                ELSE IF c.from \in Citable THEN c.from ELSE NoUrl
<1>1. u \in Urls \cup {NoUrl}
  BY ClaimAssumption
<1>2. u \in STRING
  <2>1. NoUrl \in STRING
    BY ClaimAssumption
  <2>2. CASE u = NoUrl
    BY <2>1, <2>2
  <2>3. CASE u \in Urls
    BY <2>3, ClaimAssumption
  <2> QED BY <1>1, <2>2, <2>3
<1>3. Addressed(c) = [c EXCEPT !.url = u]
  BY DEF Addressed
<1> HIDE DEF u
<1>4. [c EXCEPT !.url = u] \in AnyClaim /\ [c EXCEPT !.url = u].url = u
  BY <1>2 DEF AnyClaim
<1> QED BY <1>1, <1>3, <1>4

LEMMA BorrowedIsClaim ==
    ASSUME NEW c \in AnyClaim, texts \in [Urls -> Readings]
    PROVE  Borrowed(c) \in AnyClaim
<1>1. CASE ~Grounded(c)
  BY <1>1 DEF Borrowed
<1>2. CASE Grounded(c)
  <2> DEFINE u == IF c.url = NoUrl THEN c.from ELSE c.url
             o == Opening(texts[c.from])
             q == IF c.quote = {} THEN o ELSE c.quote
  <2>1. texts[c.from] \in Readings
    BY <1>2 DEF Grounded
  <2>2. o \in SUBSET STRING
    BY <2>1, ReadingFacts DEF Opening
  <2>3. u \in STRING /\ q \in SUBSET STRING
    BY <2>2 DEF AnyClaim
  <2>4. Borrowed(c) = [c EXCEPT !.url = u, !.quote = q]
    BY <1>2 DEF Borrowed
  <2> HIDE DEF u, q
  <2> QED BY <2>3, <2>4 DEF AnyClaim
<1> QED BY <1>1, <1>2

LEMMA QuotesAreSets ==
    ASSUME NEW c \in AnyClaim, texts \in [Urls -> Readings]
    PROVE  Quotes(c) \subseteq SUBSET STRING
<1>1. \A u : TextAt(u).says \in Seq(SUBSET STRING)
  <2> SUFFICES ASSUME NEW u PROVE TextAt(u).says \in Seq(SUBSET STRING)
    OBVIOUS
  <2>1. CASE u \in Urls
    BY <2>1, ReadingFacts DEF TextAt
  <2>2. CASE u \notin Urls
    BY <2>2 DEF TextAt, EmptyText
  <2> QED BY <2>1, <2>2
<1>2. c.quote \in SUBSET STRING
  BY DEF AnyClaim
<1>3. PICK says \in Seq(SUBSET STRING) : says = EvidenceFor(c).says
  BY <1>1 DEF EvidenceFor
<1>4. \A i \in DOMAIN says : says[i] \in SUBSET STRING
  OBVIOUS
<1> QED BY <1>2, <1>3, <1>4 DEF Quotes

\* The claims a writer makes are claims by their place.
LEMMA ListsAreListed ==
    ASSUME NEW l \in ClaimLists
    PROVE  Listed(l, AnyClaim)
  BY ClaimAssumption DEF Listed

LEMMA GroundKeeps ==
    ASSUME ClaimInv, Ground
    PROVE  ClaimInv'
<1> USE DEF ClaimInv, ClaimTypeOK
<1>1. results = <<>> /\ results' = <<>> /\ task' = "quote"
  BY DEF Ground
<1>2. PICK kept : /\ kept \subseteq DOMAIN claims
                  /\ \/ claims' \in ClaimLists \cup {<<>>}
                     \/ claims' = [i \in kept |-> Borrowed(claims[i])]
  BY DEF Ground
<1>3. Listed(claims', AnyClaim)
  <2>1. CASE claims' \in ClaimLists
    BY <2>1, ListsAreListed
  <2>2. CASE claims' = <<>>
    BY <2>2 DEF Listed
  <2>3. CASE claims' = [i \in kept |-> Borrowed(claims[i])]
    <3>1. \A i \in kept : Borrowed(claims[i]) \in AnyClaim
      BY <1>2, BorrowedIsClaim DEF Listed
    <3> QED BY <1>2, <2>3, <3>1 DEF Listed
  <2> QED BY <1>2, <2>1, <2>2, <2>3
<1>4. UNCHANGED <<texts, fetched, content, stored, checks>>
  BY DEF Ground
<1>5. ClaimTypeOK'
  BY <1>1, <1>3, <1>4
<1>6. VerifiedHasItsSource'
  BY <1>4 DEF VerifiedHasItsSource
<1> QED BY <1>1, <1>5, <1>6

LEMMA QuoteKeeps ==
    ASSUME ClaimInv, FillQuotes
    PROVE  ClaimInv'
<1> USE DEF ClaimInv, ClaimTypeOK
<1>1. results = <<>> /\ results' = <<>> /\ task' = "verify"
  BY DEF FillQuotes
<1>2. PICK q : /\ \A i \in DOMAIN claims : q[i] \in Quotes(claims[i])
               /\ claims' = [i \in DOMAIN claims |-> Addressed([claims[i] EXCEPT !.quote = q[i]])]
  BY DEF FillQuotes
<1>3. \A i \in DOMAIN claims : [claims[i] EXCEPT !.quote = q[i]] \in AnyClaim
  BY <1>2, QuotesAreSets, QuotedIsClaim DEF Listed
<1>4. DOMAIN claims' = DOMAIN claims /\
      \A i \in DOMAIN claims : claims'[i] \in AnyClaim /\ claims'[i].url \in Urls \cup {NoUrl}
  BY <1>2, <1>3, AddressedIsClaim
<1>5. Listed(claims', AnyClaim)
  BY <1>2, <1>4 DEF Listed
<1>6. UNCHANGED <<texts, fetched, content, stored, checks>>
  BY DEF FillQuotes
<1>7. ClaimTypeOK'
  BY <1>1, <1>5, <1>6
<1>8. VerifiedHasItsSource'
  BY <1>6 DEF VerifiedHasItsSource
<1> QED BY <1>1, <1>4, <1>7, <1>8

\* A text a claim is checked against is a reading; a long one is what the run has.
LEMMA ReadFacts ==
    ASSUME ClaimTypeOK, NEW c \in AnyClaim, c.url \in Urls \cup {NoUrl}, NEW t \in Read(c)
    PROVE  /\ t \in Readings
           /\ c.url \in Urls /\ texts[c.url].chars >= 400 => t = texts[c.url]
<1>1. TextAt(c.url) \in Readings
  BY DEF TextAt, EmptyText, Readings, ClaimTypeOK
<1>2. Tries(c) => Answers[c.url] \subseteq Readings
  BY ClaimAssumption DEF Tries
<1>3. t \in Readings
  BY <1>1, <1>2 DEF Read
<1>4. ASSUME c.url \in Urls, texts[c.url].chars >= 400 PROVE t = texts[c.url]
  <2>1. TextAt(c.url) = texts[c.url] /\ ~(texts[c.url].chars < 400)
    BY <1>4, ReadingFacts DEF TextAt, ClaimTypeOK
  <2>2. ~Tries(c)
    BY <2>1 DEF Tries
  <2> QED BY <2>1, <2>2 DEF Read
<1> QED BY <1>3, <1>4

LEMMA VerifyKeeps ==
    ASSUME ClaimInv, Verify
    PROVE  ClaimInv'
<1> USE DEF ClaimInv, ClaimTypeOK
<1>1. task = "verify" /\ UNCHANGED <<task, claims, stored, checks>>
  BY DEF Verify
<1>2. PICK i \in DOMAIN claims : IsNext(i) /\ \E t \in Read(claims[i]) :
            /\ Checked(i, t)
            /\ texts' = IF claims[i].url = NoUrl THEN texts ELSE [texts EXCEPT ![claims[i].url] = t]
  BY DEF Verify
<1>3. PICK c \in AnyClaim : c = claims[i]
  BY <1>2 DEF Listed
<1>4. c.url \in Urls \cup {NoUrl} /\ NoUrl \notin Urls
  BY <1>1, <1>2, <1>3, ClaimAssumption
<1>5. PICK t \in Read(c) :
            /\ Checked(i, t)
            /\ texts' = IF c.url = NoUrl THEN texts ELSE [texts EXCEPT ![c.url] = t]
  BY <1>2, <1>3
<1>6. t \in Readings /\ (c.url \in Urls /\ texts[c.url].chars >= 400 => t = texts[c.url])
  BY <1>4, ReadFacts
<1>7. i \notin DOMAIN results /\ i \in Nat
  BY <1>2 DEF IsNext, Unchecked, Listed
<1>8. PICK r \in Result : r = [status |-> StatusOf(c, t), long |-> t.chars >= 400]
  <2>1. t.chars \in Nat /\ StatusOf(c, t) \in Verdicts
    BY <1>6, ReadingFacts, StatusTypes
  <2>2. [status |-> StatusOf(c, t), long |-> t.chars >= 400] \in Result
    BY <2>1 DEF Result
  <2> QED BY <2>2
<1>9. /\ DOMAIN results' = DOMAIN results \cup {i} /\ results'[i] = r
      /\ \A j \in DOMAIN results : results'[j] = results[j]
      /\ results' = [j \in DOMAIN results \cup {i} |-> IF j = i THEN r ELSE results[j]]
  BY <1>3, <1>5, <1>7, <1>8 DEF Checked
<1>10. Listed(results', Result)
  BY <1>7, <1>8, <1>9 DEF Listed
<1>11. content' = IF c.url = NoUrl THEN content ELSE [content EXCEPT ![c.url] = t]
  BY <1>3, <1>5 DEF Checked
<1>12. texts' \in [Urls -> Readings] /\ content' \in [Urls -> Readings]
  BY <1>4, <1>5, <1>6, <1>11
<1>13. fetched' \in 0..MaxRefetch
  BY <1>3, <1>5, ClaimAssumption DEF Checked, Tries
<1>14. ClaimTypeOK'
  BY <1>1, <1>10, <1>12, <1>13
<1>15. ASSUME NEW j \in DOMAIN results PROVE Backed(j)'
  <2> SUFFICES ASSUME results[j].status = "verified", results[j].long
               PROVE  /\ claims[j].url \in Urls /\ texts'[claims[j].url].chars >= 400
                      /\ content'[claims[j].url] = texts'[claims[j].url]
                      /\ Shown(claims[j], texts'[claims[j].url])
    BY <1>1, <1>9 DEF Backed
  <2>1. /\ claims[j].url \in Urls /\ texts[claims[j].url].chars >= 400
        /\ content[claims[j].url] = texts[claims[j].url] /\ Shown(claims[j], texts[claims[j].url])
    BY DEF Backed
  <2>2. CASE c.url = claims[j].url
    <3>1. t = texts[claims[j].url]
      BY <1>6, <2>1, <2>2
    <3>2. texts'[claims[j].url] = t /\ content'[claims[j].url] = t
      BY <1>4, <1>5, <1>11, <2>1, <2>2
    <3> QED BY <2>1, <3>1, <3>2
  <2>3. CASE c.url # claims[j].url
    <3>1. texts'[claims[j].url] = texts[claims[j].url] /\ content'[claims[j].url] = content[claims[j].url]
      BY <1>4, <1>5, <1>11, <2>1, <2>3
    <3> QED BY <2>1, <3>1
  <2> QED BY <2>2, <2>3
<1>16. Backed(i)'
  <2> SUFFICES ASSUME r.status = "verified", r.long
               PROVE  /\ c.url \in Urls /\ texts'[c.url].chars >= 400
                      /\ content'[c.url] = texts'[c.url]
                      /\ Shown(c, texts'[c.url])
    BY <1>1, <1>3, <1>9 DEF Backed
  <2>1. StatusOf(c, t) = "verified" /\ t.chars >= 400
    BY <1>8
  <2>2. c.url # NoUrl /\ Shown(c, t)
    BY <1>6, <2>1, VerifiedIsShown
  <2>3. texts'[c.url] = t /\ content'[c.url] = t
    BY <1>4, <1>5, <1>11, <2>2
  <2> QED BY <1>4, <2>1, <2>2, <2>3
<1>17. VerifiedHasItsSource'
  BY <1>1 DEF VerifiedHasItsSource
<1> QED BY <1>1, <1>2, <1>9, <1>14, <1>15, <1>16, <1>17

LEMMA PersistKeeps ==
    ASSUME ClaimInv, Persist
    PROVE  ClaimInv'
<1> USE DEF ClaimInv, ClaimTypeOK
<1>1. task = "verify" /\ task' = "reported" /\ UNCHANGED <<claims, texts, fetched, results, content, checks>>
  BY DEF Persist
<1>2. DOMAIN results = DOMAIN claims
  BY DEF Persist, Unchecked
<1>3. \A i \in DOMAIN results : Backed(i)'
  BY <1>1 DEF Backed
<1>4. CASE stored' = stored
  <2>1. VerifiedHasItsSource'
    BY <1>4 DEF VerifiedHasItsSource
  <2> QED BY <1>1, <1>3, <1>4, <2>1
<1>5. CASE stored' # stored
  <2> DEFINE e == [i \in DOMAIN claims |-> Relation(claims[i], results[i].status)]
  <2>1. Listed(e, {"none", "supports", "qualifies", "contradicts"})
    BY RelationTypes DEF Listed
  <2>2. stored' = [claims |-> claims, results |-> results, content |-> content, edges |-> e]
    BY <1>5 DEF Persist
  <2> HIDE DEF e
  <2>3. /\ DOMAIN stored' = {"claims", "results", "edges", "content"}
        /\ stored'.claims = claims /\ stored'.results = results /\ stored'.edges = e
        /\ stored'.content = content
    BY <2>2
  <2>4. ClaimTypeOK'
    BY <1>1, <2>1, <2>3
  <2>5. VerifiedHasItsSource'
    <3> SUFFICES ASSUME NEW i \in DOMAIN claims, results[i].status = "verified", results[i].long
                 PROVE  Shown(claims[i], content[claims[i].url])
      BY <2>3 DEF VerifiedHasItsSource
    <3> QED BY <1>2 DEF Backed
  <2> QED BY <1>1, <1>3, <2>4, <2>5
<1> QED BY <1>4, <1>5

LEMMA NoContent == NothingStored.content \in [Urls -> Readings]
  BY DEF NothingStored, EmptyText, Readings

LEMMA AgainKeeps ==
    ASSUME ClaimInv, ReportAgain
    PROVE  ClaimInv'
<1> USE DEF ClaimInv, ClaimTypeOK
<1>1. /\ checks' = checks + 1 /\ checks < MaxChecks /\ task' = "ground"
      /\ claims' \in ClaimLists /\ texts' \in WorkingSets
      /\ fetched' = 0 /\ results' = <<>> /\ content' = NothingStored.content
      /\ UNCHANGED stored
  BY DEF ReportAgain
<1>2. Listed(claims', AnyClaim) /\ Listed(results', Result)
  BY <1>1, ListsAreListed DEF Listed
<1>3. ClaimTypeOK'
  BY <1>1, <1>2, NoContent, ClaimAssumption
<1>4. VerifiedHasItsSource'
  BY <1>1 DEF VerifiedHasItsSource
<1> QED BY <1>1, <1>3, <1>4

\* Every claim verified against a long text has that text for its source until it is stored.
THEOREM ClaimInvariance == ClaimSpec => []ClaimInv
<1>1. ClaimInit => ClaimInv
  <2> SUFFICES ASSUME ClaimInit PROVE ClaimInv
    OBVIOUS
  <2>1. /\ task = "ground" /\ claims \in ClaimLists /\ texts \in WorkingSets
        /\ fetched = 0 /\ results = <<>> /\ content = NothingStored.content
        /\ stored = NothingStored /\ checks = 0
    BY DEF ClaimInit
  <2>2. /\ stored.claims = <<>> /\ stored.results = <<>> /\ stored.edges = <<>>
        /\ stored.content = NothingStored.content
        /\ DOMAIN stored = {"claims", "results", "edges", "content"}
    BY <2>1 DEF NothingStored
  <2>3. ClaimTypeOK
    BY <2>1, <2>2, NoContent, ListsAreListed, ClaimAssumption DEF ClaimTypeOK, Listed
  <2>4. VerifiedHasItsSource
    BY <2>2 DEF VerifiedHasItsSource
  <2> QED BY <2>1, <2>3, <2>4 DEF ClaimInv
<1>2. ASSUME ClaimInv, [ClaimNext]_claimVars PROVE ClaimInv'
  <2>1. CASE UNCHANGED claimVars
    BY <1>2, <2>1 DEF claimVars, ClaimInv, ClaimTypeOK, VerifiedHasItsSource, Backed
  <2> QED
    BY <1>2, <2>1, GroundKeeps, QuoteKeeps, VerifyKeeps, PersistKeeps, AgainKeeps DEF ClaimNext
<1> QED BY <1>1, <1>2, PTL DEF ClaimSpec

\* The state of the check and of the stored graph has its types.
THEOREM ClaimTypeCorrect == ClaimSpec => []ClaimTypeOK
<1>1. ClaimInv => ClaimTypeOK
  BY DEF ClaimInv
<1> QED BY <1>1, ClaimInvariance, PTL

\* A stored claim that was verified against a long text is shown by the text stored
\* for its source, in whatever order the claims were checked and fetched.
THEOREM VerifiedClaimsHaveTheirSource == ClaimSpec => []VerifiedHasItsSource
<1>1. ClaimInv => VerifiedHasItsSource
  BY DEF ClaimInv
<1> QED BY <1>1, ClaimInvariance, PTL
=============================================================================
