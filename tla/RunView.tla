------------------------------ MODULE RunView ------------------------------
(***************************************************************************)
(* The research page (apps/web Research.tsx) over the rows of the API: the *)
(* page polls the run it shows, answers of overlapping polls arrive in any *)
(* order, a button sends a request and may change the page before it is    *)
(* answered, and the drafts of a brief and a plan live in the page, not in *)
(* the run.  The event stream only makes the page poll sooner: it stands   *)
(* for no action of its own, since a poll may be sent at any time.         *)
(*                                                                         *)
(* Rows are those of RunRow.  What executes a run is one worker that sends *)
(* frames; which worker, and its crashes, are RunLifecycle's.  A plan is   *)
(* known by the run it was proposed for; the brief, whose draft is handled *)
(* alike except that startResearch clears it, and its gate are left out.   *)
(***************************************************************************)
EXTENDS RunRow, FiniteSets

CONSTANTS Runs,
          MaxPolls,    \* BOUND on polls under way at once
          MaxAnswers,  \* BOUND on answers accepted, all runs together
          MaxFailures  \* BOUND on requests of buttons that fail

NoOne == "no run"
Kinds == {"plan", "memo"}   \* "memo" for any gate that is not about a plan
Gate  == Kinds \cup {"none"}

VARIABLES
    rows,      \* research_runs
    kind,      \* what the gate last stored in a row asks about
    page,      \* the React state of the page
    polls,     \* GET requests on their way to the server, or back to the page
    post,      \* the request of a button, while the buttons are disabled
    failures   \* how many of these requests have failed

viewVars == <<rows, kind, page, polls, post, failures>>

\* What getRun returns: presentRun keeps every column of the row, so the
\* stored gate comes with it whatever the status is.
Seen(r) == [run |-> r, status |-> rows[r].status,
            gate |-> IF rows[r].gate # 0 THEN kind[r] ELSE "none"]

NothingShown == [run |-> NoOne, status |-> "absent", gate |-> "none"]
ShownRun == [run : Runs \cup {NoOne}, status : Status, gate : Gate]

\* parkedGate: a gate in the copy the page holds wins over the status of the row.
StatusShown(shown) == IF shown.gate # "none" THEN "awaiting_human" ELSE shown.status

PageAt(r) == [viewed |-> r, shown |-> NothingShown, plan |-> NoOne]
NoPost == [op |-> "none"]
SentPoll == [at |-> "server", seen |-> NothingShown]
AnsweredPoll(r) == [at |-> "page", seen |-> Seen(r)]

ViewInit ==
    /\ rows = [r \in Runs |-> NoRow] /\ kind = [r \in Runs |-> "none"]
    /\ page = PageAt(NoOne)
    /\ polls = {} /\ post = NoPost /\ failures = 0

-----------------------------------------------------------------------------
(* The run goes on.                                                        *)

\* A run is asked about its plan, which may be skipped, then about its memo.
NextKinds(k) == IF k = "none" THEN Kinds ELSE {"memo"}

Frames(r, f) ==
    /\ rows[r].status \in Executing /\ FrameAccepted(rows[r], rows[r].version)
    /\ rows' = [rows EXCEPT ![r] = FramedRow(@, @.version, f)]
    /\ IF f = "interrupt"
       THEN \E k \in NextKinds(kind[r]) : kind' = [kind EXCEPT ![r] = k]
       ELSE UNCHANGED kind
    /\ UNCHANGED <<page, polls, post, failures>>

-----------------------------------------------------------------------------
(* The poll: every two seconds and on every event of the stream.           *)

\* Mutant: the timer is stopped while the page shows a gate.
SendPollUntilParked ==
    /\ page.viewed # NoOne /\ Cardinality(polls) < MaxPolls /\ SentPoll \notin polls
    /\ ~(page.shown.run = page.viewed /\ page.shown.gate # "none")
    /\ polls' = polls \cup {SentPoll}
    /\ UNCHANGED <<rows, kind, page, post, failures>>

SendPoll ==
    /\ page.viewed # NoOne /\ Cardinality(polls) < MaxPolls /\ SentPoll \notin polls
    /\ polls' = polls \cup {SentPoll}
    /\ UNCHANGED <<rows, kind, page, post, failures>>

AnswerPoll ==
    /\ SentPoll \in polls
    /\ polls' = (polls \ {SentPoll}) \cup {AnsweredPoll(page.viewed)}
    /\ UNCHANGED <<rows, kind, page, post, failures>>

\* A draft is taken from the gate only while the page has none.
Drafted(draft, seen) == IF seen.gate = "plan" /\ draft = NoOne THEN seen.run ELSE draft

ApplyPoll ==
    \E poll \in polls \ {SentPoll} :
        /\ page' = [page EXCEPT !.shown = poll.seen, !.plan = Drafted(@, poll.seen)]
        /\ polls' = polls \ {poll}
        /\ UNCHANGED <<rows, kind, post, failures>>

-----------------------------------------------------------------------------
(* The buttons.  One request at a time: busy disables them.                *)

\* The effect on runId starts over: answers of the old polls are dropped.
ViewRun(r) ==
    /\ polls' = IF r = page.viewed THEN polls ELSE {}

\* startResearch clears the page, a follow-up and a retry do not; none of
\* them clears the plan.
ClickBegin(how) ==
    /\ post = NoPost /\ \E r \in Runs : rows[r] = NoRow
    /\ how # "start" => page.viewed # NoOne
    /\ post' = [op |-> "create"]
    /\ page' = IF how = "start" THEN [page EXCEPT !.shown = NothingShown]
               ELSE page
    /\ UNCHANGED <<rows, kind, polls, failures>>

Begins(r) ==
    /\ post.op = "create" /\ rows[r] = NoRow
    /\ rows' = [rows EXCEPT ![r] = CreatedRow]
    /\ page' = [page EXCEPT !.viewed = r]
    /\ post' = NoPost /\ ViewRun(r)
    /\ UNCHANGED <<kind, failures>>

\* openThreadRun
OpenRun(r) ==
    /\ rows[r] # NoRow /\ page.viewed \notin {NoOne, r}
    /\ page' = [page EXCEPT !.viewed = r] /\ ViewRun(r)
    /\ UNCHANGED <<rows, kind, post, failures>>

\* resume: the answer carries the plan, whatever gate it is for.  Every
\* answer but "cancel" takes the gate off the page at once.
ClickAnswer(action) ==
    /\ post = NoPost /\ page.viewed # NoOne /\ page.shown.gate # "none"
    /\ post' = [op |-> "resume", run |-> page.viewed, plan |-> page.plan]
    /\ page' = IF action = "cancel" THEN page
               ELSE [page EXCEPT !.shown.status = "queued", !.shown.gate = "none"]
    /\ UNCHANGED <<rows, kind, polls, failures>>

Answered == Cardinality({r \in Runs : rows[r].version > 1})

Answers ==
    /\ post.op = "resume" /\ post' = NoPost
    /\ LET r == post.run  row == rows[r] IN
       IF Resumable(row, "start") /\ Answered < MaxAnswers
       THEN rows' = [rows EXCEPT ![r] = ResumedRow(row)]
       ELSE UNCHANGED rows
    /\ UNCHANGED <<kind, page, polls, failures>>

\* cancelRun: the row, a read of it, and setRun with no look at what is viewed.
ClickCancel ==
    /\ post = NoPost /\ page.viewed # NoOne /\ StatusShown(page.shown) \in Executing
    /\ post' = [op |-> "cancel", run |-> page.viewed]
    /\ UNCHANGED <<rows, kind, page, polls, failures>>

Cancels ==
    /\ post.op = "cancel"
    /\ LET r == post.run IN
       /\ rows' = IF Cancellable(rows[r]) THEN [rows EXCEPT ![r] = CancelledRow(@)] ELSE rows
       /\ post' = [op |-> "cancelled", run |-> r]
    /\ UNCHANGED <<kind, page, polls, failures>>

ReadsCancelled ==
    /\ post.op = "cancelled"
    /\ post' = [op |-> "read", seen |-> Seen(post.run)]
    /\ UNCHANGED <<rows, kind, page, polls, failures>>

ShowsCancelled ==
    /\ post.op = "read" /\ post' = NoPost
    /\ page' = [page EXCEPT !.shown = post.seen]
    /\ UNCHANGED <<rows, kind, polls, failures>>

\* A request that fails, or whose answer is lost, leaves the page as the click did.
PostFails ==
    /\ post # NoPost /\ post' = NoPost
    /\ failures < MaxFailures /\ failures' = failures + 1
    /\ UNCHANGED <<rows, kind, page, polls>>

-----------------------------------------------------------------------------

ViewNext ==
    \/ \E r \in Runs, f \in {"research", "interrupt", "completed"} : Frames(r, f)
    \/ SendPoll \/ AnswerPoll \/ ApplyPoll
    \/ (\E how \in {"start", "followup", "retry"} : ClickBegin(how))
    \/ (\E r \in Runs : Begins(r)) \/ (\E r \in Runs : OpenRun(r))
    \/ (\E action \in {"start", "cancel"} : ClickAnswer(action)) \/ Answers
    \/ ClickCancel \/ Cancels \/ ReadsCancelled \/ ShowsCancelled \/ PostFails

\* The timer ticks, requests are answered and their answers applied.
\* Nobody has to press a button.
ViewFairness ==
    /\ WF_viewVars(SendPoll) /\ WF_viewVars(AnswerPoll) /\ WF_viewVars(ApplyPoll)
    /\ WF_viewVars(\E r \in Runs : Begins(r)) /\ WF_viewVars(Answers)
    /\ WF_viewVars(Cancels) /\ WF_viewVars(ReadsCancelled) /\ WF_viewVars(ShowsCancelled)

ViewSpec == ViewInit /\ [][ViewNext]_viewVars /\ ViewFairness

-----------------------------------------------------------------------------

ViewTypeOK ==
    /\ rows \in [Runs -> Row] /\ kind \in [Runs -> Gate]
    /\ page.viewed \in Runs \cup {NoOne} /\ page.shown \in ShownRun
    /\ page.plan \in Runs \cup {NoOne}
    /\ polls \subseteq [at : {"server", "page"}, seen : ShownRun]

\* Once a run has ended and left no gate behind, the page that views it comes
\* to show that end and keeps showing it, whatever order the answers of the
\* polls arrived in.
PageCatchesUp ==
    \A r \in Runs :
        (page.viewed = r /\ rows[r].status \in Settled /\ rows[r].gate = 0)
            ~> (page.viewed # r \/ [](page.viewed = r => StatusShown(page.shown) = rows[r].status))

\* "Review sub-queries and agents before Kiln starts searching" (plan_gate.py):
\* the plan an answer carries is the one that was put up for review.
PlanIsItsOwn ==
    [][\A r \in Runs : rows'[r].version > rows[r].version /\ kind[r] = "plan"
                          => post.plan \in {r, NoOne}]_viewVars
=============================================================================
