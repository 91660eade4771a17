# Kiln, verified: TLA+ models of the research agent

Kiln takes a research question, runs an agent graph that searches, reads,
criticises and writes, stops at gates where a human decides, and publishes a
memo. This directory holds TLA+ models of the parts whose correctness depends on
order, failure, concurrency or a long chain of repairs, the TLC configurations
that check them on small instances, and TLAPS proofs of what holds for every
instance. Paths below are relative to the repository root.

## 1. The system

| part | state it keeps | operations | talks to |
|---|---|---|---|
| `research.service.ts`, controller | none of its own | enqueue, resume, cancel, softDelete, events (SSE), reads | repository, vault, billing |
| `research.repository.ts` | `research_runs`, `run_events`, `research_dispatch_outbox`, `notifications` | guarded SQL statements, each one transaction | Postgres |
| `research.dispatcher.ts` | one poll loop per process | lock an outbox row, `queue.add`, mark it dispatched | repository, BullMQ |
| BullMQ / Redis (external) | the queue `research`, job locks, attempt and stall counters | take, complete, fail, retry, stalled check | dispatcher, processor |
| `research.processor.ts` | one worker of concurrency one per process | claim the row, find the key, stream frames into the row, `onFailed` | repository, vault, agent client |
| `llm-credential.vault.ts` | visitor keys in process memory, with a TTL | put, peek, release | service, processor |
| `agent-execution.client.ts` | one HTTP stream | NDJSON frames, idle timeout | agent |
| `present-run.ts`, `Research.tsx` | none / the run shown, drafts, polls and a button under way | which status and gate are shown, what a button sends | service |
| agent `runtime.py`, `main.py` | LangGraph checkpoints, advisory lock per run, connection pool | start, resume, continue after credits, restart, final frame | graph, Postgres |
| agent `graph/` | the checkpointed state of one run, its `Budget` | routing between nodes, gates, loops | domain, llm, tools |
| agent `domain/knowledge.py` | `knowledge_records` | reuse, publish, supersede, mark, delete, import | Postgres |
| agent `llm/client.py` | slots of providers and keys, benched slots, the active model | generate, failover, backoff, credits pause | providers |
| agent `domain/coverage*.py`, `gap_enrich.py`, `citations.py` | functions on evidence | merging, slot status, grades, follow-ups, gap fetches | graph nodes |
| agent `report/`, `report_integrity.py`, `grounding.py`, ... | one report in its several copies, claims and the evidence graph | drafting, retries, audits, verification, storing | graph nodes, Postgres |
| agent `retrieval/` | files, `corpus_documents`, vectors in Qdrant, sync rows, a cache of embeddings per process | ingest, rebuild, search, embed | Postgres, Qdrant, Gemini |
| `billing/`, `auth/` | quota, usage ledger, memberships, API keys | assertWithinQuota, recordUsage, guards | service |

The hard behaviours lie between these parts. Several API processes race for
outbox rows and jobs; a job is retried after a throw, a crash or a lost lock, and
a worker that lost its lock does not know it. Users answer, cancel and delete
while frames are on their way, and a version bump alone tells a late frame from
a current one. The agent resumes from a checkpoint that an execution may have
passed before its frame was lost. Runs reuse each other's answers while these
are merged, superseded and deleted. A memo exists as body, field and stored
graph, and a dozen fail-soft passes repair one copy or another. Three judges
with thresholds of their own decide over the same evidence. What makes each part
right is in the properties; `PROJECT.json` lists the components, the hazards at
their lines and the properties that cover them.

## 2. Modules

| module | models | module | models |
|---|---|---|---|
| `RunRow` | one row and the statements that guard it | `Retrieval` | passes over evidence: budget, merging, working set |
| `RunLifecycle` | requests, outbox, queue, workers, vault, crashes | `QualityLoop` | critic, its edge, the memo gate: when is it enough |
| `RunStatus` | abstract: the status machine the API promises | `MemoWriter` | drafting with a model that may answer anything |
| `ResearchGraph` | one run inside the agent's graph | `ReportPipeline` | the passes from the draft to the published memo |
| `AgentRuntime` | streams of one run, lock, pool, checkpoints | `ClaimCheck` | claims, quotes, fetches and the stored graph |
| `GateProtocol` | abstract: what a gate promises | `Corpus` | files, rows and vectors over ingests |
| `LlmFailover` | the ring of keys during calls | `KnowledgeReuse` | stored answers and the runs that reuse them |
| `RunView` | the page: polls, drafts, buttons | `Admission` | rate limit and quota over concurrent requests |
| `Embedding` | the cache of embeddings and its fallback | | |

The `MC*` modules give small instances for TLC, and `*Proofs` hold the theorems.
`MCAgent`, `MCEvidence`, `MCCorpus` and `MCShared` put components that share no state
beside each other as alternative *parts*: each part explores one component in full
while the others rest in one initial state. `MCGrounds` puts the stored answers
(`MCKnowledge`) beside `MCEvidence` in the same way, and `MCUnlocked` the corpus and
the cache beside a run whose workers lose their lock.

### RunRow, RunLifecycle

Each guarded statement of the repository is a predicate (its WHERE clause, or the
early return after SELECT FOR UPDATE) and a function from the old row to the new.
A fresh `execution_id` is drawn exactly when the version grows and the two are
always compared together, so the version stands for both. The gate column holds
the version of the execution that stored it. One action per request, transaction
or step between two awaits of `ResearchProcessor.process`. `Publish` is
`dispatchNext` up to and including `queue.add`, `CommitDispatch` its commit, so a
crash can fall between them. `ReceiveFrame` is one frame read and
`applyExecutionFrame` applied. The agent is any process that obeys the frame
protocol: progress frames, then one interrupt or terminal frame, a fatal error,
or a break. `RunLifecycle` is shown to implement `RunStatus`.

### ResearchGraph

| state | code |
|---|---|
| `node` | the checkpoint's `next`; `search` stands for search, scholar and docs, which run in one superstep and join in the collector |
| `status`, `reuse`, `planConfirmed`, `regens`, `mandatory`, `integrity` | the fields of `ResearchState` they are named for |
| `gate`, `frame` | the pending interrupt, and the last frame of `stream_execution` ("none" while it streams) |
| `iter`, `maxIter`, `calls`, `tokensLeft` | `Budget.iterations`, `max_iterations`, `remaining_calls`, `remaining_tokens > 0` |
| `agents`, `draft`, `missing`, `prior` | whether `agents_to_run`, the report's body, `missing_mandatory`, `prior_knowledge` hold anything |
| `followups` | `state["followups"]`, as the set of reasons its questions were written for |
| `said`, `promised` | history: what the human answered, and the passes promised and not yet planned |

A node is one action, and its conditional edge is taken in the node's step:
LangGraph computes the next node from the state the node just wrote, before the
checkpoint that ends the superstep. A gate is two actions, the park and the
answer, because LangGraph runs the node again from its start when it is resumed.
What a model, a search, the coverage score or the quality checks say is chosen
freely within what the code does with it.

### AgentRuntime, LlmFailover

A stream waits for the boot, a pooled connection and the run's advisory lock,
reads the checkpoint, resumes, restarts or continues, runs the nodes and ends
with one frame; it may lose its client, its worker or its process at every
point. The graph is a path of nodes. `shown` and `asked` are what the row holds
and held; `applied` is the history of answers taken by gates. `Stage` maps them
to `GateProtocol`.

`LlmFailover` is one client with its ring of slots. `SearchAfter` is the loop of
`_failover`, one step per iteration, with `_slot_index` moving inside it as in
the code. A verdict of a provider is one of the six classes `providers.py` sorts
errors into. Role blocks (`roles.py`) set another model on the client.

### Retrieval, QualityLoop

A row of evidence is a page of a work with the text the run has of it; the
channel `evidence` and the working set `retrieved` are kept apart, since the
code copies rows from one to the other. How well a work speaks to a dimension is
the constant `Score`. `QualityLoop` has the arithmetic of `_research_quality`
(weights, ceilings, penalties, Python's rounding) over a summary of the
evidence, and the three judges over it.

### MemoWriter, ReportPipeline, ClaimCheck

A text is its number of words, the parts of the section contract it has, whether
it ends properly and whether it is clean. A memo is a set of lines; of a line the
model keeps what the passes tell apart: section, marker groups, subjects, figure,
credit, scope, label. A credit to an author stands on a line of one or two citations
with a span; a line of three or more is a synthesis and loses it. Each pass is an operator from copies to copies, and a
fail-soft pass may leave the memo as it was. `ClaimCheck` follows a claim from
grounding over quotes and fetches to the stored graph; the regular expressions of
`metric_grounding.py` are sets of cues. Left out of it: the list of forbidden
statements in `grounding.py` and `GENERIC_CLAIM_RE`.

### Corpus, Embedding

`Corpus`: a document has a row and a point, each with its generation and the *label*
of its embedding model. The label says which model was configured, not who
embedded the text: when Gemini fails, `embed_texts` returns hashes of 256 values
and the sync goes on under Gemini's label. So the collection is known by the length
of the vectors it takes (`Dim`), and `Inspect` draws for every text of an ingest who
embedded it. A first vector of another length than the collection's has the
collection rebuilt, for every scope, without any change of model; a batch of two
lengths is refused by Qdrant. An ingest is read, commit, inspect, delete and create
the collection, upsert, remove the stale, complete, with failures and deaths
between any two. A search embeds its query by whichever model answers then: a
query of another length than the collection's falls back to the rows (`SearchedIn`).

What remains true is `CompletedIsSearched`: the rows of a completed sync are all
found, by vector or by the fallback, unless another scope's rebuild dropped the
scope's points or two of its ingests overlapped. Both exceptions are history
variables (`dropped`, `overtaken`), and the first is a gap of the code: one failing
Gemini call in the ingest of an organisation empties the vector search of the shared
corpus until that is ingested again, while its sync says "completed". Nor is it
promised that a point under Gemini's label is Gemini's.

`Embedding`: the cache from which those vectors come, its lock held to look up and
to store but not while Gemini is asked. It shows where the mixture comes from: what
Gemini failed for is cached under Gemini's key (`FallbackStaysApart`, section 5).

### KnowledgeReuse, Admission, RunView

`KnowledgeReuse`: a run looks up, seeds, merges, publishes or marks;
each step is one statement or transaction. `Admission`: count, check, create,
record, four statements without a transaction. `RunView`: polls answered in any
order, drafts kept in the page, one button under way; a worker that sends frames
stands for the rest of the system.

### Abstractions

* `RunLifecycle`: of a progress frame only what `clearInterrupt` reads remains;
  five error texts, as many as the code tells apart; progress, timestamps,
  metrics, notifications and `run_events` are left out. `removeOnComplete: 100` is
  left out: a job id is remembered for ever. Backoff delays are left out: a job
  waiting for its retry may be taken at once.
* `ResearchGraph`: the graph with human gates and depth "deep", the only one the
  runtime builds. The enrich pool is in `Retrieval`. Answers a gate does not name
  count as its default, as in the code. One credits pause at a time.
* `KnowledgeReuse`: similarity is overlap of goals; the in-memory back end is left
  out, and so are the claims and slots that a merge unites beside the sources.
* `Corpus`: the in-memory back end and a deployment with Qdrant switched off, where no
  search uses vectors, are left out. A search considers documents; how it ranks
  them, and that it stops at k, is left out.
* `Embedding`: a vector is who made it; the rotation of keys inside one batch is one
  choice, Gemini's or the hash's.
* `RunView`: the brief's draft is handled like the plan's and left out; the event
  stream only makes the page poll sooner.
* `RunRow`: an interrupt frame without a payload stores JSON null; the frames the agent
  sends have one.
* `RunLifecycle`: the transaction of the dispatcher is rolled back by a crash only, a
  failing statement of its own is not a step.
* `ResearchGraph`: the briefing gate runs again from its start when it is answered, the
  call that drafts the brief included; the model takes the second draft for the
  first and leaves out that this second call may run out of credits.
* `LlmFailover`: a request is a visit of a slot. A provider that refuses json mode is
  posted to a second time without it, so `RequestsBounded` counts visits, and the
  number of posts may be twice as many.
* `Retrieval`: works are told apart perfectly; `work_identity` and
  `canonical_source_key` (coverage.py:55-124) guess from addresses and titles.
  `OneWorkOneVote`, which is proved but not a property of a run, is therefore about what
  is done with identity, not about finding it.
* `QualityLoop`: whether a question wants an implementation, and which rows are tagged,
  are folded into the counts of a summary.
* `MemoWriter`: that a draft reads like the composed memo, which is a matter of three
  phrases, is a free choice. A run that ended on its budget is labelled
  "terminal_fallback" whoever wrote its memo, so `SuccessIsWhole` says nothing of it.
* `ReportPipeline`: `EmptyDropped` may drop more than the code; off-scope content is
  demoted whatever the question is about, in the code for questions of memory only.
* `ClaimCheck`: claims have ids of their own. A model that gives two claims one id has
  the second's verdict stored beside the first's quote (evidence_graph.py:55-68).

## 3. Runs

Deadlock is not checked in any run: a system whose runs are settled and whose
bounds are reached has nothing left to do.

| run | instance | shows |
|---|---|---|
| `lifecycle` | 2 processes, 1 run, 2 versions, 2 attempts, 1 stall, 1 crash, visitor keys | `NoRunLeftBehind`, `OneStreamPerRun`, `PresentedGateAnswerable`, `ImplementsRunStatus`, `KeyOutlivesRetries` |
| `unlocked` | live workers may lose their lock; 1 attempt, no crash. 2 scopes (2 ingests of the shared one, 1 of the other), 2 documents, 2 models of different lengths, 2 ingests at a time, 1 edit. 2 threads, a cache of 2, 3 calls | `GateIsCurrent`, `ParkedHasGate`, `CancelledForever`, `FencedWrites`; `CompletedIsSearched`; `EveryTextEmbedded` |
| `liveness` | as `lifecycle`, but 2 crashes, so that a job can stall too often, and the operator's keys; `FairSpec` | `EveryExecutionEnds` |
| `graph` | pools 2 and 1, charges up to 2, 4 passes, 1 rewrite, iterations {1, 3} raised to 2, dig cap 3, `FairSpec` | `PublishedAfterReview`, `PlanReviewedBeforeSearch`, `FreshNeverReused`, `RepeatPassHasQuestion`, `IntegrityReloopRuns`, `AutoStepsDecrease`, `AlwaysSettles` |
| `agent` | 4 streams, 3 executions, 2 connections, 3 nodes, 1 crash; 4 keys of 3 providers, one of which may be unusable, 2 backoff passes, 2 calls | `OneGraphAtATime`, `AnswerToItsQuestion`, `ImplementsGateProtocol`, `EveryStreamEnds`; `EverySlotTried`, `BenchedForCause`, `RequestsBounded` |
| `evidence` | seven parts, see below; stored answers: 3 runs of 2 organisations, 3 records, 1 mishap | `WorkingSetKept`; `GradesAgree`, `FruitlessNotRepeated`; `SuccessIsWhole`, `NeverGutted`; `GoodLinesKept`, `OneDecisionRule`, `HardNumbersLabelled`; `VerifiedHasItsSource`; `OrgsApart`, `OneSuccessor`, `StoreNeverRegresses` |
| `shared` | 2 requests, limits of 2; 2 runs, 2 polls, 1 failing request | `OverrunBounded`; `PageCatchesUp` |
| `cancel_erased` | violation, `FairSpec` | a cancelled run is rewritten and asked about again |
| `full_text_lost` | violation | a full text is paid for and the abstract is scored |
| `dead_zone` | violation | a bad memo that none of the three judges has rewritten |
| `deleted_reused` | violation | what a deleted run found is served to the next one |
| `stale_plan` | violation | the plan gate of one run sends the plan of another |

Why these bounds are enough. *Lifecycle*: two processes are the least that race,
one run with one resume the least that has a stale execution, two attempts the
least that has a retry and a last attempt; two runs share only queue, workers and
outbox order, for which two versions of one run compete already. *Graph*:
`MaxPasses` is the only bound of the model's own; it lets a run go past every cap
by one human pass. A charge of 2 lets a pass empty a pool exactly, overdraw it, or
leave less than an integrity re-loop needs. *Agent*: a third stream can meet a
stream that was retried and one that resumes; two connections are fewer than
streams, so that waiters may hold what the lock's holder needs; three nodes are a
recognised gate, a node between, and a gate that the code does not recognise by
name. Four slots with two of one provider let the ring wrap while several are
benched. *Evidence*: `retrieval` has a paper at two addresses, a blog that speaks
to one dimension in full only, and a corpus note, two dimensions and two passes;
`grading` takes every status of five dimensions (two critical) with the counts at
which ceilings and penalties set in; `quality` goes three rounds over four
findings that lead to one another; `writer`, `report` and `claims` take texts,
lines and claims of each kind the code tells apart, two at a time, since its
passes treat each line or claim by itself or against one other. *Corpus*: a second
ingest of the shared scope may overlap its first, follow a failure, or find the
collection as the other scope's rebuild left it; one ingest of the organisation is
enough to take points from the shared scope or to lose its own. Of the files only the
shared ones change (`EditsMatter`); ingests and documents are alike (`Alike`), as are
the processes of `lifecycle`. Without any edit a failing Gemini alone reaches a scope that is completed and has lost its points, and
one that is completed under Gemini's label in a collection of hashes. A cache of two
is smaller than the longest list, so that a call evicts its own. *Stored answers*: two runs
extend one record while a run of another organisation looks on. *Shared*: a page
goes from one run to another with two polls under way; a request of a button may
fail once (`MaxFailures`), or its answer be lost.
The code's own numbers only lengthen these runs; the theorems cover them.

`LiveStalls` separates two worlds. A job lock is renewed every 150 s and lost
after 300 s; BullMQ cannot tell a dead worker from one that could not reach
Redis. A live worker that lost its job goes on applying the frames its socket has
buffered: a run may then leave a settled status, two workers may feed one row, and
a late stream resumes with an older answer. `lifecycle`, `agent` and the theorems
that say so assume it away; what remains true with it is what `unlocked` and the
other theorems say.

The agent's checks also assume that a pause for credits is answered by "continue"
(`CreditsAnswers`). With "cancel" they fail: a cancel answer to a credits pause
raised outside a node, whose frame is lost, stays in the checkpoint as the answer
of the execution and is applied to the next gate.

### Fairness

`RunLifecycle.FairSpec` assumes weak fairness of each process's dispatcher (a poll
loop that catches its errors), of its worker's steps (an event loop), of its
`failed` handler, and of Redis' stalled check (every 30 s). A stream ends because
the client's idle timeout throws. Users owe nothing. `EveryExecutionEnds` has one
exception, `Abandoned`: BullMQ failed the job and nobody recorded it. Nothing in
the code repairs that row.

`ResearchGraph.FairSpec` assumes that while a run is streamed some node takes its
step: LangGraph runs the next node as soon as one is done, and a job whose worker
died goes on from the checkpoint. That each node returns is assumed, not shown.
Humans owe no answer, and a credits pause is a stop like a gate.

`AgentSpec` is fair to the boot and to each stream's own steps (an asyncio task
each); the pool's timeout is such a step. `ViewFairness` assumes that polls are
sent every few seconds and do not fail for ever; nobody has to press a button.

## 4. Proofs

Of the 40 properties that passing runs check, 35 are also theorems, for every value
of the constants: every safety property but `EveryTextEmbedded`. `tlapm` checks each
from the assumptions the modules state and, where the statement has one, from
`~LiveStalls` or `CreditsAnswers`. Both are
needed, as said above: with them false the properties fail. The step proofs go
action by action; an action is looked at only through the variables it writes.

**RunLifecycleProofs.** `Invariance` proves `IInv` with live stalls too. `TypeOK` is
not inductive: that `attemptsMade` stays below its bound needs that only a job with
an attempt left waits or runs (`JobsOK`), that a busy worker's frame lands in a row
needs that it has a job (`WorkersOK`), and `GateIsCurrent` and `ParkedHasGate` need
each other. `CancelledStaysCancelled`, `WritesAreFenced` and `KeysOutliveRetries`
are action properties on top of it. `NobodyIsLeftBehind` adds `Accounted`: each
current version has an outbox row, and one that is dispatched or being published
has a job. `RunsHaveOneStream` and `PresentedGatesAreAnswerable` add `Steady`: a
worker that is busy owns its job, and a completed job left nothing to claim; here
the lemma that no live worker loses its job carries the weight.
`LifecycleKeepsStatusPromise` maps every step to a step of `RunStatus` or a stutter.

**ResearchGraphProofs.** The properties lean on each other: `IterationCap` needs at
the planner's door that there is an iteration left (`PassHasIteration`);
`FreshNeverReused` that the "off" mark is there until a plan is counted;
`PublishedAfterReview` what each way to "completed" has gone through;
`IntegrityReloopRuns` that the pass keeps its question and calls on the way
(`IntegrityPassPaid`). `LoopsEnd`: every step without a human lowers `WorkLeft`, a
natural number: 30 for each pass and retry left, more than one round trip costs.
Only the last step to `AlwaysSettles` is left to TLC.

**AgentRuntimeProofs.** `GraphsRunAlone` needs no assumption. `AnswersReachTheirGate`
rests on three parts: streams of one run never pass each other (`InLine`: two that
are active are ordered by ticket and the earlier is at least as far), none is left
of an execution whose question the human sees (`OneExecution`), and the
checkpoint stays as it was asked about until the answer is read
(`CheckpointInv`, `AnswersInv`). `GatesKeepTheirPromise` is the refinement of
`GateProtocol`: loading an answer moves one gate, and only if it was asked.

**LlmFailoverProofs.** The loop of `_failover` is a recursive function, so what it
keeps is proved for the least step at which it would not hold, in place of
induction (`SearchSteps`, `TrySlotKeeps`, `FailoverFacts`): what was tried stays
tried, the slot found was not tried, and if none is found while all clients can be
built, every slot was tried or benched (`RoundTheRing`: the offsets 1..n reach
every slot). `CallInv` then counts: each request of a pass takes a slot more.

**SharedProofs.** The overrun: recent runs plus requests past the count stay below
the limit plus all requests. The store: a run's prior is a row of its own
organisation that was there before it, rows refer backwards, and a row with a
successor is retired for good; `StoreOnlyImproves` follows case by case.

**CorpusProofs.** `CompletedStaysSearched` holds for any models and lengths of vectors,
whichever texts and queries the fallback embedded. `CorpusInv`: the active rows are of
the newest generation, an ingest that nobody overtook finds the rows as it committed
them, and its points as it wrote them unless another scope's rebuild took them. That
an ingest deletes points of other scopes only together with marking them as dropped
is the step that carries the weight; a query of another length needs no vectors.

**EvidenceProofs.** `WorksVoteOnce` and `CoveredRowsAreKept` for any works, addresses
and scores. `FruitlessIsPutAside`: the verdict's snapshot belongs to evidence that is
still the same whenever the critic runs again. `JudgesAgree` is arithmetic over the
grades for any number of dimensions: the ceilings and penalties of
`_research_quality` against the thresholds of edge and gate.

**MemoProofs.** `SuccessesAreWhole`, `MemosAreNotGutted`; for the report, every pass
keeps a draft's good lines, labels hard figures in body and field, and field and
section equal at the end (`Sound`); for claims, that a verified claim's text is the
text of its source and stays so until it is stored (`Backed`), which needs that
a short text is refetched and a long one is not.

**Model-checked only.** Liveness under fairness (`EveryExecutionEnds`,
`AlwaysSettles`, `EveryStreamEnds`, `PageCatchesUp`), which is out of the prover's
reach; that the types of `Retrieval`'s budget are kept, as charges are folds over
sequences of agents, whose values would need induction over data; all of
`Embedding`, whose cache is filtered with `SelectSeq`, of which the library states no
facts; the arithmetic of the grades as such (the theorems say how grades relate, TLC what
they are).

## 5. Disagreements between code and comments

With a run:

* A cancelled run's memo goes through the memo checks, which overwrite the status;
  report.py says it must not be erased (`cancel_erased`).
* `enrich` fetches an abstract page at its html address; the row that comes back has
  another id and is scored apart (`full_text_lost`).
* The memo gate reads a coverage that lost its depth score, so that a memo may be
  bad enough for a rewrite and nobody asks for it (`dead_zone`).
* A run still executing when it is deleted stores its answer afterwards, and a record
  that another run merged outlives the deletion (`deleted_reused`).
* The page takes a plan into its draft only when that is empty, and no button that
  starts or opens another run empties it (`stale_plan`).

Stated in a module, violated by the code, without a run: `FallbackStaysApart`
(`Embedding`: embed.py:25-26 says that the cache "cannot return vectors from a different
embedding space", but a hash made while Gemini failed is cached under Gemini's key and
comes back among Gemini's vectors); `MissingKeyWasStored`
(`RunLifecycle`: the key is stored after the commit that lets the run start, so it
may be "no longer in memory" before it ever was); in `ResearchGraph`
`MandatoryRetrieved` (the memo gate sends a run with missing mandatory sources to
the critic, which overwrites the questions), `SentBackMemoGetsPass` (a served memo
carries "completed" before its review; "send back" is never delivered),
`DigFurtherRetrieves` ("Dig further" raises a limit the planner does not read),
`BriefReviewed` (the answer to a credits pause in briefing confirms the brief),
`PriorComparedBeforePublish` ("Augment can only hold steady or improve" holds on the
first pass only: planner.py:82 clears the mode on a second one, and the memo may then
be shallower than the stored one; that the store keeps the deeper of the two even so is
`StoreNeverRegresses`, which explores both); in `ReportPipeline` `MarkersResolve`
(`_strip_cite_markers_outside_protected`, report_integrity.py:193, strips "[n]" and
"[n tier]" only: a grouped "[6, 7]" without ledger entries stays, although
report_integrity.py:221 tells the reader that such markers were removed).

Met while reading, of the parts that are modelled:

* Rows and page. `cancelRun` leaves `interrupt_payload`, and the page shows the gate of
  a cancelled run (Research.tsx:266); `PageCatchesUp` therefore asks for no stored
  gate. A poll answered late flashes the old gate back after a resume, and a resume
  carries no version (Research.tsx:509). A run failed for a missing key says "start or
  resume again" and cannot be resumed. A crash between create and recordUsage leaves
  a run without usage; deleted runs free the rate limit.
* Agent. With an unconstructible slot the loop of `_failover` steps over a good key
  (client.py:268; `EverySlotTried` asks for `unusable = {}`). A role's model is sent to
  another provider's slot after a failover (roles.py:31). The tenancy guard writes a
  status `after_briefing` does not read.
* Knowledge. `mark_reused` refreshes `updated_at`, so what is often reused never goes
  stale; a served answer is marked twice; the gate run again after a crash stores a
  second record.
* Corpus. A rebuild for one scope, for another model or because Gemini failed, drops the
  points of all, whose syncs go on saying "completed"; hashes are stored under Gemini's
  label; a crash between the deletion and the creation of the collection leaves none;
  two ingests of one scope overtake each other; a failed index logs "using_postgres"
  and the search is empty.
* Evidence. Retrieved rows keep their thin copy; the abstract page is fetched and
  charged each pass; only the latest trace of an agent is charged. The critic,
  entered from the memo gate or after an early stop and "dig further", puts gaps aside
  that were never searched, and duplicates history. The memo gate passes the tier
  "poor" to adaptive depth always, and its coverage has no dossier. structure_validation
  lets an unlabelled worked example cause a rewrite that memo_quality.py says it must not.
* Report. The figure audit's repair of the rule in the body is undone by the stitch; a
  misattributed line dropped from the field stays in its section; a quality
  regeneration skips several audits and any check for truncation or emptiness; an
  expansion that is longer but lost its sections replaces the draft.
* Claims. `_attach_evidence_graph` (report.py:1003) calls the verification without the
  question, so its topic gate never applies; a regenerated report's claims are
  published unverified, with the discarded draft's graph; a served memo's claims all
  become "source_missing" (report.py:361).

Of the event stream, which is not modelled: it may end before the last event is
written, and a stream ended by a park is not opened again.

## 6. Plan

1. A composition of `RunLifecycle` and `AgentRuntime` in place of the frame protocol
   the two agree on, with a theorem that the agent's frames obey it.
2. `ViewTypeOK` and the safety of `RunView` (a poll's answer never shows a row older
   than the one a button produced) as theorems; the implication from `LoopsEnd` towards
   `AlwaysSettles` as far as safety goes.
3. `EventStream`: `run_events` with its unique index, and the SSE loop.
4. Reference definitions for `compose.py`'s tables, if they gain state.

## 7. Not modelled

The text of prompts and reports and the composition of tables; ranking, the numbers
of embeddings, and passage windows; HTTP, scraping and provider APIs; `run_events` and the SSE
loop; authentication, single-row settings and the other pages; evaluation
scripts, CI and deployment. `maintenance/hitl_timeout.py` is switched off where it
was called; `slot_budget.py` is called by tests only.
