# Verification of super-helper

`super-helper` (directory `src/` of this repository, TypeScript on Node) is a
diagnostic assistant: users talk to it in *case sessions*, a runtime answers each
message from experience, knowledge, MCP sources or a Claude Code worker, and
background tools build the knowledge it answers from. This directory holds TLA+
models of its concurrent, crash-prone and decision-heavy parts, TLC configurations
that check them, and TLAPS proofs of the results that matter most. Paths below are
relative to `src/src/` unless they begin with another directory.

## 1. The system

| Component | State | Operations | Interacts with | What makes it correct | Models |
|---|---|---|---|---|---|
| Turn queue (`runtime/turn-queue.ts`) | map case -> tail promise | `run` | runtime | one turn per case at a time, in order; a failure blocks nobody; no entry is left | `TurnQueue`, `SerialTurns` |
| Case record (`sessions/*`) | one JSON file per case, replaced as a whole | add message, run or log; save; archive; delete | runtime, routes | one reply per message; an interruption can be retried; nothing a crash leaves is misread | `CaseRecord`, `Conversation` |
| Turns and investigation control (`runtime/diagnostic-runtime.ts`, `investigation-control.ts`, `preflight-*.ts`, `answer-goal*.ts`, `experience-*.ts`, `knowledge-turn.ts`, `worker-*.ts`) | the copy of the record a turn works on, the control entry of the case | start, complete, retry, cancel, recover | queue, record, worker, models | every accepted turn ends, with one answer or one interruption; a stop hits the turn it names; the answer kept is the one reviewed | `CaseTurns`, `TurnPipeline`, `AnswerGoal`, `ExperienceMatch`, `KnowledgeAnswer` |
| Gateway (`gateway/*`) | the current runtime | the HTTP routes, reload, server start | all of the above | requests interleave with turns only at awaits | `CaseTurns` |
| Claude worker (`workers/claude/*`) | queue per Claude session, child processes | diagnose, stop, time out, retry | runtime | one process per Claude session; a stop ends the call and its processes | `ClaudeWorker`, `WorkerResults` |
| MCP evidence (`mcp/*`) | none that lasts | plan, call, normalise | runtime | bounded calls; a claim is backed by the call it cites | `McpEvidence` |
| Case investigation (`runtime/case-investigation/*`) | sources collected side by side | collect, analyse, check, decide | Redmine, worker, knowledge | partial failures kept apart; a confirmation needs both sources | `CaseInvestigation` |
| Redmine MCP server (`mcp-servers/redmine/*`) | candidate grants | search, read | MCP clients | a grant is used once, in time; paging misses nothing | `RedmineScan`, `CaseInvestigation` |
| Review and acceptance of answers (`runtime/result-validator.ts`, `answer-coverage*.ts`, `review-gate.ts`, `safe-answer-projection.ts`, `review-presentation.ts`) | the frozen outcome | validate, cover, freeze, project, show | models | an unsupported answer is never final or shown | `AnswerReview`, `ResultStructure`, `ReviewContract` |
| Solved cases (`runtime/case-curator.ts`, `knowledge/case-review.ts`, `redmine-card.ts`) | one file per card | curate, import, approve, send back, convert | review, index | nothing is in force that nobody accepted | `SolvedCases` |
| Retrieval (`retrieval/*`, `knowledge/vector-index*.ts`) | none that lasts | recall, fuse, rerank | index, providers | one generation is searched; no candidate is lost | `KnowledgeSearch`, `VectorIndex` |
| Document pipeline (`knowledge/ingest.ts` ... `publish.ts`, `quality/`, `documents/`, `repair*.ts`, `onboarding/review-*.ts`) | files | slice, audit, review, repair, publish, chunk | onboarding, CLI, index | the text is carried whole; what is published gets into the index | `SourceSlices`, `ChunkPacking`, `KnowledgeDocuments` |
| Knowledge generations (`knowledge/generation-*.ts`, `application/knowledge-rebuild-service.ts`) | `active.json`, generation directories, publish lock | rebuild, rollback, recover | several processes, readers | one writer; compare-and-set of the active generation; readers see complete generations | `KnowledgeGenerations` |
| Experience store (`knowledge/experience/*`, `application/experience-refinement/*`) | lock directories, batch state, publication manifest, jobs | import, refine, publish, withdraw, recover | several CLI processes, a model | exclusive writers; visible means complete; call budget | `ExperienceLock`, `Lease`, `ExperienceProduction`, `ExperienceCatalogue` |
| Onboarding (`onboarding/*`) | setup draft, run files, configuration | save draft, start, execute, retry, recover | gateway reload, document pipeline | the configuration is committed only after every stage; a run ends | `OnboardingRuns` |
| Configuration, CLI, web UI, observability | files, HTTP | input and output | | | |

`components` in `PROJECT.json` says of each whether it is modelled, partly modelled or
not, and what is left out.

### What is hard in it

* **Stale copies.** A turn loads the case file when it begins and saves its own copy
  with every event it logs; requests load, change and save the same file in between.
  The file is replaced atomically, but nothing merges the two. Documents, quality
  reports and repair plans are read and used later in the same way.
* **Interleavings at awaits.** The server is one Node process. Code between two
  awaits is atomic, promise callbacks run before the next request, everything else
  can interleave: a stop can arrive at every await of a turn.
* **Crashes** between the saves of one update, between the files of one
  publication, between the commands of a job, and around locks.
* **Several processes** (server, CLI, the Claude CLI and what it starts) on the same
  directories and sessions, with lock directories that a dead process leaves behind.
* **Untrusted answers.** Models, the worker and MCP tools return claims, evidence ids,
  bindings and rankings that may be invented, duplicated or incomplete.
* **Timeouts and retries**: stale turns are judged by the age of the last save, grants
  expire while a model thinks, busy sessions and overloaded models are tried again.
* **Liveness**: every accepted turn ends; an active case settles; a setup run ends; a
  refinement job that is run again settles its records.

The full list, at the lines where it bites, is `hazards` in `PROJECT.json`.

### Which module builds on which

    CaseTurns  EXTENDS CaseRecord           implements Conversation
    ClaudeWorker  EXTENDS TurnQueue         implements SerialTurns
    SolvedCases  EXTENDS AnswerReview       keeps ReviewContract
    TurnPipeline  EXTENDS AnswerGoal, ExperienceMatch, KnowledgeAnswer, ReviewContract
    AnswerReview, ExperienceMatch  EXTEND ResultStructure
    CaseInvestigation  EXTENDS RedmineScan, ReviewContract
    KnowledgeDocuments  EXTENDS SourceSlices, ChunkPacking
    KnowledgeSearch  EXTENDS VectorIndex
    ExperienceLock                          implements Lease
    ExperienceProduction                    implements ExperienceCatalogue
    MCAnswerReview  EXTENDS SolvedCases, WorkerResults, McpEvidence

Review is the part every way of answering shares. `ReviewContract` says which outcomes a
review may have for a result; `AnswerReview` is checked to keep it (`KeepsContract`), and
`TurnPipeline` and `CaseInvestigation` use the contract in place of the review.
`CaseTurns` relies on the queue being serial, which `TurnQueue` implements, and has
`ImplementsConversation` checked with clients that wait for a reply.

## 2. The modules

### TurnQueue, SerialTurns

`TurnQueue` models `CaseTurnQueue.run`: a submitted turn is chained to the tail
that the map holds for its case (`Run`), starts when that promise settled either
way (`Start`), settles (`Settle`), and then removes the map entry if it is still
the tail (`Cleanup`). `tail` is the map `queues`; `prev` and the state of a turn are the
promise chain; `stamp` is history. `SerialTurns` is what a caller expects: turns are
submitted, and begin and finish one after the other per case, in that order.

### ClaudeWorker

Each turn of `TurnQueue` makes one call of `ClaudeCodeWorker.diagnose`. `entry` is the static
map `sessionQueues`, `ahead` the promises a call waits for, `process` the child with
its group, `attempts` the busy retries. `Diagnose` appends the call, `TurnAway` and
`Refuse` are the early returns (stopped before it began, no CLI), `Begin` spawns, `Close`
is the `close` event and decides between a retry after a pause (`Wake`) and the end,
`Stop`, `TimeOut` and `KillTimer` are the abort, the limit and the SIGKILL after
SIGTERM; `Forget` is the `finally` that removes the map entry. A case has one queue per
runtime, as after a reload, while the sessions' map is shared. The CLI may close before
its group ends, or ignore SIGTERM; a process of an earlier server may still use a session
(`stray`).

### CaseRecord, Conversation, CaseTurns

`CaseRecord` is the JSON file: status, user messages in order, the helper replies
bound to each, the number of open runs, the interruption and retry logs, the archive
mark. Its `...Images` operators give the sequence of files one synchronous piece of
code writes, so that a crash can leave any prefix. Bodies, titles, times and all other
log events are left out.

`CaseTurns` has one action per route that changes a case (`Post`, `Retry`, `Stop`,
`ReadSession`, `Archive`, `Edit`, `Delete`), `Reload` of the runtime, and the steps of a
turn between awaits. A request goes to the runtime that served when it came in (`Addressed`),
which a reload may have replaced before the body was read:

| Code | Model |
|---|---|
| `completeUserTurnNow`, up to the first await | `Reject`, `Curate`, `Begin` |
| preflight, collection of evidence | `Collect`, `ReviewSource` |
| Worker call, its result, one follow-up | `CallWorker`, `WorkerResult`, `FollowUp` |
| review and presentation | `ReviewOn`, `Answer` |
| abort, exception | `Cancel`, `Fail` |
| `.catch` of a background turn | `RecordFailure` |
| process death, `startServer` | `Crash`, `CrashBetweenSaves`, `StartServer` |

`disk` is the file, `turn[r].mem` the copy the turn works on; `active` is the map of
`InvestigationControl`. `MicrotasksDrained` expresses that promise callbacks run before
the next request. `Conversation` is the user's view of a message: absent, waiting,
answered, interrupted, waiting again on a retry. The statuses that wait for the user are
one value, the statuses of an active case are two. Which source answers and what a review
decides are choices here; `TurnPipeline` has the decisions.

### TurnPipeline, AnswerGoal, ExperienceMatch, KnowledgeAnswer

`TurnPipeline` follows the turns of one case through the awaits of one turn: `Begin` (curation
or a new run), `Preflight` (local rules and the model that plans), `ReviewGoal` (the second
model, which says whether the proposed items are complete), both followed by the look for an
earlier answer (`Dispatch`, without an await), `Search`, `Answerability`, `Mcp`, the Worker
(`Respond`, `Throw`), the coverage of its result (`Covered`), the review (`Review`) with the
second look it may ask for, and `Stop` at each of them. `runs`, `reply` and `session` are what
the record holds; `lead` and `execution` is what the Worker is handed.

`AnswerGoal` and `ExperienceMatch` have the decisions of these first stages: which items the
answer must cover, and whether the result of another case may be given again. An earlier
question counts when it is much alike, was asked by the same user in the same workspace, names
exactly one run with a result (a run names every message that its turn saw, so the first
question of a case with two answered turns names two and is passed over), had the same goal, and
every item of its evidence resolves to a chunk of the generation that is active today and
visible to the persona. Earlier questions are addressed by case and message, and the better of
two is found by comparing them, so nothing depends on how a store lists them. How alike two
texts are, and whether a sentence of a chunk answers, are inputs. `goal` is kept while it
decides who answers; why earlier answers were rejected is only text for the Worker
(`lead.rejected`). The structural validation that such a result has to pass, `ResultStructure`,
is the one `AnswerReview` begins with.

`KnowledgeAnswer` has the decisions as operators: the judge of the evidence
(`evidence-judge.ts`: scores, ages, versions, conflicts), the answerability answer of the
model and its validation, and the result built from both. A claim that is blank, cites none of
the evidence used, or repeats the words of an earlier claim is left out of the result (`Told`).
Scores are hundredths.

### AnswerReview, ResultStructure, ReviewContract, WorkerResults, McpEvidence

`AnswerReview` takes a result through `reviewAndFormat`: validation of its structure and
provenance, the answer of the coverage model (`Coverage`, whose claim and evidence ids may
be anything), the frozen outcome, the projection onto what fits the reply, the follow-up
questions a model words (`Present`), and an abort at either await. The limits of what the
coverage model is shown and may answer (`Materializes`, `ValidateCoverage`) are constants, or as
in the code. `WorkerResults` and
`McpEvidence` are the producers: how the output of the CLI becomes claims and evidence
with provenance, and how tool calls are planned, allowed, bounded and turned into claims.
The status and the next action of a Worker's result are not checked by its parser against
the values the types allow, so both may be anything (`ReviewContract`).
`MCAnswerReview` lets the review start from what these operators yield for enumerated
outputs, beside the results knowledge builds, so that the review is
checked on results the program can have. Texts are lengths in hundreds of characters,
because limits cut them.

### SolvedCases

The cards under `knowledge/tickets/`: `Curate` (the user confirms a reviewed result),
`ImportIssue` (Redmine), `Approve`, `SendBack`, `Convert` (write the unresolved card, unlink
the first, which may fail), `Reindex`. A process may die between the card and the dirty
flag (`alive`). `decided` is history: what reviewers accepted.

### CaseInvestigation, RedmineScan

`RedmineScan` is the search of the Redmine server: by page over a list that people change
meanwhile (`Touch`, `Leave`), or by the names Redmine's own search gives, each request
retried once after 429 or 5xx. `CaseInvestigation` is the turn around it: knowledge,
experience and Redmine side by side, the candidates' choice by a model, the grant with its
one use and its time to live, the details, the Worker's check, the comparison by a
model, the gate, the result and its review. Evidence and its envelopes are kept apart, each made
unique by ids that the Worker may have used twice.

### SourceSlices, ChunkPacking, KnowledgeDocuments

`SourceSlices` (extract, normalise, slice) and `ChunkPacking` (blocks, packing, overlap,
rebalancing) are functions of their input. `KnowledgeDocuments` has one action per command:
`Write` edits the source before intake, `Ingest` (the onboarding pipeline), `InitWorkspace`
(`knowledge init`, again as well: it marks the index, ingests, with the legacy import turns every
draft into a formal document at once, and updates the index), `Reslice`, `Edit` (a person rewrites
drafts), `Audit`, `Review` (CLI), `SubmitReview` (dashboard), `AutoApprove`, `PlanRepair` (one
action per id and kind), `ApplyPlan`, `RepairStep` (one action of the plan at a time; a merge may
die between its two writes), `PublishDrafts` with a gate, `PrepareRebuild` and `FinishRebuild`,
which may lose the race to publish or fail to clear the flag. Other commands run while a rebuild
awaits embeddings (`AsyncRebuild`). The body of a document is the blocks it carries and the lists
that say where they are from: the audit counts those lists, so a slice of the pipeline is never
empty, and too short or a duplicate only when a person rewrote it. The health summary is an
operator over the same files.

`overtaken` is history: documents came while the index that is active was being built.
`PublishedIsSearched` excepts this case, and what a repair changes of a formal document. Without
the first exception it is `AlwaysSearched`, without the second `RepairsAreIndexed`, and the code
keeps neither (section 3).

### VectorIndex, KnowledgeSearch

`VectorIndex` reads the documents, embeds the eligible chunks batch by batch with an
answer of the provider awaited for each (complete, short, or failed), checks the number,
publishes by compare-and-append, and starts over on a conflict up to its attempts.
`KnowledgeSearch` awaits the query's embedding and the reranker while generations are
published and documents change (`ChangeDocument`); fusion, deduplication and the reading
of the reranker's answer are operators. How a strategy scores is any ranking.

### Lease, ExperienceLock

`ExperienceLock` takes `store-lock.ts` one file-system call at a time: the look at the
guard, `mkdir`, `owner.json`, the check before release, `unlink`, `rmdir`; and for the
recovery the guard, the two reads of the owner, the signal 0, the rename. Processes
die at any point; a pid may be given to a new process. `Lease` is a resource that is
free or held, and that is reclaimed from the dead only.

### ExperienceProduction, ExperienceCatalogue

Importer, refiner and whoever withdraws are processes that meet in `private/`: `state`
(`state.json`, one save per row, `ImportRow`), `jobs` (`job.json` and the checkpoints),
`manifest` and `objects` (publication). A run of a job is `StartJob`, `Open`,
`NextRecord`, `Ask` (which reserves the call in the file before it is sent), `Reply`,
`Judge`, `Accept`, `Publish`, `WriteFile`, `Commit`, `MarkPublished`; `Abort`,
`RefinerDies`, `ImporterDies` and `Recover` may come between any two. The two locks are
taken as atomic, which `ExperienceLock` justifies. `ExperienceCatalogue` is what a reader
may expect: one entry per ticket, revisions that grow with new sources, no return of
what was withdrawn. The refinement mapping maps an entry to its source only where the
object it names is whole, so an incomplete publication would break the refinement.

### KnowledgeGenerations

A process prepares files from the generation it found active, takes the lock, checks,
writes the temporary directory, renames it, checks again, replaces `active.json`, and
cleans up; a rollback and a lock recovery are other sequences over the same files. A
directory is absent, partly written, torn (partly removed) or complete. Publishers
address their lock by its path, as the code does. The age of a lock is a flag that
`GrowOld` raises. Pids are not reused here: a reused pid makes the recovery refuse.

### OnboardingRuns

`run` is the run files, `exec` where each execution stands between its saves, `base` the
copy of the run that `execute` holds (the one `failRun` works on), `loaded` the draft it
loaded. The thirteen stages are abstracted to five: the three before the knowledge
stages behave alike (one call each, `validate_draft` stands for them), the knowledge
stages are executed by one call that reports progress (two stand for them, so that a
report can move the current stage), then `health_check` and `commit_config`. `passed` is
history: the draft with which a stage last succeeded.

## 3. The runs

| Run | States | Instance | What it shows |
|---|---|---|---|
| `case_sequential` | 241,152 | clients that wait for the reply; two messages, two runtimes, two crashes, two retries | a case with nothing left to do has answered every message, whatever status it shows (`SettledCaseIsAnswered`), one reply each (`OneBoundReply`), and the record implements `Conversation` |
| `case_overlap` | 39,642 | clients that do not wait; slow turns; one synchronous message, one crash | a late stop never ends the next turn (`StopHitsItsTurn`), a stopped turn ends with a reviewed answer or a placeholder that can be retried (`StoppedTurnIsSettled`), no case shows a turn at work for ever (`ActiveCaseSettles`) |
| `turn_pipeline` | 2,363,016 | two turns, every source, every outcome the contract allows; earlier cases and generations with one of each reason why an answer may be given again or not | case, run and control agree about a settled turn (`SettledAgrees`), a worse or failed second look takes no reviewed answer away (`ReviewedAnswerIsKept`), what answers without the Worker is an answer to this question, its items and this user (`AnswersTheQuestionAsked`) |
| `answer_review` | 723,104 | results of three producers, with any status and action a Worker may claim, two items to cover, claims and evidence up to two, hostile coverage answers; then cards of one day and two modules, three commands | a final answer is proven item by item (`FinalIsProven`), reply and result agree after cuts (`ReplyAgrees`), only reviewed claims are shown, also after a stop (`ShownIsReviewed`), the contract holds (`KeepsContract`), a card in force says what somebody accepted (`ActiveCardWasAccepted`) |
| `claude_worker` | 103,860 | three turns of one case, one in the queue of the old runtime, one session, one retry, a stray process | one process per session (`OneProcessPerSession`), an ended call leaves nothing (`EndedCallLeavesNothing`), the queue is serial with such turns (`RunsSerially`), a stopped turn ends (`StoppedTurnEnds`), a turn settles unless its CLI hangs (`EveryTurnSettlesUnlessHanging`) |
| `case_investigation` | 733,769 | three issues of which two may match, pages of one, two changes, both back ends, replies of the Worker that use an id twice, every failure | a confirmation has both sources and an unexpired grant (`ConfirmedByBothSources`), paging passes no untouched issue over (`UntouchedIssuesAreFound`), "nothing found" is said only when no source could answer (`NothingIsSaidOnlyWhenNobodyAnswered`) |
| `knowledge_documents` | 95,575 | sources up to four items, five commands, two gates, rebuilds that others overtake | slices and chunks tell the text (`SlicesTellTheSource`, `ChunksTellTheText`), repair loses no block (`BlocksAreCarried`), an index that is not marked tells what was published (`PublishedIsSearched`) |
| `knowledge_search` | 949,986 | two documents, three generations, batches of two, two attempts, one change | generations have all their vectors and one is searched (`OneGeneration`), a candidate that beats another in both rankings is not placed or cut behind it (`FusionRespectsAgreement`), a partial rerank answer loses none (`RerankKeepsCandidates`) |
| `experience_lock` | 33,553 | four callers, three pids, two deaths | `MutualExclusion`, `HolderKeepsLock`, `ImplementsLease` |
| `experience_production` | 516,927 | one ticket, two revisions, two jobs, two calls, one stop or death, one withdrawal | `BudgetHolds`, `ImplementsCatalogue`, a job that is run again settles (`JobSettles`) |
| `knowledge_generations` | 11,963 | three processes, three generations, two crashes; symmetric in both | `OneWriter`, `ReplacesExpected`, `ActiveAndPredecessorAreComplete` |
| `onboarding_runs` | 239,158 | two runs, two retries, two crashes | `CommitsWhenDone`, `RunningRunEnds` |

Why the bounds suffice. Two messages are enough for one to be overwritten, overtaken or
stopped in place of the other; two crashes for a crash during the recovery from another
crash; two retries for a retry of a retry. Three turns of a case are one that runs, one
that waits and one behind whose predecessor has not begun, and with two queues the old
runtime's turn meets two of the new. Of the lock, four callers of three processes allow a
holder, a recoverer, a new acquirer, and two callers that share a pid. Three generations
are a predecessor and two that compete. Two items of a goal and claims for either, both or
none are what coverage can confuse; a third claim only repeats a kind. Two cases listed of
three are a better match beyond the limit (`CaseLimit`, 200 in the code). Three issues and
pages of one are a page behind, the page read and a page ahead of the change. Two
revisions of one ticket and two jobs let one job publish what the other works on. Four
items of a source are a heading, a body, a second body and one that overflows a slice. Five
commands are an import, an edit, an audit and a plan with its repair, or a publication, a
rebuild and a publication that overtakes it; what needs six (a merged draft that is published
again) rests on the theorems. A reply of the Worker may have two items of one id, of which one
or none was read back. Of the coverage limits, `TotalLimit` is such that some of the requests
just reach it and some exceed it.

`MCKnowledgeSearch` and `MCCaseInvestigation` use a `VIEW` that leaves out what no further
step of the search reads and no property relates: the other generations and the documents
once recall and fusion are done, the tracker's list once the search of Redmine has
returned. The `ACTION_CONSTRAINT` of `MCKnowledgeSearch` keeps those still from then on.
Symmetry is used only where no liveness property is checked.

`CHECK_DEADLOCK FALSE` is set where the system may stop: messages, retries, commands and
crashes are used up, or (lock, generations) a dead process has left a guard or a lock that
everyone refuses.

### Claims of the documents that do not hold

These are stated in the modules as definitions next to the properties that hold, and
TLC refutes them in the instance of the run named last, with the bound named beside it, when
they take the place of its properties.

| Claim | What happens | Instance |
|---|---|---|
| `AcceptedTurnIsExecuted` (`src/openspec/specs/runtime-behavior-compatibility/spec.md:11`) | post while a turn runs; the turn saves its older copy; the posted message is gone and its turn rejects | `case_overlap` without client operations, crashes and slow turns |
| `OneTurnPerMessage` (session-turn-interruption-recovery design :179) | stop, post, retry, a stale save brings the placeholder back, retry again | `case_overlap` with stop and retry only, two retries, no crash |
| `RestartReleasesWaitingTurn` (session-turn-continuity spec :24) | stop or crash, retry, crash: the next start takes the message for recovered | `case_overlap`, `case_sequential` |
| `OneWriter` with two recoveries | two recoveries judge one dead lock; a publisher comes in between | `knowledge_generations` with `ParallelRecovery = TRUE`; so are `ReplacesExpected` and `ActiveAndPredecessorAreComplete` |
| `RetryWaitsForTurn`, `DeletedCaseStaysDeleted`, `ArchivedCaseIsClosed`, `FailureReplyStays`; `OneTurnAtATime` with two runtimes | stale copies and late turns | `case_overlap`, with the operation or bound named |
| `OneBoundReply`, `SettledCaseIsAnswered`, `ImplementsConversation` with overlapping requests, or with slow turns; the last one also with deletions | the same | `case_sequential` with `Overlap` or `SlowTurn` |
| `FullAnswerCoversGoal` (`src/src/runtime/rag-answerability-service.ts:119`) | an answer passes as full, since its claims name every item; the claim that names one of them cites nothing, or repeats another's words, and is left out of the result; the item goes unanswered and the Worker is not asked | `turn_pipeline` |
| `ResumedSessionExists` (`agents/main.md:86`) | every run but the first resumes a Claude session, though the first may have been answered without the Worker | `turn_pipeline` |
| `CuratedIsReviewed` | a stop during the review leaves the unreviewed result with its status, and a later confirmation curates it | `turn_pipeline` |
| `LocalRejectionStaysLocal` (output-review specification) | a supporting claim that is rejected takes the complete answer's finality away | `answer_review` |
| `EveryRunEnds`, `OneActiveRun`, `RetriesFailedStage`, `CommitsCheckedDraft`, `FailedRunKeepsConfig` (onboarding design) | a pending run outlives a crash; a retry runs beside another; a retry loads the draft of the moment; the reload fails after the commit | `onboarding_runs`, with two drafts for `CommitsCheckedDraft` |
| `InterruptedJobResumes` (`src/docs/operations/experience-refinement-pilot.md`) | a death between the job's directory and its file | `experience_production` |
| `TheProofItselfWasRead` (`src/openspec/changes/add-redmine-case-investigation/specs/historical-case-investigation/spec.md:65`) | the Worker uses one id for a log excerpt and for a place in the workspace that is read back; evidence and envelopes are made unique apart, so the log is concluded on under the envelope of the place | `case_investigation` |
| `OnlyAnEmptySearchIsNoHit`, `AnsweredSearchSucceeds`, `StoppedRunIsPartial`; `UntouchedIssuesAreFound` when issues are removed | candidates that nobody selected are reported as an empty search; an issue listed twice fails the search; a stop during the review leaves a concluded run; a removal shifts the pages back | `case_investigation` |
| `OneCardPerName`, `CardTellsTheReply` | an issue closed later leaves two cards; a card is built from the result, not from what was shown | `answer_review` |
| `AlwaysSearched` (`knowledge/publish.ts:154`) | the rebuild awaits embeddings and then clears a flag set meanwhile | `knowledge_documents` |
| `RepairsAreIndexed` | a repair changes the terms or the state of a formal document and marks nothing | `knowledge_documents` |
| `CarriedOnce` | a merge dies between its two writes: the blocks of the neighbour are in both drafts | `knowledge_documents` |

### Fairness

* `CaseTurns`: promise callbacks run and a task settles (a call of a model or of the Worker
  returns or throws; logging progress is not one of these steps); time passes
  (`GrowQuiet`); the web client polls an open session
  (`src/web/src/dashboard/use-chat.ts`), hence `ReadSession`; the container restarts the
  server (`src/docker/compose.yml`: `restart: unless-stopped`). No user request is assumed.
  Archiving is left out of `case_overlap` because every PATCH refreshes `updatedAt`: a
  client that repeats it for ever keeps an abandoned turn from being called stale.
* `ClaudeWorker`: for each turn, the promise callbacks and timers of its call run, a killed
  process closes, and a CLI that reports a busy session exits. Nothing makes a CLI at work
  finish, since the Worker has no limit of its own without a profile, nor a stray process
  end; so `EveryTurnSettlesUnlessHanging` has its premise.
* `OnboardingRuns`: what a run awaits returns or throws, and the server is restarted.
* `ExperienceProduction`: a living refiner or importer goes on; the operator removes the
  locks of dead processes and runs an interrupted job again, as
  `src/docs/operations/experience-refinement-pilot.md` asks. Running a job again is strong
  fairness, because others take the lock in between. `JobSettles` excuses a job whose
  budget is used up, whose sources were imported anew, or one of whose tickets was withdrawn.

## 4. The proofs

Eight modules hold proofs. Each proves inductive invariants, for every value of the
constants: any number of messages, runtimes, processes, crashes and retries. The
assumptions are those named in the modules, none stronger than what the code enforces or
the shape of the data gives:

* bounds are natural numbers, and batches, pages, tries and times to live are not zero
  (`BoundAssumption`, `BudgetAssumption`, `RunAssumption`, `ScanAssumption`, `TTLAssumption`,
  `IndexAssumption`, `SearchAssumption` of `KnowledgeSearch`);
* the value for "nothing" is none of the others (`NoneAssumption`, `GenerationAssumption`,
  `SourceAssumption`, `DraftAssumption`);
* what comes in has its shape: a case, a process or a client is what it is called
  (`CaseAssumption`, `PidAssumption`, `ClientAssumption`), lists have positions
  (`RequestAssumption`, `AnswerAssumption`, `StoreAssumption`, `SearchAssumption` of `TurnPipeline`),
  texts are sequences of sentences (`SentenceAssumption`, `ParagraphAssumption`), and the issues of a
  tracker and the chunks of a document base are finitely many.

Some theorems have a hypothesis besides, a condition of use named below, and TLC refutes each of
their properties without it (section 3, claims): three about the generations (`~ParallelRecovery`),
four about the turns of a case (`~Overlap`, `~SlowTurn`, and, for the refinement, no deletions),
one about the scan (`~MayLeave`). One about the reply has a hypothesis that is the work of another
module (`ActionsAreProposed`).

Every invariant below was checked by TLC on the instance of its run before it was proved.

### ClaudeWorkerProofs

The queue of turns comes first: for any sets of turns and cases, `TypeOK`,
`InSubmissionOrder`, `OneTurnPerCase`, `IdleCaseHasNoEntry`, and that `TurnQueue` implements
`SerialTurns`. `OneTurnPerCase` is not inductive by itself. The invariant is

    QueueInv == TypeOK /\ Stamped /\ Chained /\ TailIsLast /\ InSubmissionOrder

The stamps of the turns submitted are distinct (`Stamped`); the predecessor
of a turn is the one submitted just before it for its case, and a turn without a
predecessor was submitted when all earlier ones had settled (`Chained`); the map entry of a
case is the last turn submitted for it, and a case without an entry has only settled turns
(`TailIsLast`). With these, a turn that begins has no unsettled predecessor, which gives
order and exclusion, and the refinement step by step.

Then the calls. `SessionExclusion`: at most one CLI process works in a Claude session.
`NothingIsLeft`: a call that ended holds neither gate nor process. `TurnsRunSerially`: with
calls of the Worker as turns, the queue still implements `SerialTurns`; the steps of a call
are stutters or steps of `TurnQueue`, so the first result carries over. The invariant is

    CallsInv == CallsTyped /\ CalledOnce /\ ProcessOfCall /\ Waited /\ EntryIsLast /\ Linked

A turn calls once, when it runs (`CalledOnce`); only a call that runs has a process
(`ProcessOfCall`), and it has waited for all calls before it (`Waited`); the entry of a
session is a call that waits for every other one at work there, or none is
(`EntryIsLast`); and of two calls of one session that have not returned, one waits for
the other, also when one between them was stopped and left (`Linked`).

### ExperienceStoreProofs

The lock first: for any callers, processes and bounds, `TypeOK`, `MutualExclusion`,
`HolderKeepsLock`, and `LockSpec => ImplementsLease`. The invariant is

    LockInv == TypeOK /\ Running /\ MutualExclusion /\ Marked
               /\ Guarded /\ Drawn /\ Judgement /\ Targeted

Only callers of living processes are anywhere but idle (`Running`); the lock
directory and `owner.json` are as the caller inside left them (`Marked`); one caller at a time
recovers, under the guard (`Guarded`); tokens are drawn once (`Drawn`); the token a recovery
has read names the process that drew it, and once the recovery has judged that owner dead,
no caller works under a lock with that token, even if the pid runs again (`Judgement`); and
the directory it is about to rename still carries that token (`Targeted`), since no one but
the recoverer can remove a dead owner's lock. So nobody is inside when the rename happens.

Then the jobs. `BudgetIsKept`: over all the runs of a job, through any stops and deaths, no
more requests are sent than `--max-calls`.

    BudgetInv == ProductionTyped /\ Accounted /\ BudgetKnown

What was sent is at most what the job's file says was used, and that is within the budget
(`Accounted`); a process that has opened its job knows exactly what the file leaves it
(`BudgetKnown`). Only `Ask` changes either side, and it writes before it sends.

`CatalogueIsImplemented`: any imports, jobs, withdrawals, stops and deaths look to a reader
like steps of `ExperienceCatalogue`. Readers take no lock and a publication is many writes, so
the invariant has to say why a reader meets no half of one, and why no source is
published twice:

    CatalogueInv == BudgetInv /\ RecordsInv /\ StoreInv
    RecordsInv == FilesTyped /\ ImportTyped /\ RunTyped /\ ListIsCurrent
    StoreInv == StoreTyped /\ ManifestWhole /\ Writing

The object a manifest entry leads to is whole, because the manifest is written last
(`ManifestWhole`); an object under work has no entry, and whoever writes it holds the writer's
lock (`Writing`). A run reads the list of what is published once, long before it publishes; that
list is current for every source still ahead of it (`ListIsCurrent`), for only the run itself
publishes while it holds the runner's lock. `Commit` is then the one step that publishes in
`ExperienceCatalogue`, a withdrawal the one that withdraws, and every other step is a stutter:
half an object, an import, a death, the lock of a dead process removed.

### OnboardingRunsProofs

`CommitsOnlyWhenDone`: `config.json` is written for a run only when every other stage was
skipped or has succeeded for that run, through retries, crashes and stale copies.

    RunsInv == RunsTyped /\ FilesEarned /\ DraftLoaded /\ PipelineReturned /\ CommitIsLast

A stage that a run file, or the copy an execution holds, calls completed has passed
(`FilesEarned`); an execution beyond its first step has loaded its draft (`DraftLoaded`);
beyond the knowledge call its stages have passed (`PipelineReturned`); and an execution at
the commit has every earlier stage behind it (`CommitIsLast`).

### CaseInvestigationProofs

For any issues, candidates, judgements of the models, replies of the Worker, grants and stops:
`BothSourcesConfirm` (a confirmation rests on details of Redmine read under a spent, unexpired
grant and on evidence of the Worker under whose id a place was read back) and `SomebodySpeaks`
("nothing found" is said only when every source was asked, the Worker too, and none answered).

    InvestigationInv == SourcesTyped /\ ScanTyped /\ ReadUnderGrant /\ WorkerJoined /\ ResultComesLast
                        /\ ConfirmedByBothSources /\ NothingIsSaidOnlyWhenNobodyAnswered

Leads come from details only, and details were read under a grant that is spent and alive
(`ReadUnderGrant`); the Worker is skipped only when knowledge or experience answers
(`WorkerJoined`); and before every source has settled there is no result (`ResultComesLast`), so the
sources the result was made of are those the properties speak of.

The attempt corrected the model. When details fail, the branch reports the first failure; `Detail`
used to choose it so that the issue could be one that had not failed, with its "ok" as the code
reported.

Ids of evidence are written by the Worker, and one reply may use an id twice. The code makes
evidence and envelopes unique by id in two maps (`Collected`, `Enveloped`, each the first item of
an id), so the item and the envelope that are kept may be those of different items. The theorem
therefore says that the Worker named a place under the id, and that it was read back; that the
item which is concluded on is this place is a claim of the specification that does not hold
(`TheProofItselfWasRead`).

`ScanPassesNothingOver`: with any number of issues and pages, and whoever goes on working on the
issues meanwhile, an issue at rest within the pages allowed is listed, as long as none is
removed (`~MayLeave`).

    ScanInv == ScanTyped /\ PagesAreCovered /\ UntouchedIssuesAreFound

Of the places behind the pages read, every untouched issue has been listed
(`PagesAreCovered`). An issue that is touched moves to the front, so the untouched ones only
move back, towards the pages still to come: the proof is about how a position changes when
another element is moved or put in front.

### KnowledgeIndexProofs

*Generations.* For any processes, generations and crashes: `TypeOK`; and with one lock recovery
at a time (`~ParallelRecovery`, which nothing in the code enforces: with two, a recovery removes
the lock of a publisher that came in after the first) `OneWriter`,
`ActiveAndPredecessorAreComplete` and `ReplacesExpected`.

    ExclusionInv == TypeOK /\ OneRecovery /\ OnlyLivingWork /\ LockHeld
                    /\ SweepsDeadLock /\ OneWriter
    IInv == ExclusionInv /\ FreshHeld /\ DraftIsWhole /\ NamedAreComplete /\ ExpectsActive

The code addresses the lock by its path only, so exclusion is not a matter of who holds
what: a writer finds in the lock its own name, or none if it has just made it (`LockHeld`),
and the one recovery clears only a lock whose owner is dead (`SweepsDeadLock`); nobody can
take that lock before it is gone. The second half needs the first. Only the builder of a
generation touches its files until it has renamed them (`FreshHeld`, `DraftIsWhole`);
whatever `active.json`, a manifest's predecessor or a process names was complete when named,
and a crash or a clean-up of invalid generations takes nothing away that is complete
(`NamedAreComplete`); and between the second check and the replacement of `active.json` no
other writer changes it (`ExpectsActive`), which is `ReplacesExpected`.

*Search.* `SearchSeesOneGeneration`: a generation that is called vectorised has the vector of
every eligible chunk, once, and what a search recalled is of one generation, however many are
published while it awaits the query's embedding.

    IndexInv  == types /\ BuildCounts /\ VectorsAreWhole
    SearchInv == IndexInv /\ SearchBegan /\ OneGeneration

`build.ts` compares only numbers: as many vectors as eligible chunks. `BuildCounts` says
why that is enough: what has been embedded and what is left are two lists without repetition
that make up what is eligible, so equal numbers leave nothing out (`AcceptedIsWhole`).

*Ranking.* For any rankings, scores and answers of the reranker, also ones that name candidates
twice, or none: `FusionKeepsAgreement` (a candidate that beats another in both rankings is
neither placed nor cut behind it) and `RerankOnlyOrders` (there are as many results as without
it, all of them candidates, each once, and the fused ones if it fails). Both need that merging
keeps every candidate where it was first seen, and that sorting is by score, then by that place.

*Documents.* For any files, edits, reviews, plans and gates: `SlicingTellsTheSource` (the slices
of a file carry each of its blocks, once and in order), `NoBlockIsLost` (while repair plans merge
and archive drafts, every block is carried by a draft that is not archived), and `IndexIsFresh`:
whatever runs while a rebuild awaits embeddings, an index that is not marked has every formal
document as its publication or import wrote it, unless documents came while that index was being
built. What a repair changes of a formal document is not claimed, since it marks nothing.

    CarryInv == FilesTyped /\ DraftsNumbered /\ IssuesNamed /\ ActionsNamed /\ AllCarried
    FreshInv == FilesTyped /\ IndexSays

Reports and plans are read and used later, so what they name has to exist still (`IssuesNamed`,
`ActionsNamed`); a merge moves what a draft carries before the draft is archived (`AllCarried`). An
unmarked index that was not overtaken holds the documents, and a rebuild in flight that no
publication overtook will (`IndexSays`): the flag alone cannot say it, since the rebuild that
clears it may be older than the mark. Slicing is written over intervals of blocks, not as a fold,
so that what it computes follows from the order of numbers. One statement about it was false and is
corrected: a slice over the limit may hold no body block at all, namely when its heading alone is
too long.

### TurnPipelineProofs

For any questions, earlier cases, searches, responses of the Worker, and number of turns:
`SettledTurnAgrees` (case, runs and control agree about a settled turn) and the action
property `ReviewedAnswerStays` (a reviewed answer is not given up for one that is not).

    Inv == Typed /\ UpToNow(runs) /\ RunsBegin /\ LastAtWork /\ FirstWasReviewed /\ SettledAgrees

No run is of a later turn (`UpToNow`); a turn that nobody answers yet has none
(`RunsBegin`); while it is answered only its last run is at work (`LastAtWork`), so that
what a stop, a failure or a review closes is all there is to close; and when a second look
is under way, the run before the last is one of this turn that was reviewed, has a result
and did not conclude (`FirstWasReviewed`), which is what the turn falls back to.

`AnswersTheQuestion`, the action property of what answers without the Worker, for any earlier
cases, any chunks and any answer of the model. From experience: the match that is given again is
a result asked for by the same owner, in another case, for this question and these items, on
evidence that is active and visible (`FitsAsker`). The code sorts and takes the first; that a
first one exists, and that it is one of those that fit, is an induction over numbers
(`LeastNumber`, `OneComesFirst`). From knowledge: the claims that are told cite evidence that
was used, and a full answer of which every claim can be told covers the goal (`ValidatedIsFull`,
`ShownIsUsed`, `ClaimsAnswer`).

The attempt corrected model and property. The model told every claim; the code drops those that
cite nothing or repeat another. With that, a full answer may leave an item of the goal out,
although it passed the validation: the property now says when it does not (`CanBeTold`), and the
claim it was is refuted (`FullAnswerCoversGoal`, section 3).

### CaseTurnsProofs

For any messages, runtimes, crashes and retries, with overlapping requests, slow turns and
deletions: `TypeOK`, `StopHitsItsTurn` and the action property `StoppedTurnIsSettled`, from

    StopInv == TypeOK /\ StopHitsItsTurn
               /\ every copy of the record logs as stopped only what users stopped,
                  and has the run of its turn among its open runs
               /\ an aborted control entry is that of a stopped message whose turn awaits

(the last two as quantified formulas in the module). The stale copies are the reason for the
second part: what a turn will write back is constrained, not only what is on disk. Without
the open runs the types are not inductive: closing a run could make their number negative.

With clients that wait for the reply (`~Overlap`) and turns that save more often than the
stale limit (`~SlowTurn`): `OneBoundReply` and `SettledCaseIsAnswered`, and, if nothing is
deleted, `ImplementsConversation`. These are the conditions under which the documents
promise one reply per message; without either TLC finds two replies or none (claims of
section 3). The invariant says what there is to do for a case and what the record must say
meanwhile:

    JobInv == OneJob
              /\ (disk # None => Good(disk))
              /\ (~up => crashes > 0 /\ (disk # None => Recoverable(disk)))
              /\ (nothing executes => Settled(disk, {}))
              /\ queued or failed entries are Ready, the executing turn Runs

At most one turn is queued, runs, or has failed without being recorded, over all runtimes
(`OneJob`). `Good` is one reply per message, and none for a message never posted.
`Settled(c, J)`: every accepted background message but those in `J` has its reply in `c`, or
was cut short in a retry by a crash. An entry that is `Ready` finds its message waiting in the
record, as the last user message of an active case or as a logged retry; a turn that `Runs`
has a copy with the words of the file, so that its saves lose nothing. Half of the proof is
about crashes: each update is the sequence of its images, and every image of every update,
not only the last, is shown to be one that the start of the server repairs (`Recoverable`,
`UpdateIsRecoverable`).

For the refinement each update is shown to say something new of one message at most: it
accepts it (`Accepts`), binds its one reply (`Says`), or reopens it (`Reopens`), and each of
its images does so too (`UpdatesTalk`); every other step leaves the words of the record alone.
A torn update is therefore a whole step of `Conversation`.

### SolvedCasesProofs

For any requests, coverage answers, items and stops: `TypeOK`, `FinalAnswersAreProven`,
`RepliesAgree`, `OnlyReviewedIsShown` and `ContractIsKept`. None of these properties is
inductive, and none is near it: they speak of the reply, which one step makes out of the
request and the review by freezing, projecting, applying the outcome, projecting again and
rendering. So the invariant says where the reply comes from:

    ReviewInv == before the reply nothing is shown and the result is the Worker's
                 /\ the reviewer is asked only about evidence that is vouched for
                 /\ from the prompts on, ReviewStands(review, request)
                 /\ once done, PresentedAs(request, review, prompts, run, reply) for some prompts

`ReviewStands`: a review that is accepted binds claims that were kept to items and evidence
of theirs, and without a reviewer there is none. `PresentedAs`: run and reply are the
presentation of the outcome frozen with it. The properties then follow from lemmas about the
functions: what freezing yields, and from what (`FrozenFinal`); that the projection shows
bound claims only and takes an outcome down but never up (`Projection`); that the second
projection, of the result the outcome was applied to, neither adds nor takes (`ToldByOutcome`).
That every item is still answered after the redundant primary claims were dropped is an
argument about positions (`PrimaryCovers`): the first claim bound to an item adds it, so it
stays. `ContractIsKept` closes a gap between two models: what `TurnPipeline` assumes of a
review holds of every review, not only of those enumerated.

`RequestAssumption` and `AnswerAssumption` say that lists have positions and that a failed
call reports a partial result, which is what the Worker's parser and normaliser make of any
output (`WorkerResults`). `OnlyReviewedIsShown` has a hypothesis besides: the actions of the
results that come in are proposals (`ActionsAreProposed`). It is the work of `WorkerResults`,
and the run checks it there: `answer_review` feeds the review with what the Worker's parser
yields, and the mutant `ProposalOrDone` of the parser breaks `ShownIsReviewed`.

The attempt corrected `FinalIsProven`. It used to say that a final answer was called
concluded by its producer; but nothing checks the Worker's status, and a result with a status
of its own making, or none, may be frozen as concluded if it covers every item. The property
now says what the code does, and the run has such results (status `none`).

`CardsAreAccepted`, with the invariant `CardsInv`: every card lies where its type belongs, and
if it is active its text is one somebody accepted for that kind, through confirmations and
imports that write it anew, reviews, and conversions cut off between the write and the unlink.

### Only model-checked

Of the properties the runs check these have no theorem:

* `ActiveCaseSettles`, `StoppedTurnEnds`, `EveryTurnSettlesUnlessHanging`, `JobSettles` and
  `RunningRunEnds`: liveness under fairness, and `ENABLED`, are beyond the prover.
* `ChunksTellTheText`: packing, overlap and rebalancing (`ChunkPacking`) are loops that carry text
  from one chunk to the next, modelled as folds. What a fold computes for every input is an
  induction over data, whose theorem takes an operator as a parameter; the prover can
  neither instantiate it nor expand the fold. `knowledge_documents` checks it for every text up to
  the bounds.

## 5. What is not modelled

* Configuration files, CLI, web UI, HTTP parsing, logging and the event recorder are input
  and output. The effect of a committed configuration is `Reload` and `commit_config`.
* Of the models and providers only the answer and its checking; prompts, wording,
  sanitising, titles, pins and progress percentages are left out, since no property is
  about them.
* Scoring (BM25, vector distance, candidate ranking) is any ranking.
* The audit's heuristics for broken references, tables of contents and mixed topics, and edits of
  a source after intake.
  `AsciiTitles` is TRUE: titles of which the slug keeps nothing collide, and a slice is lost.
* The cache of a Redmine scan: the server is a process of one investigation, so no second
  search reads it.
* Thrown errors of the Worker's own parser: an object without evidence and claims lists
  makes the turn fail, although other invalid output degrades to a partial result.
* `reviewSolvedCase` and its siblings are exported and have no caller in CLI or gateway; they
  are modelled as the commands they are. So is `buildKnowledgeVectorIndex`.
* Disk errors (a failing write or rename) are modelled only where the code handles them; a
  crash is modelled everywhere something is persisted.

Observations made while modelling, about lines no run checks: two claims in the first tool
call of a turn repeat an id of the second, which blocks the answer (`ClaimIdsAreDistinct` in
`McpEvidence` says which calls are free of it); a chunk may exceed
`maxChars` by its overlap (against `src/openspec/specs/knowledge-diagnosis-hardening/spec.md:588`);
a quality report older than the drafts lets unaudited slices be published
(`knowledge/publish.ts:205`); a rejected neighbour that a repair merges is published
unreviewed; an ingest that failed is later reported as reused; `validateGenerationFiles`
does not ask that every chunk has a vector (the embedding adapter's count does); and
`publish-review.ts` matches ids by substring.
