------------------------ MODULE ExperienceProduction ------------------------
(***************************************************************************)
(* The offline production of experiences (src/src/knowledge/experience,    *)
(* src/src/application/experience-refinement): tickets are imported from a *)
(* CSV file, a job asks a model for a draft of each and another call for   *)
(* its review, and accepted drafts are published.  Importer, refiner and   *)
(* whoever withdraws are processes of their own that meet in the files of  *)
(* the store; each file is replaced atomically, each process may die.      *)
(***************************************************************************)
EXTENDS Naturals, Sequences, FiniteSets, FiniteSetsExt

CONSTANTS
  Tickets,    \* experience ids
  Sources,    \* source revisions: [rev, ticket, updated], updated = 0: no date
  NoSource,
  Jobs,       \* job ids
  Batches,    \* rows of the CSV files that may be imported
  Drafts,     \* drafts the refiner may write
  MaxCalls,   \* --max-calls
  Tries,      \* attempts of one request, 3 in the code
  MaxImports, MaxWithdrawals, MaxStops  \* bounds of the model

ASSUME BudgetAssumption == MaxCalls \in Nat /\ Tries \in Nat \ {0}
ASSUME SourceAssumption ==
  /\ \A s \in Sources : s.ticket \in Tickets /\ s.rev \in Nat
  /\ NoSource \notin Sources /\ Batches \subseteq Seq(Sources)
\* What a reply may say besides a draft is none.
ASSUME DraftAssumption ==
  Drafts \cap {"none", "busy", "error", "sensitive", "invalid", "supported", "rejected"} = {}

VARIABLES
  writer,     \* holder of private/writer.lock: "free", "import", "refine" or "dead"
  runner,     \* holder of private/refinement/runner.lock: "free", "refine" or "dead"
  state,      \* private/state.json: ticket -> source revision
  rows,       \* rows the importer has still to commit
  jobs,       \* job id -> the files of its directory
  manifest,   \* private/publication.json: ticket -> entry
  objects,    \* vault and private/publications: object -> the files written
  proc,       \* the refining process
  sent,       \* requests sent for a job, over all its runs
  spent       \* imports, withdrawals, and stops or deaths so far

store == <<state, manifest, objects>>
vars == <<writer, runner, state, rows, jobs, manifest, objects, proc, sent, spent>>

Files == {"experience.md", "claims.json", "review.json"}
NoDraft == "none"
Fresh == [attempt |-> 0, draft |-> NoDraft, review |-> "none"]
NoJob == [dir |-> FALSE, file |-> FALSE, sources |-> {}, used |-> 0,
          records |-> [s \in Sources |-> "none"],
          progress |-> [s \in Sources |-> Fresh],
          accepted |-> [s \in Sources |-> NoDraft]]
NoEntry == [source |-> NoSource, revision |-> 0, lifecycle |-> "none", object |-> 0]
NoProc == [pc |-> "idle", job |-> "none", todo |-> {}, at |-> NoSource, published |-> {},
           progress |-> Fresh, budget |-> 0, tries |-> 0, object |-> 0, aborted |-> FALSE]

\* "dropped" stands for quarantined and failed: either way the record is over.
Settled == {"published", "dropped"}
Pending == {state[t] : t \in Tickets} \ {NoSource}
Published == {manifest[t].source : t \in {u \in Tickets : manifest[u].lifecycle = "published"}}
First(S) == CHOOSE s \in S : \A r \in S : s.rev <= r.rev

Init ==
  /\ writer = "free" /\ runner = "free" /\ rows = <<>>
  /\ state = [t \in Tickets |-> NoSource]
  /\ jobs = [j \in Jobs |-> NoJob]
  /\ manifest = [t \in Tickets |-> NoEntry] /\ objects = <<>>
  /\ proc = NoProc /\ sent = [j \in Jobs |-> 0]
  /\ spent = [imports |-> 0, withdrawals |-> 0, stops |-> 0]
-----------------------------------------------------------------------------
(* Import: one checkpoint per row, in the order of the file. *)

Refining == <<runner, jobs, proc, sent>>

Import(batch) ==
  /\ writer = "free" /\ spent.imports < MaxImports
  /\ writer' = "import" /\ rows' = batch
  /\ spent' = [spent EXCEPT !.imports = @ + 1]
  /\ UNCHANGED <<store, Refining>>

\* A ticket takes a new revision only when its date is later.
Supersedes(s) ==
  LET old == state[s.ticket] IN
    \/ old = NoSource
    \/ old # s /\ s.updated > 0 /\ old.updated > 0 /\ s.updated > old.updated

ImportRow ==
  /\ writer = "import" /\ rows # <<>>
  /\ LET s == Head(rows) IN
       state' = IF Supersedes(s) THEN [state EXCEPT ![s.ticket] = s] ELSE state
  /\ rows' = Tail(rows)
  /\ UNCHANGED <<writer, manifest, objects, Refining, spent>>

\* The last save, or a stop between two rows; the rows left are imported by
\* a repetition.
ImportEnds ==
  /\ writer = "import" /\ writer' = "free" /\ rows' = <<>>
  /\ UNCHANGED <<store, Refining, spent>>

Withdraw(t) ==
  /\ writer = "free" /\ manifest[t].lifecycle # "none" /\ spent.withdrawals < MaxWithdrawals
  /\ manifest' = [manifest EXCEPT ![t].lifecycle = "withdrawn"]
  /\ spent' = [spent EXCEPT !.withdrawals = @ + 1]
  /\ UNCHANGED <<writer, state, rows, objects, Refining>>
-----------------------------------------------------------------------------
(* A run of a job. *)

Outside == <<state, rows, spent>>
Publishing == <<writer, manifest, objects>>
Step(pc) == proc' = [proc EXCEPT !.pc = pc]
JobNow == jobs[proc.job]
Save(j, value) == jobs' = [jobs EXCEPT ![j] = value]
Mark(status) == Save(proc.job, [JobNow EXCEPT !.records[proc.at] = status])
Done(status) ==
  /\ Mark(status) /\ UNCHANGED runner
  /\ proc' = [proc EXCEPT !.pc = "next", !.at = NoSource, !.progress = Fresh, !.tries = 0, !.object = 0]

\* The process ends, by its result or by an error, and releases its lock.
Leave == proc' = NoProc /\ runner' = "free"

\* A job is bound to its sources and its budget.
Resumable(j) ==
  /\ jobs[j].dir => jobs[j].file
  /\ jobs[j].file => jobs[j].sources = Pending

StartJob(j) ==
  /\ proc.pc = "idle" /\ runner = "free" /\ Pending # {} /\ Resumable(j)
  /\ runner' = "refine"
  /\ Save(j, [jobs[j] EXCEPT !.dir = TRUE])
  /\ proc' = [NoProc EXCEPT !.pc = "open", !.job = j, !.todo = Pending]
  /\ UNCHANGED <<Publishing, Outside, sent>>

OverOrAccepted(status) == status # "none"   \* mutant: accepted counts as done

Over(status) == status \in Settled

PublishedSources == Published

\* job.save(), then the list of what is published, once for the whole run.
Open ==
  /\ proc.pc = "open"
  /\ Save(proc.job, [JobNow EXCEPT !.file = TRUE, !.sources = proc.todo])
  /\ proc' = [proc EXCEPT !.pc = "next", !.published = PublishedSources, !.budget = MaxCalls - JobNow.used]
  /\ UNCHANGED <<runner, Publishing, Outside, sent>>

\* The first record of the list that is not settled, if the run goes on.
Begin(s) == [proc EXCEPT !.todo = @ \ {s}, !.at = s, !.progress = JobNow.progress[s], !.tries = 0]
NextRecord ==
  /\ proc.pc = "next" /\ UNCHANGED <<Publishing, Outside, sent>>
  /\ IF proc.todo = {} \/ proc.aborted THEN Leave /\ UNCHANGED jobs
     ELSE LET s == First(proc.todo)
              status == JobNow.records[s] IN
       /\ UNCHANGED runner
       /\ CASE Over(status) -> proc' = [proc EXCEPT !.todo = @ \ {s}] /\ UNCHANGED jobs
            [] ~Over(status) /\ s \in proc.published ->
                 /\ Save(proc.job, [JobNow EXCEPT !.records[s] = "published"])
                 /\ proc' = [proc EXCEPT !.todo = @ \ {s}]
            [] OTHER -> /\ proc' = [Begin(s) EXCEPT !.pc = IF status = "accepted" THEN "publish" ELSE "ask"]
                        /\ UNCHANGED jobs

Complete == proc.progress.draft # NoDraft /\ proc.progress.review # "none"

ReserveInMemory == UNCHANGED jobs   \* mutant: the file is not written

\* A call is reserved in the file before the request goes out.
Reserve == Save(proc.job, [JobNow EXCEPT !.used = @ + 1])
Ask ==
  /\ proc.pc = "ask" /\ UNCHANGED <<Publishing, Outside>>
  /\ IF proc.progress.attempt >= 2 THEN Done("dropped") /\ UNCHANGED sent
     ELSE CASE Complete -> Step("judge") /\ UNCHANGED <<jobs, runner, sent>>
            [] ~Complete /\ (proc.aborted \/ proc.budget = 0) -> Leave /\ UNCHANGED <<jobs, sent>>
            [] OTHER -> /\ Reserve
                        /\ sent' = [sent EXCEPT ![proc.job] = @ + 1]
                        /\ proc' = [proc EXCEPT !.pc = "wait", !.budget = @ - 1]
                        /\ UNCHANGED runner

\* What is known of the record, in memory and in its checkpoint.
Checkpoint(p) ==
  /\ Save(proc.job, [JobNow EXCEPT !.progress[proc.at] = p])
  /\ proc' = [proc EXCEPT !.pc = "ask", !.progress = p, !.tries = 0]
  /\ UNCHANGED runner
Advance == Checkpoint([Fresh EXCEPT !.attempt = proc.progress.attempt + 1])

\* "busy": a failure of the transport that is worth another try.
Answered(answer) ==
  CASE answer = "busy" /\ proc.tries + 1 < Tries ->
         /\ proc' = [proc EXCEPT !.pc = "ask", !.tries = @ + 1]
         /\ UNCHANGED <<jobs, runner>>
    [] answer = "busy" /\ ~(proc.tries + 1 < Tries) -> Done("dropped")
    [] answer \in {"error", "sensitive"} -> Done("dropped")
    [] answer = "invalid" -> Advance
    [] answer \in Drafts -> Checkpoint([proc.progress EXCEPT !.draft = answer])
    [] answer \in {"supported", "rejected"} -> Checkpoint([proc.progress EXCEPT !.review = answer])

Reply(answer) ==
  /\ proc.pc = "wait" /\ UNCHANGED <<Publishing, Outside, sent>>
  /\ IF proc.aborted THEN Leave /\ UNCHANGED jobs ELSE Answered(answer)

Answers == {"busy", "error", "invalid"} \cup
           (IF proc.progress.draft = NoDraft THEN Drafts \cup {"sensitive"} ELSE {"supported", "rejected"})

\* validateExperienceArtifact: the review must be of this draft and accept it.
Judge ==
  /\ proc.pc = "judge" /\ UNCHANGED <<Publishing, Outside, sent>>
  /\ CASE proc.aborted -> Leave /\ UNCHANGED jobs
       [] ~proc.aborted /\ proc.progress.review = "supported" ->
            /\ Save(proc.job, [JobNow EXCEPT !.accepted[proc.at] = proc.progress.draft])
            /\ Step("accept") /\ UNCHANGED runner
       [] OTHER -> Advance

Accept ==
  /\ proc.pc = "accept" /\ Mark("accepted")
  /\ IF proc.aborted THEN Leave ELSE Step("publish") /\ UNCHANGED runner
  /\ UNCHANGED <<Publishing, Outside, sent>>
-----------------------------------------------------------------------------
(* Publication: under the writer's lock; the manifest comes last. *)

Entry == manifest[proc.at.ticket]
Republished(draft) ==
  /\ Entry.source = proc.at /\ Entry.lifecycle = "published"
  /\ objects[Entry.object].draft = draft

RefusedUnlessPublished ==   \* mutant: what was withdrawn may be published again
  writer # "free" \/ state[proc.at.ticket] # proc.at

Refused == writer # "free" \/ state[proc.at.ticket] # proc.at \/ Entry.lifecycle = "withdrawn"

\* A writer that is busy, a source imported anew, or a withdrawn ticket end
\* the whole run with an error.
Publish ==
  /\ proc.pc = "publish"
  /\ LET draft == JobNow.accepted[proc.at] IN
     CASE Refused -> Leave /\ UNCHANGED <<jobs, Publishing>>
       [] ~Refused /\ Republished(draft) -> Step("mark") /\ UNCHANGED <<jobs, runner, Publishing>>
       [] OTHER ->
            /\ writer' = "refine"
            /\ objects' = Append(objects, [source |-> proc.at, draft |-> draft, files |-> {}])
            /\ proc' = [proc EXCEPT !.pc = "write", !.object = Len(objects) + 1]
            /\ UNCHANGED <<jobs, runner, manifest>>
  /\ UNCHANGED <<Outside, sent>>

MostlyWritten == Cardinality(objects[proc.object].files) >= 2   \* mutant: the manifest before the review

Written == objects[proc.object].files = Files

NextFile(written) ==
  CASE "experience.md" \notin written -> "experience.md"
    [] "experience.md" \in written /\ "claims.json" \notin written -> "claims.json"
    [] OTHER -> "review.json"

WriteFile ==
  /\ proc.pc = "write" /\ ~Written
  /\ objects' = [objects EXCEPT ![proc.object].files = @ \cup {NextFile(@)}]
  /\ UNCHANGED <<writer, runner, jobs, manifest, proc, sent, Outside>>

Commit ==
  /\ proc.pc = "write" /\ Written
  /\ manifest' = [manifest EXCEPT ![proc.at.ticket] =
       [source |-> proc.at, revision |-> @.revision + 1, lifecycle |-> "published", object |-> proc.object]]
  /\ writer' = "free" /\ Step("mark")
  /\ UNCHANGED <<runner, jobs, objects, sent, Outside>>

MarkPublished ==
  /\ proc.pc = "mark" /\ Done("published")
  /\ UNCHANGED <<Publishing, Outside, sent>>
-----------------------------------------------------------------------------
(* Stops, deaths and recovery. *)

Interrupted == spent.stops < MaxStops /\ spent' = [spent EXCEPT !.stops = @ + 1]

Abort ==
  /\ proc.pc # "idle" /\ ~proc.aborted /\ Interrupted
  /\ proc' = [proc EXCEPT !.aborted = TRUE]
  /\ UNCHANGED <<writer, runner, state, rows, jobs, manifest, objects, sent>>

RefinerDies ==
  /\ proc.pc # "idle" /\ Interrupted
  /\ proc' = NoProc /\ runner' = "dead"
  /\ writer' = IF writer = "refine" THEN "dead" ELSE writer
  /\ UNCHANGED <<store, rows, jobs, sent>>

ImporterDies ==
  /\ writer = "import" /\ Interrupted
  /\ writer' = "dead" /\ rows' = <<>>
  /\ UNCHANGED <<store, Refining>>

\* The operator removes the lock of a dead owner.
Recover ==
  /\ "dead" \in {writer, runner}
  /\ \/ writer = "dead" /\ writer' = "free" /\ UNCHANGED runner
     \/ runner = "dead" /\ runner' = "free" /\ UNCHANGED writer
  /\ UNCHANGED <<store, rows, jobs, proc, sent, spent>>

RefinerStep ==
  \/ Open \/ NextRecord \/ Ask \/ Judge \/ Accept
  \/ Publish \/ WriteFile \/ Commit \/ MarkPublished
  \/ \E answer \in Answers : Reply(answer)

Next ==
  \/ RefinerStep \/ ImportRow \/ ImportEnds \/ Abort \/ RefinerDies \/ ImporterDies \/ Recover
  \/ \E batch \in Batches : Import(batch)
  \/ \E t \in Tickets : Withdraw(t)
  \/ \E j \in Jobs : StartJob(j)

\* A living process goes on; the operator recovers locks and runs a job again
\* as docs/operations/experience-refinement-pilot.md asks for.
Fairness ==
  /\ WF_vars(RefinerStep) /\ WF_vars(ImportRow \/ ImportEnds)
  /\ WF_vars(Recover)
  /\ \A j \in Jobs : SF_vars(StartJob(j))

Spec == Init /\ [][Next]_vars /\ Fairness
-----------------------------------------------------------------------------
(* Properties. *)

\* However often its process dies or is stopped and the job is run again,
\* over all runs it sends no more requests than its budget.
BudgetHolds == \A j \in Jobs : sent[j] <= MaxCalls

\* The object an entry of the manifest names has all its files, made from the
\* very source of the entry, which is one of that ticket.
Whole(t) ==
  LET object == objects[manifest[t].object] IN
    /\ object.files = Files /\ object.source = manifest[t].source
    /\ object.source.ticket = t /\ object.draft \in Drafts

\* What a reader finds who follows the manifest without a lock: a source only
\* where the object it leads to is whole.
catalogue == [t \in Tickets |->
  [source |-> IF manifest[t].lifecycle = "none" \/ Whole(t) THEN manifest[t].source ELSE NoSource,
   revision |-> manifest[t].revision, lifecycle |-> manifest[t].lifecycle]]

\* At every moment readers see a catalogue of whole experiences: one entry a
\* ticket, a new revision only for a new source, over all jobs, and nothing
\* withdrawn comes back.
Catalogue == INSTANCE ExperienceCatalogue WITH entries <- catalogue
ImplementsCatalogue == Catalogue!Spec

\* Why a job that is run again and again need not settle its records: no
\* call is left for one that needs one, its sources are no longer those of
\* the store, or a ticket was withdrawn.
Unsettled(j) == {s \in jobs[j].sources : jobs[j].records[s] \notin Settled}
NeedsCall(j, s) ==
  /\ jobs[j].records[s] # "accepted" /\ s \notin Published
  /\ jobs[j].progress[s].attempt < 2
  /\ jobs[j].progress[s].review = "none"
Excused(j) ==
  \/ jobs[j].used = MaxCalls /\ \E s \in Unsettled(j) : NeedsCall(j, s)
  \/ ~Resumable(j)
  \/ \E s \in Unsettled(j) : manifest[s.ticket].lifecycle = "withdrawn"

\* A job that was interrupted settles every record when it is run again,
\* however often its process died, unless one of these reasons holds.
JobSettles == \A j \in Jobs : jobs[j].file ~> (Excused(j) \/ Unsettled(j) = {})

\* docs/operations/experience-refinement-pilot.md: after an interruption the
\* same job can be continued.
InterruptedJobResumes == \A j \in Jobs : proc.pc = "idle" => (jobs[j].dir => jobs[j].file)
=============================================================================
