# DrokBot: formal models

TLA+ models of the parts of DrokBot where several actors change the same rows
or files: the job queue, a chat run that stops for its user, its event stream,
the chat page, the rows of a conversation, automations, research, the review
inbox with hooks and budgets, the memory palace, projects and artifacts. TLC
checks them on small instances; TLAPS proves the safety and step properties of all
of these parts for every instance.

## 1. The system

DrokBot is a SvelteKit server with a Postgres database, a browser client and
calls to model providers. Whatever has to survive a request is a row: there is
no message broker and no lock service. Concurrency comes from

* async functions that interleave at every `await` (a database statement, a
  timer, a model call), several of them on one row;
* several processes: `docker-compose.yml` restarts the application
  (`restart: unless-stopped`), and the job queue is written for several workers;
* the browser, which disconnects, reconnects and sends one request twice.

| component | state | operations | what makes it correct |
|---|---|---|---|
| **jobs** `lib/jobs` | `jobs`, `job_leases`, `job_policies` | enqueue, claim, begin, heartbeat, complete, fail, cancel; a polling worker; a scheduler | one worker per job, bounded retries, no lost job, settled is final |
| **runs** `lib/runs` | `chat_runs` with its state and pending entries; `run_events` | enqueue / record / await / remove a decision, reap, dismiss, append an event | nothing runs without its approval, every wait ends, every run is released; a gapless log |
| **runtime** `lib/runtime` | none of its own: writes the run through a session | `runChatLoop`, tool dispatch, approvals, `session.emit` | order of state writes and events |
| **chat** `lib/chat`, `routes/chat` | `conversations`, `messages`; SSE connections; the page's blocks and drafts | stream, resume, insert with sequence, save a partial reply, edit, switch agent; fold events, stop, retry | a turn reads as one; what arrived is shown, and kept |
| **automations** `lib/automations` | `automations` (cron, `next_run_at`) | dispatch tick, cron route, `runAutomationById`, budget block | each slot runs, and runs once |
| **research** `lib/research` | `research`, `research_steps`, `research_sources` | start, cancel, an orchestrator loop carried by a job, parallel lanes | job and row agree; the report covers what was fetched |
| **observability** `lib/observability` | `review_items`, metrics, traces, logs | open / resolve review items | each report reaches the operator, repeated ones collapse |
| **hooks** `lib/hooks` | `hook_events`, registry | emit with timeouts, report failures | failures stay isolated and are reported once |
| **costs** `lib/costs` | `llm_usage`, `budget_limits`, `budget_alerts` | check limits, alert, log usage | the cap holds, a refusal is on record |
| **memory** `lib/memory` | wings, rooms, closets, drawers | mine a conversation in a job, merge similar rows, delete | each message is mined once; a merge loses nothing |
| **projects** `lib/projects` | `projects`, `repositories`, directories | create (local, import, none), delete, sync, import and detach through source control | rows and files agree |
| **artifact store** `lib/projects/artifacts.server.ts` | `artifacts`, `artifact_versions` | create, edit, roll back, delete | gapless histories, the pointer at the newest |
| **source-control** `lib/source-control` | `repositories`, mirrors, pull requests | sync, import, detach; external calls | one row per remote, bound to the right project |
| workspace, evaluations, agents, skills, tools, context, governance, notifications, settings, auth, llm, activity, images | rows of their own | CRUD, external calls, pure selection | mostly sequential |
| db, routes, ui, src-tauri, scripts, migrations | - | boot order, pages, shells | - |

Interactions: routes, automations, evaluations, memory and research go through
`enqueueJob`; job handlers call back into those components; approvals,
questions, hooks, budgets and automations open review items; the loop writes
the run and its events, and the routes read and write the same row; the page
reads the stream and posts decisions back; tools open the directories of
projects and write artifacts.

## 2. Modules

| module | models |
|---|---|
| `JobQueue` | `jobs.server.ts`, `worker.server.ts`: the queue statement by statement |
| `JobLifecycle` | the abstract queue: what callers of `enqueueJob` may rely on |
| `JobQueueRefinement` | the refinement mapping from `JobQueue` to `JobLifecycle` |
| `RunDecisions` | one chat run, its loop, its waits, the routes that decide, the reaper |
| `RunEvents` | the event log of one run, the live stream, resume, the consumer in the page |
| `Automations` | the scheduler, the cron route and the run job: how a due slot becomes one run |
| `Conversation` | the rows of one conversation and all that write them |
| `ChatPage` | the page's blocks, cards, drafts, partial saves, retries and edits |
| `Inbox` | hook dispatch, the budget guard, and the review inbox they report to |
| `Research` | the orchestrator loop, its lanes, its job and the cancel command |
| `Memory` | mining jobs and the reorganization of one palace, with the process that may die under them |
| `Artifacts` | the artifact store |
| `Projects` | projects, their directories and sidecar rows, the source-control commands that rebind them, over an instance of `Artifacts` |
| `MC*` | the TLC instances: scenarios, symmetry, definitions for constants |
| `JobQueueProofs`, `RunEventsProofs`, `ConversationProofs`, `ChatPageProofs`, `ResearchProofs`, `MemoryProofs` | the theorems about the module of that name |
| `OperatorProofs` | the theorems about `RunDecisions`, `Automations` and `Inbox`: what waits for its owner |
| `ProjectsProofs` | the theorems about `Artifacts` alone, then about `Projects` |

*Composition.* `JobQueueRefinement` puts the concrete queue under the abstract
one. `Automations` uses the queue only through the abstraction: its property
`UsesQueueAsPromised` instantiates `JobLifecycle` again, so what the proof
establishes of the queue is what the automations are checked to rely on.
`Projects` instantiates `Artifacts` with its projects among the scopes: deleting
a project is the `DropScope` of the store, and the theorem `StoreIsImplemented`
carries the store's theorems over. `RunDecisions`, `RunEvents`, `Conversation` and
`ChatPage` model one chat turn from four sides (the row, the log, the messages,
the page) and are not composed: they share little more than the end of the run.
`Research` and `Memory` reduce the queue to the one job they are carried by and
take exclusive attempts from `JobQueue`. `OperatorProofs` extends three modules that
share no variable; their specifications have names of their own for it
(`RunSpec`, `AutoSpec`), and each theorem is about one of them.

## 3. How the modules correspond to the code

A step is one awaited database statement (or one transaction, where nothing can
be seen between its statements), one turn of a timer, one message that arrives,
or one fault. Whatever the code awaits in between can be overtaken. Every
definition's source lines are in `PROJECT.json` under `map`. Definitions
introduced as *Variant*, and those listed there as mutants, are deliberate bugs:
they are no part of `Next`, and each property is shown to fail when one of them
replaces the definition it is a variant of. Variables introduced as *history*
are read by properties only.

**`JobQueue`.** `status`, `attempts`, `due`, `lease` are columns of `jobs`,
`leaseRow` is the newest row of `job_leases`, `rowLock` the `FOR UPDATE` lock.
`lease_expires_at` is kept as *none / live / expired* and `scheduled_at` as
*due / not due*, which is all the claim query can tell. A worker's `pc` is its
place in `processOne`; `beat` is a heartbeat of the interval timer, which is not
awaited and may land at any later time. `ClaimSelect`, `ClaimUpdate` and
`InsertLease` are the statements of `claimNextJob`; every function has its
variant in which it throws, and the model follows the worker's `catch` blocks.
A lease that lapses while its holder is alive but slow is `LeaseExpires` with
`stalls` counted.

**`JobLifecycle`** has five phases per job. "Lost" is among them because the code
cannot promise more: a worker that dies after `beginJob` leaves a row nobody
will claim (finding 1).

**`RunDecisions`.** `state`, `finished`, `stale` are columns of `chat_runs`;
`entry[c]` is call `c`'s entry in `pending_approvals` or `pending_questions`.
`Enqueue` is the transaction that adds the entry and sets the state;
`ReadDecision`, `PollAgain`, `GiveUp`, `RemoveEntry` are the turns of
`awaitApprovalDecision` / `awaitQuestionAnswers`; `ResumeRun` is the caller's
`updateRun`. A decision is two steps, as in the routes: `FindRun` (the SELECT by
state) and `RecordDecision` (the transaction that only writes an undecided
entry). A `run_code` script makes nested calls that need approvals of their own,
wait concurrently and go on in the server when the script is killed. `Reap` and
`Dismiss` are `cancelChatRun` under their conditions.

**`RunEvents`.** `counter` is `chat_runs.next_event_seq` and `log` the rows of
`run_events`; `appendRunEvent` is `BumpCounter` (takes the row lock) and
`InsertEvent` (commits), or `AppendThrows` with the transaction rolled back or
committed. `SendFrame` comes after, so frames of concurrent emitters can
overtake each other. The resume endpoint is `CheckActive`, `ReplayActive` /
`ReplayTerminal`, `TailLog`, `LookAgain` / `LookFinished`, `Drain`; the page is
`ReadFrame`, `Resume`, `GiveUp`. `flip` is how long the log was when the run left
the active states.

**`Automations`.** `nextRun` is `next_run_at`; `row[k]` the job row with dedupe key
`k`, which is `<<automation, slot>>` or the one key of the dispatch job. `ReadDue`
is the SELECT with its order and limit, `EnqueueRun` one turn of the loop,
`LoadAutomation` / `Execute` / `UpdateSchedule` the statements of
`runAutomationById` with the row as it was loaded, `BudgetBlocked` the skip that
still moves the schedule. `WorkerDies` ends the process of a job: a claimed one goes back,
a begun one is *lost*, as `JobQueue` shows. `NextRunAt` is `computeNextRunAt` for `*/n * * * *`.

**`Conversation`.** `insertMessageWithSequence` is a SELECT of the maximum and an
INSERT under the unique index, with `uncommitted` rows that make another INSERT
of the same sequence wait, and `rowLock` for the `conversations` row; two
transactions that wait for each other are ended by `DeadlockDetected`. A request
goes through its user row, the run, the partial row it may find, the reply and the
totals it writes from a snapshot; the page may close and save a partial at any
time; a switch updates and then inserts an anchor. `EditMessage` and `DeleteMessagesAfter` delete by
`created_at`: the pivot is read as a JavaScript `Date`, in whole milliseconds (`DateOf`), and compared
with a column of microseconds, so rows of the pivot's own millisecond count as later. The clock
counts ticks of which `Millisecond` make one, and stamps are any number of ticks apart, up to `MaxGap`. `MaxAttempts` is 2 in the configuration so that the
collision path is walked; with the installed `drizzle-orm` 0.45.2, which wraps
driver errors, the retry's test for the error code never succeeds, which is
`MaxAttempts = 1` (section 6); the run's properties hold there as well.

**`ChatPage`.** `run.log` is what the server emitted, by kind and id. `page` has the
blocks, the targets of the two typewriters, the pending question, the draft and
the retry intent, as `+page.svelte` and `streaming-blocks.ts` keep them; text is
the sequence of the deltas it is made of. A line may break, resume, be refused or
time out; the user stops, decides, answers, edits and retries; a partial save, whose request may fail, and
the reload follow each end. An edit may delete the row of its own question, as in `Conversation`. A question that is edited stays the same question: its id
stands for the turn, not for the wording. Left out: matching reloaded rows to drafts by content
and the 60-second expiry of a draft (`streaming-blocks.ts:270-286`), the line
break between the texts of two rounds (`loop.server.ts:193`), the placeholder
*(no output)*, and the blocks of subagents.

**`Inbox`.** A dispatch is one handler of one `emitHook` call; `RaceEnds` is
`Promise.race` of handler and timer, so a handler may go on after its dispatch has
failed. `LookForItem` / `InsertItem` and `LookForAlert` / `InsertAlert` are the two
look-then-insert pairs without a unique key behind them. `clock` dates looks, inserts and closings
so that the properties can compare them. Every request costs 1.

**`Research`.** `loop.pc` is the orchestrator's place between awaited calls; every
boundary is `checkJob` and `checkRow`. A lane is one query of a search-and-fetch
pass; up to `Concurrency` run at once, and one that is rejected ends
the pass while the others go on, into the next attempt too. Each lane fetches up to `UrlsPerQuestion`
pages at once, and every fetch numbers its step by a SELECT of the maximum and an INSERT. Any statement
of the loop's `try` block may throw (`LoopThrows`), and the process may die (`Crash`). The writes
of the cancel command and of the `catch` block are taken to succeed. The cancel command
writes the row, then the job if the row it has read names one.

**`Memory`.** Ids carry the generation of a wing (`born`) so that a wing made again
after a merge is another row. A miner looks for wing, room and closet and inserts what
it has not found; a foreign key that is gone makes the insert throw and the job
retry. A merge is an UPDATE that moves the loser's rows and a DELETE of the loser,
between which miners can insert: `swept` records what the cascade then takes.
A reorganization finds its merges of wings once and carries them out one after the other
(`FindWingMerges`, `NextWing`); the loser of one is named by no later one, while the winner
may lose the next. Which names mean the same, and which wing weighs more, is left open: any wing
may be proposed to win. Of closets, the fullest of a topic wins. `Crash` ends the process with
all of its work; a job that had begun stays `running`; titles are
fixed; deletion of messages and the backfill of embeddings are left out; one
reorganization runs at a time.

**`Artifacts`, `Projects`.** A transaction is one step where it commits, its
`SELECT max(seq)` a step of its own (READ COMMITTED). `createProject` is its row,
the repository or clone, the recorded path, the sidecar, and by hand the way back
(`Clean`, `TakeBack`); `deleteProject` clears the sidecar, drops the row and removes the
directory; `Die` and `DieDeleting` end the process at any step. `strays` names
each step that lets a directory or sidecar go astray. `ImportReads`, `ImportUpserts` and
`DetachRepository` are the commands of source control on the same rows: an import looks its project up (one that
names none makes a project of no repository first) and later binds the one row of its remote to it,
whoever had that row; `relinked` names the projects whose sidecars such a command has changed. The
mirrors they clone lie under a root of their own and are left out, and `attachRepository` has no caller. All projects share one
name, so their slugs differ by suffix; there is one user, and checks of ownership are reduced to
existence; git is external: it succeeds or fails, and may leave a directory behind.

## 4. The runs

| run | states | instance | what it shows |
|---|---|---|---|
| `JobQueue` | 236 000 | 2 workers; 2 jobs and 2 crashes, 2 jobs and a database error, or 2 requests of one dedupe key with a crash, a stall and an error | exclusive work, settled rows are final, leases are temporary, handled jobs come to rest, and the queue implements `JobLifecycle` |
| `JobQueueCrash` | - | the same | finding 1 |
| `RunDecisions` | 355 000 | a nested call beside an approval or beside a question; 1 crash, 1 error | only approved tools run, nothing is left pending, approvals stay answerable, waits end, the run is released |
| `RunEvents` | 341 000 | 2 nested calls that emit side by side, or a loop of 2 rounds with 3 resumes and 2 drops; 1 crash, 1 error | gapless numbers, exact replay, a resume closes caught up, the stream ends |
| `AutomationsSchedule` | 230 000 | 1 automation, dispatch job and cron route, 2 attempts, 1 failing statement or dying process, 1 edit, minutes 0..2 | a slot is served once, and every due slot is served |
| `AutomationsDispatch` | - | no external cron | finding 2 |
| `Conversation` | 422 000 | two requests; a request and a regeneration with an edit; a request between two switches; a request, a switch, an edit and a crash; with edits, the first stamp shares its millisecond with the next or does not | a turn reads as one, totals add up, the last anchor names the agent, an edit keeps what came before, every run is finished |
| `ChatPage` | 671 000 | one longer turn; two short ones with 2 faults; two short ones with an edit | what arrived is shown, talk is kept, a question is answerable, every turn ends |
| `Inbox` | 103 000 | two emits with a handler and a skill; an emit and a request; three requests in two budget periods; 1 error, 1 closed item | reports reach the operator and collapse, the limit is kept |
| `Research` | 631 000 | 2 questions, 1 gap, 2 lanes, 2 attempts; a cancel, early or late, with a page for each query; or 2 pages of one query at once with a failing statement, a crash, or both | the report covers its passes, the trace is causal, job and row agree, a cancel at a boundary ends the attempt, research ends |
| `Memory` | 655 000 | two conversations of a message, one of two, or three wings merged in a chain; a reorganization, 2 attempts; a deletion, a failure or a crash | nothing is mined twice, merges keep drawers, what was asked is mined |
| `Projects` | 887 000 | two projects for one remote and a deletion, or an import and detaches; one project and two deletions, or a deletion, an import and detaches; one project's artifacts under 3 calls and a deletion | files follow rows, histories are gapless, answers are true |

**Scenarios.** Several questions are asked of one module in one run: the MC module
adds a variable that picks a scenario initially, and `InScenario'` restricts
`Next` to what takes part in it. The specification is unchanged, and the proofs do
not know of scenarios. The scenarios of one run together reach every action.

**Why these bounds meet the hazards.** A hazard of this code takes two actors
and one fault, seldom more: two workers for a claim and a takeover, two crashes
so that the second owner of a job can die as well, two attempts for both outcomes
of `failJob`; one nested call and one wait of the loop for the shared state
column; two concurrent emitters and one resume for every order of counting,
committing and sending around a replay, and three resumes, the page's limit, for
its end; two requests or two switches for a collision of sequences and for the
deadlock; two lanes, of which one may outlive the attempt, and two pages of one lane for equal numbers; a clock
whose millisecond holds three stamps; three wings for a winner that loses; two miners of which
one can find what the merge removes; three calls on an artifact so that two edits
meet on the version of a third. The clock of `Automations` lasts until a slot,
its successor and a late writer can meet. The proofs lift the most important of
these to all values.

`CHECK_DEADLOCK FALSE` is set where the system stops: a run, a turn or a request
ends, or a bound is used up. The queue does not set it: workers poll for ever.
**Symmetry** is used once, for the calls of `Projects`, which no definition names;
that run has no liveness property.

### Fairness

* `JobQueue`: the worker loop polls until the process is stopped and every promise
  it awaits settles, so each worker is weakly fair as a whole; `docker-compose.yml`
  restarts a dead container; time makes jobs due and leases lapse. Cancels, crashes and heartbeats are
  owed by nobody. Progress includes both ends of a handler, so no particular one is promised.
* `RunDecisions`: waits are timer loops with a deadline; the reaper is a scheduled
  job whose dedupe key contains the time bucket (`runs-handler.server.ts:38-42`),
  so it does recur; the loop makes at most fifty rounds, which is strong fairness
  for its end: more tool calls cannot keep it from finishing for ever.
* `RunEvents`: emits, the resume handler and the reader are awaited code; the
  reaper as above. Nobody has to dismiss, stop or drop. In `MCRunEvents` the
  emitters that the scenario silences are exempt.
* `Automations`: timers, workers and, with `CronRoute`, the external cron go on.
  The clock owes nothing: what is due is served even if no further minute passes.
  A process that dies is started again, and the queue takes up the jobs it had claimed, but not those it had begun.
* `Conversation`: handlers of a live process go on, and Postgres detects deadlocks.
* `ChatPage`: the run's and the page's awaited code goes on, timers included, so a
  run in a question or an approval ends at its deadline. The user owes nothing.
* `Research`, `Memory`: the worker runs the job, lanes and miners are awaited code, a request that has begun a
  merge is carried out, unless the process dies, which nobody owes. Nobody has to cancel, merge or delete.
* `Inbox`, `Projects`: no liveness is claimed. Handlers of hooks may run for ever,
  and a process that dies in `createProject` leaves things as they are.

## 5. What is proved

| theorem | module | for every |
|---|---|---|
| `TypeCorrect`, `NoDoubleExecution`, `RetriesAreBounded`, `FinishedRowsAreReleased`, `InFlightRowsHaveWorkers`, `SettledRowsAreFinal`, `QueueInvariant` | `JobQueueProofs` | set of jobs and workers, keys, priorities, `MaxAttempts` and bounds on faults |
| `QueueImplementsLifecycle` | `JobQueueProofs` | the same, as long as no lease lapses under a live worker |
| `DecisionTypes`, `ApprovalIsRequired`, `OneDecisionPerCall`, `ApprovalsStayAnswerable`, `WaitInvariant`, `NothingIsLeftPending` | `OperatorProofs` | set of approvals, questions and nested calls |
| `EventsAreNumberedGaplessly`, `StreamTypesAlways`, `ResumeClosesCaughtUp`, `ReplayIsExactAlways` | `RunEventsProofs` | set of script calls, number of rounds, deltas, resumes, drops and faults |
| `AutomationTypes`, `EverySlotIsServedOnce`, `AutomationsUseQueue` | `OperatorProofs` | finite set of automations, step expressions, clock, batch size, with and without the cron route |
| `ConversationTyping`, `TurnsReadAsOne`, `TotalsAlwaysAddUp`, `LastAnchorsNameTheAgent`, `EditsKeepWhatCameBefore` | `ConversationProofs` | set of requests, regenerations, saving pages, switches and agents, every number of attempts, edits and crashes, length of a millisecond and gaps between stamps |
| `PageAlwaysShowsTheReply`, `TalkIsAlwaysKept`, `QuestionsStayAnswerable` | `ChatPageProofs` | number of turns, events, resumes, faults and edits |
| `ReportsReachOperator`, `ItemsCollapse`, `BudgetLimitIsKept` | `OperatorProofs` | set of hooks, bindings, dispatches and requests, every threshold and bound |
| `ResearchTypes`, `ReportsCoverTheirPasses`, `TracesAreCausal`, `JobsAndRowsAgree` | `ResearchProofs` | set of sub-questions and gaps, number of parallel lanes and pages of each, rounds, attempts, cancels, failures and crashes |
| `MinedOnceAlways`, `DrawersOutliveMergesAlways` | `MemoryProofs` | set of conversations, names of wings and topics, number of messages, attempts, merges, deletions, failures and crashes |
| `StoreTypesAlways`, `PointerIsAtTheNewest`, `AnswersAreTrue` | `ProjectsProofs` | set of calls, scopes and names |
| `FilesAlwaysFollowRows`, `StoreIsImplemented`, `HistoriesOfProjects`, `AnswersOfProjects` | `ProjectsProofs` | set of projects, remotes, deletions, imports, conversations and calls |

The only assumptions are the named ones on the constants; TLC evaluates them in
the runs. Most bound a number or say that a set is part of another. `CallsAreApart`
(a request is no hook dispatch) and `NamesAreApart` (a project is no conversation,
and none is the mark of an unbound sidecar) stand for ids of different kinds,
`KindsAreApart` (a request is no switch, and no switch is the mark of a row without
run) tells the writers of a conversation apart, and `WritersAreApart` the loop of a
research from its lanes.

*The queue.* `ExclusiveWork` is not inductive: nothing in it keeps a second worker's
claim away from a held row. `QueueInv` adds why the claim query cannot see one:
`LockDiscipline` (a claim transaction and its row lock determine each other and
the locked row is still eligible, because every other writer waits for the
lock), `HeldIsShielded` (a held row is neither waiting nor leased with a lapsed
lease) and `AttemptsLeft`. All are under `stalls = 0`: a lease that lapses
under a live holder really does put two workers on a job, and that is the one
condition the code cannot check. The refinement proof shows each statement to be a
step of `JobLifecycle` or a stutter, from two lemmas (`MoveOne`, `Release`) about
what one row's change amounts to.

*Decisions.* `DecisionInv` follows an entry from absent to open to one acknowledged
decision to absent, and ties the verdict of the wait to what was acknowledged;
`WaitInv` says that the loop is in one wait at most and that no statement takes the
run to `waiting_user_input` while an approval is awaited. That a call past its
wait has no entry gives `NothingLeftPending`.

*Events.* `LogInv` ties the lock on `chat_runs` to the number taken under it: the open
transaction holds `counter + 1`, so a commit extends the log by exactly the next
number and a rollback leaves no trace. `LogOfEvents` says that emitters only go
forward, so each event has at most one row besides those whose append was reported
as failed. `CursorInv` relates what the resume handler has sent to the length of
the log, which is all that `ResumeClosesCaughtUp` needs. `PageInv` is about the
page: frames in flight are distinct, lie beyond the cursor or carry no number, and
what has been received is everything numbered up to the cursor; its gap-free half
is under the condition that the loop alone emits, which is exactly when frames
cannot overtake each other. What a replay sends is defined by counting the rows
below each, so no induction over sequences is needed.

*Conversation.* The sequence is chosen before the row that bears it is there, and the
reader sees only what is committed, so no property follows from the rows alone.
`PlaceInv` (`WriterPlace`, `RequestPlace`, `SwitchPlace`) ties each writer to the request, page or
switch it works for, `RowInv` each row to its one INSERT. `OrderInv` is the heart of
`TurnReadsAsOne`: a run starts when its question is committed, so whatever is stamped
with the run has picked its number above it, and nobody picks one in
between. `FoundInv` and `StampInv` say which partial a request may merge: its own, while it
lasts, and one that it has not seen came after it had looked. `CountInv` is under the condition
of the property, that requests do not overlap; then one request at most is between reading the totals
and writing them. `AnchorInv`: the switch that holds the row of
`conversations` has read its number above every anchor. An edit deletes by `created_at` what is
displayed by sequence; that these agree needs `GapInv`, which holds while
nothing has been deleted. The pivot's `Date` is at most its stamp, and what it cuts off is
the pivot's own millisecond (`DateOf` is monotone): that is the exception
`EditKeepsWhatCameBefore` makes. That `max(sequence)` exists is proved from well-foundedness (`Bounded`).

*Page.* `ChatInv` has the log on one side (`IdsInv`, `EndsInv`: the end of a turn is its last
event, and a run that waits has said so last) and the page on the other.
`CursorInv` says that the page reads the log in order from where the last edit has left it;
`TextInv` that what is shown is the text that has arrived, where a text block is the last one exactly as long as
its typewriter runs; `CardInv` that there is one card for each call. `DoneInv`
is why a reload finds what the page has shown: the reply is stored before the run
says that it is done. `SavedInv` is stronger than the property `PartialIsSaved`: that one
is not inductive during an edit, when the old text is deleted and the page not reset yet. Both except
the turn whose save has failed (`hist.unsaved`).
`QuestionInv` and `AskInv` follow a question from the composer to its row.
Text is a flattened sequence of deltas; what flattening computes is proved by
induction over sets of numbers, from their well-foundedness, since the library's
induction theorems cannot be used.

*Automations.* `SlotIsHeld` follows one slot: from the moment a dispatcher has read
it, `next_run_at` is that slot until the handler of the slot's own job moves it
past, so a second dispatcher can only enqueue the same key. It needs
`Grounded` (what is read or enqueued was due, so the handler's clock is past the
slot) and a lemma that `computeNextRunAt` is later. `AutomationsUseQueue` is
the refinement of `JobLifecycle` by the rows as the automations use them; with
`QueueImplementsLifecycle` both sides of that interface are proved.

*Inbox.* `RaceInv` is the core: between the look and the insert of an opener, every
outstanding item of its key is younger than the look. With `DatedInv` (the clock
is ahead of whatever is dated) and `OnceInv` (a report is made once, and its
item is the end of it) both inbox properties are inductive. The budget needs
`BudgetInv`: while requests have not overlapped, at most one is in flight, and if it
runs it was let through below the limit or its own check is among the failures, so
that its cost raises both sides. `GuardInv` keeps alerts to requests under check.

*Research.* `PhaseInv` says where lanes may be at work: in a pass, or in an attempt that
is over; outside of both every lane of the attempt is through with its fetches, since a lane that throws
takes the loop out of its pass. `ReportInv` carries that over to the list of pages the
report is written from. `TraceInv` is about numbers already read: between the
SELECT of the maximum and the INSERT, only unrelated writers can append, so the number is
still above every related step when the row is written. Two fetches of a lane are not related: both
may have read the same number. `OutcomeInv` follows the
status from the three ends of the loop to what the queue makes of the handler.

*Memory.* `PalaceInv` needs both sides of the database. `OnceInv`: what a miner has
still to store is not stored, because it has read what is there and is the only one of its
conversation; `NamesAreFresh` keeps the ids of an earlier attempt's drawers apart from
those to come, deleted ones included. `BelowStands` is the foreign keys: without them a
drawer could hang on a closet that is gone and no cascade would find it.
`PlanInv` and `ClosetPlanInv` are about the proposals found before the first merge: every wing and closet they name
is still there when its turn comes, and the one being deleted is named by no later proposal,
so chains, in which the winner of a merge loses the next, are covered for any number of names.
`MergeInv` says that a merge about to delete has moved everything that was there, so that what
the cascade takes has come since.

*Artifacts and projects.* `StoreInv` adds to the properties that slugs and version
names are used once, that what a call has read as the maximum is at most the
newest, and that the text it carries is there to be found. `FilesInv` accounts for each
project: what its directory and sidecar are at each place of `createProject` and
`deleteProject`, or else that it is among the strays. A project whose sidecars no import or detach has
changed has none before its creation ends, which is why the sidecar it then gets is its only one. `StoreIsImplemented` shows each
step of `Projects` to be a step of `Artifacts` or a stutter, and the store's theorems
follow for projects.

**Only model-checked.** Liveness, which rests on fairness and `ENABLED`:
`LeaseIsTemporary`, `JobsComeToRest`, `EveryWaitEnds`, `RunIsReleased`, `StreamEnds`,
`DueSlotIsServed`, `EveryRunIsFinished`, `TurnEnds`, `CancelBeforeBoundaryEndsAttempt`,
`ResearchEnds`, `AskedIsMined`. Every other property of a passing run is stated by a theorem.
Of the queue under stalls nothing is promised, by the properties neither.

## 6. Findings

With a run:

1. `JobQueueCrash`: a worker that dies after `beginJob` leaves a `running` row that no
   claim ever takes over; `docs/jobs/spec.md:78` promises the opposite. The components that rest on the
   queue inherit it, and their liveness properties except it by name: an automation's slot stays due with its
   key taken (`engine.ts:222-223`: "ticks survive restart"), a research request stays in its stage
   (`docs/jobs/spec.md:5`), and a conversation is never mined (`memory-handler.server.ts:7-12`:
   "Mining survives a process restart"), while the row answers every later enqueue.
2. `AutomationsDispatch`: the dispatch tick has one dedupe key for ever and finished
   rows keep theirs, so the process dispatches once and never again
   (`workspace_gc` with `gc:daily` has the same shape).

The models contain the following behaviour too; the properties exempt it by name or
start where it ends, and no run is devoted to it.

*Queue.* `enqueueJob` collides with finished rows, while `docs/jobs/spec.md:92`
speaks of non-terminal ones. `completeJob` overwrites a cancel that came while
the handler ran (`docs/jobs/spec.md:122`): `SettledIsFinal` starts when the
worker lets go. A missed heartbeat loses the job only before `beginJob`
(`docs/jobs/spec.md:20`). No claim looks at `concurrencyLimit`
(`docs/jobs/spec.md:96`). When the INSERT into `job_leases` fails, the claimed row
is left to its lease.

*Runs.* `updateRun` writes by id alone, so a dismissed or reaped run goes back to
`running` and on to `completed`, although a terminal run does not change
state (`docs/runs/spec.md:100`). At its deadline a wait removes its entry
without a last look, so a decision acknowledged just before is dropped and the
call denied (`docs/runs/spec.md:75`). A run is not taken up again after a crash of its
process (`docs/runs/spec.md:54`); the reaper cancels it. A nested call that outlives
its script can set the run's state under a question of the loop, which the ask-user
route then rejects until the next write (`docs/runs/spec.md:79`).

*Stream.* Nested calls of one script send frames in another order than they were
numbered; a page that reconnects in between loses an event
(`sse-consumer.ts:16-18` says that it picks up where it stopped). Resume takes the
latest active run of the conversation.

*Conversation.* The retry of a colliding insert (`insert-message.server.ts:14-16`)
never happens inside a transaction, which Postgres has aborted by then, nor outside
one, because `drizzle-orm` 0.45.2 wraps the error whose code it tests. A partial saved
while the reply's transaction is open stays beside it as a second assistant row
(`chat.remote.ts:273-275`). Totals are written from a snapshot, so overlapping
requests lose an increment. An edit compares its pivot as a `Date` of milliseconds with stamps of microseconds
(`chat.remote.ts:201`, `217-226`), so as a rule it deletes the very question it has rewritten, and what came
just before it in the same millisecond; `deleteMessagesAfter` does the same.

*Page.* Text still growing when reasoning or an unannounced result arrives is shown
again below it (`Interleaved`). An edit during a stream leaves the old turn running,
whose end puts a draft of the deleted turn back (`+page.svelte:1018`). A
question is stored before the budget guard, so a refused request and its retry store it
twice (`stream/+server.ts:258`). A partial save that fails is logged and the blocks are
cleared all the same (`+page.svelte:979-983`, `1001`), which loses the text that `+page.svelte:307-309`
means to keep.

*Automations.* A retry of a run whose schedule has already moved executes the next slot
beside that slot's own job, and the later UPDATE can put `next_run_at` back to a
slot whose key is taken: the automation stops for good (`RetriedLate`). A run that has failed
`maxAttempts` times blocks its automation in the same way, and the comment "the worker will skip when it sees
lastRunAt updated" (`engine.ts:243`) describes a check that is not there. A retry after the model call
inserts the prompt a second time; a late UPDATE uses the schedule as it was
loaded; slots that stay due can fill the batch of 25.

*Research.* The loop knows only its own `CanceledError`
(`research-runner.server.ts:241`); a cancel noticed through the job arrives as
an ordinary error (`worker.server.ts:131`), so the row becomes failed, `failJob` puts the canceled
job back to `retry_wait`, and the retry completes the research, although the command is to stop the
worker "at the next safe boundary" (`research.remote.ts:104-106`). A cancel
between a check and the next UPDATE of the stage is overwritten. Fetches of one lane number their steps in parallel, without a lock, and can share a
number (`research-phases.server.ts:56-62`).

*Hooks and budgets.* An opt-in hook is registered and also dispatched as any other
(`hooks/types.ts:76`, `bus.server.ts:97`). The limit is compared with `>`
(`budget.server.ts:121`), so sequential requests pass it by one.

*Memory.* The cascade of a merge takes along what was inserted between its UPDATE and its
DELETE (`reorganize.server.ts:314-315` says that the row goes alone). The completed
row of `mine:<conversation>` answers every later enqueue, so later turns are never
mined (`memory.remote.ts:182-184`, `docs/memory/spec.md:101,109`). A drawer the user
deleted comes back when its job is retried.

*Projects and artifacts.* The unbound row of a sync blocks the import of the same
remote (`github-provider.server.ts:93`, `projects.server.ts:71-73`,
`docs/source-control/spec.md:98`). `importRepository` binds the one row of a remote
to its project, also when another project was made from that remote, which loses its sidecar
(`repository-import.server.ts:148-156`), or when its own project has been deleted since it was looked up;
`detachRepository` takes it from a project that lives; the compensation of `createProject` leaves
a sidecar that an import has bound meanwhile. A project deleted during its clone leaves
sidecar and directory, which block the next import. A failing local init leaves its
directory (`projects.server.ts:135-138`, comment at 90-95). The directory that a tool
made for a project without repository is never removed, and `conversations.project_id` is
never cleared (`sessions.schema.ts:18-21`). A project with active artifacts is
deleted with all their versions, while `docs/projects/spec.md` says that it cannot be and that versions are "never
deleted". `read_artifact` always reports version 1 (`tools/handlers/projects.server.ts:197`). A
stale editor writes its text over a newer version; the history keeps both.

## 7. Not modelled

Within the modelled components: job priorities beyond a total order,
`job_policies`, metrics and logs; the content of messages, tool results and
prompts; display columns of a run; detached and forwarded sessions of
subagents; compaction, titles and attachments; two runs of one conversation in
the stream; cron expressions beyond minute steps; the three modes of an
automation inside `Execute`; the bodies of the built-in hooks and the recursion
limit; recall, ranking, the knowledge graph and embeddings; renaming a project
and the git wrappers.

Other components, with the reason, are in `PROJECT.json` under `components`:
models, notifications, tools and settings are external calls or CRUD on rows
of one user; context selection is a pure function of token estimates; workspace
collection reads finished runs and deletes directories; evaluations are a job
handler of the shape modelled in `Research` and `Memory`; the rest is presentation.

## 8. What would come next

1. Two runs of one conversation, which widens `RunEvents`' resume and `ChatPage`.
2. Composing `Research` and `Memory` with `JobLifecycle`, as `Automations` is.
3. Evaluations and workspace collection, deletion against a resumed run.
