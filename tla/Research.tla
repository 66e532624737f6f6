------------------------------ MODULE Research ------------------------------
(* One deep-research request from the command that starts it to its end: the  *)
(* research row and its steps (research.server.ts), the orchestrator loop     *)
(* (research-runner.server.ts), the parallel lanes of a search and fetch pass *)
(* and the parallel fetches of a lane (research-phases.server.ts), the job    *)
(* that carries the loop and is retried when the loop reports a failure       *)
(* (research-handler.server.ts), and the user's cancel, which writes the row  *)
(* and then the job (research.remote.ts).  The queue is reduced to the one    *)
(* job: JobQueue has its leases, and shows that a job whose process dies      *)
(* after beginJob is not claimed again.  Any statement of the loop's try      *)
(* block and of a lane may throw; the writes of the commands and of the catch *)
(* block do not.                                                              *)
EXTENDS Integers, Sequences, FiniteSets, FiniteSetsExt, TLC

CONSTANTS Questions,     \* sub-questions of the plan
          Gaps,          \* follow-up queries a reflection may ask for
          Concurrency,   \* PARALLEL_FETCH_CONCURRENCY
          MaxRounds,     \* config.maxReflectionRounds
          MaxSources,    \* config.maxTotalSources
          UrlsPerQuestion, \* config.urlsPerQuestion
          MaxAttempts,   \* maxAttempts of the job
          MaxCancels,    \* bound on cancel commands
          MaxFailures,   \* bound on statements and calls that throw
          MaxCrashes     \* bound on deaths of the process

ASSUME ResearchAssumption ==
  /\ Questions # {} /\ IsFiniteSet(Questions) /\ IsFiniteSet(Gaps)
  /\ Concurrency \in Nat \ {0} /\ MaxAttempts \in Nat \ {0}
  /\ {MaxRounds, MaxSources, UrlsPerQuestion, MaxCancels, MaxFailures, MaxCrashes} \subseteq Nat

\* The loop is told apart from its lanes.
ASSUME WritersAreApart == "loop" \notin Questions \cup Gaps

VARIABLES
  row,       \* the research row: status, plan, cost and the sources its report was written from
  job,       \* the research_run job: status and attempt count
  sources,   \* rows of research_sources, by the fetch that stored them
  steps,     \* rows of research_steps in insertion order: writer, kind, seq
  loop,      \* the running orchestrator loop
  lane,      \* state of each lane <<attempt, query>> of a search and fetch pass
  fetch,     \* state of each fetch <<lane, n>>
  command,   \* the cancel command under way and whether startResearch has linked the job
  spent      \* budgets used: cancels, failures and crashes

vars == <<row, job, sources, steps, loop, lane, fetch, command, spent>>

Queries  == Questions \cup Gaps
Lanes    == (1..MaxAttempts) \X Queries
Fetches  == Lanes \X (1..UrlsPerQuestion)
Settled  == {"complete", "failed", "canceled"}
RowStatus == {"planning", "searching", "reflecting", "synthesizing"} \cup Settled
JobStatus == {"queued", "running", "completed", "failed", "canceled"}
Stages   == {"planning", "searching", "reflecting", "gaps", "synthesizing"}
TheLoop  == "loop"
Writers  == (1..MaxAttempts) \X (Queries \cup {TheLoop})
LaneAt   == {"absent", "waiting", "checkJob", "checkRow", "search", "searched", "fetching", "thrown"}
FetchAt  == {"absent", "fetch", "fetched", "done"}

Idle == [pc |-> "idle", next |-> "planning", round |-> 0, gaps |-> {}, listed |-> {}, cost |-> 0, max |-> 0]

Init ==
  /\ row = [status |-> "planning", plan |-> FALSE, report |-> {}, cost |-> 0, jobId |-> FALSE]
  /\ job = [status |-> "queued", attempt |-> 0]
  /\ sources = {} /\ steps = << >>
  /\ loop = Idle
  /\ lane = [l \in Lanes |-> [at |-> "absent", max |-> 0]]
  /\ fetch = [f \in Fetches |-> [at |-> "absent", max |-> 0]]
  /\ command = [pc |-> "none", jobId |-> FALSE]
  /\ spent = [cancels |-> 0, failures |-> 0, crashes |-> 0]

MaxSeq == Max({s.seq : s \in Range(steps)} \cup {0})
StepRow(writer, kind, max) == Append(steps, [by |-> writer, kind |-> kind, seq |-> max + 1])

Goto(pc) == loop' = [loop EXCEPT !.pc = pc]
Attempt  == job.attempt
Pass     == {l \in Lanes : l[1] = Attempt /\ lane[l].at # "absent"}
\* A lane is through when the Promise.all over its fetches is.
Through(l) == lane[l].at = "fetching" /\ \A f \in Fetches : f[1] = l => fetch[f].at \in {"absent", "done"}
Active(l)  == lane[l].at \notin {"absent", "waiting", "thrown"} /\ ~Through(l)

\* A call to the model, the search engine, the page fetcher or the database throws.
Throws == /\ spent.failures < MaxFailures
          /\ spent' = [spent EXCEPT !.failures = @ + 1]

(***************************************************************************)
(* startResearchCommand links the job to the row after it has enqueued it; *)
(* cancelResearchCommand writes the row and then, if the row it has read   *)
(* names a job, the job.                                                   *)
(***************************************************************************)
LinkJob ==
  /\ ~row.jobId
  /\ row' = [row EXCEPT !.jobId = TRUE]
  /\ UNCHANGED <<job, sources, steps, loop, lane, fetch, command, spent>>

CancelRead ==
  /\ command.pc = "none" /\ spent.cancels < MaxCancels
  /\ command' = [pc |-> "row", jobId |-> row.jobId]
  /\ spent' = [spent EXCEPT !.cancels = @ + 1]
  /\ UNCHANGED <<row, job, sources, steps, loop, lane, fetch>>

CancelRow ==
  /\ command.pc = "row"
  /\ row' = [row EXCEPT !.status = "canceled"]
  /\ command' = [command EXCEPT !.pc = IF command.jobId THEN "job" ELSE "none"]
  /\ UNCHANGED <<job, sources, steps, loop, lane, fetch, spent>>

CancelTheJob ==
  /\ command.pc = "job"
  /\ job' = [job EXCEPT !.status = "canceled"]
  /\ command' = [command EXCEPT !.pc = "none"]
  /\ UNCHANGED <<row, sources, steps, loop, lane, fetch, spent>>

(***************************************************************************)
(* The worker runs the handler: the loop starts from the beginning in      *)
(* every attempt and skips the planner when the row already has a plan.    *)
(***************************************************************************)
StartLoop ==
  /\ loop.pc = "idle" /\ job.status = "queued"
  /\ job' = [status |-> "running", attempt |-> job.attempt + 1]
  /\ loop' = [Idle EXCEPT !.pc = IF row.plan THEN "preapproved" ELSE "checkJob"]
  /\ UNCHANGED <<row, sources, steps, lane, fetch, command, spent>>

\* checkCanceled: the worker's checkCancellation (its error is an ordinary Error), then a read of the row.
CheckJob ==
  /\ loop.pc = "checkJob"
  /\ Goto(IF job.status = "canceled" THEN "failed" ELSE "checkRow")
  /\ UNCHANGED <<row, job, sources, steps, lane, fetch, command, spent>>

\* Mutant: the loop asks the job only.
CheckJobAlone ==
  /\ loop.pc = "checkRow"
  /\ Goto("enter")
  /\ UNCHANGED <<row, job, sources, steps, lane, fetch, command, spent>>

CheckRow ==
  /\ loop.pc = "checkRow"
  /\ Goto(IF row.status = "canceled" THEN "canceled" ELSE "enter")
  /\ UNCHANGED <<row, job, sources, steps, lane, fetch, command, spent>>

\* The lanes of a pass: mapWithConcurrency starts one worker per slot, the others wait.
Begin(queries) ==
  lane' = [l \in Lanes |-> IF l[1] = Attempt /\ l[2] \in queries
                           THEN [at |-> "waiting", max |-> 0] ELSE lane[l]]

\* updateResearch writes the status by id, whatever the row says by now.
EnterStage ==
  /\ loop.pc = "enter"
  /\ row' = [row EXCEPT !.status = IF loop.next = "gaps" THEN "searching" ELSE loop.next]
  /\ CASE loop.next = "planning"   -> Goto("planner") /\ UNCHANGED lane
       [] loop.next = "searching"  -> Goto("pass") /\ Begin(Questions)
       [] loop.next = "gaps"       -> Goto("pass") /\ Begin(loop.gaps)
       [] loop.next = "reflecting" -> Goto("reflect") /\ UNCHANGED lane
       [] OTHER                    -> Goto("synthesize") /\ UNCHANGED lane
  /\ UNCHANGED <<job, sources, steps, fetch, command, spent>>

\* The model answers with sub-questions or with nothing usable.
Planner ==
  /\ loop.pc = "planner"
  /\ \E pc \in {"planStep", "noPlanStep"} : loop' = [loop EXCEPT !.pc = pc, !.cost = @ + 1, !.max = MaxSeq]
  /\ UNCHANGED <<row, job, sources, steps, lane, fetch, command, spent>>

Preapproved ==
  /\ loop.pc = "preapproved"
  /\ loop' = [loop EXCEPT !.pc = "preStep", !.max = MaxSeq]
  /\ UNCHANGED <<row, job, sources, steps, lane, fetch, command, spent>>

\* addResearchStep inserts max(seq) + 1 as read at the start of its transaction.
PlanStep ==
  /\ loop.pc \in {"planStep", "noPlanStep", "preStep"}
  /\ steps' = StepRow(<<Attempt, TheLoop>>, "plan", loop.max)
  /\ loop' = [loop EXCEPT !.pc = CASE loop.pc = "planStep"   -> "savePlan"
                                   [] loop.pc = "noPlanStep" -> "failed"
                                   [] OTHER                  -> "checkJob",
                          !.next = "searching"]
  /\ UNCHANGED <<row, job, sources, lane, fetch, command, spent>>

SavePlan ==
  /\ loop.pc = "savePlan"
  /\ row' = [row EXCEPT !.plan = TRUE]
  /\ Goto("checkJob")
  /\ UNCHANGED <<job, sources, steps, lane, fetch, command, spent>>

(***************************************************************************)
(* A lane: check for a cancel, search, fetch every hit picked.  A failed   *)
(* search yields no hits and a failed fetch no source; only the check can  *)
(* reject the lane, and with it the Promise.all the loop waits for.  The   *)
(* other lanes of a rejected pass go on.                                   *)
(***************************************************************************)
Move(l, at) == lane' = [lane EXCEPT ![l].at = at]

\* A worker takes the next query as long as it lives: Concurrency of them started.
TakeQuery(l) ==
  /\ lane[l].at = "waiting"
  /\ Cardinality({k \in Lanes : k[1] = l[1] /\ (Active(k) \/ lane[k].at = "thrown")}) < Concurrency
  /\ Move(l, "checkJob")
  /\ UNCHANGED <<row, job, sources, steps, loop, fetch, command, spent>>

\* A worker that throws takes no further query; the first one rejects the Promise.all.
Rejects(l) == loop.pc = "pass" /\ l[1] = Attempt
Reject(l, outcome) ==
  /\ Move(l, "thrown")
  /\ IF Rejects(l) THEN Goto(outcome) ELSE UNCHANGED loop
  /\ UNCHANGED <<row, job, sources, steps, fetch, command>>

LaneCheckJob(l) ==
  /\ lane[l].at = "checkJob"
  /\ \/ job.status = "canceled" /\ Reject(l, "failed")
     \/ /\ job.status # "canceled" /\ Move(l, "checkRow")
        /\ UNCHANGED <<row, job, sources, steps, loop, fetch, command>>
  /\ UNCHANGED spent

LaneCheckRow(l) ==
  /\ lane[l].at = "checkRow"
  /\ \/ row.status = "canceled" /\ Reject(l, "canceled")
     \/ /\ row.status # "canceled" /\ Move(l, "search")
        /\ UNCHANGED <<row, job, sources, steps, loop, fetch, command>>
  /\ UNCHANGED spent

CheckThrows(l) ==
  /\ lane[l].at \in {"checkJob", "checkRow"}
  /\ Throws
  /\ Reject(l, "failed")

Search(l) ==
  /\ lane[l].at = "search"
  /\ lane' = [lane EXCEPT ![l] = [at |-> "searched", max |-> MaxSeq]]
  /\ UNCHANGED <<row, job, sources, steps, loop, fetch, command, spent>>

\* Up to UrlsPerQuestion of the hits are picked, and all of them fetched at once.
SearchStep(l) ==
  /\ lane[l].at = "searched"
  /\ steps' = StepRow(l, "search", lane[l].max)
  /\ Move(l, "fetching")
  /\ \E hits \in 0..UrlsPerQuestion :
       fetch' = [f \in Fetches |-> IF f[1] = l /\ f[2] <= hits THEN [fetch[f] EXCEPT !.at = "fetch"] ELSE fetch[f]]
  /\ UNCHANGED <<row, job, sources, loop, command, spent>>

SearchThrows(l) ==
  /\ lane[l].at \in {"search", "searched"}
  /\ Throws
  /\ Move(l, "fetching")
  /\ UNCHANGED <<row, job, sources, steps, loop, fetch, command>>

\* Mutant: the number of the fetch step is taken when that of the search step is.
FetchNumberedEarly(f) ==
  /\ fetch[f].at = "fetch"
  /\ sources' = sources \cup {f}
  /\ fetch' = [fetch EXCEPT ![f] = [at |-> "fetched", max |-> lane[f[1]].max]]
  /\ UNCHANGED <<row, job, steps, loop, lane, command, spent>>

\* The page is stored, then its step numbered like any other: fetches of one lane may take one number.
Fetch(f) ==
  /\ fetch[f].at = "fetch"
  /\ sources' = sources \cup {f}
  /\ fetch' = [fetch EXCEPT ![f] = [at |-> "fetched", max |-> MaxSeq]]
  /\ UNCHANGED <<row, job, steps, loop, lane, command, spent>>

FetchStep(f) ==
  /\ fetch[f].at = "fetched"
  /\ steps' = StepRow(f[1], "fetch", fetch[f].max)
  /\ fetch' = [fetch EXCEPT ![f].at = "done"]
  /\ UNCHANGED <<row, job, sources, loop, lane, command, spent>>

FetchThrows(f) ==
  /\ fetch[f].at \in {"fetch", "fetched"}
  /\ Throws
  /\ fetch' = [fetch EXCEPT ![f].at = "done"]
  /\ UNCHANGED <<row, job, sources, steps, loop, lane, command>>

\* Mutant: Promise.race in place of Promise.all.
SomeLaneDone == \E l \in Pass : Through(l)

\* Promise.all resolves when every lane has: on to reflection, or to the report after the last round.
AllLanesDone == \A l \in Pass : Through(l) \/ lane[l].at = "thrown"
ThenReflect(record) ==
  IF record.round < MaxRounds
  THEN [record EXCEPT !.pc = "checkJob", !.next = "reflecting", !.round = @ + 1]
  ELSE [record EXCEPT !.pc = "checkJob", !.next = "synthesizing"]
PassEnds ==
  /\ loop.pc = "pass" /\ AllLanesDone
  /\ loop' = ThenReflect(loop)
  /\ UNCHANGED <<row, job, sources, steps, lane, fetch, command, spent>>

\* runReflection asks the model only when there are sources below the cap; no gaps end the rounds.
Asks == sources # {} /\ Cardinality(sources) < MaxSources
Reflect ==
  /\ loop.pc = "reflect"
  /\ \E gaps \in IF Asks THEN SUBSET Gaps ELSE {{}} :
       loop' = [loop EXCEPT !.pc = "reflectStep", !.gaps = gaps, !.max = MaxSeq, !.cost = IF Asks THEN @ + 1 ELSE @]
  /\ UNCHANGED <<row, job, sources, steps, lane, fetch, command, spent>>

ReflectStep ==
  /\ loop.pc = "reflectStep"
  /\ steps' = StepRow(<<Attempt, TheLoop>>, "plan", loop.max)
  /\ loop' = [loop EXCEPT !.pc = "checkJob", !.next = IF loop.gaps = {} THEN "synthesizing" ELSE "gaps"]
  /\ UNCHANGED <<row, job, sources, lane, fetch, command, spent>>

\* The report is written from the sources listed now; without any the loop fails.
Synthesize ==
  /\ loop.pc = "synthesize"
  /\ loop' = IF sources = {} THEN [loop EXCEPT !.pc = "failed"]
             ELSE [loop EXCEPT !.pc = "cite", !.listed = sources, !.cost = @ + 1]
  /\ UNCHANGED <<row, job, sources, steps, lane, fetch, command, spent>>

\* markSourcesCited writes flags nothing here depends on; the step after it is numbered.
Cite ==
  /\ loop.pc = "cite"
  /\ loop' = [loop EXCEPT !.pc = "synthStep", !.max = MaxSeq]
  /\ UNCHANGED <<row, job, sources, steps, lane, fetch, command, spent>>

SynthesizeStep ==
  /\ loop.pc = "synthStep"
  /\ steps' = StepRow(<<Attempt, TheLoop>>, "synthesize", loop.max)
  /\ Goto("complete")
  /\ UNCHANGED <<row, job, sources, lane, fetch, command, spent>>

(***************************************************************************)
(* The three ends of the loop, each an unconditional update of the row,    *)
(* and what the handler makes of the outcome: a failure throws, and        *)
(* failJob puts the job back while attempts are left.                      *)
(***************************************************************************)
Complete ==
  /\ loop.pc = "complete"
  /\ row' = [row EXCEPT !.status = "complete", !.report = loop.listed, !.cost = loop.cost]
  /\ Goto("returned")
  /\ UNCHANGED <<job, sources, steps, lane, fetch, command, spent>>

EndCanceled ==
  /\ loop.pc = "canceled"
  /\ row' = [row EXCEPT !.status = "canceled", !.cost = loop.cost]
  /\ Goto("returned")
  /\ UNCHANGED <<job, sources, steps, lane, fetch, command, spent>>

\* Mutants: the handler returns the failed outcome; the catch forgets the row.
EndFailedQuietly ==
  /\ loop.pc = "failed"
  /\ row' = [row EXCEPT !.status = "failed", !.cost = loop.cost]
  /\ Goto("returned")
  /\ UNCHANGED <<job, sources, steps, lane, fetch, command, spent>>
EndFailedUnwritten ==
  /\ loop.pc = "failed"
  /\ Goto("threw")
  /\ UNCHANGED <<row, job, sources, steps, lane, fetch, command, spent>>

EndFailed ==
  /\ loop.pc = "failed"
  /\ row' = [row EXCEPT !.status = "failed", !.cost = loop.cost]
  /\ Goto("threw")
  /\ UNCHANGED <<job, sources, steps, lane, fetch, command, spent>>

CompleteJob ==
  /\ loop.pc = "returned"
  /\ job' = [job EXCEPT !.status = "completed"]
  /\ loop' = Idle
  /\ UNCHANGED <<row, sources, steps, lane, fetch, command, spent>>

FailJob ==
  /\ loop.pc = "threw"
  /\ job' = [job EXCEPT !.status = IF job.attempt < MaxAttempts THEN "queued" ELSE "failed"]
  /\ loop' = Idle
  /\ UNCHANGED <<row, sources, steps, lane, fetch, command, spent>>

\* Any statement of the try block may throw: the catch takes it for a failure.
InTry == {"checkJob", "checkRow", "enter", "planner", "preapproved", "planStep", "noPlanStep", "preStep", "savePlan",
          "reflect", "reflectStep", "synthesize", "cite", "synthStep", "complete"}
LoopThrows ==
  /\ loop.pc \in InTry
  /\ Throws
  /\ Goto("failed")
  /\ UNCHANGED <<row, job, sources, steps, lane, fetch, command>>

\* The process dies: of an attempt under way nothing is left but the running job, which nobody claims again.
Crash ==
  /\ spent.crashes < MaxCrashes
  /\ spent' = [spent EXCEPT !.crashes = @ + 1]
  /\ loop' = IF loop.pc = "idle" THEN loop ELSE [loop EXCEPT !.pc = "dead"]
  /\ lane' = [l \in Lanes |-> IF lane[l].at = "absent" THEN lane[l] ELSE [lane[l] EXCEPT !.at = "thrown"]]
  /\ fetch' = [f \in Fetches |-> IF fetch[f].at = "absent" THEN fetch[f] ELSE [fetch[f] EXCEPT !.at = "done"]]
  /\ command' = [command EXCEPT !.pc = "none"]
  /\ UNCHANGED <<row, job, sources, steps>>

LoopStep ==
  \/ StartLoop \/ CheckJob \/ CheckRow \/ EnterStage
  \/ Planner \/ Preapproved \/ PlanStep \/ SavePlan
  \/ PassEnds \/ Reflect \/ ReflectStep \/ Synthesize \/ Cite \/ SynthesizeStep
  \/ Complete \/ EndCanceled \/ EndFailed \/ CompleteJob \/ FailJob
LaneStep(l)  == TakeQuery(l) \/ LaneCheckJob(l) \/ LaneCheckRow(l) \/ Search(l) \/ SearchStep(l)
FetchesOn(f) == Fetch(f) \/ FetchStep(f)
Next ==
  \/ LinkJob \/ CancelRead \/ CancelRow \/ CancelTheJob
  \/ LoopStep \/ LoopThrows
  \/ \E l \in Lanes : LaneStep(l) \/ CheckThrows(l) \/ SearchThrows(l)
  \/ \E f \in Fetches : FetchesOn(f) \/ FetchThrows(f)
  \/ Crash

Fairness == WF_vars(LoopStep) /\ (\A l \in Lanes : WF_vars(LaneStep(l))) /\ \A f \in Fetches : WF_vars(FetchesOn(f))
Spec == Init /\ [][Next]_vars /\ Fairness

(***************************************************************************)
(* Properties                                                              *)
(***************************************************************************)
LoopPcs == {"idle", "checkJob", "checkRow", "enter", "planner", "preapproved", "planStep", "noPlanStep",
            "preStep", "savePlan", "pass", "reflect", "reflectStep", "synthesize", "cite", "synthStep",
            "complete", "canceled", "failed", "returned", "threw", "dead"}
\* Every table and every local of the loop, the lanes and the cancel command has the shape the code gives it.
TypeOK ==
  /\ row \in [status : RowStatus, plan : BOOLEAN, report : SUBSET Fetches, cost : Nat, jobId : BOOLEAN]
  /\ job \in [status : JobStatus, attempt : 0..MaxAttempts]
  /\ sources \subseteq Fetches
  /\ \A i \in DOMAIN steps : steps[i] \in [by : Writers, kind : {"plan", "search", "fetch", "synthesize"}, seq : Nat]
  /\ loop \in [pc : LoopPcs, next : Stages, round : 0..MaxRounds, gaps : SUBSET Gaps,
               listed : SUBSET Fetches, cost : Nat, max : Nat]
  /\ lane \in [Lanes -> [at : LaneAt, max : Nat]]
  /\ fetch \in [Fetches -> [at : FetchAt, max : Nat]]
  /\ command \in [pc : {"none", "row", "job"}, jobId : BOOLEAN]
  /\ spent \in [cancels : 0..MaxCancels, failures : 0..MaxFailures, crashes : 0..MaxCrashes]

\* The report is written when no lane of this attempt can still deliver a page, and from every page they
\* delivered: runSearchAndFetchPass returns only when the parallel lanes and their fetches are all through.
ReportCoversItsPasses ==
  loop.pc \in {"cite", "synthStep", "complete"} =>
    /\ \A l \in Lanes : l[1] = Attempt => lane[l].at = "absent" \/ Through(l)
    /\ \A f \in sources : f[1][1] = Attempt => f \in loop.listed

\* The trace tells what came first: two steps of one attempt of which one was written by the loop, or a search
\* and a fetch of one lane, have increasing numbers, and so have the loop's steps over all attempts, whoever
\* writes in between.  Steps of different lanes, and fetches of one lane, run in parallel and may share a number.
Related(a, b) ==
  \/ a.by = b.by /\ ~(a.kind = "fetch" /\ b.kind = "fetch")
  \/ a.by[1] = b.by[1] /\ TheLoop \in {a.by[2], b.by[2]}
  \/ a.by[2] = TheLoop /\ b.by[2] = TheLoop
TraceIsCausal ==
  \A i, j \in DOMAIN steps : i < j /\ Related(steps[i], steps[j]) => steps[i].seq < steps[j].seq

\* When the job has ended on its own the row says the same: a job that failed for good leaves no research
\* "searching", and one that completed leaves no research "failed".
JobAndRowAgree ==
  loop.pc = "idle" =>
    /\ job.status = "completed" => row.status \in {"complete", "canceled"}
    /\ job.status = "failed"    => row.status \in {"failed", "canceled"}

\* A cancel that is on the row when the loop comes to a boundary ends the attempt.
CancelBeforeBoundaryEndsAttempt ==
  (loop.pc = "checkJob" /\ row.status = "canceled") ~> loop.pc \in {"canceled", "failed", "dead"}

\* Every research request comes to rest, the job ended and the row saying how, unless the process died with the
\* job begun: then job and row stay as they are (JobQueue's AbandonedJobIsClaimable), although docs/jobs/spec.md:5
\* counts jobs on to survive a process restart.
ResearchEnds ==
  <>[](\/ job.status \in {"completed", "failed", "canceled"} /\ row.status \in Settled /\ loop.pc = "idle"
       \/ loop.pc = "dead")
=============================================================================
