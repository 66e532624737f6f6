---------------------------- MODULE Automations ----------------------------
(***************************************************************************)
(* Scheduled automations: the automations table with its next_run_at, the  *)
(* dispatch tick and the cron route that look for due automations and      *)
(* enqueue an automation_run job for each (automations/engine.ts,          *)
(* automation-handler.server.ts), the handler of that job, and the user    *)
(* who edits the schedule meanwhile (automation.server.ts).                *)
(*                                                                         *)
(* The queue is used through what JobLifecycle promises: a job is one row  *)
(* per dedupe key for ever.  A run job's key is <<automation, slot>>, the  *)
(* slot being the minute that was due when it was dispatched; the dispatch *)
(* job has one key.  Time is counted in minutes, within one hour, and the  *)
(* cron expressions are the steps "*/n * * * *".                           *)
(***************************************************************************)
EXTENDS Naturals, FiniteSets

CONSTANTS
    Autos,         \* automation ids
    Steps,         \* the n of the cron expressions that users choose
    Batch,         \* due automations that one dispatch reads
    CronRoute,     \* whether an external cron calls POST /api/cron
    MaxAttempts,   \* jobs.max_attempts
    Horizon,       \* bound: the clock
    MaxTroubles,   \* bound: statements that throw, and processes that die
    MaxEdits       \* bound: updates by the user

ASSUME AutomationsAssumption ==
    /\ Steps \subseteq Nat \ {0} /\ Steps # {} /\ IsFiniteSet(Autos)
    /\ Batch \in Nat \ {0} /\ MaxAttempts \in Nat \ {0}
    /\ CronRoute \in BOOLEAN
    /\ Horizon \in Nat /\ MaxTroubles \in Nat /\ MaxEdits \in Nat

VARIABLES
    now,        \* the current minute
    status,     \* status[a]: absent, enabled, disabled or deleted
    cron,       \* cron[a]: the n of its cron expression
    nextRun,    \* automations.next_run_at
    rescheduled,   \* automations whose cron expression the user has changed
    row,        \* row[k]: the status of the job row with dedupe key k
    tries,      \* attempt_count of that row
    todo,       \* todo[d]: the due slots that dispatcher d has read and not enqueued
    did,        \* did[k]: how far the handler of job k is
    loaded,     \* loaded[k]: what the handler of run job k has in its variables
    runs,       \* runs[k]: executions by handlers that found slot k[2] in next_run_at
    failures, deaths, edits

scheduleVars == <<status, cron, nextRun, rescheduled>>
queueVars    == <<row, tries>>
handlerVars  == <<did, loaded, runs>>
boundVars    == <<failures, deaths, edits>>
autoVars == <<now, scheduleVars, queueVars, todo, handlerVars, boundVars>>

\* computeNextRunAt: the first minute after t that the expression matches.
NextRunAt(n, t) == (t \div n + 1) * n

Slots    == {NextRunAt(n, t) : n \in Steps, t \in 0..Horizon}
Dispatch == <<"automations:dispatch">>
Runs     == Autos \X Slots
Keys     == Runs \cup {Dispatch}
Dispatchers == {"job", "route"}

AutoTypeOK ==
    /\ now \in 0..Horizon
    /\ status \in [Autos -> {"absent", "enabled", "disabled", "deleted"}]
    /\ cron \in [Autos -> Steps]
    /\ nextRun \in [Autos -> Slots]
    /\ rescheduled \subseteq Autos
    /\ row \in [Keys -> {"absent", "waiting", "claimed", "running", "lost", "completed", "failed"}]
    /\ tries \in [Keys -> 0..MaxAttempts]
    /\ todo \in [Dispatchers -> SUBSET Runs]
    /\ did \in [Keys -> {"nothing", "loaded", "executed", "scheduled"}]
    /\ loaded \in [Runs -> [cron : Steps, at : 0..Horizon, slot : Slots]]
    /\ runs \in [Runs -> Nat]
    /\ failures \in 0..MaxTroubles /\ deaths \in 0..MaxTroubles /\ edits \in 0..MaxEdits

AnyStep == CHOOSE n \in Steps : TRUE
AutoInit ==
    /\ now = 0
    /\ status = [a \in Autos |-> "absent"]
    /\ cron = [a \in Autos |-> AnyStep]
    /\ nextRun = [a \in Autos |-> NextRunAt(AnyStep, 0)]
    /\ rescheduled = {}
    /\ row = [k \in Keys |-> "absent"] /\ tries = [k \in Keys |-> 0]
    /\ todo = [d \in Dispatchers |-> {}]
    /\ did = [k \in Keys |-> "nothing"]
    /\ loaded = [k \in Runs |-> [cron |-> AnyStep, at |-> 0, slot |-> NextRunAt(AnyStep, 0)]]
    /\ runs = [k \in Runs |-> 0]
    /\ failures = 0 /\ deaths = 0 /\ edits = 0

TroubleLeft == failures + deaths < MaxTroubles
Fails == TroubleLeft /\ failures' = failures + 1 /\ UNCHANGED <<deaths, edits>>
Dies  == TroubleLeft /\ deaths' = deaths + 1 /\ UNCHANGED <<failures, edits>>

-----------------------------------------------------------------------------
(* The queue, as its callers see it. *)

SetRow(k, s) == row' = [row EXCEPT ![k] = s]
HasDone(k, d) == did' = [did EXCEPT ![k] = d]

\* Variant: only an unfinished row keeps its key.
EnqueueUnlessUnfinished(k) ==
    SetRow(k, IF row[k] \in {"absent", "completed", "failed"} THEN "waiting" ELSE row[k])

\* enqueueJob: a key that any row has, a finished one included, makes no new job.
EnqueueJob(k) == SetRow(k, IF row[k] = "absent" THEN "waiting" ELSE row[k])

Claim(k) ==
    /\ row[k] = "waiting"
    /\ SetRow(k, "claimed")
    /\ UNCHANGED <<now, scheduleVars, tries, todo, handlerVars, boundVars>>

Begin(k) ==
    /\ row[k] = "claimed"
    /\ SetRow(k, "running") /\ tries' = [tries EXCEPT ![k] = @ + 1]
    /\ UNCHANGED <<now, scheduleVars, todo, handlerVars, boundVars>>

\* The handler throws: failJob queues the job again or gives it up.
Fail(k) ==
    /\ SetRow(k, IF tries[k] < MaxAttempts THEN "waiting" ELSE "failed")
    /\ HasDone(k, "nothing")
    /\ UNCHANGED <<tries, loaded, runs>>

Complete(k) ==
    /\ SetRow(k, "completed")
    /\ HasDone(k, "nothing")
    /\ UNCHANGED <<tries, loaded, runs>>

-----------------------------------------------------------------------------
(* checkAndRunAutomations, in the dispatch job or in the cron route. *)

Due == {<<a, nextRun[a]>> : a \in {b \in Autos : status[b] = "enabled" /\ nextRun[b] <= now}}

\* SELECT ... ORDER BY next_run_at LIMIT 25.
DueBatches ==
    {B \in SUBSET Due :
        /\ B = Due \/ Cardinality(B) = Batch
        /\ Cardinality(B) <= Batch
        /\ \A k \in B, l \in Due \ B : k[2] <= l[2]}

ReadDue(d) == \E B \in DueBatches : todo' = [todo EXCEPT ![d] = B]

\* The scheduler's timer enqueues the dispatch job, under the same key every minute.
ScheduleDispatch ==
    /\ EnqueueJob(Dispatch)
    /\ UNCHANGED <<now, scheduleVars, tries, todo, handlerVars, boundVars>>

DispatchReads ==
    /\ row[Dispatch] = "running" /\ did[Dispatch] = "nothing"
    /\ ReadDue("job") /\ HasDone(Dispatch, "loaded")
    /\ UNCHANGED <<now, scheduleVars, queueVars, loaded, runs, boundVars>>

RouteReads ==
    /\ CronRoute /\ todo["route"] = {}
    /\ ReadDue("route")
    /\ UNCHANGED <<now, scheduleVars, queueVars, handlerVars, boundVars>>

EarliestOf(d) == {k \in todo[d] : \A l \in todo[d] : k[2] <= l[2]}

\* Variant: the key names the minute of the tick, not the minute that is due.
EnqueueUnderTick(d, k) ==
    /\ k \in EarliestOf(d)
    /\ IF now \in Slots THEN EnqueueJob(<<k[1], now>>) ELSE UNCHANGED row
    /\ todo' = [todo EXCEPT ![d] = @ \ {k}]
    /\ UNCHANGED <<now, scheduleVars, tries, handlerVars, boundVars>>

EnqueueRun(d, k) ==
    /\ k \in EarliestOf(d)
    /\ EnqueueJob(k)
    /\ todo' = [todo EXCEPT ![d] = @ \ {k}]
    /\ UNCHANGED <<now, scheduleVars, tries, handlerVars, boundVars>>

\* The error is reported in the answer, and the dispatcher goes on.
EnqueueThrows(d, k) ==
    /\ k \in EarliestOf(d) /\ Fails
    /\ todo' = [todo EXCEPT ![d] = @ \ {k}]
    /\ UNCHANGED <<now, scheduleVars, queueVars, handlerVars>>

DispatchEnds ==
    /\ did[Dispatch] = "loaded" /\ todo["job"] = {}
    /\ Complete(Dispatch)
    /\ UNCHANGED <<now, scheduleVars, todo, boundVars>>

DispatchThrows ==
    /\ row[Dispatch] = "running" /\ todo["job"] = {} /\ Fails
    /\ Fail(Dispatch)
    /\ UNCHANGED <<now, scheduleVars, todo>>

-----------------------------------------------------------------------------
(* runAutomationById, in the handler of run job k. *)

AutomationOf(k) == k[1]

LoadAutomation(k) ==
    /\ row[k] = "running" /\ did[k] = "nothing"
    /\ status[AutomationOf(k)] = "enabled"
    /\ loaded' = [loaded EXCEPT ![k] =
           [cron |-> cron[AutomationOf(k)], at |-> now, slot |-> nextRun[AutomationOf(k)]]]
    /\ HasDone(k, "loaded")
    /\ UNCHANGED <<now, scheduleVars, queueVars, todo, runs, boundVars>>

\* The automation is disabled or gone: the handler throws.
NotEnabled(k) ==
    /\ row[k] = "running" /\ did[k] = "nothing"
    /\ status[AutomationOf(k)] # "enabled"
    /\ Fail(k)
    /\ UNCHANGED <<now, scheduleVars, todo, boundVars>>

\* One of the three modes; its prompt or summary is in the conversation from here on.
Execute(k) ==
    /\ did[k] = "loaded"
    /\ runs' = [runs EXCEPT ![<<AutomationOf(k), loaded[k].slot>>] = @ + 1]
    /\ HasDone(k, "executed")
    /\ UNCHANGED <<now, scheduleVars, queueVars, todo, loaded, boundVars>>

\* Variant: the schedule stays where it is.
BudgetBlockedInPlace(k) ==
    /\ did[k] = "loaded"
    /\ HasDone(k, "scheduled")
    /\ UNCHANGED <<now, scheduleVars, queueVars, todo, loaded, runs, boundVars>>

\* handleAutomationBudgetBlocked: skip the run, and move the schedule on.
BudgetBlocked(k) ==
    /\ did[k] = "loaded"
    /\ HasDone(k, "executed")
    /\ UNCHANGED <<now, scheduleVars, queueVars, todo, loaded, runs, boundVars>>

\* An UPDATE by id, computed from the row as it was loaded.
UpdateSchedule(k) ==
    /\ did[k] = "executed"
    /\ nextRun' = IF status[AutomationOf(k)] = "deleted" THEN nextRun
                  ELSE [nextRun EXCEPT ![AutomationOf(k)] = NextRunAt(loaded[k].cron, loaded[k].at)]
    /\ HasDone(k, "scheduled")
    /\ UNCHANGED <<now, status, cron, rescheduled, queueVars, todo, loaded, runs, boundVars>>

RunEnds(k) ==
    /\ did[k] = "scheduled"
    /\ Complete(k)
    /\ UNCHANGED <<now, scheduleVars, todo, boundVars>>

\* The model call, a statement of the handler or completeJob throws.
RunThrows(k) ==
    /\ row[k] = "running" /\ Fails
    /\ Fail(k)
    /\ UNCHANGED <<now, scheduleVars, todo>>

-----------------------------------------------------------------------------
(* The process dies with what it had read; rows and schedules stay.  A claimed job
   is taken again when its lease lapses, a begun one never is: claimNextJob looks at
   leased rows alone. *)

WorkerDies(k) ==
    /\ Dies
    /\ \/ row[k] = "running" /\ SetRow(k, "lost")
       \/ row[k] = "claimed" /\ SetRow(k, "waiting")
    /\ HasDone(k, "nothing")
    /\ todo' = IF k = Dispatch THEN [todo EXCEPT !["job"] = {}] ELSE todo
    /\ UNCHANGED <<now, scheduleVars, tries, loaded, runs>>

RouteDies ==
    /\ Dies /\ todo["route"] # {}
    /\ todo' = [todo EXCEPT !["route"] = {}]
    /\ UNCHANGED <<now, scheduleVars, queueVars, handlerVars>>

-----------------------------------------------------------------------------
(* The user and the clock. *)

CreateAutomation(a, n) ==
    /\ status[a] = "absent"
    /\ \E s \in {"enabled", "disabled"} : status' = [status EXCEPT ![a] = s]
    /\ cron' = [cron EXCEPT ![a] = n]
    /\ nextRun' = [nextRun EXCEPT ![a] = NextRunAt(n, now)]
    /\ UNCHANGED <<now, rescheduled, queueVars, todo, handlerVars, boundVars>>

Edit(a) ==
    /\ status[a] \in {"enabled", "disabled"}
    /\ edits < MaxEdits /\ edits' = edits + 1
    /\ UNCHANGED <<now, queueVars, todo, handlerVars, failures, deaths>>

\* Enabling and disabling leave next_run_at alone.
ToggleAutomation(a) ==
    /\ Edit(a)
    /\ status' = [status EXCEPT ![a] = IF @ = "enabled" THEN "disabled" ELSE "enabled"]
    /\ UNCHANGED <<cron, nextRun, rescheduled>>

Reschedule(a, n) ==
    /\ Edit(a)
    /\ cron' = [cron EXCEPT ![a] = n]
    /\ nextRun' = [nextRun EXCEPT ![a] = NextRunAt(n, now)]
    /\ rescheduled' = rescheduled \cup {a}
    /\ \E s \in {"enabled", "disabled"} : status' = [status EXCEPT ![a] = s]

DeleteAutomation(a) ==
    /\ Edit(a)
    /\ status' = [status EXCEPT ![a] = "deleted"]
    /\ UNCHANGED <<cron, nextRun, rescheduled>>

MinutePasses ==
    /\ now < Horizon /\ now' = now + 1
    /\ UNCHANGED <<scheduleVars, queueVars, todo, handlerVars, boundVars>>

-----------------------------------------------------------------------------
DispatchStep ==
    \/ DispatchReads \/ DispatchEnds
    \/ \E d \in Dispatchers, k \in Runs : EnqueueRun(d, k)

RunStep(k) ==
    \/ LoadAutomation(k) \/ NotEnabled(k) \/ Execute(k) \/ BudgetBlocked(k)
    \/ UpdateSchedule(k) \/ RunEnds(k)

OwnerStep ==
    \E a \in Autos :
        \/ ToggleAutomation(a) \/ DeleteAutomation(a)
        \/ \E n \in Steps : CreateAutomation(a, n) \/ Reschedule(a, n)

AutoNext ==
    \/ ScheduleDispatch \/ RouteReads \/ DispatchStep \/ DispatchThrows
    \/ RouteDies \/ \E k \in Keys : Claim(k) \/ Begin(k) \/ WorkerDies(k)
    \/ \E k \in Runs : RunStep(k) \/ RunThrows(k)
    \/ \E d \in Dispatchers, k \in Runs : EnqueueThrows(d, k)
    \/ OwnerStep \/ MinutePasses

AutoSpec == AutoInit /\ [][AutoNext]_autoVars

\* Timers, the external cron and the workers go on; the user owes nothing.
AutoFairness ==
    /\ WF_autoVars(ScheduleDispatch) /\ WF_autoVars(RouteReads) /\ WF_autoVars(DispatchStep)
    /\ \A k \in Keys : WF_autoVars(Claim(k) \/ Begin(k))
    /\ \A k \in Runs : WF_autoVars(RunStep(k))

AutoFairSpec == AutoSpec /\ AutoFairness

-----------------------------------------------------------------------------
(* What must hold. *)

\* Every due slot is executed once at most, whatever ticks and cron calls read it
\* as due, in whatever minute, and enqueue it: as long as nothing throws and the
\* user has not changed the expression.
SlotRunsOnce ==
    failures = 0 => \A k \in Runs : AutomationOf(k) \notin rescheduled => runs[k] <= 1

\* A slot whose job is over is never due again.  Otherwise each tick would be
\* answered with the finished row and the automation would never run again.
FinishedSlotIsPast ==
    failures = 0 =>
        \A k \in Runs :
            row[k] = "completed" /\ AutomationOf(k) \notin rescheduled =>
                nextRun[AutomationOf(k)] > k[2] \/ status[AutomationOf(k)] = "deleted"

\* Both: a due slot is executed once, and then it is over for good.
SlotIsServedOnce == SlotRunsOnce /\ FinishedSlotIsPast

Owned(k) == row[k] \in {"claimed", "running"}
phaseOf == [k \in Keys |->
    IF Owned(k) THEN "owned"
    ELSE IF row[k] \in {"completed", "failed"} THEN "finished"
    ELSE row[k]]
ownerOf == [k \in Keys |-> IF Owned(k) THEN {"worker"} ELSE {}]

Lifecycle == INSTANCE JobLifecycle WITH
    Jobs <- Keys, Workers <- {"worker"}, phase <- phaseOf, owner <- ownerOf

\* The rows change only as the job queue promises.
UsesQueueAsPromised == Lifecycle!Spec

\* A retry of a run whose schedule had already moved: it executes the next slot, and
\* its late UPDATE can move next_run_at back to a slot whose job is finished.
RetriedLate(a) == \E l \in Runs : AutomationOf(l) = a /\ loaded[l].slot > l[2]

\* With an external cron, a slot that is due is taken off the schedule in the end:
\* it runs or is blocked by the budget, whatever process dies before its job begins,
\* unless its job failed for good, a retry was late, or the user disabled, deleted or
\* rescheduled the automation.  One case more is exempt: a process that dies between
\* beginJob and the end of the handler leaves the row "running" with its key taken
\* (JobQueue's AbandonedJobIsClaimable), and every later tick is answered with it.
DueSlotIsServed ==
    \A k \in Runs :
        (k \in Due) ~> \/ k \notin Due \/ row[k] \in {"failed", "lost"}
                       \/ AutomationOf(k) \in rescheduled \/ RetriedLate(AutomationOf(k))

-----------------------------------------------------------------------------
(* The inductive invariant behind the slot properties. *)

\* A job that may still be begun has an attempt left.
AttemptsLeft ==
    \A k \in Keys : row[k] \in {"absent", "waiting", "claimed"} => tries[k] < MaxAttempts

\* A handler works on a running row; what was read or enqueued was due, of an
\* automation that exists.
Grounded ==
    /\ \A k \in Keys : did[k] # "nothing" => row[k] = "running"
    /\ \A k \in Runs : row[k] # "absent" \/ (\E d \in Dispatchers : k \in todo[d]) =>
           k[2] <= now /\ status[AutomationOf(k)] # "absent"

Unmoved(k) ==
    \/ row[k] \in {"waiting", "claimed", "failed"}
    \/ row[k] = "running" /\ did[k] # "scheduled"
Over(k) == row[k] = "completed" \/ did[k] = "scheduled"

\* next_run_at is the slot of k from the moment a dispatcher reads it to the UPDATE
\* of k's own handler, which moves it past the slot.
SlotIsHeld(k) ==
    /\ \A d \in Dispatchers : k \in todo[d] => nextRun[AutomationOf(k)] = k[2] \/ row[k] # "absent"
    /\ Unmoved(k) => nextRun[AutomationOf(k)] = k[2]
    /\ did[k] \in {"loaded", "executed"} => loaded[k].slot = k[2] /\ loaded[k].at >= k[2]
    /\ Over(k) => nextRun[AutomationOf(k)] > k[2] \/ status[AutomationOf(k)] = "deleted"
    /\ runs[k] = 0 \/ (runs[k] = 1 /\ (Over(k) \/ did[k] = "executed" \/ row[k] = "lost"))

SlotInv ==
    /\ Grounded
    /\ failures = 0 => \A k \in Runs : AutomationOf(k) \notin rescheduled => SlotIsHeld(k)

-----------------------------------------------------------------------------
(* What the comments say of the program. *)

\* automation-handler.server.ts: "Dispatch tick - every 60s, look for due
\* automations and enqueue per-automation jobs."
DueSlotIsDispatched == \A k \in Runs : (k \in Due) ~> (k \notin Due \/ row[k] # "absent")
=============================================================================
