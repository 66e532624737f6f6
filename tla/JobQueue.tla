------------------------------ MODULE JobQueue ------------------------------
(***************************************************************************)
(* The durable job queue: rows of the `jobs` table, the helpers of         *)
(* jobs/jobs.server.ts that update them, and the polling workers of        *)
(* jobs/worker.server.ts.  Every database statement is one step, so the    *)
(* steps of several workers, of cancelJob and of timers interleave between *)
(* the statements of one helper exactly where the code awaits.             *)
(*                                                                         *)
(* Time is abstracted to what the claim query can observe of it: whether   *)
(* scheduled_at has passed (due) and whether lease_expires_at has (lease). *)
(***************************************************************************)
EXTENDS Integers

CONSTANTS
    Jobs,          \* row ids; row j is the one that enqueue request j would insert
    Workers,       \* job workers, one per server process
    Keys,          \* dedupe keys, each standing for a (type, dedupeKey) pair
    None,          \* SQL NULL: no worker, no job, no key
    KeyOf,         \* KeyOf[j]: the dedupe key of enqueue request j, or None
    PriorityOf,    \* PriorityOf[j]: the priority of enqueue request j
    Handled,       \* the jobs whose type has a handler in the registry; a worker started
                   \* without an explicit list of types claims no others
    MaxAttempts,   \* jobs.max_attempts
    MaxCrashes,    \* bound: worker crashes
    MaxStalls,     \* bound: leases that lapse while their holder is alive
    MaxDbErrors    \* bound: database calls that throw

ASSUME JobQueueAssumption ==
    /\ None \notin Jobs \cup Workers \cup Keys
    /\ KeyOf \in [Jobs -> Keys \cup {None}]
    /\ PriorityOf \in [Jobs -> Nat]
    /\ Handled \subseteq Jobs
    /\ MaxAttempts \in Nat \ {0}
    /\ MaxCrashes \in Nat
    /\ MaxStalls \in Nat
    /\ MaxDbErrors \in Nat

VARIABLES
    status,     \* jobs.status, or "absent" while the row does not exist
    attempts,   \* jobs.attempt_count
    due,        \* scheduled_at <= now()
    lease,      \* lease_expires_at: "none", "live" (in the future) or "expired"
    leaseRow,   \* worker_id of the newest job_leases row of the job
    rowLock,    \* worker whose claim transaction holds FOR UPDATE on the row
    returned,   \* returned[j]: the row that enqueue request j was answered with
    pc,         \* where each worker is in processOne
    job,        \* the job each worker is processing
    beat,       \* job whose heartbeat UPDATE the worker's timer has in flight
    crashes, stalls, dbErrors

rowVars    == <<status, attempts, due, lease, leaseRow>>
workerVars == <<pc, job, beat>>
faultVars  == <<crashes, stalls, dbErrors>>
vars == <<rowVars, rowLock, returned, workerVars, faultVars>>

JobStatus == {"pending", "leased", "running", "retry_wait", "completed", "failed", "canceled"}
Terminal  == {"completed", "failed", "canceled"}

\* A worker has been handed its job in these phases, up to the end of processOne.
Holding == {"claimed", "dispatching", "working", "completing", "failing", "retrying", "exhausting"}
Phases  == {"idle", "claiming", "down"} \cup Holding
\* The heartbeat interval is armed from beginJob's return to processOne's finally.
Armed   == {"working", "completing", "failing", "retrying", "exhausting"}

TypeOK ==
    /\ status   \in [Jobs -> JobStatus \cup {"absent"}]
    /\ attempts \in [Jobs -> Nat]
    /\ due      \in [Jobs -> BOOLEAN]
    /\ lease    \in [Jobs -> {"none", "live", "expired"}]
    /\ leaseRow \in [Jobs -> Workers \cup {None}]
    /\ rowLock  \in [Jobs -> Workers \cup {None}]
    /\ returned \in [Jobs -> Jobs \cup {None}]
    /\ pc       \in [Workers -> Phases]
    /\ job      \in [Workers -> Jobs \cup {None}]
    /\ beat     \in [Workers -> Jobs \cup {None}]
    /\ crashes \in Nat /\ stalls \in Nat /\ dbErrors \in Nat

Holds(w, j) == pc[w] \in Holding /\ job[w] = j
Unlocked(j) == rowLock[j] = None

\* Variant: a running row with an expired lease can be taken over as well.
EligibleWhileRunning(j) ==
    \/ status[j] \in {"pending", "retry_wait"} /\ due[j]
    \/ status[j] \in {"leased", "running"} /\ lease[j] = "expired"

\* Variant: an expired lease is enough, whatever the status.
EligibleByLeaseAlone(j) ==
    \/ status[j] \in {"pending", "retry_wait"} /\ due[j]
    \/ lease[j] = "expired"

\* Variant: leased rows are never taken over.
EligibleIfQueued(j) == status[j] \in {"pending", "retry_wait"} /\ due[j]

\* The WHERE clause of the claim query.
Eligible(j) ==
    \/ status[j] \in {"pending", "retry_wait"} /\ due[j]
    \/ status[j] = "leased" /\ lease[j] = "expired"

GoTo(w, phase) == pc' = [pc EXCEPT ![w] = phase]
ReturnToPoll(w) == GoTo(w, "idle") /\ job' = [job EXCEPT ![w] = None]
SetStatus(j, s) == status' = [status EXCEPT ![j] = s]
SetLease(j, l)  == lease' = [lease EXCEPT ![j] = l]
DbError == dbErrors < MaxDbErrors /\ dbErrors' = dbErrors + 1 /\ UNCHANGED <<crashes, stalls>>

Init ==
    /\ status   = [j \in Jobs |-> "absent"]
    /\ attempts = [j \in Jobs |-> 0]
    /\ due      = [j \in Jobs |-> FALSE]
    /\ lease    = [j \in Jobs |-> "none"]
    /\ leaseRow = [j \in Jobs |-> None]
    /\ rowLock  = [j \in Jobs |-> None]
    /\ returned = [j \in Jobs |-> None]
    /\ pc       = [w \in Workers |-> "idle"]
    /\ job      = [w \in Workers |-> None]
    /\ beat     = [w \in Workers |-> None]
    /\ crashes = 0 /\ stalls = 0 /\ dbErrors = 0

-----------------------------------------------------------------------------
(* enqueueJob: the unique index on (type, dedupe_key) covers rows of every
   status; a request that collides is answered with the existing row. *)

Colliding(j) == {i \in Jobs : status[i] # "absent" /\ KeyOf[i] = KeyOf[j] /\ KeyOf[j] # None}

EnqueueJob(j) ==
    /\ status[j] = "absent" /\ returned[j] = None
    /\ \/ /\ Colliding(j) = {}
          /\ SetStatus(j, "pending")
          /\ \E d \in BOOLEAN : due' = [due EXCEPT ![j] = d]
          /\ returned' = [returned EXCEPT ![j] = j]
       \/ \E i \in Colliding(j) :
          /\ returned' = [returned EXCEPT ![j] = i]
          /\ UNCHANGED <<status, due>>
    /\ UNCHANGED <<attempts, lease, leaseRow, rowLock, workerVars, faultVars>>

-----------------------------------------------------------------------------
(* claimNextJob: a transaction (SELECT ... FOR UPDATE SKIP LOCKED, then UPDATE)
   followed by an INSERT into job_leases outside it. *)

\* Variant: SELECT without FOR UPDATE SKIP LOCKED.
NextClaimIgnoringLocks(j) ==
    /\ Eligible(j)
    /\ \A i \in Jobs : Eligible(i) => PriorityOf[i] <= PriorityOf[j]

\* Highest priority first, skipping rows another claim has locked.
NextClaim(j) ==
    /\ Eligible(j) /\ Unlocked(j)
    /\ \A i \in Jobs : Eligible(i) /\ Unlocked(i) => PriorityOf[i] <= PriorityOf[j]

ClaimSelect(w, j) ==
    /\ pc[w] = "idle"
    /\ NextClaim(j)
    /\ rowLock' = [rowLock EXCEPT ![j] = w]
    /\ GoTo(w, "claiming") /\ job' = [job EXCEPT ![w] = j]
    /\ UNCHANGED <<rowVars, returned, beat, faultVars>>

ClaimUpdate(w, j) ==
    /\ pc[w] = "claiming" /\ job[w] = j
    /\ SetStatus(j, "leased") /\ SetLease(j, "live")
    /\ rowLock' = [rowLock EXCEPT ![j] = None]
    /\ GoTo(w, "claimed")
    /\ UNCHANGED <<attempts, due, leaseRow, returned, job, beat, faultVars>>

\* The transaction rolls back; processOne logs and reports an empty queue.
ClaimError(w, j) ==
    /\ pc[w] = "claiming" /\ job[w] = j
    /\ DbError
    /\ rowLock' = [rowLock EXCEPT ![j] = None]
    /\ ReturnToPoll(w)
    /\ UNCHANGED <<rowVars, returned, beat>>

InsertLease(w, j) ==
    /\ pc[w] = "claimed" /\ job[w] = j
    /\ leaseRow' = [leaseRow EXCEPT ![j] = w]
    /\ GoTo(w, "dispatching")
    /\ UNCHANGED <<status, attempts, due, lease, rowLock, returned, job, beat, faultVars>>

\* The INSERT throws after the claim has committed: the row stays leased by nobody.
InsertLeaseError(w, j) ==
    /\ pc[w] = "claimed" /\ job[w] = j
    /\ DbError
    /\ ReturnToPoll(w)
    /\ UNCHANGED <<rowVars, rowLock, returned, beat>>

-----------------------------------------------------------------------------
(* processOne after the claim. *)

NoHandler(w, j) ==
    /\ pc[w] = "dispatching" /\ job[w] = j
    /\ j \notin Handled
    /\ GoTo(w, "failing")
    /\ UNCHANGED <<rowVars, rowLock, returned, job, beat, faultVars>>

\* Variant: beginJob does not count the attempt.
BeginJobUncounted(w, j) ==
    /\ pc[w] = "dispatching" /\ job[w] = j
    /\ j \in Handled /\ Unlocked(j)
    /\ SetStatus(j, "running")
    /\ GoTo(w, "working")
    /\ UNCHANGED <<attempts, due, lease, leaseRow, rowLock, returned, job, beat, faultVars>>

BeginJob(w, j) ==
    /\ pc[w] = "dispatching" /\ job[w] = j
    /\ j \in Handled /\ Unlocked(j)
    /\ SetStatus(j, "running")
    /\ attempts' = [attempts EXCEPT ![j] = @ + 1]
    /\ GoTo(w, "working")
    /\ UNCHANGED <<due, lease, leaseRow, rowLock, returned, job, beat, faultVars>>

\* beginJob throws and the worker proceeds anyway, the row still leased.
BeginError(w, j) ==
    /\ pc[w] = "dispatching" /\ job[w] = j
    /\ j \in Handled
    /\ DbError
    /\ GoTo(w, "working")
    /\ UNCHANGED <<rowVars, rowLock, returned, job, beat>>

\* checkCancellation -> heartbeatJob: extends the lease, then throws if canceled.
CheckCancellation(w, j) ==
    /\ pc[w] = "working" /\ job[w] = j
    /\ Unlocked(j)
    /\ SetLease(j, "live")
    /\ GoTo(w, IF status[j] = "canceled" THEN "failing" ELSE "working")
    /\ UNCHANGED <<status, attempts, due, leaseRow, rowLock, returned, job, beat, faultVars>>

HandlerReturns(w) ==
    /\ pc[w] = "working"
    /\ GoTo(w, "completing")
    /\ UNCHANGED <<rowVars, rowLock, returned, job, beat, faultVars>>

HandlerThrows(w) ==
    /\ pc[w] = "working"
    /\ GoTo(w, "failing")
    /\ UNCHANGED <<rowVars, rowLock, returned, job, beat, faultVars>>

CompleteJob(w, j) ==
    /\ pc[w] = "completing" /\ job[w] = j
    /\ Unlocked(j)
    /\ SetStatus(j, "completed") /\ SetLease(j, "none")
    /\ ReturnToPoll(w)
    /\ UNCHANGED <<attempts, due, leaseRow, rowLock, returned, beat, faultVars>>

\* completeJob throws inside the try: the catch fails the job.  The UPDATE may
\* have committed before the connection broke.
CompleteError(w, j) ==
    /\ pc[w] = "completing" /\ job[w] = j
    /\ DbError
    /\ \/ Unlocked(j) /\ SetStatus(j, "completed") /\ SetLease(j, "none")
       \/ UNCHANGED <<status, lease>>
    /\ GoTo(w, "failing")
    /\ UNCHANGED <<attempts, due, leaseRow, rowLock, returned, job, beat>>

\* failJob decides on the attempt count it SELECTs; the UPDATE is a later step.
FailSelect(w, j) ==
    /\ pc[w] = "failing" /\ job[w] = j
    /\ GoTo(w, IF attempts[j] < MaxAttempts THEN "retrying" ELSE "exhausting")
    /\ UNCHANGED <<rowVars, rowLock, returned, job, beat, faultVars>>

FailRetry(w, j) ==
    /\ pc[w] = "retrying" /\ job[w] = j
    /\ Unlocked(j)
    /\ SetStatus(j, "retry_wait") /\ SetLease(j, "none")
    /\ due' = [due EXCEPT ![j] = FALSE]
    /\ ReturnToPoll(w)
    /\ UNCHANGED <<attempts, leaseRow, rowLock, returned, beat, faultVars>>

FailExhausted(w, j) ==
    /\ pc[w] = "exhausting" /\ job[w] = j
    /\ Unlocked(j)
    /\ SetStatus(j, "failed") /\ SetLease(j, "none")
    /\ ReturnToPoll(w)
    /\ UNCHANGED <<attempts, due, leaseRow, rowLock, returned, beat, faultVars>>

\* Any statement of failJob throws: swallowed by .catch(() => undefined).
FailError(w) ==
    /\ pc[w] \in {"failing", "retrying", "exhausting"}
    /\ DbError
    /\ ReturnToPoll(w)
    /\ UNCHANGED <<rowVars, rowLock, returned, beat>>

\* The interval's heartbeatJob is not awaited: it may land after processOne ended.
HeartbeatFires(w) ==
    /\ pc[w] \in Armed /\ job[w] \in Handled
    /\ beat[w] = None
    /\ beat' = [beat EXCEPT ![w] = job[w]]
    /\ UNCHANGED <<rowVars, rowLock, returned, pc, job, faultVars>>

HeartbeatJob(w, j) ==
    /\ beat[w] = j /\ Unlocked(j)
    /\ SetLease(j, "live")
    /\ beat' = [beat EXCEPT ![w] = None]
    /\ UNCHANGED <<status, attempts, due, leaseRow, rowLock, returned, pc, job, faultVars>>

-----------------------------------------------------------------------------
(* Other actors: a user cancels, time passes, a process dies and is restarted. *)

CancelJob(j) ==
    /\ status[j] # "absent" /\ Unlocked(j)
    /\ SetStatus(j, "canceled") /\ SetLease(j, "none")
    /\ UNCHANGED <<attempts, due, leaseRow, rowLock, returned, workerVars, faultVars>>

BecomeDue(j) ==
    /\ status[j] # "absent" /\ ~due[j]
    /\ due' = [due EXCEPT ![j] = TRUE]
    /\ UNCHANGED <<status, attempts, lease, leaseRow, rowLock, returned, workerVars, faultVars>>

\* A lease lapses.  For a row still "leased" whose holder is alive this takes a
\* stall longer than the lease time, which is counted and bounded.
LeaseExpires(j) ==
    /\ lease[j] = "live"
    /\ IF status[j] = "leased" /\ \E w \in Workers : Holds(w, j)
       THEN stalls < MaxStalls /\ stalls' = stalls + 1
       ELSE UNCHANGED stalls
    /\ SetLease(j, "expired")
    /\ UNCHANGED <<status, attempts, due, leaseRow, rowLock, returned, workerVars, crashes, dbErrors>>

\* The process dies; an open claim transaction rolls back.
Crash(w) ==
    /\ pc[w] # "down"
    /\ crashes < MaxCrashes /\ crashes' = crashes + 1
    /\ GoTo(w, "down")
    /\ job' = [job EXCEPT ![w] = None]
    /\ beat' = [beat EXCEPT ![w] = None]
    /\ rowLock' = [j \in Jobs |-> IF rowLock[j] = w THEN None ELSE rowLock[j]]
    /\ UNCHANGED <<rowVars, returned, stalls, dbErrors>>

Restart(w) ==
    /\ pc[w] = "down"
    /\ GoTo(w, "idle")
    /\ UNCHANGED <<rowVars, rowLock, returned, job, beat, faultVars>>

-----------------------------------------------------------------------------
ClaimStep(w, j) ==
    \/ ClaimSelect(w, j) \/ ClaimUpdate(w, j) \/ ClaimError(w, j)
    \/ InsertLease(w, j) \/ InsertLeaseError(w, j)

WorkStep(w, j) ==
    \/ NoHandler(w, j) \/ BeginJob(w, j) \/ BeginError(w, j)
    \/ CheckCancellation(w, j)
    \/ CompleteJob(w, j) \/ CompleteError(w, j)
    \/ FailSelect(w, j) \/ FailRetry(w, j) \/ FailExhausted(w, j)
    \/ HeartbeatJob(w, j)

Next ==
    \/ \E j \in Jobs : EnqueueJob(j) \/ CancelJob(j) \/ BecomeDue(j) \/ LeaseExpires(j)
    \/ \E w \in Workers, j \in Jobs : ClaimStep(w, j) \/ WorkStep(w, j)
    \/ \E w \in Workers :
         \/ HandlerReturns(w) \/ HandlerThrows(w) \/ FailError(w)
         \/ HeartbeatFires(w) \/ Crash(w) \/ Restart(w)

Spec == Init /\ [][Next]_vars

(* The worker loop polls for ever and its promises settle, handlers end, time
   passes, and the container is restarted (docker-compose restart policy). *)
Progress(w) ==
    \/ \E j \in Jobs :
         \/ ClaimSelect(w, j) \/ ClaimUpdate(w, j) \/ InsertLease(w, j)
         \/ NoHandler(w, j) \/ BeginJob(w, j)
         \/ CompleteJob(w, j) \/ FailSelect(w, j) \/ FailRetry(w, j) \/ FailExhausted(w, j)
    \/ HandlerReturns(w) \/ HandlerThrows(w)
    \/ Restart(w)

Fairness ==
    /\ \A w \in Workers : WF_vars(Progress(w))
    /\ \A j \in Jobs : WF_vars(BecomeDue(j)) /\ WF_vars(LeaseExpires(j))

FairSpec == Spec /\ Fairness

-----------------------------------------------------------------------------
(* What the queue guarantees. *)

\* No two workers are ever past the claim of the same job, as long as no lease
\* lapsed under a live holder: FOR UPDATE SKIP LOCKED, the "leased" status and
\* the lease keep a claimed row out of the claim query.  (docs/jobs/spec.md,
\* "the database lease constraint prevents double-execution".)
ExclusiveWork ==
    stalls = 0 =>
        \A w, v \in Workers, j \in Jobs : Holds(w, j) /\ Holds(v, j) => w = v

\* failJob retries "up to maxAttempts": a handler is never started more often,
\* whatever crashes, cancellations and database errors happen in between.
AttemptsBounded ==
    stalls = 0 => \A j \in Jobs : attempts[j] <= MaxAttempts

\* Without crashes and database errors every row in flight has a worker on it:
\* each path through processOne ends in a status other than leased or running.
InFlightHasWorker ==
    crashes = 0 /\ dbErrors = 0 =>
        \A j \in Jobs : status[j] \in {"leased", "running"} => \E w \in Workers : Holds(w, j)

\* A row says completed or failed only once its worker is done with it, so the
\* result a reader sees is not about to be overwritten.
FinishedIsReleased ==
    stalls = 0 /\ dbErrors = 0 =>
        \A j \in Jobs : status[j] \in {"completed", "failed"} => \A w \in Workers : ~Holds(w, j)

\* A finished row that no worker holds is out of the queue for good: only a
\* cancel may still relabel it.  Late heartbeats and stale leases do not revive
\* it.  (docs/jobs/spec.md, "never re-enqueued".)
Settled(j) == status[j] \in Terminal /\ \A w \in Workers : ~Holds(w, j)
SettledIsFinal ==
    [][\A j \in Jobs : Settled(j) => status'[j] \in {status[j], "canceled"}]_vars

\* A job never stays leased: its holder moves on, or the holder died before
\* beginJob and the claim query picks the stale lease up (comment on beginJob).
LeaseIsTemporary == \A j \in Jobs : status[j] = "leased" ~> status[j] # "leased"

\* Every job with a handler comes to rest: retries end, whatever stalls and
\* cancels there are.  A crash or a database error can strand a running row.
JobsComeToRest ==
    [](crashes = 0 /\ dbErrors = 0) =>
        \A j \in Handled : <>[](status[j] \in Terminal \cup {"absent"})

-----------------------------------------------------------------------------
(* The inductive invariant behind the safety properties. *)

\* A claim transaction and the row lock it holds determine each other, and the
\* row still satisfies the claim query's WHERE clause while it is locked.
LockDiscipline ==
    /\ \A w \in Workers, j \in Jobs :
         rowLock[j] = w <=> pc[w] = "claiming" /\ job[w] = j
    /\ \A w \in Workers : pc[w] = "claiming" => job[w] \in Jobs /\ Eligible(job[w])

\* A held row stays out of the claim query, now and when time passes.
HeldIsShielded ==
    stalls = 0 =>
        \A w \in Workers, j \in Jobs : Holds(w, j) =>
            /\ status[j] \notin {"absent", "pending", "retry_wait"}
            /\ ~(status[j] = "leased" /\ lease[j] = "expired")

\* A row that may still be begun has an attempt left.
AttemptsLeft ==
    stalls = 0 =>
        /\ \A j \in Jobs :
             status[j] \in {"absent", "pending", "retry_wait", "leased"} => attempts[j] < MaxAttempts
        /\ \A w \in Workers, j \in Jobs :
             Holds(w, j) /\ pc[w] \in {"claimed", "dispatching", "retrying"} => attempts[j] < MaxAttempts

QueueInv ==
    /\ LockDiscipline
    /\ HeldIsShielded
    /\ ExclusiveWork
    /\ AttemptsLeft
    /\ AttemptsBounded

-----------------------------------------------------------------------------
(* What the documentation says of the queue. *)

\* docs/jobs/spec.md: when a worker crashes "the lease expires and another
\* worker picks up the job on the next scan".
AbandonedJobIsClaimable ==
    \A j \in Jobs :
        /\ status[j] \in {"leased", "running"} /\ lease[j] = "expired"
        /\ \A w \in Workers : ~Holds(w, j)
        => Eligible(j)

=============================================================================
