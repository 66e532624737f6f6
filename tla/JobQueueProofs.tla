--------------------------- MODULE JobQueueProofs ---------------------------
(***************************************************************************)
(* Proofs about JobQueue for every set of jobs and workers, every attempt  *)
(* limit and every bound on crashes, stalls and database errors.           *)
(***************************************************************************)
EXTENDS JobQueueRefinement, TLAPS

(* The statements of claimNextJob and of processOne, quantified away once. *)
LEMMA StepCases ==
    ASSUME Next
    PROVE  \/ \E j \in Jobs : EnqueueJob(j) \/ CancelJob(j) \/ BecomeDue(j) \/ LeaseExpires(j)
           \/ \E w \in Workers, j \in Jobs : ClaimStep(w, j)
           \/ \E w \in Workers, j \in Jobs : WorkStep(w, j)
           \/ \E w \in Workers : \/ HandlerReturns(w) \/ HandlerThrows(w) \/ FailError(w)
                                 \/ HeartbeatFires(w) \/ Crash(w) \/ Restart(w)
  BY DEF Next

(* Every variable keeps its type: the rows, the workers and the counters.  *)
THEOREM TypeCorrect == Spec => []TypeOK
<1> USE JobQueueAssumption DEF TypeOK, JobStatus, Phases, Holding
<1>1. Init => TypeOK
  BY DEF Init
<1>2. TypeOK /\ [Next]_vars => TypeOK'
  <2> SUFFICES ASSUME TypeOK, [Next]_vars PROVE TypeOK'
    OBVIOUS
  <2> USE DEF GoTo, ReturnToPoll, SetStatus, SetLease, DbError, rowVars, workerVars, faultVars
  <2>1. ASSUME NEW j \in Jobs, EnqueueJob(j) PROVE TypeOK'
    BY <2>1 DEF EnqueueJob, Colliding
  <2>2. ASSUME NEW j \in Jobs, CancelJob(j) \/ BecomeDue(j) \/ LeaseExpires(j) PROVE TypeOK'
    <3>1. CASE CancelJob(j)
      BY <3>1 DEF CancelJob
    <3>2. CASE BecomeDue(j)
      BY <3>2 DEF BecomeDue
    <3>3. CASE LeaseExpires(j)
      BY <3>3 DEF LeaseExpires
    <3> QED BY <2>2, <3>1, <3>2, <3>3
  <2>3. ASSUME NEW w \in Workers, NEW j \in Jobs, ClaimStep(w, j) PROVE TypeOK'
    BY <2>3 DEF ClaimStep, ClaimSelect, ClaimUpdate, ClaimError, InsertLease, InsertLeaseError
  <2>4. ASSUME NEW w \in Workers, NEW j \in Jobs, WorkStep(w, j) PROVE TypeOK'
    <3>1. CASE NoHandler(w, j) \/ BeginJob(w, j) \/ BeginError(w, j)
      BY <3>1 DEF NoHandler, BeginJob, BeginError
    <3>2. CASE CheckCancellation(w, j) \/ HeartbeatJob(w, j)
      BY <3>2 DEF CheckCancellation, HeartbeatJob
    <3>3. CASE CompleteJob(w, j)
      BY <3>3 DEF CompleteJob
    <3>5. CASE CompleteError(w, j)
      BY <3>5 DEF CompleteError
    <3>4. CASE FailSelect(w, j)
      BY <3>4 DEF FailSelect
    <3>6. CASE FailRetry(w, j)
      BY <3>6 DEF FailRetry
    <3>7. CASE FailExhausted(w, j)
      BY <3>7 DEF FailExhausted
    <3> QED BY <2>4, <3>1, <3>2, <3>3, <3>4, <3>5, <3>6, <3>7 DEF WorkStep
  <2>5. ASSUME NEW w \in Workers, \/ HandlerReturns(w) \/ HandlerThrows(w) \/ FailError(w)
                                  \/ HeartbeatFires(w) \/ Crash(w) \/ Restart(w)
        PROVE TypeOK'
    BY <2>5 DEF HandlerReturns, HandlerThrows, FailError, HeartbeatFires, Crash, Restart
  <2>6. CASE UNCHANGED vars
    BY <2>6 DEF vars
  <2> QED BY <2>1, <2>2, <2>3, <2>4, <2>5, <2>6, StepCases
<1> QED BY <1>1, <1>2, PTL DEF Spec

-----------------------------------------------------------------------------
(* The inductive step: one case per statement, timer and fault of the queue. *)
LEMMA QueueInvStep == TypeOK /\ QueueInv /\ Next => QueueInv'
<1> SUFFICES ASSUME TypeOK, QueueInv, Next PROVE QueueInv'
  OBVIOUS
<1> USE JobQueueAssumption DEF TypeOK, JobStatus, Phases, Holding, QueueInv, LockDiscipline,
        HeldIsShielded, ExclusiveWork, AttemptsLeft, AttemptsBounded, Holds, Eligible, Unlocked,
        GoTo, ReturnToPoll, SetStatus, SetLease, DbError, rowVars, workerVars, faultVars
<1>1. ASSUME NEW j \in Jobs, EnqueueJob(j) PROVE QueueInv'
  BY <1>1 DEF EnqueueJob, Colliding
<1>2. ASSUME NEW j \in Jobs, CancelJob(j) PROVE QueueInv'
  BY <1>2 DEF CancelJob
<1>3. ASSUME NEW j \in Jobs, BecomeDue(j) PROVE QueueInv'
  BY <1>3 DEF BecomeDue
<1>4. ASSUME NEW j \in Jobs, LeaseExpires(j) PROVE QueueInv'
  BY <1>4 DEF LeaseExpires
<1>5. ASSUME NEW w \in Workers, NEW j \in Jobs, ClaimSelect(w, j) PROVE QueueInv'
  BY <1>5 DEF ClaimSelect, NextClaim
<1>6. ASSUME NEW w \in Workers, NEW j \in Jobs, ClaimUpdate(w, j) PROVE QueueInv'
  BY <1>6 DEF ClaimUpdate
<1>7. ASSUME NEW w \in Workers, NEW j \in Jobs, ClaimError(w, j) PROVE QueueInv'
  BY <1>7 DEF ClaimError
<1>8. ASSUME NEW w \in Workers, NEW j \in Jobs, InsertLease(w, j) PROVE QueueInv'
  BY <1>8 DEF InsertLease
<1>9. ASSUME NEW w \in Workers, NEW j \in Jobs, InsertLeaseError(w, j) PROVE QueueInv'
  BY <1>9 DEF InsertLeaseError
<1>10. ASSUME NEW w \in Workers, NEW j \in Jobs, NoHandler(w, j) PROVE QueueInv'
  BY <1>10 DEF NoHandler
<1>11. ASSUME NEW w \in Workers, NEW j \in Jobs, BeginJob(w, j) PROVE QueueInv'
  BY <1>11 DEF BeginJob
<1>12. ASSUME NEW w \in Workers, NEW j \in Jobs, BeginError(w, j) PROVE QueueInv'
  BY <1>12 DEF BeginError
<1>13. ASSUME NEW w \in Workers, NEW j \in Jobs, CheckCancellation(w, j) PROVE QueueInv'
  BY <1>13 DEF CheckCancellation
<1>14. ASSUME NEW w \in Workers, NEW j \in Jobs, CompleteJob(w, j) PROVE QueueInv'
  BY <1>14 DEF CompleteJob
<1>15. ASSUME NEW w \in Workers, NEW j \in Jobs, CompleteError(w, j) PROVE QueueInv'
  BY <1>15 DEF CompleteError
<1>16. ASSUME NEW w \in Workers, NEW j \in Jobs, FailSelect(w, j) PROVE QueueInv'
  BY <1>16 DEF FailSelect
<1>17. ASSUME NEW w \in Workers, NEW j \in Jobs, FailRetry(w, j) PROVE QueueInv'
  BY <1>17 DEF FailRetry
<1>18. ASSUME NEW w \in Workers, NEW j \in Jobs, FailExhausted(w, j) PROVE QueueInv'
  BY <1>18 DEF FailExhausted
<1>19. ASSUME NEW w \in Workers, NEW j \in Jobs, HeartbeatJob(w, j) PROVE QueueInv'
  BY <1>19 DEF HeartbeatJob
<1>20. ASSUME NEW w \in Workers, HandlerReturns(w) PROVE QueueInv'
  BY <1>20 DEF HandlerReturns
<1>21. ASSUME NEW w \in Workers, HandlerThrows(w) PROVE QueueInv'
  BY <1>21 DEF HandlerThrows
<1>22. ASSUME NEW w \in Workers, FailError(w) PROVE QueueInv'
  BY <1>22 DEF FailError
<1>23. ASSUME NEW w \in Workers, HeartbeatFires(w) PROVE QueueInv'
  BY <1>23 DEF HeartbeatFires
<1>24. ASSUME NEW w \in Workers, Crash(w) PROVE QueueInv'
  BY <1>24 DEF Crash
<1>25. ASSUME NEW w \in Workers, Restart(w) PROVE QueueInv'
  BY <1>25 DEF Restart
<1> QED BY <1>1, <1>2, <1>3, <1>4, <1>5, <1>6, <1>7, <1>8, <1>9, <1>10, <1>11, <1>12, <1>13, <1>14, <1>15, <1>16, <1>17, <1>18, <1>19, <1>20, <1>21, <1>22, <1>23, <1>24, <1>25, StepCases DEF ClaimStep, WorkStep

LEMMA QueueInvariant == Spec => []QueueInv
<1>1. Init => QueueInv
  BY JobQueueAssumption DEF Init, QueueInv, LockDiscipline, HeldIsShielded, ExclusiveWork,
     AttemptsLeft, AttemptsBounded, Holds, Eligible, Holding
<1>2. QueueInv /\ UNCHANGED vars => QueueInv'
  BY DEF vars, rowVars, workerVars, faultVars, QueueInv, LockDiscipline, HeldIsShielded,
     ExclusiveWork, AttemptsLeft, AttemptsBounded, Holds, Eligible
<1> QED BY <1>1, <1>2, QueueInvStep, TypeCorrect, PTL DEF Spec

-----------------------------------------------------------------------------
(* However many workers poll, no two are past the claim of one job as long   *)
(* as no lease lapsed under a live holder.                                   *)
THEOREM NoDoubleExecution == Spec => []ExclusiveWork
BY QueueInvariant, PTL DEF QueueInv

(* failJob's attempt limit bounds how often a handler is started.            *)
THEOREM RetriesAreBounded == Spec => []AttemptsBounded
BY QueueInvariant, PTL DEF QueueInv

(* Without stalls and database errors, no worker is still on a row that says *)
(* completed or failed.                                                      *)
THEOREM FinishedRowsAreReleased == Spec => []FinishedIsReleased
<1> USE DEF FinishedIsReleased
<1>1. Init => FinishedIsReleased
  BY DEF Init, Holds, Holding
<1>2. TypeOK /\ QueueInv /\ FinishedIsReleased /\ [Next]_vars => FinishedIsReleased'
  <2> SUFFICES ASSUME TypeOK, QueueInv, FinishedIsReleased, [Next]_vars PROVE FinishedIsReleased'
    OBVIOUS
  <2> USE JobQueueAssumption DEF TypeOK, JobStatus, Phases, Holding, QueueInv, LockDiscipline,
        HeldIsShielded, ExclusiveWork, Holds, Eligible, Unlocked,
        GoTo, ReturnToPoll, SetStatus, SetLease, DbError, rowVars, workerVars, faultVars
  <2>1. ASSUME NEW j \in Jobs, EnqueueJob(j) \/ CancelJob(j) \/ BecomeDue(j) \/ LeaseExpires(j)
        PROVE FinishedIsReleased'
    BY <2>1 DEF EnqueueJob, Colliding, CancelJob, BecomeDue, LeaseExpires
  <2>2. ASSUME NEW w \in Workers, NEW j \in Jobs, ClaimStep(w, j) PROVE FinishedIsReleased'
    BY <2>2 DEF ClaimStep, ClaimSelect, NextClaim, ClaimUpdate, ClaimError, InsertLease, InsertLeaseError
  <2>3. ASSUME NEW w \in Workers, NEW j \in Jobs, WorkStep(w, j) PROVE FinishedIsReleased'
    <3>1. CASE NoHandler(w, j) \/ BeginJob(w, j) \/ BeginError(w, j)
      BY <3>1 DEF NoHandler, BeginJob, BeginError
    <3>2. CASE CheckCancellation(w, j) \/ HeartbeatJob(w, j)
      BY <3>2 DEF CheckCancellation, HeartbeatJob
    <3>3. CASE CompleteJob(w, j) \/ CompleteError(w, j)
      BY <3>3 DEF CompleteJob, CompleteError
    <3>4. CASE FailSelect(w, j)
      BY <3>4 DEF FailSelect
    <3>5. CASE FailRetry(w, j) \/ FailExhausted(w, j)
      BY <3>5 DEF FailRetry, FailExhausted
    <3> QED BY <2>3, <3>1, <3>2, <3>3, <3>4, <3>5 DEF WorkStep
  <2>4. ASSUME NEW w \in Workers, \/ HandlerReturns(w) \/ HandlerThrows(w) \/ FailError(w)
                                  \/ HeartbeatFires(w) \/ Crash(w) \/ Restart(w)
        PROVE FinishedIsReleased'
    BY <2>4 DEF HandlerReturns, HandlerThrows, FailError, HeartbeatFires, Crash, Restart
  <2>5. CASE UNCHANGED vars
    BY <2>5 DEF vars
  <2> QED BY <2>1, <2>2, <2>3, <2>4, <2>5, StepCases
<1> QED BY <1>1, <1>2, QueueInvariant, TypeCorrect, PTL DEF Spec

(* Without crashes and database errors no row is left in flight: every path  *)
(* through processOne ends in a status other than leased and running.        *)
THEOREM InFlightRowsHaveWorkers == Spec => []InFlightHasWorker
<1> USE DEF InFlightHasWorker
<1>1. Init => InFlightHasWorker
  BY DEF Init
<1>2. TypeOK /\ InFlightHasWorker /\ [Next]_vars => InFlightHasWorker'
  <2> SUFFICES ASSUME TypeOK, InFlightHasWorker, [Next]_vars, crashes' = 0, dbErrors' = 0,
                      NEW i \in Jobs, status'[i] \in {"leased", "running"}
               PROVE  \E u \in Workers : Holds(u, i)'
    OBVIOUS
  <2> USE JobQueueAssumption DEF TypeOK, JobStatus, Phases, Holding, Holds,
        GoTo, ReturnToPoll, SetStatus, SetLease, DbError, rowVars, workerVars, faultVars
  <2>1. ASSUME NEW j \in Jobs, EnqueueJob(j) \/ CancelJob(j) \/ BecomeDue(j) \/ LeaseExpires(j)
        PROVE \E u \in Workers : Holds(u, i)'
    BY <2>1 DEF EnqueueJob, Colliding, CancelJob, BecomeDue, LeaseExpires
  <2>2. ASSUME NEW w \in Workers, NEW j \in Jobs, ClaimStep(w, j)
        PROVE \E u \in Workers : Holds(u, i)'
    BY <2>2 DEF ClaimStep, ClaimSelect, NextClaim, ClaimUpdate, ClaimError, InsertLease, InsertLeaseError
  <2>3. ASSUME NEW w \in Workers, NEW j \in Jobs, WorkStep(w, j)
        PROVE \E u \in Workers : Holds(u, i)'
    <3>1. CASE NoHandler(w, j) \/ BeginJob(w, j) \/ BeginError(w, j)
      BY <3>1 DEF NoHandler, BeginJob, BeginError
    <3>2. CASE CheckCancellation(w, j) \/ HeartbeatJob(w, j)
      BY <3>2 DEF CheckCancellation, HeartbeatJob
    <3>3. CASE CompleteJob(w, j) \/ CompleteError(w, j)
      BY <3>3 DEF CompleteJob, CompleteError
    <3>4. CASE FailSelect(w, j)
      BY <3>4 DEF FailSelect
    <3>5. CASE FailRetry(w, j) \/ FailExhausted(w, j)
      BY <3>5 DEF FailRetry, FailExhausted
    <3> QED BY <2>3, <3>1, <3>2, <3>3, <3>4, <3>5 DEF WorkStep
  <2>4. ASSUME NEW w \in Workers, \/ HandlerReturns(w) \/ HandlerThrows(w) \/ FailError(w)
                                  \/ HeartbeatFires(w) \/ Crash(w) \/ Restart(w)
        PROVE \E u \in Workers : Holds(u, i)'
    BY <2>4 DEF HandlerReturns, HandlerThrows, FailError, HeartbeatFires, Crash, Restart
  <2>5. CASE UNCHANGED vars
    BY <2>5 DEF vars
  <2> QED BY <2>1, <2>2, <2>3, <2>4, <2>5, StepCases
<1> QED BY <1>1, <1>2, TypeCorrect, PTL DEF Spec

(* A finished row nobody holds is out of the queue for good.                 *)
THEOREM SettledRowsAreFinal == Spec => SettledIsFinal
<1> DEFINE Final == \A j \in Jobs : Settled(j) => status'[j] \in {status[j], "canceled"}
<1>1. TypeOK /\ QueueInv /\ [Next]_vars => [Final]_vars
  <2> SUFFICES ASSUME TypeOK, QueueInv, [Next]_vars, NEW i \in Jobs, Settled(i)
               PROVE  status'[i] \in {status[i], "canceled"}
    OBVIOUS
  <2> USE DEF TypeOK, QueueInv, LockDiscipline, Settled, Terminal, Holds, Holding, Eligible,
        GoTo, ReturnToPoll, SetStatus, SetLease, rowVars
  <2>1. ASSUME NEW j \in Jobs, EnqueueJob(j) \/ CancelJob(j) \/ BecomeDue(j) \/ LeaseExpires(j)
        PROVE status'[i] \in {status[i], "canceled"}
    BY <2>1 DEF EnqueueJob, Colliding, CancelJob, BecomeDue, LeaseExpires
  <2>2. ASSUME NEW w \in Workers, NEW j \in Jobs, ClaimStep(w, j)
        PROVE status'[i] \in {status[i], "canceled"}
    BY <2>2 DEF ClaimStep, ClaimSelect, ClaimUpdate, ClaimError, InsertLease, InsertLeaseError
  <2>3. ASSUME NEW w \in Workers, NEW j \in Jobs, WorkStep(w, j)
        PROVE status'[i] \in {status[i], "canceled"}
    BY <2>3 DEF WorkStep, NoHandler, BeginJob, BeginError, CheckCancellation, CompleteJob,
       CompleteError, FailSelect, FailRetry, FailExhausted, HeartbeatJob
  <2>4. ASSUME NEW w \in Workers, \/ HandlerReturns(w) \/ HandlerThrows(w) \/ FailError(w)
                                  \/ HeartbeatFires(w) \/ Crash(w) \/ Restart(w)
        PROVE status'[i] \in {status[i], "canceled"}
    BY <2>4 DEF HandlerReturns, HandlerThrows, FailError, HeartbeatFires, Crash, Restart
  <2>5. CASE UNCHANGED vars
    BY <2>5 DEF vars
  <2> QED BY <2>1, <2>2, <2>3, <2>4, <2>5, StepCases
<1> QED BY <1>1, QueueInvariant, TypeCorrect, PTL DEF Spec, SettledIsFinal

-----------------------------------------------------------------------------
(* The job queue implements JobLifecycle, until a lease lapses under a live *)
(* holder.                                                                 *)

(* The stall counter, a premise of the queue's invariants, never goes down.   *)
LEMMA StallsCountUp ==
    ASSUME TypeOK, Next PROVE  stalls' \in Nat /\ (stalls' = 0 => stalls = 0)
BY DEF TypeOK, Next, vars, faultVars, DbError, EnqueueJob, CancelJob, BecomeDue, LeaseExpires,
     ClaimStep, ClaimSelect, ClaimUpdate, ClaimError, InsertLease, InsertLeaseError,
     WorkStep, NoHandler, BeginJob, BeginError, CheckCancellation, CompleteJob, CompleteError,
     FailSelect, FailRetry, FailExhausted, HeartbeatJob,
     HandlerReturns, HandlerThrows, FailError, HeartbeatFires, Crash, Restart

(* A row whose holders do not change keeps its abstract state if it is held, *)
(* or if its status does not change.                                         *)
LEMMA Frame ==
    ASSUME NEW i \in Jobs,
           \A w \in Workers : Holds(w, i)' <=> Holds(w, i),
           status'[i] = status[i] \/ \E w \in Workers : Holds(w, i)
    PROVE  ownerOf'[i] = ownerOf[i] /\ phaseOf'[i] = phaseOf[i]
<1>1. ownerOf'[i] = ownerOf[i]
  BY DEF ownerOf
<1> QED BY <1>1 DEF phaseOf, ownerOf

LEMMA Stutter ==
    ASSUME \A i \in Jobs : ownerOf'[i] = ownerOf[i] /\ phaseOf'[i] = phaseOf[i],
           attempts' = attempts
    PROVE  UNCHANGED Lifecycle!vars
<1>1. ownerOf' = ownerOf
  BY DEF ownerOf
<1>2. phaseOf' = phaseOf
  BY DEF phaseOf
<1> QED BY <1>1, <1>2 DEF Lifecycle!vars

(* A change of one row's abstract state is a Move of the abstract queue.     *)
LEMMA MoveOne ==
    ASSUME NEW j \in Jobs, NEW from, NEW to, NEW o,
           \A i \in Jobs \ {j} : ownerOf'[i] = ownerOf[i] /\ phaseOf'[i] = phaseOf[i],
           attempts' = attempts,
           phaseOf[j] = from, phaseOf'[j] = to, ownerOf'[j] = o
    PROVE  Lifecycle!Move(j, from, to, o)
<1>1. ownerOf' = [ownerOf EXCEPT ![j] = o]
  BY DEF ownerOf
<1>2. phaseOf' = [phaseOf EXCEPT ![j] = to]
  BY DEF phaseOf
<1> QED BY <1>1, <1>2 DEF Lifecycle!Move

(* A worker lets go of its only job: the row is requeued, finished or lost.  *)
LEMMA Release ==
    ASSUME TypeOK, QueueInv, stalls = 0,
           NEW w \in Workers, NEW j \in Jobs, Holds(w, j),
           \A u \in Workers, i \in Jobs : Holds(u, i)' <=> Holds(u, i) /\ u # w,
           \A i \in Jobs \ {j} : status'[i] = status[i],
           status'[j] \in JobStatus,
           status'[j] \in {"pending", "retry_wait", "leased"} => attempts[j] < MaxAttempts,
           attempts' = attempts
    PROVE  Lifecycle!Next
<1>1. \A u \in Workers : Holds(u, j) => u = w
  BY DEF QueueInv, ExclusiveWork
<1>2. ownerOf'[j] = {}
  BY <1>1 DEF ownerOf
<1>3. phaseOf[j] = "owned"
  BY DEF phaseOf, ownerOf
<1>4. \A i \in Jobs \ {j} : ownerOf'[i] = ownerOf[i] /\ phaseOf'[i] = phaseOf[i]
  <2> TAKE i \in Jobs \ {j}
  <2>1. ~Holds(w, i)
    BY DEF Holds
  <2> QED BY <2>1, Frame
<1>5. CASE status'[j] \in {"pending", "retry_wait", "leased"}
  <2>1. phaseOf'[j] = "waiting"
    BY <1>2, <1>5 DEF phaseOf, Terminal
  <2>2. Lifecycle!Requeue(j)
    BY <1>2, <1>3, <1>4, <1>5, <2>1, MoveOne DEF Lifecycle!Requeue
  <2> QED BY <2>2 DEF Lifecycle!Next
<1>6. CASE status'[j] \in Terminal
  <2>1. phaseOf'[j] = "finished"
    BY <1>2, <1>6 DEF phaseOf, Terminal
  <2>2. Lifecycle!Finish(j)
    BY <1>2, <1>3, <1>4, <2>1, MoveOne DEF Lifecycle!Finish
  <2> QED BY <2>2 DEF Lifecycle!Next
<1>7. CASE status'[j] = "running"
  <2>1. phaseOf'[j] = "lost"
    BY <1>2, <1>7 DEF phaseOf
  <2>2. Lifecycle!Lose(j)
    BY <1>2, <1>3, <1>4, <2>1, MoveOne DEF Lifecycle!Lose
  <2> QED BY <2>2 DEF Lifecycle!Next
<1> QED BY <1>5, <1>6, <1>7 DEF JobStatus, Terminal

-----------------------------------------------------------------------------
(* Every statement of the queue is a step of the abstract queue or a stutter. *)
LEMMA StepSimulation ==
    ASSUME TypeOK, QueueInv, stalls = 0, stalls' = 0, Next
    PROVE  [Lifecycle!Next]_(Lifecycle!vars)
<1> USE DEF TypeOK, Phases, Holding, Holds, GoTo, ReturnToPoll, SetStatus, SetLease,
        rowVars, workerVars, faultVars
<1>1. ASSUME NEW j \in Jobs, EnqueueJob(j) PROVE [Lifecycle!Next]_(Lifecycle!vars)
  <2>1. \A i \in Jobs, u \in Workers : Holds(u, i)' <=> Holds(u, i)
    BY <1>1 DEF EnqueueJob
  <2>2. \A i \in Jobs \ {j} : ownerOf'[i] = ownerOf[i] /\ phaseOf'[i] = phaseOf[i]
    BY <1>1, <2>1, Frame DEF EnqueueJob
  <2>3. CASE status' = status
    BY <1>1, <2>1, <2>3, Frame, Stutter DEF EnqueueJob
  <2>4. CASE status' = [status EXCEPT ![j] = "pending"]
    <3>1. \A u \in Workers : ~Holds(u, j)
      BY <1>1 DEF EnqueueJob, QueueInv, HeldIsShielded
    <3>2. ownerOf[j] = {} /\ ownerOf'[j] = {}
      BY <2>1, <3>1 DEF ownerOf
    <3>3. phaseOf[j] = "absent" /\ phaseOf'[j] = "waiting"
      BY <1>1, <2>4, <3>2 DEF EnqueueJob, phaseOf, Terminal
    <3>4. Lifecycle!Submit(j)
      BY <1>1, <2>2, <3>2, <3>3, MoveOne DEF EnqueueJob, Lifecycle!Submit
    <3> QED BY <3>4 DEF Lifecycle!Next
  <2> QED BY <1>1, <2>3, <2>4 DEF EnqueueJob
<1>2. ASSUME NEW j \in Jobs, CancelJob(j) PROVE [Lifecycle!Next]_(Lifecycle!vars)
  <2>1. \A i \in Jobs, u \in Workers : Holds(u, i)' <=> Holds(u, i)
    BY <1>2 DEF CancelJob
  <2>2. \A i \in Jobs \ {j} : ownerOf'[i] = ownerOf[i] /\ phaseOf'[i] = phaseOf[i]
    BY <1>2, <2>1, Frame DEF CancelJob
  <2>3. CASE \E u \in Workers : Holds(u, j)
    BY <1>2, <2>1, <2>2, <2>3, Frame, Stutter DEF CancelJob
  <2>4. CASE \A u \in Workers : ~Holds(u, j)
    <3>1. ownerOf[j] = {} /\ ownerOf'[j] = {}
      BY <2>1, <2>4 DEF ownerOf
    <3>2. phaseOf'[j] = "finished"
      BY <1>2, <3>1 DEF CancelJob, phaseOf, Terminal
    <3>3. phaseOf[j] \in {"waiting", "lost", "finished"}
      BY <1>2, <3>1 DEF CancelJob, phaseOf, Terminal
    <3>4. CASE phaseOf[j] = "finished"
      BY <1>2, <2>2, <3>1, <3>2, <3>4, Stutter DEF CancelJob
    <3>5. CASE phaseOf[j] # "finished"
      <4>1. Lifecycle!Cancel(j)
        BY <1>2, <2>2, <3>1, <3>2, <3>3, <3>5, MoveOne DEF CancelJob, Lifecycle!Cancel
      <4> QED BY <4>1 DEF Lifecycle!Next
    <3> QED BY <3>4, <3>5
  <2> QED BY <2>3, <2>4
<1>3. ASSUME NEW j \in Jobs, BecomeDue(j) \/ LeaseExpires(j)
      PROVE [Lifecycle!Next]_(Lifecycle!vars)
  BY <1>3, Frame, Stutter DEF BecomeDue, LeaseExpires
<1>4. ASSUME NEW w \in Workers, NEW j \in Jobs, ClaimUpdate(w, j)
      PROVE [Lifecycle!Next]_(Lifecycle!vars)
  <2>1. \A u \in Workers, i \in Jobs : Holds(u, i)' <=> Holds(u, i) \/ (u = w /\ i = j)
    BY <1>4 DEF ClaimUpdate
  <2>2. Eligible(j) /\ \A u \in Workers : ~Holds(u, j)
    BY <1>4 DEF ClaimUpdate, QueueInv, LockDiscipline, HeldIsShielded, Eligible
  <2>3. ownerOf[j] = {} /\ ownerOf'[j] = {w}
    BY <2>1, <2>2 DEF ownerOf
  <2>4. phaseOf[j] = "waiting" /\ phaseOf'[j] = "owned"
    BY <2>2, <2>3 DEF phaseOf, Eligible, Terminal
  <2>5. \A i \in Jobs \ {j} : ownerOf'[i] = ownerOf[i] /\ phaseOf'[i] = phaseOf[i]
    BY <1>4, <2>1, Frame DEF ClaimUpdate
  <2>6. Lifecycle!Take(w, j)
    BY <1>4, <2>3, <2>4, <2>5, MoveOne DEF ClaimUpdate, Lifecycle!Take
  <2> QED BY <2>6 DEF Lifecycle!Next
<1>5. ASSUME NEW w \in Workers, NEW j \in Jobs, BeginJob(w, j)
      PROVE [Lifecycle!Next]_(Lifecycle!vars)
  <2>1. \A i \in Jobs, u \in Workers : Holds(u, i)' <=> Holds(u, i)
    BY <1>5 DEF BeginJob
  <2>2. \A i \in Jobs : ownerOf'[i] = ownerOf[i] /\ phaseOf'[i] = phaseOf[i]
    BY <1>5, <2>1, Frame DEF BeginJob
  <2>3. ownerOf' = ownerOf /\ phaseOf' = phaseOf
    BY <2>2 DEF ownerOf, phaseOf
  <2>4. phaseOf[j] = "owned" /\ attempts[j] < MaxAttempts
    BY <1>5 DEF BeginJob, phaseOf, ownerOf, QueueInv, AttemptsLeft
  <2>5. Lifecycle!Start(j)
    BY <1>5, <2>3, <2>4 DEF BeginJob, Lifecycle!Start
  <2> QED BY <2>5 DEF Lifecycle!Next
<1>6. ASSUME NEW w \in Workers, NEW j \in Jobs,
             \/ ClaimSelect(w, j) \/ ClaimError(w, j) \/ InsertLease(w, j) \/ NoHandler(w, j)
             \/ BeginError(w, j) \/ CheckCancellation(w, j) \/ CompleteError(w, j)
             \/ FailSelect(w, j) \/ HeartbeatJob(w, j)
      PROVE [Lifecycle!Next]_(Lifecycle!vars)
  <2>1. \A i \in Jobs, u \in Workers : Holds(u, i)' <=> Holds(u, i)
    BY <1>6 DEF ClaimSelect, ClaimError, InsertLease, NoHandler, BeginError, CheckCancellation,
       CompleteError, FailSelect, HeartbeatJob
  <2>2. attempts' = attempts /\ \A i \in Jobs : status'[i] = status[i] \/ \E u \in Workers : Holds(u, i)
    BY <1>6 DEF ClaimSelect, ClaimError, InsertLease, NoHandler, BeginError, CheckCancellation,
       CompleteError, FailSelect, HeartbeatJob
  <2> QED BY <2>1, <2>2, Frame, Stutter
<1>7. ASSUME NEW w \in Workers, NEW j \in Jobs,
             \/ InsertLeaseError(w, j) \/ CompleteJob(w, j) \/ FailRetry(w, j) \/ FailExhausted(w, j)
      PROVE [Lifecycle!Next]_(Lifecycle!vars)
  <2>1. Holds(w, j)
    BY <1>7 DEF InsertLeaseError, CompleteJob, FailRetry, FailExhausted
  <2>2. \A u \in Workers, i \in Jobs : Holds(u, i)' <=> Holds(u, i) /\ u # w
    BY <1>7 DEF InsertLeaseError, CompleteJob, FailRetry, FailExhausted
  <2>3. attempts' = attempts /\ \A i \in Jobs \ {j} : status'[i] = status[i]
    BY <1>7 DEF InsertLeaseError, CompleteJob, FailRetry, FailExhausted
  <2>4. status[j] # "absent"
    BY <2>1 DEF QueueInv, HeldIsShielded
  <2>5. /\ status'[j] \in JobStatus
        /\ status'[j] \in {"pending", "retry_wait", "leased"} => attempts[j] < MaxAttempts
    BY <1>7, <2>1, <2>4 DEF InsertLeaseError, CompleteJob, FailRetry, FailExhausted, JobStatus,
       QueueInv, AttemptsLeft
  <2> QED BY <2>1, <2>2, <2>3, <2>5, Release
<1>8. ASSUME NEW w \in Workers, HandlerReturns(w) \/ HandlerThrows(w) \/ HeartbeatFires(w) \/ Restart(w)
      PROVE [Lifecycle!Next]_(Lifecycle!vars)
  <2>1. \A i \in Jobs, u \in Workers : Holds(u, i)' <=> Holds(u, i)
    BY <1>8 DEF HandlerReturns, HandlerThrows, HeartbeatFires, Restart
  <2> QED BY <1>8, <2>1, Frame, Stutter DEF HandlerReturns, HandlerThrows, HeartbeatFires, Restart
<1>9. ASSUME NEW w \in Workers, FailError(w) \/ Crash(w)
      PROVE [Lifecycle!Next]_(Lifecycle!vars)
  <2>1. \A u \in Workers, i \in Jobs : Holds(u, i)' <=> Holds(u, i) /\ u # w
    BY <1>9 DEF FailError, Crash
  <2>2. attempts' = attempts /\ status' = status
    BY <1>9 DEF FailError, Crash
  <2>3. ASSUME NEW j \in Jobs, Holds(w, j) PROVE Lifecycle!Next
    <3>1. status[j] # "absent"
      BY <2>3 DEF QueueInv, HeldIsShielded
    <3>2. /\ status'[j] \in JobStatus
          /\ status'[j] \in {"pending", "retry_wait", "leased"} => attempts[j] < MaxAttempts
      BY <2>2, <3>1 DEF JobStatus, QueueInv, AttemptsLeft
    <3> QED BY <2>1, <2>2, <2>3, <3>2, Release
  <2>4. CASE \A j \in Jobs : ~Holds(w, j)
    BY <2>1, <2>2, <2>4, Frame, Stutter
  <2> QED BY <2>3, <2>4
<1> QED BY <1>1, <1>2, <1>3, <1>4, <1>5, <1>6, <1>7, <1>8, <1>9, StepCases DEF ClaimStep, WorkStep

(* The job queue keeps the promise of JobLifecycle until a lease lapses under *)
(* a live holder.                                                            *)
THEOREM QueueImplementsLifecycle == Spec => ImplementsLifecycle
<1>1. Init => Lifecycle!Init
  <2> SUFFICES ASSUME Init PROVE Lifecycle!Init
    OBVIOUS
  <2>1. ownerOf = [j \in Jobs |-> {}]
    BY DEF Init, ownerOf, Holds, Holding
  <2>2. phaseOf = [j \in Jobs |-> "absent"]
    BY <2>1 DEF Init, phaseOf
  <2> QED BY <2>1, <2>2 DEF Init, Lifecycle!Init
<1>2. /\ TypeOK /\ QueueInv
      /\ [Next]_vars
      => [stalls' = 0 => Lifecycle!Next]_(Lifecycle!vars)
  <2>1. ASSUME TypeOK, QueueInv, Next, stalls' = 0 PROVE [Lifecycle!Next]_(Lifecycle!vars)
    <3>1. stalls = 0
      BY <2>1, StallsCountUp
    <3> QED BY <2>1, <3>1, StepSimulation
  <2>2. CASE UNCHANGED vars
    <3>1. ownerOf' = ownerOf /\ phaseOf' = phaseOf /\ attempts' = attempts
      BY <2>2 DEF vars, rowVars, workerVars, ownerOf, phaseOf, Holds
    <3> QED BY <3>1 DEF Lifecycle!vars
  <2> QED BY <2>1, <2>2
<1> QED BY <1>1, <1>2, QueueInvariant, TypeCorrect, PTL DEF Spec, ImplementsLifecycle

=============================================================================
