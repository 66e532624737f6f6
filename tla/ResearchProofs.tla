--------------------------- MODULE ResearchProofs ---------------------------
(***************************************************************************)
(* Proofs about Research, for every plan, every number of lanes, fetches,  *)
(* rounds, attempts, cancels, failures and crashes.                        *)
(***************************************************************************)
EXTENDS Research, SequenceTheorems, TLAPS

StepKinds == {"plan", "search", "fetch", "synthesize"}
StepRows  == [by : Writers, kind : StepKinds, seq : Nat]
Rows      == [status : RowStatus, plan : BOOLEAN, report : SUBSET Fetches, cost : Nat, jobId : BOOLEAN]
Jobs      == [status : JobStatus, attempt : 0..MaxAttempts]
Loops     == [pc : LoopPcs, next : Stages, round : 0..MaxRounds, gaps : SUBSET Gaps,
              listed : SUBSET Fetches, cost : Nat, max : Nat]
LaneStates  == [Lanes -> [at : LaneAt, max : Nat]]
FetchStates == [Fetches -> [at : FetchAt, max : Nat]]
Budgets   == [cancels : 0..MaxCancels, failures : 0..MaxFailures, crashes : 0..MaxCrashes]

\* MaxSeq is what it says: the numbers in the trace have a greatest.
Numbers == {s.seq : s \in Range(steps)} \cup {0}
HasTop  == \E m \in Numbers : \A n \in Numbers : n <= m

StepsInv == steps \in Seq(StepRows) /\ HasTop

LEMMA RowsOfTrace ==
    ASSUME StepsInv
    PROVE  /\ \A i \in DOMAIN steps : steps[i] \in StepRows
           /\ Numbers \subseteq Nat
           /\ \A i \in DOMAIN steps : steps[i].seq \in Numbers
<1>1. \A i \in DOMAIN steps : steps[i] \in StepRows
  BY DEF StepsInv
<1>2. \A i \in DOMAIN steps : steps[i].seq \in Nat
  BY <1>1 DEF StepRows
<1> QED BY <1>1, <1>2 DEF Numbers, Range

LEMMA TopNumber ==
    ASSUME StepsInv
    PROVE  MaxSeq \in Nat /\ \A i \in DOMAIN steps : steps[i].seq <= MaxSeq
<1>1. MaxSeq \in Numbers /\ \A n \in Numbers : MaxSeq >= n
  BY RowsOfTrace DEF StepsInv, HasTop, MaxSeq, Max, Numbers
<1> QED BY <1>1, RowsOfTrace

LEMMA StepAdded ==
    ASSUME StepsInv, NEW w \in Writers, NEW k \in StepKinds, NEW m \in Nat,
           steps' = StepRow(w, k, m)
    PROVE  /\ StepsInv'
           /\ Len(steps') = Len(steps) + 1 /\ Len(steps) \in Nat
           /\ DOMAIN steps = 1..Len(steps) /\ DOMAIN steps' = 1..Len(steps) + 1
           /\ \A i \in DOMAIN steps : steps'[i] = steps[i]
           /\ steps'[Len(steps) + 1] = [by |-> w, kind |-> k, seq |-> m + 1]
<1> DEFINE new == [by |-> w, kind |-> k, seq |-> m + 1]
<1>1. new \in StepRows /\ new.seq = m + 1
  BY DEF StepRows
<1>2. steps \in Seq(StepRows) /\ steps' = Append(steps, new)
  BY DEF StepsInv, StepRow
<1> HIDE DEF new
<1>3. /\ steps' \in Seq(StepRows)
      /\ Len(steps') = Len(steps) + 1 /\ Len(steps) \in Nat
      /\ DOMAIN steps = 1..Len(steps) /\ DOMAIN steps' = 1..Len(steps) + 1
      /\ \A i \in DOMAIN steps : steps'[i] = steps[i]
      /\ steps'[Len(steps) + 1] = new
  BY <1>1, <1>2
<1>4. Numbers' = Numbers \cup {m + 1}
  <2>1. Numbers' \subseteq Numbers \cup {m + 1}
    BY <1>1, <1>3 DEF Numbers, Range
  <2>2. Numbers \cup {m + 1} \subseteq Numbers'
    <3>1. \A i \in DOMAIN steps : steps[i] \in Range(steps')
      BY <1>3 DEF Range
    <3>2. new \in Range(steps')
      BY <1>3 DEF Range
    <3> QED BY <3>1, <3>2, <1>1 DEF Numbers, Range
  <2> QED BY <2>1, <2>2
<1>5. HasTop'
  <2>1. PICK t \in Numbers : \A n \in Numbers : n <= t
    BY DEF StepsInv, HasTop
  <2>2. t \in Nat /\ \A n \in Numbers : n \in Nat
    BY RowsOfTrace
  <2>3. CASE m + 1 <= t
    BY <2>1, <2>2, <2>3, <1>4 DEF HasTop
  <2>4. CASE t < m + 1
    BY <2>1, <2>2, <2>4, <1>4 DEF HasTop
  <2> QED BY <2>2, <2>3, <2>4
<1> QED BY <1>3, <1>5 DEF StepsInv, new

-----------------------------------------------------------------------------
(* Types. *)

TypeInv ==
  /\ TypeOK
  /\ StepsInv
  /\ job.status = "queued" => job.attempt < MaxAttempts
  /\ loop.pc # "idle" => job.attempt > 0

\* What TypeOK says, record by record.
LEMMA Fields ==
    ASSUME TypeInv
    PROVE  /\ row \in Rows /\ job \in Jobs /\ sources \subseteq Fetches /\ loop \in Loops
           /\ lane \in LaneStates /\ fetch \in FetchStates /\ spent \in Budgets
           /\ command \in [pc : {"none", "row", "job"}, jobId : BOOLEAN]
           /\ MaxSeq \in Nat
           /\ {MaxAttempts, MaxRounds, MaxCancels, MaxFailures, MaxCrashes} \subseteq Nat
BY TopNumber, ResearchAssumption DEF TypeInv, TypeOK, Rows, Jobs, Loops, LaneStates, FetchStates, Budgets

LEMMA TypesKept ==
    ASSUME TypeInv, row' \in Rows, job' \in Jobs, sources' \subseteq Fetches, loop' \in Loops,
           lane' \in LaneStates, fetch' \in FetchStates, spent' \in Budgets,
           command' \in [pc : {"none", "row", "job"}, jobId : BOOLEAN],
           UNCHANGED steps \/ StepsInv',
           job'.status = "queued" => job'.attempt < MaxAttempts,
           loop'.pc # "idle" => job'.attempt > 0
    PROVE  TypeInv'
<1>1. StepsInv'
  BY DEF TypeInv, StepsInv, HasTop, Numbers
<1>2. \A i \in DOMAIN steps' : steps'[i] \in StepRows
  BY <1>1 DEF StepsInv
<1> QED BY <1>1, <1>2 DEF TypeInv, TypeOK, Rows, Jobs, Loops, LaneStates, FetchStates, Budgets, StepRows, StepKinds

LEMMA ThrowsKeepsTypes == TypeInv /\ Throws => spent' \in Budgets
BY Fields DEF Throws, Budgets

Outside == LinkJob \/ CancelRead \/ CancelRow \/ CancelTheJob

LEMMA OutsideKeepsTypes == TypeInv /\ Outside => TypeInv'
<1> SUFFICES ASSUME TypeInv, Outside PROVE TypeInv'
  OBVIOUS
<1>1. UNCHANGED <<steps, loop, lane, fetch, sources>>
  BY DEF Outside, LinkJob, CancelRead, CancelRow, CancelTheJob
<1>2. row' \in Rows
  <2>1. "canceled" \in RowStatus
    BY DEF RowStatus, Settled
  <2> QED BY <2>1, Fields DEF Outside, LinkJob, CancelRead, CancelRow, CancelTheJob, Rows
<1>3. job' \in Jobs /\ job'.attempt = job.attempt /\ (job'.status = "queued" => job.status = "queued")
  <2>1. "canceled" \in JobStatus
    BY DEF JobStatus
  <2> QED BY <2>1, Fields DEF Outside, LinkJob, CancelRead, CancelRow, CancelTheJob, Jobs
<1>4. spent' \in Budgets
  BY Fields DEF Outside, LinkJob, CancelRead, CancelRow, CancelTheJob, Budgets
<1>5. command' \in [pc : {"none", "row", "job"}, jobId : BOOLEAN]
  BY Fields DEF Outside, LinkJob, CancelRead, CancelRow, CancelTheJob, Rows
<1> QED BY <1>1, <1>2, <1>3, <1>4, <1>5, Fields, TypesKept DEF TypeInv

\* The steps of the loop that append nothing, and those that do.
Silent ==
  \/ StartLoop \/ CheckJob \/ CheckRow \/ EnterStage \/ Planner \/ Preapproved \/ SavePlan
  \/ PassEnds \/ Reflect \/ Synthesize \/ Cite \/ Complete \/ EndCanceled \/ EndFailed \/ CompleteJob \/ FailJob
  \/ LoopThrows
Noted == PlanStep \/ ReflectStep \/ SynthesizeStep

LEMMA SilentKeepsTypes ==
    ASSUME TypeInv, Silent
    PROVE  TypeInv'
<1> USE DEF Goto
<1>a. /\ row \in Rows /\ job \in Jobs /\ sources \subseteq Fetches /\ loop \in Loops
      /\ lane \in LaneStates /\ fetch \in FetchStates /\ spent \in Budgets
      /\ command \in [pc : {"none", "row", "job"}, jobId : BOOLEAN]
      /\ MaxSeq \in Nat /\ MaxAttempts \in Nat /\ MaxRounds \in Nat
  BY Fields
<1>b. UNCHANGED <<steps, sources, fetch, command>>
  BY DEF Silent, StartLoop, CheckJob, CheckRow, EnterStage, Planner, Preapproved, SavePlan, PassEnds, Reflect,
     Synthesize, Cite, Complete, EndCanceled, EndFailed, CompleteJob, FailJob, LoopThrows
<1>c. ASSUME NEW pc \in LoopPcs, loop' = [loop EXCEPT !.pc = pc] PROVE loop' \in Loops
  BY <1>a, <1>c DEF Loops
<1>d. ASSUME /\ loop' \in Loops /\ row' \in Rows /\ job' \in Jobs /\ lane' \in LaneStates
             /\ job'.status = "queued" => job'.attempt < MaxAttempts
             /\ loop'.pc # "idle" => job'.attempt > 0
             /\ spent' \in Budgets
      PROVE  TypeInv'
  BY <1>a, <1>b, <1>d, TypesKept
<1>e. job.status = "queued" => job.attempt < MaxAttempts
  BY DEF TypeInv
<1>f. loop.pc # "idle" => job.attempt > 0
  BY DEF TypeInv
<1>1. CASE StartLoop
  <2>1. loop' \in Loops
    BY <1>1, <1>a DEF StartLoop, Idle, LoopPcs, Stages, Loops
  <2>2. job' \in Jobs /\ job'.status # "queued" /\ job'.attempt > 0
    BY <1>1, <1>a, <1>e DEF StartLoop, JobStatus, Jobs
  <2> QED BY <2>1, <2>2, <1>1, <1>a, <1>d DEF StartLoop
<1>2. CASE CheckJob \/ CheckRow \/ PassEnds
  <2>1. loop' \in Loops
    <3>1. CASE CheckJob \/ CheckRow
      <4>1. {"failed", "checkRow", "canceled", "enter"} \subseteq LoopPcs
        BY DEF LoopPcs
      <4> QED BY <3>1, <4>1, <1>c DEF CheckJob, CheckRow
    <3>2. CASE PassEnds
      <4>1. loop' = IF loop.round < MaxRounds
                    THEN [loop EXCEPT !.pc = "checkJob", !.next = "reflecting", !.round = loop.round + 1]
                    ELSE [loop EXCEPT !.pc = "checkJob", !.next = "synthesizing"]
        BY <3>2 DEF PassEnds, ThenReflect
      <4>2. "checkJob" \in LoopPcs /\ "reflecting" \in Stages /\ "synthesizing" \in Stages
        BY DEF LoopPcs, Stages
      <4>3. loop.round < MaxRounds => loop.round + 1 \in 0..MaxRounds
        BY <1>a DEF Loops
      <4> QED BY <4>1, <4>2, <4>3, <1>a DEF Loops
    <3> QED BY <1>2, <3>1, <3>2
  <2>2. loop.pc # "idle"
    BY <1>2 DEF CheckJob, CheckRow, PassEnds
  <2> QED BY <2>1, <2>2, <1>2, <1>a, <1>d, <1>e, <1>f DEF CheckJob, CheckRow, PassEnds
<1>3. CASE EnterStage
  <2>1. loop' \in Loops
    <3>1. {"planner", "pass", "reflect", "synthesize"} \subseteq LoopPcs
      BY DEF LoopPcs
    <3> QED BY <3>1, <1>3, <1>c DEF EnterStage
  <2>2. row' \in Rows
    BY <1>3, <1>a DEF EnterStage, RowStatus, Stages, Rows, Loops
  <2>3. lane' \in LaneStates
    BY <1>3, <1>a DEF EnterStage, Begin, LaneAt, LaneStates
  <2>4. UNCHANGED <<job, spent>> /\ loop.pc = "enter"
    BY <1>3 DEF EnterStage
  <2> QED BY <2>1, <2>2, <2>3, <2>4, <1>a, <1>d, <1>e, <1>f
<1>4. CASE Planner \/ Preapproved \/ Reflect \/ Synthesize \/ Cite
  <2>1. loop' \in Loops
    <3>1. {"planStep", "noPlanStep", "preStep", "reflectStep", "cite", "synthStep", "failed"} \subseteq LoopPcs
      BY DEF LoopPcs
    <3>2. loop.cost + 1 \in Nat
      BY <1>a DEF Loops
    <3>3. CASE Planner
      <4>1. PICK pc \in {"planStep", "noPlanStep"} :
              loop' = [loop EXCEPT !.pc = pc, !.cost = loop.cost + 1, !.max = MaxSeq]
        BY <3>3 DEF Planner
      <4>2. pc \in LoopPcs
        BY <3>1
      <4> QED BY <4>1, <4>2, <3>2, <1>a DEF Loops
    <3>4. CASE Preapproved
      BY <3>1, <3>4, <1>a DEF Preapproved, Loops
    <3>5. CASE Reflect
      <4>1. PICK gaps \in IF Asks THEN SUBSET Gaps ELSE {{}} :
              loop' = [loop EXCEPT !.pc = "reflectStep", !.gaps = gaps, !.max = MaxSeq,
                                   !.cost = IF Asks THEN loop.cost + 1 ELSE loop.cost]
        BY <3>5 DEF Reflect
      <4>2. gaps \in SUBSET Gaps
        OBVIOUS
      <4>3. (IF Asks THEN loop.cost + 1 ELSE loop.cost) \in Nat
        BY <1>a DEF Loops
      <4> QED BY <4>1, <4>2, <4>3, <3>1, <1>a DEF Loops
    <3>6. CASE Synthesize
      <4>1. \/ loop' = [loop EXCEPT !.pc = "failed"]
            \/ loop' = [loop EXCEPT !.pc = "cite", !.listed = sources, !.cost = loop.cost + 1]
        BY <3>6 DEF Synthesize
      <4> QED BY <3>1, <3>2, <4>1, <1>a DEF Loops
    <3>7. CASE Cite
      BY <3>1, <3>7, <1>a DEF Cite, Loops
    <3> QED BY <1>4, <3>3, <3>4, <3>5, <3>6, <3>7
  <2>2. UNCHANGED <<row, job, lane, spent>> /\ loop.pc # "idle"
    BY <1>4 DEF Planner, Preapproved, Reflect, Synthesize, Cite
  <2> QED BY <2>1, <2>2, <1>a, <1>d, <1>e, <1>f
<1>5. CASE SavePlan \/ Complete \/ EndCanceled \/ EndFailed
  <2>1. loop' \in Loops
    <3>1. {"checkJob", "returned", "threw"} \subseteq LoopPcs
      BY DEF LoopPcs
    <3> QED BY <3>1, <1>5, <1>c DEF SavePlan, Complete, EndCanceled, EndFailed
  <2>2. row' \in Rows
    <3>1. {"complete", "canceled", "failed"} \subseteq RowStatus
      BY DEF RowStatus, Settled
    <3>2. loop.listed \in SUBSET Fetches /\ loop.cost \in Nat
      BY <1>a DEF Loops
    <3>3. CASE SavePlan
      BY <3>3, <1>a DEF SavePlan, Rows
    <3>4. CASE Complete
      BY <3>1, <3>2, <3>4, <1>a DEF Complete, Rows
    <3>5. CASE EndCanceled
      BY <3>1, <3>2, <3>5, <1>a DEF EndCanceled, Rows
    <3>6. CASE EndFailed
      BY <3>1, <3>2, <3>6, <1>a DEF EndFailed, Rows
    <3> QED BY <1>5, <3>3, <3>4, <3>5, <3>6
  <2>3. UNCHANGED <<job, lane, spent>> /\ loop.pc # "idle"
    BY <1>5 DEF SavePlan, Complete, EndCanceled, EndFailed
  <2> QED BY <2>1, <2>2, <2>3, <1>a, <1>d, <1>e, <1>f
<1>6. CASE CompleteJob \/ FailJob
  <2>1. loop' \in Loops /\ loop'.pc = "idle"
    BY <1>6, <1>a DEF CompleteJob, FailJob, Idle, LoopPcs, Stages, Loops
  <2>2. /\ job' \in Jobs
        /\ job'.status = "queued" => job'.attempt < MaxAttempts
    BY <1>6, <1>a DEF CompleteJob, FailJob, JobStatus, Jobs
  <2>3. UNCHANGED <<row, lane, spent>>
    BY <1>6 DEF CompleteJob, FailJob
  <2> QED BY <2>1, <2>2, <2>3, <1>a, <1>d
<1>7. CASE LoopThrows
  <2>1. "failed" \in LoopPcs /\ spent' \in Budgets
    BY <1>7, ThrowsKeepsTypes DEF LoopThrows, LoopPcs
  <2>2. UNCHANGED <<row, job, lane>> /\ loop.pc # "idle" /\ loop' = [loop EXCEPT !.pc = "failed"]
    BY <1>7 DEF LoopThrows, InTry
  <2> QED BY <2>1, <2>2, <1>a, <1>c, <1>d, <1>e, <1>f
<1> QED BY <1>1, <1>2, <1>3, <1>4, <1>5, <1>6, <1>7 DEF Silent

LEMMA NotedKeepsTypes ==
    ASSUME TypeInv, Noted
    PROVE  TypeInv' /\ \E k \in StepKinds : steps' = StepRow(<<Attempt, TheLoop>>, k, loop.max)
<1> USE DEF Goto
<1>1. /\ loop \in Loops /\ loop.max \in Nat /\ job \in Jobs /\ MaxAttempts \in Nat
  BY Fields DEF Loops
<1>2. \E k \in StepKinds : steps' = StepRow(<<Attempt, TheLoop>>, k, loop.max)
  BY DEF Noted, PlanStep, ReflectStep, SynthesizeStep, StepKinds
<1>3. loop' \in Loops
  <2>1. {"savePlan", "failed", "checkJob", "complete"} \subseteq LoopPcs
        /\ {"searching", "gaps", "synthesizing"} \subseteq Stages
    BY DEF LoopPcs, Stages
  <2>2. CASE PlanStep
    BY <2>1, <2>2, <1>1 DEF PlanStep, Loops
  <2>3. CASE ReflectStep
    BY <2>1, <2>3, <1>1 DEF ReflectStep, Loops
  <2>4. CASE SynthesizeStep
    BY <2>1, <2>4, <1>1 DEF SynthesizeStep, Loops
  <2> QED BY <2>2, <2>3, <2>4 DEF Noted
<1>4. UNCHANGED <<row, job, sources, lane, fetch, command, spent>>
  BY DEF Noted, PlanStep, ReflectStep, SynthesizeStep
<1>5. Attempt \in 1..MaxAttempts /\ loop.pc # "idle"
  BY <1>1 DEF Noted, PlanStep, ReflectStep, SynthesizeStep, TypeInv, Attempt, Jobs
<1>6. <<Attempt, TheLoop>> \in Writers
  BY <1>5 DEF Writers
<1>7. StepsInv'
  BY <1>1, <1>2, <1>6, StepAdded DEF TypeInv
<1> QED BY <1>2, <1>3, <1>4, <1>5, <1>7, Fields, TypesKept DEF TypeInv

\* The moves of a lane before its search is noted, and of a fetch before it is.
LaneMove(l) == TakeQuery(l) \/ LaneCheckJob(l) \/ LaneCheckRow(l) \/ CheckThrows(l) \/ Search(l) \/ SearchThrows(l)
FetchMove(f) == Fetch(f) \/ FetchThrows(f)

LEMMA LanesAndFetches ==
    ASSUME NEW l \in Lanes
    PROVE  l \in Writers /\ l = <<l[1], l[2]>> /\ l[1] \in 1..MaxAttempts /\ l[1] \in Nat /\ l[2] # TheLoop
BY WritersAreApart, ResearchAssumption DEF Lanes, Writers, Queries, TheLoop

LEMMA FetchOfLane == ASSUME NEW f \in Fetches PROVE f[1] \in Lanes
BY DEF Fetches

LEMMA LaneMoveEffect ==
    ASSUME TypeInv, NEW l \in Lanes, LaneMove(l)
    PROVE  /\ TypeInv'
           /\ UNCHANGED <<row, job, steps, sources, fetch>>
           /\ lane[l].at \in {"waiting", "checkJob", "checkRow", "search", "searched"}
           /\ lane'[l].at # "absent" /\ (lane'[l].at = "searched" => lane'[l].max = MaxSeq)
           /\ \A m \in Lanes \ {l} : lane'[m] = lane[m]
           /\ \/ UNCHANGED loop /\ (lane'[l].at # "thrown" \/ ~Rejects(l))
              \/ loop.pc = "pass" /\ loop'.pc \in {"failed", "canceled"} /\ UNCHANGED loop.listed
<1> USE DEF Goto, Move
<1>a. /\ loop \in Loops /\ lane \in LaneStates /\ MaxSeq \in Nat
      /\ job.status = "queued" => job.attempt < MaxAttempts
      /\ loop.pc # "idle" => job.attempt > 0
  BY Fields DEF TypeInv
<1>1. UNCHANGED <<row, job, steps, sources, fetch, command>>
  BY DEF LaneMove, TakeQuery, LaneCheckJob, LaneCheckRow, CheckThrows, Search, SearchThrows, Reject
<1>2. spent' \in Budgets
  BY Fields, ThrowsKeepsTypes
     DEF LaneMove, TakeQuery, LaneCheckJob, LaneCheckRow, CheckThrows, Search, SearchThrows
<1>3. lane[l].at \in {"waiting", "checkJob", "checkRow", "search", "searched"}
  BY DEF LaneMove, TakeQuery, LaneCheckJob, LaneCheckRow, CheckThrows, Search, SearchThrows
<1>4. \/ lane' = [lane EXCEPT ![l] = [at |-> "searched", max |-> MaxSeq]]
      \/ \E at \in {"checkJob", "checkRow", "search", "fetching", "thrown"} : lane' = [lane EXCEPT ![l].at = at]
  BY DEF LaneMove, TakeQuery, LaneCheckJob, LaneCheckRow, CheckThrows, Search, SearchThrows, Reject
<1>5. /\ lane' \in LaneStates
      /\ lane'[l].at # "absent" /\ (lane'[l].at = "searched" => lane'[l].max = MaxSeq)
      /\ \A m \in Lanes \ {l} : lane'[m] = lane[m]
  <2>1. CASE lane' = [lane EXCEPT ![l] = [at |-> "searched", max |-> MaxSeq]]
    BY <2>1, <1>a DEF LaneStates, LaneAt
  <2>2. ASSUME NEW at \in {"checkJob", "checkRow", "search", "fetching", "thrown"}, lane' = [lane EXCEPT ![l].at = at]
        PROVE  /\ lane' \in LaneStates /\ lane'[l].at = at
               /\ \A m \in Lanes \ {l} : lane'[m] = lane[m]
    BY <2>2, <1>a DEF LaneStates, LaneAt
  <2> QED BY <2>1, <2>2, <1>4
<1>6. \/ UNCHANGED loop /\ (lane'[l].at # "thrown" \/ ~Rejects(l))
      \/ loop.pc = "pass" /\ \E pc \in {"failed", "canceled"} : loop' = [loop EXCEPT !.pc = pc]
  <2>1. CASE TakeQuery(l) \/ Search(l) \/ SearchThrows(l)
    BY <2>1, <1>a DEF TakeQuery, Search, SearchThrows, LaneStates
  <2>2. CASE LaneCheckJob(l) \/ LaneCheckRow(l) \/ CheckThrows(l)
    BY <2>2, <1>a DEF LaneCheckJob, LaneCheckRow, CheckThrows, Reject, Rejects, LaneStates
  <2> QED BY <2>1, <2>2 DEF LaneMove
<1>7. /\ loop' \in Loops /\ (loop'.pc # "idle" => loop.pc # "idle")
      /\ \/ UNCHANGED loop /\ (lane'[l].at # "thrown" \/ ~Rejects(l))
         \/ loop.pc = "pass" /\ loop'.pc \in {"failed", "canceled"} /\ UNCHANGED loop.listed
  BY <1>6, <1>a DEF Loops, LoopPcs
<1>8. TypeInv'
  BY <1>a, <1>1, <1>2, <1>5, <1>7, Fields, TypesKept
<1> QED BY <1>1, <1>3, <1>5, <1>7, <1>8

LEMMA SearchStepEffect ==
    ASSUME TypeInv, NEW l \in Lanes, SearchStep(l)
    PROVE  /\ TypeInv'
           /\ UNCHANGED <<row, job, sources, loop>>
           /\ lane[l].at = "searched" /\ lane'[l].at = "fetching" /\ lane[l].max \in Nat
           /\ steps' = StepRow(l, "search", lane[l].max)
           /\ \A m \in Lanes \ {l} : lane'[m] = lane[m]
           /\ \A f \in Fetches : fetch'[f] = fetch[f] \/ (f[1] = l /\ fetch'[f].at = "fetch")
<1> USE DEF Move
<1>1. lane \in LaneStates /\ fetch \in FetchStates
  BY Fields
<1>2. /\ lane' \in LaneStates /\ lane'[l].at = "fetching" /\ lane[l].max \in Nat
      /\ \A m \in Lanes \ {l} : lane'[m] = lane[m]
  BY <1>1 DEF SearchStep, LaneStates, LaneAt
<1>3. PICK hits \in 0..UrlsPerQuestion :
        fetch' = [f \in Fetches |-> IF f[1] = l /\ f[2] <= hits THEN [fetch[f] EXCEPT !.at = "fetch"] ELSE fetch[f]]
  BY DEF SearchStep
<1>4. /\ fetch' \in FetchStates
      /\ \A f \in Fetches : fetch'[f] = fetch[f] \/ (f[1] = l /\ fetch'[f].at = "fetch")
  BY <1>1, <1>3 DEF FetchStates, FetchAt
<1>5. /\ UNCHANGED <<row, job, sources, loop, command, spent>> /\ lane[l].at = "searched"
      /\ steps' = StepRow(l, "search", lane[l].max)
  BY DEF SearchStep
<1>6. StepsInv'
  BY <1>2, <1>5, LanesAndFetches, StepAdded DEF TypeInv, StepKinds
<1> QED BY <1>2, <1>4, <1>5, <1>6, Fields, TypesKept DEF TypeInv

LEMMA FetchMoveEffect ==
    ASSUME TypeInv, NEW f \in Fetches, FetchMove(f)
    PROVE  /\ TypeInv'
           /\ UNCHANGED <<row, job, steps, loop, lane>>
           /\ fetch[f].at \in {"fetch", "fetched"} /\ fetch'[f].at \in {"fetched", "done"}
           /\ fetch'[f].at = "fetched" => fetch'[f].max = MaxSeq
           /\ \A g \in Fetches \ {f} : fetch'[g] = fetch[g]
           /\ sources' \subseteq sources \cup {f}
<1>1. fetch \in FetchStates /\ MaxSeq \in Nat /\ sources \subseteq Fetches
  BY Fields
<1>2. /\ fetch' \in FetchStates /\ fetch'[f].at \in {"fetched", "done"}
      /\ fetch'[f].at = "fetched" => fetch'[f].max = MaxSeq
      /\ \A g \in Fetches \ {f} : fetch'[g] = fetch[g]
  BY <1>1 DEF FetchMove, Fetch, FetchThrows, FetchStates, FetchAt
<1>3. /\ UNCHANGED <<row, job, steps, loop, lane, command>> /\ sources' \subseteq sources \cup {f}
      /\ fetch[f].at \in {"fetch", "fetched"} /\ spent' \in Budgets
  BY Fields, ThrowsKeepsTypes DEF FetchMove, Fetch, FetchThrows
<1> QED BY <1>1, <1>2, <1>3, Fields, TypesKept DEF TypeInv

LEMMA FetchStepEffect ==
    ASSUME TypeInv, NEW f \in Fetches, FetchStep(f)
    PROVE  /\ TypeInv'
           /\ UNCHANGED <<row, job, sources, loop, lane>>
           /\ fetch[f].at = "fetched" /\ fetch'[f].at = "done" /\ fetch[f].max \in Nat
           /\ steps' = StepRow(f[1], "fetch", fetch[f].max)
           /\ \A g \in Fetches \ {f} : fetch'[g] = fetch[g]
<1>1. fetch \in FetchStates
  BY Fields
<1>2. /\ fetch' \in FetchStates /\ fetch'[f].at = "done" /\ fetch[f].max \in Nat
      /\ \A g \in Fetches \ {f} : fetch'[g] = fetch[g]
  BY <1>1 DEF FetchStep, FetchStates, FetchAt
<1>3. /\ UNCHANGED <<row, job, sources, loop, lane, command, spent>> /\ fetch[f].at = "fetched"
      /\ steps' = StepRow(f[1], "fetch", fetch[f].max)
  BY DEF FetchStep
<1>4. f[1] \in Writers
  BY FetchOfLane, LanesAndFetches
<1>5. StepsInv'
  BY <1>2, <1>3, <1>4, StepAdded DEF TypeInv, StepKinds
<1> QED BY <1>2, <1>3, <1>5, Fields, TypesKept DEF TypeInv

LEMMA CrashEffect ==
    ASSUME TypeInv, Crash
    PROVE  /\ TypeInv'
           /\ UNCHANGED <<row, job, steps, sources>>
           /\ \/ loop.pc = "idle" /\ UNCHANGED loop
              \/ loop.pc # "idle" /\ loop'.pc = "dead"
           /\ \A l \in Lanes : \/ lane'[l] = lane[l] /\ lane[l].at = "absent"
                               \/ lane'[l].at = "thrown" /\ lane[l].at # "absent"
           /\ \A f \in Fetches : fetch'[f].at \in {"absent", "done"}
<1>1. /\ loop \in Loops /\ lane \in LaneStates /\ fetch \in FetchStates
      /\ command \in [pc : {"none", "row", "job"}, jobId : BOOLEAN] /\ spent \in Budgets /\ MaxCrashes \in Nat
  BY Fields
<1>2. loop' \in Loops /\ ((loop.pc = "idle" /\ UNCHANGED loop) \/ (loop.pc # "idle" /\ loop'.pc = "dead"))
  <2>1. "dead" \in LoopPcs
    BY DEF LoopPcs
  <2>2. (loop.pc = "idle" /\ UNCHANGED loop) \/ (loop.pc # "idle" /\ loop' = [loop EXCEPT !.pc = "dead"])
    BY DEF Crash
  <2> QED BY <2>1, <2>2, <1>1 DEF Loops
<1>3. /\ lane' \in LaneStates
      /\ \A l \in Lanes : \/ lane'[l] = lane[l] /\ lane[l].at = "absent"
                          \/ lane'[l].at = "thrown" /\ lane[l].at # "absent"
  <2>1. \A l \in Lanes : lane[l] \in [at : LaneAt, max : Nat]
    BY <1>1 DEF LaneStates
  <2>2. "thrown" \in LaneAt
    BY DEF LaneAt
  <2>3. lane' = [l \in Lanes |-> IF lane[l].at = "absent" THEN lane[l] ELSE [lane[l] EXCEPT !.at = "thrown"]]
    BY DEF Crash
  <2>4. \A l \in Lanes : /\ lane'[l] \in [at : LaneAt, max : Nat]
                         /\ \/ lane'[l] = lane[l] /\ lane[l].at = "absent"
                            \/ lane'[l].at = "thrown" /\ lane[l].at # "absent"
    BY <2>1, <2>2, <2>3
  <2>5. lane' = [l \in Lanes |-> lane'[l]]
    BY <2>3
  <2>6. lane' \in LaneStates
    BY <2>4, <2>5 DEF LaneStates
  <2> QED BY <2>4, <2>6
<1>4. fetch' \in FetchStates /\ \A f \in Fetches : fetch'[f].at \in {"absent", "done"}
  BY <1>1 DEF Crash, FetchStates, FetchAt
<1>5. /\ UNCHANGED <<row, job, steps, sources>> /\ spent' \in Budgets
      /\ command' \in [pc : {"none", "row", "job"}, jobId : BOOLEAN]
  BY <1>1 DEF Crash, Budgets
<1> QED BY <1>2, <1>3, <1>4, <1>5, Fields, TypesKept DEF TypeInv

LEMMA TypesBegin == Init => TypeInv
<1> SUFFICES ASSUME Init PROVE TypeInv
  OBVIOUS
<1>1. StepsInv
  BY DEF Init, StepsInv, HasTop, Numbers, Range
<1>2. TypeOK
  BY ResearchAssumption DEF Init, TypeOK, Idle, RowStatus, JobStatus, LoopPcs, Stages, LaneAt, FetchAt
<1>3. job.attempt < MaxAttempts /\ loop.pc = "idle"
  BY ResearchAssumption DEF Init, Idle
<1> QED BY <1>1, <1>2, <1>3 DEF TypeInv

\* A step is one of these.
LEMMA StepsAre ==
    ASSUME [Next]_vars
    PROVE  \/ Outside \/ Silent \/ Noted \/ Crash \/ UNCHANGED vars
           \/ \E l \in Lanes : LaneMove(l) \/ SearchStep(l)
           \/ \E f \in Fetches : FetchMove(f) \/ FetchStep(f)
BY DEF Next, Outside, LoopStep, Silent, Noted, LaneStep, LaneMove, FetchesOn, FetchMove

LEMMA TypesStep == TypeInv /\ [Next]_vars => TypeInv'
<1>1. UNCHANGED vars /\ TypeInv => TypeInv'
  BY DEF vars, TypeInv, TypeOK, StepsInv, HasTop, Numbers
<1> QED
  BY <1>1, StepsAre, OutsideKeepsTypes, SilentKeepsTypes, NotedKeepsTypes, LaneMoveEffect, SearchStepEffect,
     FetchMoveEffect, FetchStepEffect, CrashEffect

-----------------------------------------------------------------------------
(* Where lanes may be at work. *)

Calm == {"idle", "pass", "failed", "canceled", "returned", "threw", "dead"}

\* Outside of a pass, and of an attempt that has ended, no lane of the attempt is under way; a lane that throws
\* takes the loop out of its pass, and only a lane that waits for its fetches has any.
PhaseInv ==
  /\ \A l \in Lanes : l[1] > Attempt => lane[l].at = "absent"
  /\ loop.pc \notin Calm => \A l \in Lanes : l[1] = Attempt => lane[l].at = "absent" \/ Through(l)
  /\ loop.pc = "pass" => \A l \in Lanes : l[1] = Attempt => lane[l].at # "thrown"
  /\ \A f \in Fetches : fetch[f].at \in {"fetch", "fetched"} => lane[f[1]].at = "fetching"

LEMMA SilentKeepsPhase ==
    ASSUME TypeInv, PhaseInv, Silent
    PROVE  PhaseInv'
<1> USE DEF Goto, Attempt
<1>0. /\ job.attempt \in Nat /\ \A l \in Lanes : l[1] \in Nat
      /\ loop \in Loops /\ job \in Jobs /\ lane \in LaneStates
  BY Fields, LanesAndFetches DEF Jobs
<1>a. UNCHANGED fetch
  BY DEF Silent, StartLoop, CheckJob, CheckRow, EnterStage, Planner, Preapproved, SavePlan, PassEnds, Reflect,
     Synthesize, Cite, Complete, EndCanceled, EndFailed, CompleteJob, FailJob, LoopThrows
<1>1. ASSUME UNCHANGED lane, job'.attempt = job.attempt, loop.pc \in Calm => loop'.pc \in Calm,
             loop'.pc # "pass"
      PROVE  PhaseInv'
  BY <1>1, <1>a DEF PhaseInv, Through
<1>2. CASE StartLoop
  <2>1. job'.attempt = job.attempt + 1 /\ UNCHANGED lane /\ loop'.pc \in {"preapproved", "checkJob"}
    BY <1>2, <1>0 DEF StartLoop, Idle
  <2> QED BY <2>1, <1>0, <1>a DEF PhaseInv, Through
<1>3. CASE EnterStage
  <2>1. job' = job /\ \A l \in Lanes : l[1] = job.attempt => lane[l].at = "absent" \/ Through(l)
    BY <1>3 DEF EnterStage, PhaseInv, Calm
  <2>2. CASE UNCHANGED lane /\ loop'.pc \in {"planner", "reflect", "synthesize"}
    BY <2>1, <2>2, <1>3, <1>1 DEF EnterStage, Calm
  <2>3. CASE loop'.pc = "pass" /\ \E Q \in SUBSET Queries : Begin(Q)
    <3>1. PICK Q \in SUBSET Queries : Begin(Q)
      BY <2>3
    <3>2. \A l \in Lanes : \/ lane'[l] = lane[l]
                           \/ l[1] = job.attempt /\ lane'[l].at = "waiting"
      BY <3>1 DEF Begin
    <3>3. \A l \in Lanes : l[1] = job.attempt => lane'[l].at # "thrown"
      BY <2>1, <3>2 DEF Through
    <3>4. ASSUME NEW f \in Fetches, fetch'[f].at \in {"fetch", "fetched"} PROVE lane'[f[1]].at = "fetching"
      <4>1. f[1] \in Lanes /\ lane[f[1]].at = "fetching" /\ ~Through(f[1])
        BY <3>4, <1>a, FetchOfLane DEF PhaseInv, Through
      <4> QED BY <4>1, <2>1, <3>2
    <3>5. \A l \in Lanes : l[1] > job.attempt => lane'[l].at = "absent"
      BY <3>2, <1>0 DEF PhaseInv
    <3> QED BY <2>1, <2>3, <3>3, <3>4, <3>5 DEF PhaseInv, Calm
  <2>4. Questions \in SUBSET Queries /\ loop.gaps \in SUBSET Queries
    BY <1>0 DEF Queries, Loops
  <2>5. \/ loop' = [loop EXCEPT !.pc = "pass"] /\ (Begin(Questions) \/ Begin(loop.gaps))
        \/ UNCHANGED lane /\ \E pc \in {"planner", "reflect", "synthesize"} : loop' = [loop EXCEPT !.pc = pc]
    BY <1>3 DEF EnterStage
  <2>6. \/ loop'.pc = "pass" /\ (Begin(Questions) \/ Begin(loop.gaps))
        \/ UNCHANGED lane /\ loop'.pc \in {"planner", "reflect", "synthesize"}
    BY <2>5, <1>0 DEF Loops
  <2> QED BY <2>2, <2>3, <2>4, <2>6
<1>4. CASE PassEnds
  <2>1. UNCHANGED <<lane, job>> /\ loop'.pc = "checkJob"
    BY <1>4, <1>0 DEF PassEnds, ThenReflect, Loops
  <2>2. \A l \in Lanes : l[1] = job.attempt => lane[l].at = "absent" \/ Through(l)
    BY <1>4 DEF PassEnds, AllLanesDone, Pass, PhaseInv
  <2> QED BY <2>1, <2>2, <1>a DEF PhaseInv, Through
<1>5. CASE CheckJob \/ CheckRow \/ SavePlan \/ Preapproved \/ Cite
  BY <1>5, <1>0, <1>1 DEF CheckJob, CheckRow, SavePlan, Preapproved, Cite, Calm, Loops
<1>6. CASE Planner \/ Reflect \/ Synthesize \/ LoopThrows
  <2>1. UNCHANGED <<lane, job>> /\ loop.pc \notin Calm
    BY <1>6 DEF Planner, Reflect, Synthesize, LoopThrows, InTry, Calm
  <2>2. loop'.pc # "pass"
    BY <1>6, <1>0 DEF Planner, Reflect, Synthesize, LoopThrows, Loops
  <2> QED BY <2>1, <2>2, <1>1
<1>7. CASE Complete \/ EndCanceled \/ EndFailed
  BY <1>7, <1>0, <1>1 DEF Complete, EndCanceled, EndFailed, Calm, Loops
<1>8. CASE CompleteJob \/ FailJob
  <2>1. UNCHANGED lane /\ job'.attempt = job.attempt /\ loop'.pc = "idle"
    BY <1>8, <1>0 DEF CompleteJob, FailJob, Idle, Jobs
  <2> QED BY <2>1, <1>1 DEF Calm
<1> QED BY <1>2, <1>3, <1>4, <1>5, <1>6, <1>7, <1>8 DEF Silent

LEMMA NotedMoves ==
    ASSUME TypeInv, Noted
    PROVE  /\ UNCHANGED <<row, job, sources, lane, fetch, command, spent>>
           /\ loop.pc \in {"planStep", "noPlanStep", "preStep", "reflectStep", "synthStep"}
           /\ loop'.pc \in {"savePlan", "failed", "checkJob", "complete"} /\ UNCHANGED loop.listed
           /\ loop'.pc = "complete" => loop.pc = "synthStep"
BY DEF Noted, PlanStep, ReflectStep, SynthesizeStep, Goto, TypeInv, TypeOK

\* A lane or a fetch at work belongs to the pass of the loop, or to an attempt that is over.
LEMMA LaneAtWork ==
    ASSUME TypeInv, PhaseInv, NEW l \in Lanes, lane[l].at # "absent", ~Through(l)
    PROVE  l[1] <= Attempt /\ (l[1] = Attempt => loop.pc \in Calm)
BY Fields, LanesAndFetches DEF PhaseInv, Attempt, Jobs

LEMMA FetchAtWork ==
    ASSUME TypeInv, PhaseInv, NEW f \in Fetches, fetch[f].at \in {"fetch", "fetched"}
    PROVE  /\ f[1] \in Lanes /\ lane[f[1]].at = "fetching"
           /\ f[1][1] <= Attempt /\ (f[1][1] = Attempt => loop.pc \in Calm)
<1>1. f[1] \in Lanes /\ lane[f[1]].at = "fetching"
  BY FetchOfLane DEF PhaseInv
<1>2. ~Through(f[1])
  BY DEF Through
<1> QED BY <1>1, <1>2, LaneAtWork

LEMMA PhaseStep == TypeInv /\ PhaseInv /\ [Next]_vars => PhaseInv'
<1> SUFFICES ASSUME TypeInv, PhaseInv, [Next]_vars PROVE PhaseInv'
  OBVIOUS
<1>0. Attempt \in Nat /\ \A l \in Lanes : l[1] \in Nat
  BY Fields, LanesAndFetches DEF Attempt, Jobs
<1>1. CASE Outside \/ UNCHANGED vars
  <2>1. UNCHANGED <<loop, lane, fetch>> /\ job'.attempt = job.attempt
    BY <1>1 DEF Outside, LinkJob, CancelRead, CancelRow, CancelTheJob, vars, TypeInv, TypeOK
  <2> QED BY <2>1 DEF PhaseInv, Attempt, Through
<1>2. CASE Noted
  <2>1. UNCHANGED <<lane, fetch, job>> /\ loop.pc \notin Calm /\ loop'.pc # "pass"
    BY <1>2, NotedMoves DEF Calm
  <2> QED BY <2>1 DEF PhaseInv, Attempt, Through
<1>3. ASSUME NEW l \in Lanes, LaneMove(l) PROVE PhaseInv'
  <2>1. /\ \A m \in Lanes \ {l} : lane'[m] = lane[m]
        /\ lane[l].at \notin {"absent", "fetching"} /\ lane'[l].at # "absent" /\ UNCHANGED <<job, fetch>>
    BY <1>3, LaneMoveEffect
  <2>2. l[1] <= Attempt /\ (l[1] = Attempt => loop.pc \in Calm)
    BY <2>1, LaneAtWork DEF Through
  <2>4. ASSUME NEW m \in Lanes \ {l}, lane[m].at = "absent" \/ Through(m)
        PROVE  lane'[m].at = "absent" \/ Through(m)'
    <3>1. lane'[m] = lane[m] /\ fetch' = fetch
      BY <2>1
    <3> QED BY <2>4, <3>1 DEF Through
  <2>5. \A f \in Fetches : fetch'[f].at \in {"fetch", "fetched"} => lane'[f[1]].at = "fetching"
    BY <2>1, FetchOfLane DEF PhaseInv
  <2>6. \A m \in Lanes : m[1] > Attempt' => lane'[m].at = "absent"
    BY <1>0, <2>1, <2>2 DEF PhaseInv, Attempt
  <2>7. CASE UNCHANGED loop /\ (lane'[l].at # "thrown" \/ ~Rejects(l))
    BY <2>1, <2>2, <2>4, <2>5, <2>6, <2>7 DEF PhaseInv, Attempt, Rejects
  <2>8. CASE loop.pc = "pass" /\ loop'.pc \in {"failed", "canceled"}
    BY <2>5, <2>6, <2>8 DEF PhaseInv, Calm
  <2> QED BY <1>3, LaneMoveEffect, <2>7, <2>8
<1>4. ASSUME NEW l \in Lanes, SearchStep(l) PROVE PhaseInv'
  <2>1. /\ \A m \in Lanes \ {l} : lane'[m] = lane[m]
        /\ lane[l].at = "searched" /\ lane'[l].at = "fetching" /\ UNCHANGED <<job, loop>>
        /\ \A f \in Fetches : fetch'[f] = fetch[f] \/ (f[1] = l /\ fetch'[f].at = "fetch")
    BY <1>4, SearchStepEffect
  <2>2. l[1] <= Attempt /\ (l[1] = Attempt => loop.pc \in Calm)
    BY <2>1, LaneAtWork DEF Through
  <2>3. \A m \in Lanes \ {l} : lane[m].at = "absent" \/ Through(m) => lane'[m].at = "absent" \/ Through(m)'
    BY <2>1 DEF Through
  <2>4. \A f \in Fetches : fetch'[f].at \in {"fetch", "fetched"} => lane'[f[1]].at = "fetching"
    BY <2>1, FetchOfLane DEF PhaseInv
  <2>5. \A m \in Lanes : m[1] > Attempt' => lane'[m].at = "absent"
    BY <1>0, <2>1, <2>2 DEF PhaseInv, Attempt
  <2> QED BY <2>1, <2>2, <2>3, <2>4, <2>5 DEF PhaseInv, Attempt
<1>5. ASSUME NEW f \in Fetches, FetchMove(f) \/ FetchStep(f) PROVE PhaseInv'
  <2>1. /\ UNCHANGED <<job, loop, lane>> /\ fetch[f].at \in {"fetch", "fetched"} /\ fetch'[f].at \in {"fetched", "done"}
        /\ \A g \in Fetches \ {f} : fetch'[g] = fetch[g]
    BY <1>5, FetchMoveEffect, FetchStepEffect
  <2>2. f[1] \in Lanes /\ lane[f[1]].at = "fetching" /\ (f[1][1] = Attempt => loop.pc \in Calm)
    BY <2>1, FetchAtWork
  <2>3. \A m \in Lanes : Through(m) => Through(m)'
    BY <2>1 DEF Through
  <2> QED BY <2>1, <2>2, <2>3 DEF PhaseInv, Attempt
<1>6. CASE Crash
  BY <1>6, CrashEffect DEF PhaseInv, Attempt, Calm
<1> QED
  BY <1>1, <1>2, <1>3, <1>4, <1>5, <1>6, SilentKeepsPhase, StepsAre

-----------------------------------------------------------------------------
(* Numbers already read. *)

Writing == {"planStep", "noPlanStep", "preStep", "reflectStep", "synthStep"}

\* The steps a lane's search, and a fetch, come after.
BeforeSearch(s, l) == s.by[1] = l[1] /\ s.by[2] \in {l[2], TheLoop}
BeforeFetch(s, l)  == s.by[1] = l[1] /\ (s.by[2] = TheLoop \/ (s.by[2] = l[2] /\ s.kind # "fetch"))

\* A number read before a step is written is still above every related step
\* when the row is inserted, whoever has written in between.
TraceInv ==
  /\ \A i \in DOMAIN steps : steps[i].by[1] <= Attempt
  /\ loop.pc \in Writing =>
       \A i \in DOMAIN steps : (steps[i].by[1] = Attempt \/ steps[i].by[2] = TheLoop) => steps[i].seq <= loop.max
  /\ \A l \in Lanes : lane[l].at = "searched" =>
       \A i \in DOMAIN steps : BeforeSearch(steps[i], l) => steps[i].seq <= lane[l].max
  /\ \A f \in Fetches : fetch[f].at = "fetched" =>
       \A i \in DOMAIN steps : BeforeFetch(steps[i], f[1]) => steps[i].seq <= fetch[f].max
  /\ TraceIsCausal

LEMMA NothingAdded ==
    ASSUME TypeInv, TraceInv, UNCHANGED steps, Attempt' \in {Attempt, Attempt + 1},
           loop'.pc \in Writing => (loop' = loop /\ Attempt' = Attempt) \/ loop'.max = MaxSeq,
           \A l \in Lanes : lane'[l].at = "searched" => lane'[l] = lane[l] \/ lane'[l].max = MaxSeq,
           \A f \in Fetches : fetch'[f].at = "fetched" => fetch'[f] = fetch[f] \/ fetch'[f].max = MaxSeq
    PROVE  TraceInv'
<1>1. \A i \in DOMAIN steps : steps[i].seq <= MaxSeq
  BY TopNumber DEF TypeInv
<1>2. \A i \in DOMAIN steps : steps[i].by[1] <= Attempt'
  <2>1. Attempt \in Nat
    BY Fields DEF Attempt, Jobs
  <2>2. \A i \in DOMAIN steps : steps[i].by[1] \in Nat
    BY RowsOfTrace, Fields DEF TypeInv, StepRows, Writers
  <2> QED BY <2>1, <2>2 DEF TraceInv
<1>3. TraceIsCausal'
  BY DEF TraceInv, TraceIsCausal
<1>4. loop'.pc \in Writing =>
        \A i \in DOMAIN steps :
          (steps[i].by[1] = Attempt' \/ steps[i].by[2] = TheLoop) => steps[i].seq <= loop'.max
  BY <1>1 DEF TraceInv
<1>5. \A l \in Lanes : lane'[l].at = "searched" =>
        \A i \in DOMAIN steps : BeforeSearch(steps[i], l) => steps[i].seq <= lane'[l].max
  BY <1>1 DEF TraceInv
<1>6. \A f \in Fetches : fetch'[f].at = "fetched" =>
        \A i \in DOMAIN steps : BeforeFetch(steps[i], f[1]) => steps[i].seq <= fetch'[f].max
  BY <1>1 DEF TraceInv
<1> QED BY <1>2, <1>3, <1>4, <1>5, <1>6 DEF TraceInv, BeforeSearch, BeforeFetch

\* What every other step of the loop does to the numbers read.
LEMMA SilentReads ==
    ASSUME TypeInv, Silent
    PROVE  /\ UNCHANGED <<steps, fetch>> /\ Attempt' \in {Attempt, Attempt + 1}
           /\ loop'.pc \in Writing => loop'.max = MaxSeq
           /\ \A l \in Lanes : lane'[l].at = "searched" => lane'[l] = lane[l]
<1> USE DEF Goto, Attempt
<1>1. loop \in Loops /\ job \in Jobs
  BY Fields
<1>2. UNCHANGED <<steps, fetch>>
  BY DEF Silent, StartLoop, CheckJob, CheckRow, EnterStage, Planner, Preapproved, SavePlan, PassEnds, Reflect,
     Synthesize, Cite, Complete, EndCanceled, EndFailed, CompleteJob, FailJob, LoopThrows
<1>3. job'.attempt \in {job.attempt, job.attempt + 1}
  <2>1. \/ job' = job \/ job' = [status |-> "running", attempt |-> job.attempt + 1]
        \/ \E s \in JobStatus : job' = [job EXCEPT !.status = s]
    BY DEF JobStatus, Silent, StartLoop, CheckJob, CheckRow, EnterStage, Planner, Preapproved, SavePlan, PassEnds,
       Reflect, Synthesize, Cite, Complete, EndCanceled, EndFailed, CompleteJob, FailJob, LoopThrows
  <2> QED BY <2>1, <1>1 DEF Jobs
<1>4. \A l \in Lanes : lane'[l].at = "searched" => lane'[l] = lane[l]
  <2>1. UNCHANGED lane \/ Begin(Questions) \/ Begin(loop.gaps)
    BY DEF Silent, StartLoop, CheckJob, CheckRow, EnterStage, Planner, Preapproved, SavePlan, PassEnds, Reflect,
       Synthesize, Cite, Complete, EndCanceled, EndFailed, CompleteJob, FailJob, LoopThrows
  <2>2. \A l \in Lanes : lane'[l] = lane[l] \/ lane'[l].at = "waiting"
    BY <2>1 DEF Begin
  <2> QED BY <2>2
<1>5. loop'.pc \in Writing => loop'.max = MaxSeq
  <2>1. CASE StartLoop \/ CompleteJob \/ FailJob
    BY <2>1 DEF StartLoop, CompleteJob, FailJob, Idle, Writing
  <2>2. CASE CheckJob \/ CheckRow \/ SavePlan \/ Complete \/ EndCanceled \/ EndFailed \/ LoopThrows
    BY <1>1, <2>2 DEF CheckJob, CheckRow, SavePlan, Complete, EndCanceled, EndFailed, LoopThrows, Writing, Loops
  <2>3. CASE PassEnds
    BY <1>1, <2>3 DEF PassEnds, ThenReflect, Writing, Loops
  <2>4. CASE EnterStage
    <3>1. \E pc \in {"planner", "pass", "reflect", "synthesize"} : loop' = [loop EXCEPT !.pc = pc]
      BY <2>4 DEF EnterStage
    <3> QED BY <3>1, <1>1 DEF Writing, Loops
  <2>5. CASE Planner \/ Preapproved \/ Cite
    BY <1>1, <2>5 DEF Planner, Preapproved, Cite, Writing, Loops
  <2>6. CASE Reflect
    BY <1>1, <2>6 DEF Reflect, Writing, Loops
  <2>7. CASE Synthesize
    BY <1>1, <2>7 DEF Synthesize, Writing, Loops
  <2> QED BY <2>1, <2>2, <2>3, <2>4, <2>5, <2>6, <2>7 DEF Silent
<1> QED BY <1>2, <1>3, <1>4, <1>5

\* A row is inserted by a writer whose number is above every related step.
LEMMA CausalAppend ==
    ASSUME TypeInv, TraceInv, NEW w \in Writers, NEW k \in StepKinds, NEW m \in Nat,
           steps' = StepRow(w, k, m),
           \A i \in DOMAIN steps : Related(steps[i], [by |-> w, kind |-> k, seq |-> m + 1]) => steps[i].seq <= m
    PROVE  TraceIsCausal'
<1> DEFINE new == [by |-> w, kind |-> k, seq |-> m + 1]
           n == Len(steps)
<1>1. /\ n \in Nat /\ DOMAIN steps = 1..n /\ DOMAIN steps' = 1..n + 1
      /\ \A i \in DOMAIN steps : steps'[i] = steps[i]
      /\ steps'[n + 1] = new /\ new.seq = m + 1
  BY StepAdded DEF TypeInv
<1>2. \A i \in 1..n : Related(steps[i], new) => steps[i].seq <= m
  BY <1>1
<1>3. \A i \in 1..n : steps[i].seq \in Nat
  BY <1>1, RowsOfTrace DEF TypeInv, StepRows
<1> HIDE DEF new, n
<1>4. ASSUME NEW i \in 1..n + 1, NEW j \in 1..n + 1, i < j, Related(steps'[i], steps'[j])
      PROVE  steps'[i].seq < steps'[j].seq
  <2>1. i \in 1..n
    BY <1>1, <1>4
  <2>2. CASE j \in 1..n
    BY <2>1, <2>2, <1>1, <1>4 DEF TraceInv, TraceIsCausal
  <2>3. CASE j = n + 1
    BY <2>1, <2>3, <1>1, <1>2, <1>3, <1>4
  <2> QED BY <2>2, <2>3, <1>1
<1> QED BY <1>1, <1>4 DEF TraceIsCausal, Related

\* The rows after an insert are those before it and the new one.
LEMMA RowsAfter ==
    ASSUME TypeInv, NEW w \in Writers, NEW k \in StepKinds, NEW m \in Nat, steps' = StepRow(w, k, m)
    PROVE  \A i \in DOMAIN steps' : \/ i \in DOMAIN steps /\ steps'[i] = steps[i]
                                    \/ steps'[i].by = w /\ steps'[i].kind = k
<1>1. /\ Len(steps) \in Nat /\ DOMAIN steps = 1..Len(steps) /\ DOMAIN steps' = 1..Len(steps) + 1
      /\ \A i \in DOMAIN steps : steps'[i] = steps[i]
      /\ steps'[Len(steps) + 1] = [by |-> w, kind |-> k, seq |-> m + 1]
  BY StepAdded DEF TypeInv
<1> QED BY <1>1

LEMMA NotedKeepsTrace ==
    ASSUME TypeInv, PhaseInv, TraceInv, Noted
    PROVE  TraceInv'
<1>1. PICK k \in StepKinds : steps' = StepRow(<<Attempt, TheLoop>>, k, loop.max)
  BY NotedKeepsTypes
<1>2. /\ UNCHANGED <<job, lane, fetch>> /\ loop.pc \in Writing /\ loop'.pc \notin Writing
      /\ loop.pc \notin Calm /\ loop.pc # "idle" /\ Attempt' = Attempt
  BY NotedMoves DEF Writing, Calm, Attempt
<1>3. loop.max \in Nat /\ Attempt \in 1..MaxAttempts /\ Attempt \in Nat
  BY <1>2, Fields DEF TypeInv, Attempt, Jobs, Loops
<1>4. <<Attempt, TheLoop>> \in Writers
  BY <1>3 DEF Writers
<1>5. \A i \in DOMAIN steps' : \/ i \in DOMAIN steps /\ steps'[i] = steps[i]
                               \/ steps'[i].by = <<Attempt, TheLoop>>
  BY <1>1, <1>3, <1>4, RowsAfter
<1>6. TraceIsCausal'
  <2>1. \A i \in DOMAIN steps :
          Related(steps[i], [by |-> <<Attempt, TheLoop>>, kind |-> k, seq |-> loop.max + 1]) => steps[i].seq <= loop.max
    BY <1>2 DEF TraceInv, Related
  <2> QED BY <2>1, <1>1, <1>3, <1>4, CausalAppend
<1>7. \A i \in DOMAIN steps' : steps'[i].by[1] <= Attempt
  BY <1>3, <1>5 DEF TraceInv
<1>8. \A l \in Lanes : lane[l].at = "searched" =>
        \A i \in DOMAIN steps' : BeforeSearch(steps'[i], l) => steps'[i].seq <= lane[l].max
  <2>1. \A l \in Lanes : lane[l].at = "searched" => l[1] # Attempt
    BY <1>2, LaneAtWork DEF Through
  <2> QED BY <2>1, <1>5 DEF TraceInv, BeforeSearch
<1>9. \A f \in Fetches : fetch[f].at = "fetched" =>
        \A i \in DOMAIN steps' : BeforeFetch(steps'[i], f[1]) => steps'[i].seq <= fetch[f].max
  <2>1. \A f \in Fetches : fetch[f].at = "fetched" => f[1][1] # Attempt
    BY <1>2, FetchAtWork
  <2> QED BY <2>1, <1>5 DEF TraceInv, BeforeFetch
<1> QED BY <1>2, <1>6, <1>7, <1>8, <1>9 DEF TraceInv, BeforeSearch, BeforeFetch

\* A row of a lane disturbs neither the loop nor another lane.
LEMMA LaneRowKeepsOthers ==
    ASSUME TypeInv, PhaseInv, TraceInv, NEW l \in Lanes, NEW k \in StepKinds, NEW m \in Nat,
           steps' = StepRow(l, k, m), UNCHANGED <<job, loop>>, lane[l].at # "absent", ~Through(l)
    PROVE  /\ \A i \in DOMAIN steps' : steps'[i].by[1] <= Attempt'
           /\ loop'.pc \in Writing =>
                \A i \in DOMAIN steps' :
                  (steps'[i].by[1] = Attempt' \/ steps'[i].by[2] = TheLoop) => steps'[i].seq <= loop'.max
           /\ \A o \in Lanes \ {l} : lane[o].at = "searched" =>
                \A i \in DOMAIN steps' : BeforeSearch(steps'[i], o) => steps'[i].seq <= lane[o].max
           /\ \A f \in Fetches : fetch[f].at = "fetched" /\ (f[1] # l \/ k = "fetch") =>
                \A i \in DOMAIN steps' : BeforeFetch(steps'[i], f[1]) => steps'[i].seq <= fetch[f].max
<1>1. \A i \in DOMAIN steps' : \/ i \in DOMAIN steps /\ steps'[i] = steps[i]
                               \/ steps'[i].by = l /\ steps'[i].kind = k
  BY LanesAndFetches, RowsAfter
<1>2. l[1] <= Attempt /\ (l[1] = Attempt => loop.pc \notin Writing) /\ l[2] # TheLoop
  BY LaneAtWork, LanesAndFetches DEF Calm, Writing
<1>3. Attempt' = Attempt
  BY DEF Attempt
<1>4. \A o \in Lanes \ {l} : l[1] # o[1] \/ l[2] # o[2]
  BY LanesAndFetches
<1>5. \A i \in DOMAIN steps' : steps'[i].by[1] <= Attempt
  BY <1>1, <1>2 DEF TraceInv
<1>6. loop.pc \in Writing =>
        \A i \in DOMAIN steps' :
          (steps'[i].by[1] = Attempt \/ steps'[i].by[2] = TheLoop) => steps'[i].seq <= loop.max
  BY <1>1, <1>2 DEF TraceInv
<1>7. \A o \in Lanes \ {l} : lane[o].at = "searched" =>
        \A i \in DOMAIN steps' : BeforeSearch(steps'[i], o) => steps'[i].seq <= lane[o].max
  BY <1>1, <1>2, <1>4 DEF TraceInv, BeforeSearch
<1>8. ASSUME NEW f \in Fetches, fetch[f].at = "fetched", f[1] # l \/ k = "fetch"
      PROVE  \A i \in DOMAIN steps' : BeforeFetch(steps'[i], f[1]) => steps'[i].seq <= fetch[f].max
  <2>1. k = "fetch" \/ l[1] # f[1][1] \/ l[2] # f[1][2]
    BY <1>4, <1>8, FetchOfLane
  <2> QED BY <2>1, <1>1, <1>2, <1>8 DEF TraceInv, BeforeFetch
<1> QED BY <1>3, <1>5, <1>6, <1>7, <1>8

LEMMA SearchStepKeepsTrace ==
    ASSUME TypeInv, PhaseInv, TraceInv, NEW l \in Lanes, SearchStep(l)
    PROVE  TraceInv'
<1>1. /\ UNCHANGED <<job, loop>> /\ lane[l].at = "searched" /\ lane'[l].at = "fetching" /\ lane[l].max \in Nat
      /\ steps' = StepRow(l, "search", lane[l].max) /\ "search" \in StepKinds
      /\ \A m \in Lanes \ {l} : lane'[m] = lane[m]
      /\ \A f \in Fetches : fetch'[f] = fetch[f] \/ (f[1] = l /\ fetch'[f].at = "fetch")
  BY SearchStepEffect DEF StepKinds
<1>2. ~Through(l)
  BY <1>1 DEF Through
<1>3. \A f \in Fetches : fetch'[f].at = "fetched" => fetch'[f] = fetch[f] /\ f[1] # l
  BY <1>1 DEF PhaseInv
<1>4. TraceIsCausal'
  <2>1. \A i \in DOMAIN steps :
          Related(steps[i], [by |-> l, kind |-> "search", seq |-> lane[l].max + 1]) => steps[i].seq <= lane[l].max
    BY <1>1, LanesAndFetches DEF TraceInv, Related, BeforeSearch
  <2> QED BY <2>1, <1>1, LanesAndFetches, CausalAppend
<1>5. \A o \in Lanes : lane'[o].at = "searched" =>
        \A i \in DOMAIN steps' : BeforeSearch(steps'[i], o) => steps'[i].seq <= lane'[o].max
  BY <1>1, <1>2, LaneRowKeepsOthers
<1>6. \A f \in Fetches : fetch'[f].at = "fetched" =>
        \A i \in DOMAIN steps' : BeforeFetch(steps'[i], f[1]) => steps'[i].seq <= fetch'[f].max
  BY <1>1, <1>2, <1>3, LaneRowKeepsOthers
<1>7. /\ \A i \in DOMAIN steps' : steps'[i].by[1] <= Attempt'
      /\ loop'.pc \in Writing =>
           \A i \in DOMAIN steps' :
             (steps'[i].by[1] = Attempt' \/ steps'[i].by[2] = TheLoop) => steps'[i].seq <= loop'.max
  BY <1>1, <1>2, LaneRowKeepsOthers
<1> QED BY <1>4, <1>5, <1>6, <1>7 DEF TraceInv, BeforeSearch, BeforeFetch

LEMMA FetchStepKeepsTrace ==
    ASSUME TypeInv, PhaseInv, TraceInv, NEW f \in Fetches, FetchStep(f)
    PROVE  TraceInv'
<1> DEFINE l == f[1]
<1>1. /\ UNCHANGED <<job, loop, lane>> /\ fetch[f].at = "fetched" /\ fetch'[f].at = "done" /\ fetch[f].max \in Nat
      /\ steps' = StepRow(l, "fetch", fetch[f].max) /\ "fetch" \in StepKinds
      /\ \A g \in Fetches \ {f} : fetch'[g] = fetch[g]
  BY FetchStepEffect DEF StepKinds
<1>2. l \in Lanes /\ lane[l].at = "fetching" /\ ~Through(l)
  BY <1>1, FetchAtWork DEF Through
<1> HIDE DEF l
<1>3. TraceIsCausal'
  <2>1. \A i \in DOMAIN steps : BeforeFetch(steps[i], l) => steps[i].seq <= fetch[f].max
    BY <1>1 DEF TraceInv, l
  <2>2. \A i \in DOMAIN steps :
          Related(steps[i], [by |-> l, kind |-> "fetch", seq |-> fetch[f].max + 1]) => steps[i].seq <= fetch[f].max
    BY <2>1, <1>2, LanesAndFetches DEF Related, BeforeFetch
  <2> QED BY <2>2, <1>1, <1>2, LanesAndFetches, CausalAppend
<1>4. \A o \in Lanes : lane'[o].at = "searched" =>
        \A i \in DOMAIN steps' : BeforeSearch(steps'[i], o) => steps'[i].seq <= lane'[o].max
  BY <1>1, <1>2, LaneRowKeepsOthers
<1>5. \A g \in Fetches : fetch'[g].at = "fetched" =>
        \A i \in DOMAIN steps' : BeforeFetch(steps'[i], g[1]) => steps'[i].seq <= fetch'[g].max
  BY <1>1, <1>2, LaneRowKeepsOthers
<1>6. /\ \A i \in DOMAIN steps' : steps'[i].by[1] <= Attempt'
      /\ loop'.pc \in Writing =>
           \A i \in DOMAIN steps' :
             (steps'[i].by[1] = Attempt' \/ steps'[i].by[2] = TheLoop) => steps'[i].seq <= loop'.max
  BY <1>1, <1>2, LaneRowKeepsOthers
<1> QED BY <1>3, <1>4, <1>5, <1>6 DEF TraceInv, BeforeSearch, BeforeFetch

LEMMA TraceStep == TypeInv /\ PhaseInv /\ TraceInv /\ [Next]_vars => TraceInv'
<1> SUFFICES ASSUME TypeInv, PhaseInv, TraceInv, [Next]_vars PROVE TraceInv'
  OBVIOUS
<1>1. CASE Outside \/ UNCHANGED vars
  <2>1. UNCHANGED <<loop, lane, fetch, steps>> /\ job'.attempt = job.attempt
    BY <1>1 DEF Outside, LinkJob, CancelRead, CancelRow, CancelTheJob, vars, TypeInv, TypeOK
  <2> QED BY <2>1, NothingAdded DEF Attempt
<1>2. CASE Silent
  BY <1>2, SilentReads, NothingAdded
<1>3. ASSUME NEW l \in Lanes, LaneMove(l) PROVE TraceInv'
  <2>1. /\ UNCHANGED <<job, steps, fetch>> /\ (lane'[l].at = "searched" => lane'[l].max = MaxSeq)
        /\ \A m \in Lanes \ {l} : lane'[m] = lane[m]
        /\ loop' = loop \/ loop'.pc \in {"failed", "canceled"}
    BY <1>3, LaneMoveEffect
  <2> QED BY <2>1, NothingAdded DEF Attempt, Writing
<1>4. ASSUME NEW f \in Fetches, FetchMove(f) PROVE TraceInv'
  <2>1. /\ UNCHANGED <<job, steps, loop, lane>> /\ (fetch'[f].at = "fetched" => fetch'[f].max = MaxSeq)
        /\ \A g \in Fetches \ {f} : fetch'[g] = fetch[g]
    BY <1>4, FetchMoveEffect
  <2> QED BY <2>1, NothingAdded DEF Attempt
<1>5. CASE Crash
  <2>1. /\ UNCHANGED <<job, steps>> /\ loop'.pc \notin Writing
        /\ \A l \in Lanes : lane'[l].at # "searched"
        /\ \A f \in Fetches : fetch'[f].at # "fetched"
    BY <1>5, CrashEffect DEF Writing
  <2> QED BY <2>1, NothingAdded DEF Attempt
<1> QED
  BY <1>1, <1>2, <1>3, <1>4, <1>5, NotedKeepsTrace, SearchStepKeepsTrace, FetchStepKeepsTrace, StepsAre

-----------------------------------------------------------------------------
(* The report and the outcome. *)

\* From the listing of the sources to the completion nothing is stored any more by the attempt.
Reporting == {"cite", "synthStep", "complete"}
ReportInv == loop.pc \in Reporting => \A f \in sources : f[1][1] = Attempt => f \in loop.listed

\* What the end of the loop has left on the row, and the job makes of it.
OutcomeInv ==
  /\ loop.pc = "returned" => row.status \in {"complete", "canceled"}
  /\ loop.pc = "threw"    => row.status \in {"failed", "canceled"}
  /\ JobAndRowAgree

LEMMA SilentReports ==
    ASSUME TypeInv, ReportInv, Silent
    PROVE  ReportInv'
<1> USE DEF Goto
<1>1. loop \in Loops
  BY Fields
<1>2. CASE Synthesize
  BY <1>1, <1>2 DEF Synthesize, ReportInv, Loops
<1>3. CASE Cite
  <2>1. /\ UNCHANGED <<sources, job>> /\ loop.pc \in Reporting /\ loop'.listed = loop.listed
    BY <1>1, <1>3 DEF Cite, Reporting, Loops
  <2> QED BY <2>1 DEF ReportInv, Attempt
<1>4. ASSUME loop'.pc \notin Reporting PROVE ReportInv'
  BY <1>4 DEF ReportInv
<1>5. CASE StartLoop \/ CompleteJob \/ FailJob
  BY <1>4, <1>5 DEF StartLoop, CompleteJob, FailJob, Idle, Reporting
<1>6. CASE EnterStage
  <2>1. \E pc \in {"planner", "pass", "reflect", "synthesize"} : loop' = [loop EXCEPT !.pc = pc]
    BY <1>6 DEF EnterStage
  <2> QED BY <2>1, <1>1, <1>4 DEF Reporting, Loops
<1>7. CASE PassEnds
  BY <1>1, <1>4, <1>7 DEF PassEnds, ThenReflect, Reporting, Loops
<1>8. CASE CheckJob \/ CheckRow \/ SavePlan \/ Complete \/ EndCanceled \/ EndFailed \/ LoopThrows
  BY <1>1, <1>4, <1>8 DEF CheckJob, CheckRow, SavePlan, Complete, EndCanceled, EndFailed, LoopThrows, Reporting, Loops
<1>9. CASE Planner \/ Preapproved \/ Reflect
  BY <1>1, <1>4, <1>9 DEF Planner, Preapproved, Reflect, Reporting, Loops
<1> QED BY <1>2, <1>3, <1>5, <1>6, <1>7, <1>8, <1>9 DEF Silent

LEMMA ReportStep == TypeInv /\ PhaseInv /\ ReportInv /\ [Next]_vars => ReportInv'
<1> SUFFICES ASSUME TypeInv, PhaseInv, ReportInv, [Next]_vars PROVE ReportInv'
  OBVIOUS
<1>1. CASE Outside \/ UNCHANGED vars
  <2>1. UNCHANGED <<loop, sources>> /\ job'.attempt = job.attempt
    BY <1>1 DEF Outside, LinkJob, CancelRead, CancelRow, CancelTheJob, vars, TypeInv, TypeOK
  <2> QED BY <2>1 DEF ReportInv, Attempt
<1>2. CASE Noted
  BY <1>2, NotedMoves DEF ReportInv, Attempt, Reporting
<1>3. ASSUME NEW l \in Lanes, LaneMove(l) \/ SearchStep(l) PROVE ReportInv'
  <2>1. /\ UNCHANGED <<job, sources>>
        /\ loop' = loop \/ loop'.pc \in {"failed", "canceled"}
    BY <1>3, LaneMoveEffect, SearchStepEffect
  <2> QED BY <2>1 DEF ReportInv, Attempt, Reporting
<1>4. ASSUME NEW f \in Fetches, FetchMove(f) \/ FetchStep(f) PROVE ReportInv'
  <2>1. /\ UNCHANGED <<job, loop>> /\ sources' \subseteq sources \cup {f} /\ fetch[f].at \in {"fetch", "fetched"}
    BY <1>4, FetchMoveEffect, FetchStepEffect
  <2>2. f[1][1] = Attempt => loop.pc \notin Reporting
    BY <2>1, FetchAtWork DEF Calm, Reporting
  <2> QED BY <2>1, <2>2 DEF ReportInv, Attempt
<1>5. CASE Crash
  BY <1>5, CrashEffect DEF ReportInv, Reporting
<1> QED
  BY <1>1, <1>2, <1>3, <1>4, <1>5, SilentReports, StepsAre

LEMMA SilentOutcome ==
    ASSUME TypeInv, OutcomeInv, Silent
    PROVE  OutcomeInv'
<1> USE DEF Goto
<1>1. loop \in Loops /\ row \in Rows /\ job \in Jobs
  BY Fields
<1>2. CASE Complete
  BY <1>1, <1>2 DEF Complete, OutcomeInv, JobAndRowAgree, Loops, Rows
<1>3. CASE EndCanceled
  BY <1>1, <1>3 DEF EndCanceled, OutcomeInv, JobAndRowAgree, Loops, Rows
<1>4. CASE EndFailed
  BY <1>1, <1>4 DEF EndFailed, OutcomeInv, JobAndRowAgree, Loops, Rows
<1>5. CASE CompleteJob
  BY <1>1, <1>5 DEF CompleteJob, Idle, OutcomeInv, JobAndRowAgree, Jobs
<1>6. CASE FailJob
  BY <1>1, <1>6 DEF FailJob, Idle, OutcomeInv, JobAndRowAgree, Jobs
<1>7. ASSUME loop'.pc \notin {"returned", "threw", "idle"} PROVE OutcomeInv'
  BY <1>7 DEF OutcomeInv, JobAndRowAgree
<1>8. CASE StartLoop \/ PassEnds
  BY <1>1, <1>7, <1>8 DEF StartLoop, PassEnds, ThenReflect, Idle, Loops
<1>9. CASE EnterStage
  <2>1. \E pc \in {"planner", "pass", "reflect", "synthesize"} : loop' = [loop EXCEPT !.pc = pc]
    BY <1>9 DEF EnterStage
  <2> QED BY <2>1, <1>1, <1>7 DEF Loops
<1>10. CASE CheckJob \/ CheckRow \/ SavePlan \/ LoopThrows
  BY <1>1, <1>7, <1>10 DEF CheckJob, CheckRow, SavePlan, LoopThrows, Loops
<1>11. CASE Planner \/ Preapproved \/ Reflect \/ Synthesize \/ Cite
  BY <1>1, <1>7, <1>11 DEF Planner, Preapproved, Reflect, Synthesize, Cite, Loops
<1> QED BY <1>2, <1>3, <1>4, <1>5, <1>6, <1>8, <1>9, <1>10, <1>11 DEF Silent

LEMMA OutcomeStep == TypeInv /\ OutcomeInv /\ [Next]_vars => OutcomeInv'
<1> SUFFICES ASSUME TypeInv, OutcomeInv, [Next]_vars PROVE OutcomeInv'
  OBVIOUS
<1>1. CASE Outside
  <2>1. /\ UNCHANGED loop
        /\ row'.status \in {row.status, "canceled"} /\ job'.status \in {job.status, "canceled"}
    BY <1>1 DEF Outside, LinkJob, CancelRead, CancelRow, CancelTheJob, TypeInv, TypeOK
  <2> QED BY <2>1 DEF OutcomeInv, JobAndRowAgree
<1>2. ASSUME UNCHANGED <<row, job>>, UNCHANGED loop \/ loop'.pc \notin {"returned", "threw", "idle"}
      PROVE  OutcomeInv'
  BY <1>2 DEF OutcomeInv, JobAndRowAgree
<1>3. CASE UNCHANGED vars
  BY <1>2, <1>3 DEF vars
<1>4. CASE Noted
  BY <1>2, <1>4, NotedMoves
<1>5. ASSUME NEW l \in Lanes, LaneMove(l) \/ SearchStep(l) PROVE OutcomeInv'
  BY <1>2, <1>5, LaneMoveEffect, SearchStepEffect
<1>6. ASSUME NEW f \in Fetches, FetchMove(f) \/ FetchStep(f) PROVE OutcomeInv'
  BY <1>2, <1>6, FetchMoveEffect, FetchStepEffect
<1>7. CASE Crash
  BY <1>2, <1>7, CrashEffect
<1> QED
  BY <1>1, <1>3, <1>4, <1>5, <1>6, <1>7, SilentOutcome, StepsAre

-----------------------------------------------------------------------------
(* The theorems. *)

IInv == TypeInv /\ PhaseInv /\ TraceInv /\ ReportInv /\ OutcomeInv

LEMMA IInvBegin == Init => IInv
<1> SUFFICES ASSUME Init PROVE IInv
  OBVIOUS
<1>1. /\ job = [status |-> "queued", attempt |-> 0] /\ loop.pc = "idle"
      /\ steps = << >> /\ \A l \in Lanes : lane[l].at = "absent"
      /\ \A f \in Fetches : fetch[f].at = "absent"
  BY DEF Init, Idle
<1>2. TraceInv
  BY <1>1 DEF TraceInv, TraceIsCausal, Writing
<1> QED
  BY <1>1, <1>2, TypesBegin DEF IInv, PhaseInv, ReportInv, Reporting, OutcomeInv, JobAndRowAgree, Calm

LEMMA IInvStep == IInv /\ [Next]_vars => IInv'
BY TypesStep, PhaseStep, TraceStep, ReportStep, OutcomeStep DEF IInv

\* The rows, the loop, the lanes and the cancel command of a research request always have their types: the
\* numbers read by addResearchStep, the attempts of the job and the stages of the loop stay in their ranges.
THEOREM ResearchTypes == Spec => []TypeOK
<1>1. IInv => TypeOK
  BY DEF IInv, TypeInv
<1> QED BY <1>1, IInvBegin, IInvStep, PTL DEF Spec

\* A report is written only when every lane of its attempt is through, and from every page the lanes have
\* stored, for every number of sub-questions, pages of a search, rounds and attempts.
THEOREM ReportsCoverTheirPasses == Spec => []ReportCoversItsPasses
<1>1. IInv => ReportCoversItsPasses
  BY DEF IInv, PhaseInv, ReportInv, Reporting, ReportCoversItsPasses, Calm
<1> QED BY <1>1, IInvBegin, IInvStep, PTL DEF Spec

\* max(seq) + 1, read before the row is inserted and under concurrent writers, still numbers the trace so that
\* a step comes after every step that caused it: those of the loop, and the search of its own lane.
THEOREM TracesAreCausal == Spec => []TraceIsCausal
<1>1. IInv => TraceIsCausal
  BY DEF IInv, TraceInv
<1> QED BY <1>1, IInvBegin, IInvStep, PTL DEF Spec

\* When the queue has settled the job, the row the user sees does not contradict it, whatever was cancelled and
\* whatever failed in between.
THEOREM JobsAndRowsAgree == Spec => []JobAndRowAgree
<1>1. IInv => JobAndRowAgree
  BY DEF IInv, OutcomeInv
<1> QED BY <1>1, IInvBegin, IInvStep, PTL DEF Spec

=============================================================================
