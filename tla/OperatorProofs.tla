--------------------------- MODULE OperatorProofs ---------------------------
(***************************************************************************)
(* Proofs about what the user decides, reads and schedules outside of the  *)
(* conversation, three models that share no state.  RunDecisions, for      *)
(* every set of approval, question and nested calls; Inbox, for every set  *)
(* of hooks, dispatches and requests and every limit; Automations, for all *)
(* automations, schedules and clocks; and for every bound on the faults.   *)
(***************************************************************************)
EXTENDS RunDecisions, Inbox, Automations, Sequences, FiniteSetTheorems, TLAPS

-----------------------------------------------------------------------------
(* The decisions of a run. *)

(* A step of the loop, a wait, the user, the reaper or the clock keeps the  *)
(* type of the row, the calls and the requests.                             *)
LEMMA RunTypeStep == RunTypeOK /\ RunNext => RunTypeOK'
<1> SUFFICES ASSUME RunTypeOK, RunNext PROVE RunTypeOK'
  OBVIOUS
<1> USE RunDecisionsAssumption DEF RunTypeOK, Active, Terminal, Decided, Verdicts, LoopPhases,
        CallPhases, Waiting, InProcess, Decisions, Calls, TopLevel, SetEntry, GoTo, UpdateRun,
        FinishRun, rowVars, callVars, userVars, faultVars
<1>1. ASSUME NEW c \in Calls, AskUser(c) PROVE RunTypeOK'
  BY <1>1 DEF AskUser, Enqueue
<1>2. ASSUME NEW c \in Calls, DispatchNested(c) PROVE RunTypeOK'
  BY <1>2 DEF DispatchNested
<1>3. ASSUME NEW c \in Calls, EnqueueNested(c) PROVE RunTypeOK'
  BY <1>3 DEF EnqueueNested, Enqueue
<1>4. ASSUME NEW c \in Calls, ReadDecision(c) PROVE RunTypeOK'
  BY <1>4 DEF ReadDecision
<1>5. ASSUME NEW c \in Calls, PollAgain(c) PROVE RunTypeOK'
  BY <1>5 DEF PollAgain
<1>6. ASSUME NEW c \in Calls, GiveUp(c) PROVE RunTypeOK'
  BY <1>6 DEF GiveUp
<1>7. ASSUME NEW c \in Calls, RemoveEntry(c) PROVE RunTypeOK'
  BY <1>7 DEF RemoveEntry
<1>8. ASSUME NEW c \in Calls, ResumeRun(c) PROVE RunTypeOK'
  BY <1>8 DEF ResumeRun
<1>9. ASSUME NEW c \in Calls, ExecuteTool(c) PROVE RunTypeOK'
  BY <1>9 DEF ExecuteTool
<1>10. ASSUME NEW c \in Calls, DeadlinePasses(c) PROVE RunTypeOK'
  BY <1>10 DEF DeadlinePasses
<1>11. ASSUME NEW c \in Calls, WaitThrows(c) PROVE RunTypeOK'
  <2>1. pc' \in [Calls -> CallPhases] /\ dbErrors' \in Nat
    BY <1>11 DEF WaitThrows
  <2>2. state' \in Active \cup Terminal /\ finished' \in BOOLEAN /\ stale' \in BOOLEAN
    BY <1>11 DEF WaitThrows
  <2>3. entry' = entry /\ loop' \in LoopPhases
    BY <1>11 DEF WaitThrows
  <2>4. UNCHANGED <<verdict, expired, userVars, executed, crashes>>
    BY <1>11 DEF WaitThrows
  <2> QED BY <2>1, <2>2, <2>3, <2>4
<1>12. ASSUME NEW c \in Calls, NEW d \in Decided, FindRun(c, d) PROVE RunTypeOK'
  BY <1>12 DEF FindRun
<1>13. ASSUME NEW c \in Calls, NEW d \in Decided, RecordDecision(c, d) PROVE RunTypeOK'
  BY <1>13 DEF RecordDecision
<1>14. CASE StreamChunk
  BY <1>14 DEF StreamChunk
<1>15. CASE StartScript
  BY <1>15 DEF StartScript
<1>16. CASE ScriptExits
  BY <1>16 DEF ScriptExits
<1>17. CASE CompleteRun
  BY <1>17 DEF CompleteRun
<1>18. CASE FailRun
  BY <1>18 DEF FailRun
<1>19. CASE Reap
  BY <1>19 DEF Reap, CancelChatRun
<1>20. CASE Dismiss
  BY <1>20 DEF Dismiss, CancelChatRun
<1>21. CASE GoesStale
  BY <1>21 DEF GoesStale
<1>22. CASE Crash
  BY <1>22 DEF Crash
<1> QED
  BY <1>1, <1>2, <1>3, <1>4, <1>5, <1>6, <1>7, <1>8, <1>9, <1>10, <1>11,
     <1>12, <1>13, <1>14, <1>15, <1>16, <1>17, <1>18, <1>19, <1>20, <1>21,
     <1>22
     DEF RunNext, LoopStep, WaitStep, UserStep

(* Every variable keeps its type. *)
THEOREM DecisionTypes == RunSpec => []RunTypeOK
<1>1. RunInit => RunTypeOK
  <2> SUFFICES ASSUME RunInit PROVE RunTypeOK
    OBVIOUS
  <2>1. state \in Active \cup Terminal /\ finished \in BOOLEAN /\ stale \in BOOLEAN
    BY DEF RunInit, Active
  <2>2. loop \in LoopPhases /\ crashes \in Nat /\ dbErrors \in Nat
    BY DEF RunInit, LoopPhases
  <2>3. /\ entry \in [Calls -> Decided \cup {"absent", "open"}]
        /\ pc \in [Calls -> CallPhases]
        /\ verdict \in [Calls -> Verdicts]
        /\ expired \in [Calls -> BOOLEAN]
    BY DEF RunInit, CallPhases, Verdicts
  <2>4. acked \in [Calls -> SUBSET Decided]
    BY DEF RunInit
  <2>5. requests \subseteq Calls \X Decided /\ executed \subseteq Calls
    BY DEF RunInit
  <2> QED BY <2>1, <2>2, <2>3, <2>4, <2>5 DEF RunTypeOK
<1>2. RunTypeOK /\ UNCHANGED runVars => RunTypeOK'
  BY DEF RunTypeOK, runVars, rowVars, callVars, userVars, faultVars
<1> QED BY <1>1, <1>2, RunTypeStep, PTL DEF RunSpec

-----------------------------------------------------------------------------
(* The life of an entry, one case per statement that touches it or its wait. *)
LEMMA DecisionInvStep == RunTypeOK /\ DecisionInv /\ RunNext => DecisionInv'
<1> SUFFICES ASSUME RunTypeOK, DecisionInv, RunNext PROVE DecisionInv'
  OBVIOUS
<1> USE RunDecisionsAssumption DEF RunTypeOK, DecisionInv, FirstDecisionWins, Decided, Waiting,
        InProcess, Decisions, Calls, TopLevel, SetEntry, GoTo, UpdateRun, FinishRun,
        rowVars, callVars, userVars, faultVars
<1>1. ASSUME NEW c \in Calls, AskUser(c) PROVE DecisionInv'
  BY <1>1 DEF AskUser, Enqueue
<1>2. ASSUME NEW c \in Calls, DispatchNested(c) PROVE DecisionInv'
  BY <1>2 DEF DispatchNested
<1>3. ASSUME NEW c \in Calls, EnqueueNested(c) PROVE DecisionInv'
  BY <1>3 DEF EnqueueNested, Enqueue
<1>4. ASSUME NEW c \in Calls, ReadDecision(c) PROVE DecisionInv'
  BY <1>4 DEF ReadDecision
<1>5. ASSUME NEW c \in Calls, PollAgain(c) PROVE DecisionInv'
  BY <1>5 DEF PollAgain
<1>6. ASSUME NEW c \in Calls, GiveUp(c) PROVE DecisionInv'
  BY <1>6 DEF GiveUp
<1>7. ASSUME NEW c \in Calls, RemoveEntry(c) PROVE DecisionInv'
  BY <1>7 DEF RemoveEntry
<1>8. ASSUME NEW c \in Calls, ResumeRun(c) PROVE DecisionInv'
  BY <1>8 DEF ResumeRun
<1>9. ASSUME NEW c \in Calls, ExecuteTool(c) PROVE DecisionInv'
  BY <1>9 DEF ExecuteTool
<1>10. ASSUME NEW c \in Calls, DeadlinePasses(c) PROVE DecisionInv'
  BY <1>10 DEF DeadlinePasses
<1>11. ASSUME NEW c \in Calls, WaitThrows(c) PROVE DecisionInv'
  BY <1>11 DEF WaitThrows
<1>12. ASSUME NEW c \in Calls, NEW d \in Decided, FindRun(c, d) PROVE DecisionInv'
  BY <1>12 DEF FindRun
<1>13. ASSUME NEW c \in Calls, NEW d \in Decided, RecordDecision(c, d) PROVE DecisionInv'
  BY <1>13 DEF RecordDecision
<1>14. CASE StreamChunk
  BY <1>14 DEF StreamChunk
<1>15. CASE StartScript
  BY <1>15 DEF StartScript
<1>16. CASE ScriptExits
  BY <1>16 DEF ScriptExits
<1>17. CASE CompleteRun
  BY <1>17 DEF CompleteRun
<1>18. CASE FailRun
  BY <1>18 DEF FailRun
<1>19. CASE Reap
  BY <1>19 DEF Reap, CancelChatRun
<1>20. CASE Dismiss
  BY <1>20 DEF Dismiss, CancelChatRun
<1>21. CASE GoesStale
  BY <1>21 DEF GoesStale
<1>22. CASE Crash
  BY <1>22 DEF Crash
<1> QED
  BY <1>1, <1>2, <1>3, <1>4, <1>5, <1>6, <1>7, <1>8, <1>9, <1>10, <1>11,
     <1>12, <1>13, <1>14, <1>15, <1>16, <1>17, <1>18, <1>19, <1>20, <1>21,
     <1>22
     DEF RunNext, LoopStep, WaitStep, UserStep

(* The invariant of entries, decisions and verdicts holds throughout.       *)
THEOREM DecisionInvariant == RunSpec => []DecisionInv
<1>1. RunInit => DecisionInv
  BY DEF RunInit, DecisionInv, FirstDecisionWins, Decided
<1>2. RunTypeOK /\ DecisionInv /\ UNCHANGED runVars => DecisionInv'
  BY DEF DecisionInv, FirstDecisionWins, runVars, rowVars, callVars, userVars, faultVars
<1> QED BY <1>1, <1>2, DecisionInvStep, DecisionTypes, PTL DEF RunSpec

(* No tool that needs approval runs without exactly that approval having    *)
(* been acknowledged to the user: executeTool behind awaitApprovalDecision. *)
THEOREM ApprovalIsRequired == RunSpec => []OnlyApprovedToolsRun
<1>1. RunTypeOK /\ DecisionInv => OnlyApprovedToolsRun
  BY DEF RunTypeOK, DecisionInv, OnlyApprovedToolsRun
<1> QED BY <1>1, DecisionInvariant, DecisionTypes, PTL

(* recordApprovalDecision and recordQuestionAnswers acknowledge at most one *)
(* decision per token, and the wait returns no other.                       *)
THEOREM OneDecisionPerCall == RunSpec => []FirstDecisionWins
<1>1. DecisionInv => FirstDecisionWins
  BY DEF DecisionInv
<1> QED BY <1>1, DecisionInvariant, PTL

-----------------------------------------------------------------------------
(* The loop's waits and the state of the run they share with the script.    *)
LEMMA WaitInvStep == RunTypeOK /\ DecisionInv /\ WaitInv /\ RunNext => WaitInv'
<1> SUFFICES ASSUME RunTypeOK, DecisionInv, WaitInv, RunNext PROVE WaitInv'
  OBVIOUS
<1> USE RunDecisionsAssumption DEF RunTypeOK, DecisionInv, WaitInv, Deciding, Decided, Waiting,
        InProcess, Decisions, Calls, TopLevel, SetEntry, GoTo, UpdateRun, FinishRun,
        rowVars, callVars, userVars, faultVars
<1>1. ASSUME NEW c \in Calls, AskUser(c) PROVE WaitInv'
  BY <1>1 DEF AskUser, Enqueue
<1>2. ASSUME NEW c \in Calls, DispatchNested(c) PROVE WaitInv'
  BY <1>2 DEF DispatchNested
<1>3. ASSUME NEW c \in Calls, EnqueueNested(c) PROVE WaitInv'
  BY <1>3 DEF EnqueueNested, Enqueue
<1>4. ASSUME NEW c \in Calls, ReadDecision(c) PROVE WaitInv'
  BY <1>4 DEF ReadDecision
<1>5. ASSUME NEW c \in Calls, PollAgain(c) PROVE WaitInv'
  BY <1>5 DEF PollAgain
<1>6. ASSUME NEW c \in Calls, GiveUp(c) PROVE WaitInv'
  BY <1>6 DEF GiveUp
<1>7. ASSUME NEW c \in Calls, RemoveEntry(c) PROVE WaitInv'
  BY <1>7 DEF RemoveEntry
<1>8. ASSUME NEW c \in Calls, ResumeRun(c) PROVE WaitInv'
  BY <1>8 DEF ResumeRun
<1>9. ASSUME NEW c \in Calls, ExecuteTool(c) PROVE WaitInv'
  BY <1>9 DEF ExecuteTool
<1>10. ASSUME NEW c \in Calls, DeadlinePasses(c) PROVE WaitInv'
  BY <1>10 DEF DeadlinePasses
<1>11. ASSUME NEW c \in Calls, WaitThrows(c) PROVE WaitInv'
  BY <1>11 DEF WaitThrows
<1>12. ASSUME NEW c \in Calls, NEW d \in Decided, FindRun(c, d) PROVE WaitInv'
  BY <1>12 DEF FindRun
<1>13. ASSUME NEW c \in Calls, NEW d \in Decided, RecordDecision(c, d) PROVE WaitInv'
  BY <1>13 DEF RecordDecision
<1>14. CASE StreamChunk
  BY <1>14 DEF StreamChunk
<1>15. CASE StartScript
  BY <1>15 DEF StartScript
<1>16. CASE ScriptExits
  BY <1>16 DEF ScriptExits
<1>17. CASE CompleteRun
  BY <1>17 DEF CompleteRun
<1>18. CASE FailRun
  BY <1>18 DEF FailRun
<1>19. CASE Reap
  BY <1>19 DEF Reap, CancelChatRun
<1>20. CASE Dismiss
  BY <1>20 DEF Dismiss, CancelChatRun
<1>21. CASE GoesStale
  BY <1>21 DEF GoesStale
<1>22. CASE Crash
  BY <1>22 DEF Crash
<1> QED
  BY <1>1, <1>2, <1>3, <1>4, <1>5, <1>6, <1>7, <1>8, <1>9, <1>10, <1>11,
     <1>12, <1>13, <1>14, <1>15, <1>16, <1>17, <1>18, <1>19, <1>20, <1>21,
     <1>22
     DEF RunNext, LoopStep, WaitStep, UserStep

(* The invariant of the waits holds throughout. *)
THEOREM WaitInvariant == RunSpec => []WaitInv
<1>1. RunInit => WaitInv
  BY DEF RunInit, WaitInv, Deciding, Waiting, Calls, TopLevel
<1>2. RunTypeOK /\ WaitInv /\ UNCHANGED runVars => WaitInv'
  BY DEF WaitInv, Deciding, runVars, rowVars, callVars, userVars, faultVars
<1> QED BY <1>1, <1>2, WaitInvStep, DecisionInvariant, DecisionTypes, PTL DEF RunSpec

(* While an approval is awaited by the loop or by a running script and the   *)
(* run is unfinished, the tool-approve route finds the run and its entry.    *)
THEOREM ApprovalsStayAnswerable == RunSpec => []EveryApprovalIsAnswerable
<1>1. RunTypeOK /\ WaitInv => EveryApprovalIsAnswerable
  BY RunDecisionsAssumption
     DEF RunTypeOK, WaitInv, EveryApprovalIsAnswerable, Straggler, Resolvable, Deciding, Waiting,
         InProcess, Calls, TopLevel
<1> QED BY <1>1, WaitInvariant, DecisionTypes, PTL

-----------------------------------------------------------------------------
(* A call that is past its wait has taken its entry out of the row: nobody   *)
(* writes an entry that is not open.                                         *)
WaitsCleanUp ==
    \A c \in Calls : pc[c] \in {"leaving", "executing", "returned"} => entry[c] = "absent"

LEMMA CleanUpStep == RunTypeOK /\ WaitsCleanUp /\ RunNext => WaitsCleanUp'
<1> SUFFICES ASSUME RunTypeOK, WaitsCleanUp, RunNext PROVE WaitsCleanUp'
  OBVIOUS
<1> USE DEF RunTypeOK, WaitsCleanUp, InProcess, Decided, SetEntry, GoTo, UpdateRun, FinishRun, rowVars,
        callVars, userVars, faultVars
<1>1. ASSUME NEW c \in Calls, AskUser(c) \/ EnqueueNested(c) PROVE WaitsCleanUp'
  BY <1>1 DEF AskUser, EnqueueNested, Enqueue
<1>2. ASSUME NEW c \in Calls, DispatchNested(c) \/ DeadlinePasses(c) PROVE WaitsCleanUp'
  BY <1>2 DEF DispatchNested, DeadlinePasses
<1>3. ASSUME NEW c \in Calls, ReadDecision(c) \/ PollAgain(c) PROVE WaitsCleanUp'
  BY <1>3 DEF ReadDecision, PollAgain
<1>4. ASSUME NEW c \in Calls, GiveUp(c) \/ RemoveEntry(c) PROVE WaitsCleanUp'
  BY <1>4 DEF GiveUp, RemoveEntry
<1>5. ASSUME NEW c \in Calls, ResumeRun(c) \/ ExecuteTool(c) PROVE WaitsCleanUp'
  BY <1>5 DEF ResumeRun, ExecuteTool
<1>6. ASSUME NEW c \in Calls, WaitThrows(c) PROVE WaitsCleanUp'
  BY <1>6 DEF WaitThrows
<1>7. ASSUME NEW c \in Calls, NEW d \in Decided, FindRun(c, d) \/ RecordDecision(c, d)
      PROVE  WaitsCleanUp'
  BY <1>7 DEF FindRun, RecordDecision
<1>8. ASSUME StreamChunk \/ StartScript \/ ScriptExits \/ CompleteRun \/ FailRun
      PROVE  WaitsCleanUp'
  BY <1>8 DEF StreamChunk, StartScript, ScriptExits, CompleteRun, FailRun
<1>9. ASSUME Reap \/ Dismiss PROVE WaitsCleanUp'
  BY <1>9 DEF Reap, Dismiss, CancelChatRun
<1>10. ASSUME GoesStale \/ Crash PROVE WaitsCleanUp'
  BY <1>10 DEF GoesStale, Crash
<1> QED BY <1>1, <1>2, <1>3, <1>4, <1>5, <1>6, <1>7, <1>8, <1>9, <1>10
        DEF RunNext, LoopStep, WaitStep, UserStep

(* No pending entry outlives the calls of its run.                           *)
THEOREM NothingIsLeftPending == RunSpec => []NothingLeftPending
<1>1. RunInit => WaitsCleanUp
  BY DEF RunInit, WaitsCleanUp
<1>2. WaitsCleanUp /\ UNCHANGED runVars => WaitsCleanUp'
  BY DEF WaitsCleanUp, runVars, rowVars, callVars
<1>3. RunSpec => []WaitsCleanUp
  BY <1>1, <1>2, CleanUpStep, DecisionTypes, PTL DEF RunSpec
<1>4. DecisionInv /\ WaitsCleanUp => NothingLeftPending
  BY DEF DecisionInv, WaitsCleanUp, NothingLeftPending
<1> QED BY <1>3, <1>4, DecisionInvariant, PTL

-----------------------------------------------------------------------------
(* The review inbox, and the budget guard that reports to it. *)

\* The clock runs ahead of whatever is dated.
DatedInv ==
    /\ clock \in Nat \ {0}
    /\ opening \in [Openers -> {"no", "select", "insert", "done"}]
    /\ looked \in [Openers -> Nat] /\ \A o \in Openers : looked[o] < clock
    /\ \A i \in items : /\ i = [by |-> i.by, at |-> i.at, closed |-> i.closed]
                        /\ i.by \in Openers /\ i.at \in Nat /\ i.closed \in Nat
                        /\ i.at < clock /\ i.closed < clock
    /\ request \in [Requests -> {"idle", "warn", "block", "refused", "running", "done"}]
    /\ dispatch \in [Dispatches -> {"none", "running", "succeeded", "failed", "reported"}]

\* A report is made once: it begins to look when its dispatch or request has come
\* to its end, and its item is the end of it.
OnceInv ==
    /\ \A d \in Dispatches : opening[d] # "no" => dispatch[d] = "reported"
    /\ \A q \in Requests : opening[q] # "no" => request[q] = "refused"
    /\ \A i \in items : opening[i.by] = "done"

\* Between the look and the insert, every outstanding item is younger than the look.
RaceInv ==
    \A o \in Openers : opening[o] = "insert" =>
        \A i \in items : Key(i.by) = Key(o) /\ i.closed = 0 => looked[o] < i.at

InboxInv == DatedInv /\ OnceInv /\ RaceInv /\ OneItemUnlessRaced /\ ReportReachesOperator

(* A step of the bus or of the guard that opens reports, but does not touch the *)
(* inbox itself.                                                               *)
LEMMA InboxUntouched ==
    ASSUME InboxInv, UNCHANGED <<items, looked>>, clock' \in Nat, clock' >= clock, failed \subseteq failed',
           opening' \in [Openers -> {"no", "select", "insert", "done"}],
           \A o \in Openers : opening'[o] = opening[o] \/ (opening[o] = "no" /\ opening'[o] = "select"),
           request' \in [Requests -> {"idle", "warn", "block", "refused", "running", "done"}],
           dispatch' \in [Dispatches -> {"none", "running", "succeeded", "failed", "reported"}],
           \A d \in Dispatches : opening'[d] # "no" => dispatch'[d] = "reported",
           \A q \in Requests : opening'[q] # "no" => request'[q] = "refused"
    PROVE  InboxInv'
<1>0. Dispatches \subseteq Openers /\ Requests \subseteq Openers
  BY DEF Openers
<1>1. DatedInv'
  BY DEF InboxInv, DatedInv
<1>2. OnceInv'
  BY DEF InboxInv, OnceInv, DatedInv
<1>3. RaceInv'
  BY DEF InboxInv, RaceInv, Key
<1>4. OneItemUnlessRaced'
  BY DEF InboxInv, OneItemUnlessRaced, Key
<1>5. ReportReachesOperator'
  BY DEF InboxInv, ReportReachesOperator, Reported, Key
<1> QED BY <1>1, <1>2, <1>3, <1>4, <1>5 DEF InboxInv

LEMMA LookKeepsInbox ==
    ASSUME InboxInv, NEW o \in Openers, LookForItem(o)
    PROVE  InboxInv'
<1> USE DEF hookVars, itemVars, budgetVars
<1>0. /\ opening[o] = "select" /\ clock \in Nat \ {0} /\ clock' = clock + 1
      /\ UNCHANGED <<items, request, dispatch, failed>>
      /\ looked' = [looked EXCEPT ![o] = clock]
      /\ looked \in [Openers -> Nat] /\ opening \in [Openers -> {"no", "select", "insert", "done"}]
  BY DEF LookForItem, InboxInv, DatedInv
<1>1. /\ looked'[o] = clock /\ opening'[o] = IF Outstanding(Key(o)) = {} THEN "insert" ELSE "done"
      /\ \A p \in Openers \ {o} : looked'[p] = looked[p] /\ opening'[p] = opening[p]
      /\ opening' \in [Openers -> {"no", "select", "insert", "done"}]
  BY <1>0 DEF LookForItem
<1>2. DatedInv'
  <2>1. looked' \in [Openers -> Nat] /\ \A p \in Openers : looked'[p] < clock'
    <3>1. looked' \in [Openers -> Nat]
      BY <1>0
    <3>2. \A p \in Openers \ {o} : looked'[p] < clock'
      BY <1>0, <1>1 DEF InboxInv, DatedInv
    <3> QED BY <3>1, <3>2, <1>0, <1>1
  <2>2. \A i \in items : /\ i = [by |-> i.by, at |-> i.at, closed |-> i.closed]
                         /\ i.by \in Openers /\ i.at \in Nat /\ i.closed \in Nat
                         /\ i.at < clock' /\ i.closed < clock'
    BY <1>0 DEF InboxInv, DatedInv
  <2>3. clock' \in Nat \ {0}
    BY <1>0
  <2> QED BY <2>1, <2>2, <2>3, <1>0, <1>1 DEF InboxInv, DatedInv
<1>3. \A i \in items : i.by # o
  BY <1>0 DEF InboxInv, OnceInv
<1>4. OnceInv'
  BY <1>0, <1>1, <1>3 DEF InboxInv, OnceInv, DatedInv, Openers
<1>5. RaceInv'
  BY <1>0, <1>1 DEF InboxInv, RaceInv, Outstanding, Key
<1>6. OneItemUnlessRaced'
  BY <1>0, <1>1, <1>3 DEF InboxInv, OneItemUnlessRaced, DatedInv, Key
<1>7. ReportReachesOperator'
  <2> SUFFICES ASSUME NEW p \in Openers, Reported(p)'
               PROVE  \E i \in items : Key(i.by) = Key(p) /\ (i.closed = 0 \/ i.closed > looked'[p])
    BY <1>0 DEF ReportReachesOperator, Key
  <2>1. CASE p = o
    BY <2>1, <1>1 DEF Outstanding, Reported
  <2>2. CASE p # o
    BY <2>2, <1>0, <1>1 DEF InboxInv, ReportReachesOperator, Reported
  <2> QED BY <2>1, <2>2
<1> QED BY <1>2, <1>4, <1>5, <1>6, <1>7 DEF InboxInv

LEMMA InsertKeepsInbox ==
    ASSUME InboxInv, NEW o \in Openers, InsertItem(o)
    PROVE  InboxInv'
<1> USE DEF hookVars, itemVars, budgetVars
<1> DEFINE new == [by |-> o, at |-> clock, closed |-> 0]
<1>0. /\ opening[o] = "insert" /\ clock \in Nat \ {0} /\ clock' = clock + 1
      /\ UNCHANGED <<looked, request, dispatch, failed>>
      /\ opening \in [Openers -> {"no", "select", "insert", "done"}]
      /\ opening' = [opening EXCEPT ![o] = "done"]
      /\ items' = items \cup {new}
  BY DEF InsertItem, InboxInv, DatedInv
<1>n. new = [by |-> new.by, at |-> new.at, closed |-> new.closed]
      /\ new.by = o /\ new.at = clock /\ new.closed = 0
  OBVIOUS
<1> HIDE DEF new
<1>1. opening'[o] = "done" /\ \A p \in Openers \ {o} : opening'[p] = opening[p]
  BY <1>0
<1>2. DatedInv'
  BY <1>0, <1>n, <1>1 DEF InboxInv, DatedInv
<1>3. \A i \in items : i.by # o
  BY <1>0 DEF InboxInv, OnceInv
<1>4. OnceInv'
  BY <1>0, <1>n, <1>1, <1>3 DEF InboxInv, OnceInv, DatedInv, Openers
<1>5. RaceInv'
  BY <1>0, <1>n, <1>1 DEF InboxInv, RaceInv, DatedInv, Key
<1>6. OneItemUnlessRaced'
  <2> SUFFICES ASSUME NEW i \in items', NEW j \in items',
                      Key(i.by) = Key(j.by), i.closed = 0, i.at < j.at
               PROVE  looked[j.by] < i.at
    BY <1>0 DEF OneItemUnlessRaced, Key
  <2>1. CASE i \in items /\ j \in items
    BY <2>1 DEF InboxInv, OneItemUnlessRaced
  <2>2. CASE i \in items /\ j = new
    BY <2>2, <1>0, <1>n DEF InboxInv, RaceInv
  <2>3. CASE i = new
    BY <2>3, <1>0, <1>n DEF InboxInv, DatedInv
  <2> QED BY <2>1, <2>2, <2>3, <1>0
<1>7. ReportReachesOperator'
  <2> SUFFICES ASSUME NEW p \in Openers, Reported(p)'
               PROVE  \E i \in items' : Key(i.by) = Key(p) /\ (i.closed = 0 \/ i.closed > looked[p])
    BY <1>0 DEF ReportReachesOperator, Key
  <2>1. CASE p = o
    BY <2>1, <1>0, <1>n
  <2>2. CASE p # o
    BY <2>2, <1>0, <1>1 DEF InboxInv, ReportReachesOperator, Reported
  <2> QED BY <2>1, <2>2
<1> QED BY <1>2, <1>4, <1>5, <1>6, <1>7 DEF InboxInv

LEMMA FailKeepsInbox ==
    ASSUME InboxInv, NEW o \in Openers, OpenItemFails(o)
    PROVE  InboxInv'
<1> USE DEF hookVars, itemVars, budgetVars
<1>0. /\ opening[o] \in {"select", "insert"} /\ failed' = failed \cup {o}
      /\ UNCHANGED <<items, looked, request, dispatch, clock>>
      /\ opening \in [Openers -> {"no", "select", "insert", "done"}]
      /\ opening' = [opening EXCEPT ![o] = "done"]
  BY DEF OpenItemFails, DbError, InboxInv, DatedInv
<1>1. opening'[o] = "done" /\ \A p \in Openers \ {o} : opening'[p] = opening[p]
  BY <1>0
<1>2. DatedInv'
  BY <1>0 DEF InboxInv, DatedInv
<1>4. OnceInv'
  BY <1>0, <1>1 DEF InboxInv, OnceInv, DatedInv, Openers
<1>5. RaceInv' /\ OneItemUnlessRaced'
  BY <1>0, <1>1 DEF InboxInv, RaceInv, OneItemUnlessRaced, Key
<1>7. ReportReachesOperator'
  BY <1>0, <1>1 DEF InboxInv, ReportReachesOperator, Reported, Key
<1> QED BY <1>2, <1>4, <1>5, <1>7 DEF InboxInv

LEMMA ResolveKeepsInbox ==
    ASSUME InboxInv, NEW i \in items, Resolve(i)
    PROVE  InboxInv'
<1> USE DEF hookVars, itemVars, budgetVars
<1> DEFINE shut == [i EXCEPT !.closed = clock]
<1>0. /\ i.closed = 0 /\ clock \in Nat \ {0} /\ clock' = clock + 1
      /\ UNCHANGED <<opening, looked, request, dispatch, failed>>
      /\ items' = (items \ {i}) \cup {shut}
      /\ i = [by |-> i.by, at |-> i.at, closed |-> i.closed]
  BY DEF Resolve, InboxInv, DatedInv
<1>n. shut = [by |-> shut.by, at |-> shut.at, closed |-> shut.closed]
      /\ shut.by = i.by /\ shut.at = i.at /\ shut.closed = clock
  BY <1>0
<1> HIDE DEF shut
<1>2. DatedInv'
  BY <1>0, <1>n DEF InboxInv, DatedInv
<1>4. OnceInv'
  BY <1>0, <1>n DEF InboxInv, OnceInv
<1>5. RaceInv'
  BY <1>0, <1>n DEF InboxInv, RaceInv, Key
<1>6. OneItemUnlessRaced'
  <2> SUFFICES ASSUME NEW a \in items', NEW b \in items',
                      Key(a.by) = Key(b.by), a.closed = 0, a.at < b.at
               PROVE  looked[b.by] < a.at
    BY <1>0 DEF OneItemUnlessRaced, Key
  <2>1. a \in items
    BY <1>0, <1>n
  <2>2. \E c \in items : c.by = b.by /\ c.at = b.at
    BY <1>0, <1>n
  <2> QED BY <2>1, <2>2 DEF InboxInv, OneItemUnlessRaced
<1>7. ReportReachesOperator'
  <2> SUFFICES ASSUME NEW p \in Openers, Reported(p)
               PROVE  \E j \in items' : Key(j.by) = Key(p) /\ (j.closed = 0 \/ j.closed > looked[p])
    BY <1>0 DEF ReportReachesOperator, Reported, Key
  <2>1. PICK j \in items : Key(j.by) = Key(p) /\ (j.closed = 0 \/ j.closed > looked[p])
    BY DEF InboxInv, ReportReachesOperator
  <2>2. CASE j # i
    BY <2>1, <2>2, <1>0
  <2>3. CASE j = i
    <3>1. shut.closed > looked[p]
      BY <1>0, <1>n DEF InboxInv, DatedInv
    <3> QED BY <2>1, <2>3, <3>1, <1>0, <1>n
  <2> QED BY <2>2, <2>3
<1> QED BY <1>2, <1>4, <1>5, <1>6, <1>7 DEF InboxInv

-----------------------------------------------------------------------------
LEMMA KindsOfOpeners ==
    /\ Openers = Dispatches \cup Requests
    /\ \A q \in Requests : q \notin Dispatches
BY CallsAreApart DEF Openers

\* Only a request that is being warned or refused has an alert to record.
GuardInv ==
    /\ alerting \in [Requests -> {"no", "select", "insert"}]
    /\ \A q \in Requests : alerting[q] # "no" => request[q] \in {"warn", "block"}

LEMMA GuardInvStep ==
    ASSUME InboxInv, GuardInv, [Next]_vars
    PROVE  GuardInv'
<1> USE DEF hookVars, itemVars, budgetVars
<1>0. /\ request \in [Requests -> {"idle", "warn", "block", "refused", "running", "done"}]
      /\ alerting \in [Requests -> {"no", "select", "insert"}]
  BY DEF InboxInv, DatedInv, GuardInv
<1>1. ASSUME UNCHANGED <<request, alerting>> PROVE GuardInv'
  BY <1>1 DEF GuardInv
<1>2. ASSUME NEW q \in Requests, NEW r, NEW a \in {"no", "select", "insert"}, a # "no" => r \in {"warn", "block"},
             request' = [request EXCEPT ![q] = r], alerting' = [alerting EXCEPT ![q] = a]
      PROVE  GuardInv'
  BY <1>0, <1>2 DEF GuardInv
<1>3. ASSUME NEW q \in Requests, AfterAlert(q) PROVE GuardInv'
  <2> DEFINE r == IF request[q] = "warn" THEN Verdict(seen[q].spend) ELSE "refused"
             a == IF r = "block" THEN "select" ELSE "no"
  <2>1. request' = [request EXCEPT ![q] = r] /\ alerting' = [alerting EXCEPT ![q] = a]
    BY <1>3 DEF AfterAlert
  <2>2. a \in {"no", "select", "insert"} /\ (a # "no" => r \in {"warn", "block"})
    OBVIOUS
  <2> HIDE DEF a, r
  <2> QED BY <2>1, <2>2, <1>2
<1>4. ASSUME NEW q \in Requests, CheckBudget(q) PROVE GuardInv'
  <2>1. CASE DbError(q) /\ request' = [request EXCEPT ![q] = "running"] /\ UNCHANGED alerting
    BY <2>1, <1>0, <1>4 DEF CheckBudget, GuardInv
  <2>2. CASE /\ request' = [request EXCEPT ![q] = IF spend >= Warn THEN "warn" ELSE Verdict(spend)]
             /\ alerting' = [alerting EXCEPT ![q] = IF request'[q] = "running" THEN "no" ELSE "select"]
    <3>1. request'[q] \in {"warn", "block", "running"} /\ request' = [request EXCEPT ![q] = request'[q]]
      BY <2>2, <1>0 DEF Verdict
    <3> QED BY <2>2, <3>1, <1>0, <1>2
  <2> QED BY <1>4, <2>1, <2>2 DEF CheckBudget
<1>5. ASSUME NEW q \in Requests, GuardStep(q) \/ AlertFails(q) PROVE GuardInv'
  <2>1. CASE alerting' = [alerting EXCEPT ![q] = "insert"] /\ UNCHANGED request /\ alerting[q] = "select"
    BY <2>1, <1>0 DEF GuardInv
  <2> QED BY <1>5, <2>1, <1>3 DEF GuardStep, LookForAlert, InsertAlert, AlertFails
<1>6. ASSUME NEW q \in Requests, Spend(q) PROVE GuardInv'
  BY <1>0, <1>6 DEF Spend, GuardInv
<1>7. CASE \E e \in Emits : Emit(e)
  BY <1>7, <1>1 DEF Emit
<1>8. CASE \E d \in Dispatches : BusStep(d) \/ \E outcome \in {"returned", "threw"} : HandlerSettles(d, outcome)
  BY <1>8, <1>1 DEF BusStep, RaceEnds, LogInvocation, HandlerSettles
<1>9. CASE \E o \in Openers : OpenStep(o) \/ OpenItemFails(o)
  BY <1>9, <1>1 DEF OpenStep, LookForItem, InsertItem, OpenItemFails
<1>10. CASE \E i \in items : Resolve(i)
  BY <1>10, <1>1 DEF Resolve
<1>11. CASE PeriodEnds \/ UNCHANGED vars
  BY <1>11, <1>1 DEF PeriodEnds, vars
<1> QED BY <1>4, <1>5, <1>6, <1>7, <1>8, <1>9, <1>10, <1>11 DEF Next

LEMMA InboxStep ==
    ASSUME InboxInv, GuardInv, [Next]_vars
    PROVE  InboxInv'
<1> USE DEF hookVars, itemVars, budgetVars
<1>0. /\ clock \in Nat
      /\ opening \in [Openers -> {"no", "select", "insert", "done"}]
      /\ request \in [Requests -> {"idle", "warn", "block", "refused", "running", "done"}]
      /\ dispatch \in [Dispatches -> {"none", "running", "succeeded", "failed", "reported"}]
      /\ \A d \in Dispatches : opening[d] # "no" => dispatch[d] = "reported"
      /\ \A q \in Requests : opening[q] # "no" => request[q] = "refused"
      /\ Dispatches \subseteq Openers /\ Requests \subseteq Openers
      /\ \A q \in Requests : q \notin Dispatches
  BY KindsOfOpeners DEF InboxInv, DatedInv, OnceInv
<1>1. ASSUME NEW e \in Emits, Emit(e) PROVE InboxInv'
  <2>1. /\ UNCHANGED <<opening, request, items, looked, clock, failed>>
        /\ dispatch' = [d \in Dispatches |-> IF d \in Dispatched(e) THEN "running" ELSE dispatch[d]]
        /\ \A d \in Dispatched(e) : dispatch[d] = "none"
    BY <1>1 DEF Emit
  <2>2. dispatch' \in [Dispatches -> {"none", "running", "succeeded", "failed", "reported"}]
    BY <2>1, <1>0
  <2>3. \A d \in Dispatches : opening'[d] # "no" => dispatch'[d] = "reported"
    BY <2>1, <1>0
  <2> QED BY <2>1, <2>2, <2>3, <1>0, InboxUntouched
<1>2. ASSUME NEW d \in Dispatches, NEW outcome, HandlerSettles(d, outcome) PROVE InboxInv'
  BY <1>0, <1>2, InboxUntouched DEF HandlerSettles
<1>3. ASSUME NEW d \in Dispatches, RaceEnds(d) PROVE InboxInv'
  <2>1. /\ UNCHANGED <<opening, request, items, looked, clock, failed>>
        /\ dispatch[d] = "running" /\ dispatch' = [dispatch EXCEPT ![d] = Outcome(d)]
        /\ Outcome(d) \in {"succeeded", "failed"}
    BY <1>3 DEF RaceEnds, Outcome
  <2>2. /\ dispatch' \in [Dispatches -> {"none", "running", "succeeded", "failed", "reported"}]
        /\ \A c \in Dispatches : opening'[c] # "no" => dispatch'[c] = "reported"
    BY <2>1, <1>0
  <2> QED BY <2>1, <2>2, <1>0, InboxUntouched
<1>4. ASSUME NEW d \in Dispatches, LogInvocation(d) PROVE InboxInv'
  <2>1. /\ UNCHANGED <<request, items, looked, clock, failed>>
        /\ dispatch[d] # "reported" /\ dispatch' = [dispatch EXCEPT ![d] = "reported"]
        /\ opening' = opening \/ opening' = [opening EXCEPT ![d] = "select"]
    BY <1>4 DEF LogInvocation
  <2>2. opening[d] = "no" /\ d \in Openers
    BY <2>1, <1>0
  <2>3. /\ opening' \in [Openers -> {"no", "select", "insert", "done"}]
        /\ \A o \in Openers : opening'[o] = opening[o] \/ (opening[o] = "no" /\ opening'[o] = "select")
        /\ \A o \in Openers \ {d} : opening'[o] = opening[o]
    BY <2>1, <2>2, <1>0
  <2>4. /\ dispatch' \in [Dispatches -> {"none", "running", "succeeded", "failed", "reported"}]
        /\ \A c \in Dispatches : opening'[c] # "no" => dispatch'[c] = "reported"
    BY <2>1, <2>3, <1>0
  <2>5. \A q \in Requests : opening'[q] # "no" => request'[q] = "refused"
    BY <2>1, <2>3, <1>0
  <2> QED BY <2>1, <2>3, <2>4, <2>5, <1>0, InboxUntouched
<1>5. ASSUME NEW q \in Requests, request' \in [Requests -> {"idle", "warn", "block", "refused", "running", "done"}],
             \A p \in Requests \ {q} : request'[p] = request[p],
             request[q] # "refused",
             opening' = opening \/ (opening' = [opening EXCEPT ![q] = "select"] /\ request'[q] = "refused"),
             UNCHANGED <<items, looked, dispatch>>, clock' \in Nat, clock' >= clock, failed \subseteq failed'
      PROVE  InboxInv'
  <2>1. opening[q] = "no" /\ q \in Openers
    BY <1>0, <1>5
  <2>2. /\ opening' \in [Openers -> {"no", "select", "insert", "done"}]
        /\ \A o \in Openers : opening'[o] = opening[o] \/ (opening[o] = "no" /\ opening'[o] = "select")
        /\ \A o \in Openers \ {q} : opening'[o] = opening[o]
    BY <2>1, <1>0, <1>5
  <2>3. \A d \in Dispatches : opening'[d] # "no" => dispatch'[d] = "reported"
    BY <2>2, <1>0, <1>5
  <2>4. \A p \in Requests : opening'[p] # "no" => request'[p] = "refused"
    BY <2>1, <2>2, <1>0, <1>5
  <2> QED BY <2>2, <2>3, <2>4, <1>0, <1>5, InboxUntouched
<1>6. ASSUME NEW q \in Requests, CheckBudget(q) PROVE InboxInv'
  <2>1. request' \in [Requests -> {"idle", "warn", "block", "refused", "running", "done"}]
        /\ \A p \in Requests \ {q} : request'[p] = request[p]
    BY <1>0, <1>6 DEF CheckBudget, Verdict
  <2>2. /\ request[q] = "idle" /\ UNCHANGED <<opening, items, looked, dispatch, clock>>
        /\ failed \subseteq failed'
    BY <1>6 DEF CheckBudget, DbError
  <2> QED BY <2>1, <2>2, <1>0, <1>5
<1>7. ASSUME NEW q \in Requests, AfterAlert(q), request[q] # "refused",
             UNCHANGED <<items, looked, dispatch>>, clock' \in Nat, clock' >= clock, failed \subseteq failed'
      PROVE  InboxInv'
  <2>1. /\ request' \in [Requests -> {"idle", "warn", "block", "refused", "running", "done"}]
        /\ \A p \in Requests \ {q} : request'[p] = request[p]
        /\ (opening' = opening \/ (opening' = [opening EXCEPT ![q] = "select"] /\ request'[q] = "refused"))
    BY <1>0, <1>7 DEF AfterAlert, Verdict
  <2>2. /\ UNCHANGED <<items, looked, dispatch>> /\ clock' \in Nat /\ clock' >= clock
        /\ failed \subseteq failed' /\ request[q] # "refused"
    BY <1>7
  <2> QED BY <2>1, <2>2, <1>5
<1>8. ASSUME NEW q \in Requests, Spend(q) PROVE InboxInv'
  <2>1. request' = [request EXCEPT ![q] = "done"] /\ request[q] = "running"
        /\ UNCHANGED <<opening, items, looked, dispatch, clock, failed>>
    BY <1>8 DEF Spend
  <2> QED BY <2>1, <1>0, <1>5
<1>9. CASE PeriodEnds \/ UNCHANGED vars
  BY <1>9, <1>0, InboxUntouched DEF PeriodEnds, vars
<1>10. ASSUME NEW o \in Openers, OpenStep(o) \/ OpenItemFails(o) PROVE InboxInv'
  BY <1>10, LookKeepsInbox, InsertKeepsInbox, FailKeepsInbox DEF OpenStep
<1>11. ASSUME NEW i \in items, Resolve(i) PROVE InboxInv'
  BY <1>11, ResolveKeepsInbox
<1>12. ASSUME NEW q \in Requests, GuardStep(q) \/ AlertFails(q) PROVE InboxInv'
  <2>1. request[q] # "refused"
    BY <1>12 DEF GuardInv, GuardStep, LookForAlert, InsertAlert, AlertFails
  <2>2. /\ UNCHANGED <<items, looked, dispatch>> /\ failed \subseteq failed'
        /\ clock' \in Nat /\ clock' >= clock
        /\ AfterAlert(q) \/ UNCHANGED <<request, opening>>
    BY <1>0, <1>12 DEF GuardStep, LookForAlert, InsertAlert, AlertFails, DbError
  <2>3. CASE AfterAlert(q)
    BY <2>1, <2>2, <2>3, <1>7
  <2>4. CASE UNCHANGED <<request, opening>>
    BY <2>2, <2>4, <1>0, InboxUntouched
  <2> QED BY <2>2, <2>3, <2>4
<1> QED
  BY <1>1, <1>2, <1>3, <1>4, <1>6, <1>8, <1>9, <1>10, <1>11, <1>12 DEF Next, BusStep

-----------------------------------------------------------------------------
(* The budget limit. *)

Failures == Cardinality(failed \cap Requests)

\* While requests do not overlap, one that runs was let through below the limit, or
\* is itself one of the failures.
BudgetInv ==
    /\ seen \in [Requests -> [spend : Nat, period : Nat]] /\ spend \in Nat /\ period \in Nat
    /\ \A q \in Requests : seen[q].period <= period
    /\ RefusalIsOnRecord
    /\ IsFiniteSet(failed) /\ \A q \in Requests : request[q] = "idle" => q \notin failed
    /\ ~overlap =>
         /\ spend <= Limit + 1 + Failures
         /\ \A p, q \in InFlight : p = q
         /\ \A q \in Requests : /\ request[q] = "warn" => spend <= seen[q].spend
                                /\ request[q] = "running" => spend <= Limit + Failures

LEMMA FailuresGrow ==
    ASSUME IsFiniteSet(failed), NEW o, failed' = failed \/ failed' = failed \cup {o}
    PROVE  /\ Failures \in Nat /\ Failures' \in Nat /\ Failures <= Failures'
           /\ IsFiniteSet(failed')
           /\ failed' = failed \cup {o} /\ o \in Requests /\ o \notin failed => Failures' = Failures + 1
<1> DEFINE F == failed \cap Requests
           G == failed' \cap Requests
<1>1. IsFiniteSet(failed')
  BY FS_AddElement
<1>2. IsFiniteSet(F) /\ IsFiniteSet(G)
  BY <1>1, FS_Subset
<1>3. F \subseteq G
  OBVIOUS
<1>4. Failures = Cardinality(F) /\ Failures' = Cardinality(G)
  BY DEF Failures
<1>5. failed' = failed \cup {o} /\ o \in Requests /\ o \notin failed => G = F \cup {o} /\ o \notin F
  OBVIOUS
<1> HIDE DEF F, G
<1>6. Cardinality(F) \in Nat /\ Cardinality(G) \in Nat /\ Cardinality(F) <= Cardinality(G)
  BY <1>2, <1>3, FS_Subset, FS_CardinalityType
<1>7. o \notin F => Cardinality(F \cup {o}) = Cardinality(F) + 1
  BY <1>2, FS_AddElement
<1> QED BY <1>1, <1>4, <1>5, <1>6, <1>7

\* Failures only raise the ceiling.
LEMMA CeilingRises ==
    ASSUME NEW s \in Nat, NEW l \in Nat, NEW f \in Nat, NEW g \in Nat, f <= g
    PROVE  /\ s <= l + 1 + f => s <= l + 1 + g
           /\ s <= l + f => s <= l + g
           /\ s <= l => s <= l + g
           /\ s <= l + 1 + f /\ g = f + 1 => s <= l + g
OBVIOUS

\* A step that leaves the budget alone, though one of its calls may have failed.
LEMMA BudgetUntouched ==
    ASSUME BudgetInv, UNCHANGED <<request, seen, alerts, spend, period, overlap>>,
           NEW o,
           failed' = failed \/ (failed' = failed \cup {o} /\ (o \in Requests => request[o] # "idle"))
    PROVE  BudgetInv'
<1>1. Failures \in Nat /\ Failures' \in Nat /\ Failures <= Failures' /\ IsFiniteSet(failed')
  BY FailuresGrow DEF BudgetInv
<1>2. RefusalIsOnRecord'
  BY DEF BudgetInv, RefusalIsOnRecord
<1>3. \A q \in Requests : request'[q] = "idle" => q \notin failed'
  BY DEF BudgetInv
<1>4. Limit \in Nat
  BY InboxAssumption
<1>5. InFlight' = InFlight
  BY DEF InFlight
<1>6. ~overlap' =>
        /\ spend' <= Limit + 1 + Failures'
        /\ \A p, q \in InFlight' : p = q
        /\ \A q \in Requests : /\ request'[q] = "warn" => spend' <= seen'[q].spend
                               /\ request'[q] = "running" => spend' <= Limit + Failures'
  <2>1. spend \in Nat /\ spend' = spend
    BY DEF BudgetInv
  <2>2. /\ spend <= Limit + 1 + Failures => spend' <= Limit + 1 + Failures'
        /\ spend <= Limit + Failures => spend' <= Limit + Failures'
    <3>1. Failures \in Nat /\ Failures' \in Nat /\ Failures <= Failures' /\ Limit \in Nat /\ spend \in Nat
      BY <1>1, <1>4, <2>1
    <3>2. /\ spend <= Limit + 1 + Failures => spend <= Limit + 1 + Failures'
          /\ spend <= Limit + Failures => spend <= Limit + Failures'
      BY ONLY <3>1, CeilingRises
    <3> QED BY <3>2, <2>1
  <2> QED BY <1>5, <2>2 DEF BudgetInv
<1> QED BY <1>1, <1>2, <1>3, <1>6 DEF BudgetInv

\* A request whose alert is recorded, or could not be, goes on.
LEMMA AlertKeepsBudget ==
    ASSUME BudgetInv, NEW q \in Requests, AfterAlert(q), request[q] \in {"warn", "block"},
           request \in [Requests -> {"idle", "warn", "block", "refused", "running", "done"}],
           UNCHANGED <<seen, spend, period, overlap>>, alerts \subseteq alerts',
           failed' = failed \/ failed' = failed \cup {q},
           request[q] = "block" => q \in failed' \/ \E a \in alerts' : a.trigger = "block" /\ a.period = period
    PROVE  BudgetInv'
<1>1. Failures \in Nat /\ Failures' \in Nat /\ Failures <= Failures' /\ IsFiniteSet(failed')
  BY FailuresGrow DEF BudgetInv
<1>2. /\ request' = [request EXCEPT ![q] = IF request[q] = "warn" THEN Verdict(seen[q].spend) ELSE "refused"]
      /\ Limit \in Nat /\ seen[q].spend \in Nat /\ seen[q].period \in Nat /\ seen[q].period <= period
      /\ spend \in Nat /\ period \in Nat
  BY InboxAssumption DEF AfterAlert, BudgetInv
<1>3. /\ request'[q] = IF request[q] = "warn" THEN Verdict(seen[q].spend) ELSE "refused"
      /\ \A p \in Requests \ {q} : request'[p] = request[p]
  BY <1>2
<1>4. RefusalIsOnRecord'
  <2> SUFFICES ASSUME NEW p \in Requests \ failed', request'[p] = "refused"
               PROVE  \E a \in alerts' : a.trigger = "block" /\ a.period >= seen[p].period
    BY DEF RefusalIsOnRecord
  <2>1. CASE p # q
    BY <2>1, <1>3 DEF BudgetInv, RefusalIsOnRecord
  <2>2. CASE p = q
    <3>1. request[q] = "block"
      BY <2>2, <1>3 DEF Verdict
    <3>2. PICK a \in alerts' : a.trigger = "block" /\ a.period = period
      BY <3>1, <2>2
    <3> QED BY <3>2, <2>2, <1>2
  <2> QED BY <2>1, <2>2
<1>5. \A p \in Requests : request'[p] = "idle" => p \notin failed'
  BY <1>3 DEF BudgetInv, Verdict
<1>6. ASSUME ~overlap'
      PROVE  /\ spend' <= Limit + 1 + Failures'
             /\ \A p, r \in InFlight' : p = r
             /\ \A p \in Requests : /\ request'[p] = "warn" => spend' <= seen'[p].spend
                                    /\ request'[p] = "running" => spend' <= Limit + Failures'
  <2>1. /\ spend <= Limit + 1 + Failures
        /\ \A p, r \in InFlight : p = r
        /\ \A p \in Requests : /\ request[p] = "warn" => spend <= seen[p].spend
                               /\ request[p] = "running" => spend <= Limit + Failures
    BY <1>6 DEF BudgetInv
  <2>2. InFlight' \subseteq InFlight
    BY <1>3 DEF InFlight
  <2>3. request'[q] # "warn" /\ (request'[q] = "running" => spend <= Limit + Failures')
    <3>1. request'[q] # "warn" /\ (request'[q] = "running" => request[q] = "warn" /\ seen[q].spend <= Limit)
      BY <1>2, <1>3 DEF Verdict, OverLimit
    <3>2. request'[q] = "running" => spend <= Limit
      BY <1>2, <2>1, <3>1
    <3>3. spend <= Limit => spend <= Limit + Failures'
      BY <1>1, <1>2, CeilingRises
    <3> QED BY <3>1, <3>2, <3>3
  <2>a. /\ spend <= Limit + Failures => spend <= Limit + Failures'
        /\ spend <= Limit + 1 + Failures => spend <= Limit + 1 + Failures'
    BY <1>1, <1>2, CeilingRises
  <2>4. \A p \in Requests : request'[p] = "running" => spend' <= Limit + Failures'
    BY <1>3, <2>1, <2>3, <2>a
  <2>5. \A p \in Requests : request'[p] = "warn" => spend' <= seen'[p].spend
    BY <1>3, <2>1, <2>3
  <2>6. spend' <= Limit + 1 + Failures'
    BY <2>1, <2>a
  <2> QED BY <2>1, <2>2, <2>4, <2>5, <2>6
<1> QED BY <1>1, <1>4, <1>5, <1>6 DEF BudgetInv

LEMMA CheckKeepsBudget ==
    ASSUME InboxInv, BudgetInv, NEW q \in Requests, CheckBudget(q)
    PROVE  BudgetInv'
<1> USE DEF hookVars, itemVars, budgetVars
<1>1. /\ request[q] = "idle" /\ overlap' = (overlap \/ InFlight # {}) /\ UNCHANGED <<alerts, spend, period>>
      /\ request \in [Requests -> {"idle", "warn", "block", "refused", "running", "done"}]
      /\ q \notin failed /\ spend \in Nat /\ period \in Nat /\ Limit \in Nat
      /\ seen \in [Requests -> [spend : Nat, period : Nat]]
      /\ failed' = failed \/ failed' = failed \cup {q}
  BY InboxAssumption DEF CheckBudget, DbError, BudgetInv, InboxInv, DatedInv
<1>2. Failures \in Nat /\ Failures' \in Nat /\ Failures <= Failures' /\ IsFiniteSet(failed')
  BY <1>1, FailuresGrow DEF BudgetInv
<1>3. \/ /\ seen' = [seen EXCEPT ![q] = [spend |-> spend, period |-> period]] /\ failed' = failed
         /\ request' = [request EXCEPT ![q] = IF spend >= Warn THEN "warn" ELSE Verdict(spend)]
      \/ /\ failed' = failed \cup {q} /\ seen' = seen /\ request' = [request EXCEPT ![q] = "running"]
  BY <1>1 DEF CheckBudget, DbError
<1>4. /\ \A p \in Requests \ {q} : request'[p] = request[p] /\ seen'[p] = seen[p]
      /\ seen' \in [Requests -> [spend : Nat, period : Nat]]
      /\ request'[q] \in {"warn", "block", "running"}
      /\ request'[q] = "warn" => seen'[q].spend = spend
      /\ seen'[q].period <= period
    <2>1. CASE seen' = seen /\ request' = [request EXCEPT ![q] = "running"]
      BY <1>1, <2>1 DEF BudgetInv
    <2>2. CASE /\ seen' = [seen EXCEPT ![q] = [spend |-> spend, period |-> period]]
               /\ request' = [request EXCEPT ![q] = IF spend >= Warn THEN "warn" ELSE Verdict(spend)]
      <3>1. seen'[q] = [spend |-> spend, period |-> period]
        BY <1>1, <2>2
      <3>2. request'[q] \in {"warn", "block", "running"}
        BY <1>1, <2>2 DEF Verdict
      <3>3. seen' \in [Requests -> [spend : Nat, period : Nat]]
        BY <1>1, <2>2
      <3>4. \A p \in Requests \ {q} : request'[p] = request[p] /\ seen'[p] = seen[p]
        BY <1>1, <2>2
      <3> QED BY <1>1, <3>1, <3>2, <3>3, <3>4
    <2> QED BY <1>3, <2>1, <2>2
<1>5. RefusalIsOnRecord'
  BY <1>1, <1>4 DEF BudgetInv, RefusalIsOnRecord
<1>6. /\ \A p \in Requests : request'[p] = "idle" => p \notin failed'
      /\ \A p \in Requests : seen'[p].period <= period'
  BY <1>1, <1>4 DEF BudgetInv
<1>7. ASSUME ~overlap'
      PROVE  /\ spend' <= Limit + 1 + Failures'
             /\ \A p, r \in InFlight' : p = r
             /\ \A p \in Requests : /\ request'[p] = "warn" => spend' <= seen'[p].spend
                                    /\ request'[p] = "running" => spend' <= Limit + Failures'
  <2>1. InFlight = {} /\ spend <= Limit + 1 + Failures
    BY <1>1, <1>7 DEF BudgetInv
  <2>2. InFlight' \subseteq {q}
    BY <1>4, <2>1 DEF InFlight
  <2>3. request'[q] = "running" => spend <= Limit + Failures'
    <3>1. CASE failed' = failed \cup {q}
      <4>1. Failures' = Failures + 1
        BY <3>1, <1>1, FailuresGrow DEF BudgetInv
      <4> QED BY <4>1, <2>1, <1>1, <1>2, CeilingRises
    <3>2. CASE request' = [request EXCEPT ![q] = IF spend >= Warn THEN "warn" ELSE Verdict(spend)]
      <4>1. request'[q] = IF spend >= Warn THEN "warn" ELSE Verdict(spend)
        BY <3>2, <1>1
      <4>2. request'[q] = "running" => spend <= Limit
        BY <4>1, <1>1 DEF Verdict, OverLimit
      <4> QED BY <4>2, <1>1, <1>2, CeilingRises
    <3> QED BY <1>3, <3>1, <3>2
  <2>4. \A p \in Requests \ {q} : request'[p] \notin {"warn", "running"}
    BY <1>4, <2>1 DEF InFlight
  <2>5. request'[q] = "warn" => spend' <= seen'[q].spend
    BY <1>1, <1>4
  <2>6. spend' <= Limit + 1 + Failures'
    BY <1>1, <1>2, <2>1, CeilingRises
  <2> QED BY <1>1, <2>2, <2>3, <2>4, <2>5, <2>6
<1> QED BY <1>1, <1>2, <1>4, <1>5, <1>6, <1>7 DEF BudgetInv

LEMMA SpendKeepsBudget ==
    ASSUME InboxInv, BudgetInv, NEW q \in Requests, Spend(q)
    PROVE  BudgetInv'
<1>1. /\ request[q] = "running" /\ request' = [request EXCEPT ![q] = "done"] /\ spend' = spend + 1
      /\ UNCHANGED <<seen, alerts, period, overlap, failed>>
      /\ request \in [Requests -> {"idle", "warn", "block", "refused", "running", "done"}]
      /\ spend \in Nat /\ Limit \in Nat
  BY InboxAssumption DEF Spend, BudgetInv, InboxInv, DatedInv
<1>2. /\ request'[q] = "done" /\ \A p \in Requests \ {q} : request'[p] = request[p]
  BY <1>1
<1>3. Failures \in Nat /\ Failures' = Failures
  BY <1>1, FailuresGrow DEF BudgetInv, Failures
<1>4. RefusalIsOnRecord'
  BY <1>1, <1>2 DEF BudgetInv, RefusalIsOnRecord
<1>5. ASSUME ~overlap'
      PROVE  /\ spend' <= Limit + 1 + Failures'
             /\ \A p, r \in InFlight' : p = r
             /\ \A p \in Requests : /\ request'[p] = "warn" => spend' <= seen'[p].spend
                                    /\ request'[p] = "running" => spend' <= Limit + Failures'
  <2>1. \A p \in InFlight : p = q
    BY <1>1, <1>5 DEF BudgetInv, InFlight
  <2>2. spend' <= Limit + 1 + Failures'
    BY <1>1, <1>3, <1>5 DEF BudgetInv
  <2>3. \A p \in Requests : request'[p] \notin {"warn", "block", "running"}
    BY <1>2, <2>1 DEF InFlight
  <2> QED BY <2>2, <2>3 DEF InFlight
<1> QED BY <1>1, <1>2, <1>4, <1>5 DEF BudgetInv

LEMMA PeriodKeepsBudget ==
    ASSUME BudgetInv, PeriodEnds
    PROVE  BudgetInv'
<1> USE DEF hookVars, itemVars, budgetVars
<1>1. /\ period' = period + 1 /\ spend' = 0 /\ UNCHANGED <<request, seen, alerts, overlap, failed>>
      /\ period \in Nat /\ Limit \in Nat /\ seen \in [Requests -> [spend : Nat, period : Nat]]
  BY InboxAssumption DEF PeriodEnds, BudgetInv
<1>2. Failures \in Nat /\ Failures' = Failures /\ InFlight' = InFlight
  BY <1>1, FailuresGrow DEF BudgetInv, Failures, InFlight
<1>3. RefusalIsOnRecord'
  BY <1>1 DEF BudgetInv, RefusalIsOnRecord
<1>4. \A q \in Requests : seen'[q].period <= period'
  BY <1>1 DEF BudgetInv
<1> QED BY <1>1, <1>2, <1>3, <1>4 DEF BudgetInv

LEMMA BudgetStep ==
    ASSUME InboxInv, GuardInv, BudgetInv, [Next]_vars
    PROVE  BudgetInv'
<1> USE DEF hookVars, itemVars, budgetVars
<1>0. request \in [Requests -> {"idle", "warn", "block", "refused", "running", "done"}]
  BY DEF InboxInv, DatedInv
<1>1. ASSUME UNCHANGED <<request, seen, alerts, spend, period, overlap, failed>> PROVE BudgetInv'
  BY <1>1, BudgetUntouched
<1>2. ASSUME NEW q \in Requests, AlertFails(q) PROVE BudgetInv'
  <2>1. /\ AfterAlert(q) /\ request[q] \in {"warn", "block"} /\ failed' = failed \cup {q}
        /\ UNCHANGED <<seen, spend, period, overlap, alerts>>
    BY <1>2 DEF AlertFails, DbError, GuardInv
  <2> QED BY <2>1, <1>0, AlertKeepsBudget
<1>3. ASSUME NEW q \in Requests, LookForAlert(q) PROVE BudgetInv'
  <2>1. /\ request[q] \in {"warn", "block"} /\ UNCHANGED <<seen, spend, period, overlap, alerts, failed>>
    BY <1>3 DEF LookForAlert, GuardInv
  <2>2. CASE (\E a \in alerts : a.trigger = request[q] /\ a.period = period) /\ AfterAlert(q)
    BY <2>1, <2>2, <1>0, AlertKeepsBudget
  <2>3. CASE UNCHANGED request
    BY <2>1, <2>3, <1>1
  <2> QED BY <1>3, <2>2, <2>3 DEF LookForAlert
<1>4. ASSUME NEW q \in Requests, InsertAlert(q) PROVE BudgetInv'
  <2> DEFINE a == [by |-> q, trigger |-> request[q], at |-> clock, period |-> period]
  <2>1. /\ request[q] \in {"warn", "block"} /\ UNCHANGED <<seen, spend, period, overlap, failed>>
        /\ AfterAlert(q) /\ alerts' = alerts \cup {a}
    BY <1>4 DEF InsertAlert, GuardInv
  <2>2. a \in alerts' /\ a.trigger = request[q] /\ a.period = period
    BY <2>1
  <2> HIDE DEF a
  <2> QED BY <2>1, <2>2, <1>0, AlertKeepsBudget
<1>5. ASSUME NEW o \in Openers, OpenItemFails(o) PROVE BudgetInv'
  <2>1. /\ UNCHANGED <<request, seen, alerts, spend, period, overlap>> /\ failed' = failed \cup {o}
        /\ opening[o] # "no"
    BY <1>5 DEF OpenItemFails, DbError
  <2>2. o \in Requests => request[o] # "idle"
    BY <2>1 DEF InboxInv, OnceInv
  <2> QED BY <2>1, <2>2, BudgetUntouched
<1>6. CASE \E e \in Emits : Emit(e)
  BY <1>6, <1>1 DEF Emit
<1>7. CASE \E d \in Dispatches : BusStep(d) \/ \E outcome \in {"returned", "threw"} : HandlerSettles(d, outcome)
  BY <1>7, <1>1 DEF BusStep, RaceEnds, LogInvocation, HandlerSettles
<1>8. CASE \E o \in Openers : OpenStep(o)
  BY <1>8, <1>1 DEF OpenStep, LookForItem, InsertItem
<1>9. CASE (\E i \in items : Resolve(i)) \/ UNCHANGED vars
  BY <1>9, <1>1 DEF Resolve, vars
<1>10. ASSUME NEW q \in Requests, CheckBudget(q) \/ Spend(q) PROVE BudgetInv'
  BY <1>10, CheckKeepsBudget, SpendKeepsBudget
<1>11. CASE PeriodEnds
  BY <1>11, PeriodKeepsBudget
<1> QED
  BY <1>2, <1>3, <1>4, <1>5, <1>6, <1>7, <1>8, <1>9, <1>10, <1>11 DEF Next, GuardStep

-----------------------------------------------------------------------------
LEMMA InboxBegins == Init => InboxInv /\ GuardInv /\ BudgetInv
<1> SUFFICES ASSUME Init PROVE InboxInv /\ GuardInv /\ BudgetInv
  OBVIOUS
<1>1. InboxInv
  <2>1. DatedInv
    BY DEF Init, DatedInv
  <2>2. OnceInv
    BY DEF Init, OnceInv, Openers
  <2>3. RaceInv /\ OneItemUnlessRaced /\ ReportReachesOperator
    BY DEF Init, RaceInv, OneItemUnlessRaced, ReportReachesOperator, Reported
  <2> QED BY <2>1, <2>2, <2>3 DEF InboxInv
<1>2. GuardInv
  BY DEF Init, GuardInv
<1>3. BudgetInv
  <2>1. IsFiniteSet(failed) /\ Failures = 0
    BY FS_EmptySet DEF Init, Failures
  <2>2. InFlight = {} /\ RefusalIsOnRecord
    BY DEF Init, InFlight, RefusalIsOnRecord
  <2>3. \A q \in Requests : seen[q] = [spend |-> 0, period |-> 1]
    BY DEF Init
  <2>4. seen \in [Requests -> [spend : Nat, period : Nat]]
    BY DEF Init
  <2>5. /\ \A q \in Requests : seen[q].period <= period /\ request[q] = "idle"
        /\ spend = 0 /\ period = 1 /\ failed = {}
    BY <2>3 DEF Init
  <2> QED BY <2>1, <2>2, <2>4, <2>5, InboxAssumption DEF BudgetInv
<1> QED BY <1>1, <1>2, <1>3

LEMMA InboxInvariant == Spec => [](InboxInv /\ GuardInv /\ BudgetInv)
<1>1. InboxInv /\ GuardInv /\ BudgetInv /\ [Next]_vars => (InboxInv /\ GuardInv /\ BudgetInv)'
  BY InboxStep, GuardInvStep, BudgetStep
<1> QED BY <1>1, InboxBegins, PTL DEF Spec

\* Every report that openReviewItem made without an error is in front of the
\* operator: closing an item never swallows the report that comes after it.
THEOREM ReportsReachOperator == Spec => []ReportReachesOperator
<1>1. InboxInv => ReportReachesOperator
  BY DEF InboxInv
<1> QED BY <1>1, InboxInvariant, PTL

\* openReviewItem's look before its insert collapses repeated reports into one item,
\* except those that looked before either had inserted.
THEOREM ItemsCollapse == Spec => []OneItemUnlessRaced
<1>1. InboxInv => OneItemUnlessRaced
  BY DEF InboxInv
<1> QED BY <1>1, InboxInvariant, PTL

\* enforceBudgetGuard lets sequential requests pass the limit by one request at most,
\* plus one for each check that threw, and every refusal has its alert.
THEOREM BudgetLimitIsKept == Spec => []LimitIsKept
<1>1. BudgetInv => LimitIsKept
  BY DEF BudgetInv, LimitIsKept, CapHoldsForSequentialRequests, Failures
<1> QED BY <1>1, InboxInvariant, PTL

-----------------------------------------------------------------------------
(* The schedule of automations. *)

(* computeNextRunAt returns a later minute.                                *)
LEMMA NextRunIsLater ==
    ASSUME NEW n \in Nat \ {0}, NEW t \in Nat
    PROVE  NextRunAt(n, t) \in Nat /\ NextRunAt(n, t) > t
<1> DEFINE q == t \div n
           r == t % n
<1>1. q \in Nat /\ r \in 0..(n - 1) /\ t = n * q + r
  OBVIOUS
<1> HIDE DEF q, r
<1>2. (q + 1) * n = n * q + n
  BY <1>1
<1>3. n * q \in Nat
  BY <1>1
<1>4. (q + 1) * n \in Nat /\ (q + 1) * n > t
  BY <1>1, <1>2, <1>3
<1> QED BY <1>4 DEF NextRunAt, q

(* The slots are minutes, and every schedule computed by the clock is one.  *)
LEMMA SlotFacts ==
    /\ Slots \subseteq Nat
    /\ \A n \in Steps, t \in 0..Horizon : NextRunAt(n, t) \in Slots /\ NextRunAt(n, t) > t
    /\ Runs \subseteq Keys /\ Dispatch \in Keys \ Runs
    /\ \A k \in Runs : AutomationOf(k) \in Autos /\ k[2] \in Slots /\ k[2] \in Nat
    /\ \A k \in Runs, l \in Runs : AutomationOf(k) = AutomationOf(l) /\ k[2] = l[2] => k = l
    /\ AnyStep \in Steps
<1>1. \A n \in Steps, t \in 0..Horizon : NextRunAt(n, t) \in Nat /\ NextRunAt(n, t) > t
  BY NextRunIsLater, AutomationsAssumption
<1>2. \A n \in Steps, t \in 0..Horizon : NextRunAt(n, t) \in Slots
  BY DEF Slots
<1>3. Slots \subseteq Nat
  BY <1>1 DEF Slots
<1>4. Runs \subseteq Keys /\ Dispatch \in Keys
  BY DEF Keys
<1>5. Dispatch \notin Runs
  <2> SUFFICES ASSUME NEW a \in Autos, NEW t \in Slots, Dispatch = <<a, t>> PROVE FALSE
    BY DEF Runs
  <2>1. Len(Dispatch) = 1 /\ Len(<<a, t>>) = 2
    BY DEF Dispatch
  <2> QED BY <2>1
<1>6. \A k \in Runs : AutomationOf(k) \in Autos /\ k[2] \in Slots /\ k[2] \in Nat
  BY <1>3 DEF Runs, AutomationOf
<1>7. \A k \in Runs, l \in Runs : AutomationOf(k) = AutomationOf(l) /\ k[2] = l[2] => k = l
  BY DEF Runs, AutomationOf
<1>8. AnyStep \in Steps
  BY AutomationsAssumption DEF AnyStep
<1> QED BY <1>1, <1>2, <1>3, <1>4, <1>5, <1>6, <1>7, <1>8

-----------------------------------------------------------------------------
AutoTypes == AutoTypeOK /\ AttemptsLeft

LEMMA AutoTypeStep == AutoTypes /\ AutoNext => AutoTypes'
<1> SUFFICES ASSUME AutoTypes, AutoNext PROVE AutoTypes'
  OBVIOUS
<1> USE AutomationsAssumption, SlotFacts
    DEF AutoTypes, AutoTypeOK, AttemptsLeft, scheduleVars, queueVars, handlerVars, boundVars, SetRow,
        HasDone, TroubleLeft, Fails, Dies, Fail, Complete, Edit
<1>1. CASE ScheduleDispatch
  BY <1>1 DEF ScheduleDispatch, EnqueueJob
<1>2. ASSUME NEW d \in Dispatchers, ReadDue(d) PROVE todo' \in [Dispatchers -> SUBSET Runs]
  <2>1. Due \subseteq Runs
    BY DEF Due, Runs
  <2>2. PICK B \in DueBatches : todo' = [todo EXCEPT ![d] = B]
    BY <1>2 DEF ReadDue
  <2> QED BY <2>1, <2>2 DEF DueBatches
<1>3. CASE RouteReads
  BY <1>2, <1>3 DEF RouteReads, Dispatchers
<1>4. CASE DispatchReads
  BY <1>2, <1>4 DEF DispatchReads, Dispatchers
<1>5. CASE DispatchEnds
  BY <1>5 DEF DispatchEnds
<1>6. CASE DispatchThrows
  BY <1>6 DEF DispatchThrows
<1>7. ASSUME NEW d \in Dispatchers, NEW k \in Runs, EnqueueRun(d, k) PROVE AutoTypes'
  BY <1>7 DEF EnqueueRun, EarliestOf, EnqueueJob
<1>8. ASSUME NEW d \in Dispatchers, NEW k \in Runs, EnqueueThrows(d, k) PROVE AutoTypes'
  BY <1>8 DEF EnqueueThrows
<1>9. ASSUME NEW k \in Keys, Claim(k) PROVE AutoTypes'
  BY <1>9 DEF Claim
<1>10. ASSUME NEW k \in Keys, Begin(k) PROVE AutoTypes'
  BY <1>10 DEF Begin
<1>11. ASSUME NEW k \in Runs, LoadAutomation(k) PROVE AutoTypes'
  BY <1>11 DEF LoadAutomation
<1>12. ASSUME NEW k \in Runs, NotEnabled(k) PROVE AutoTypes'
  BY <1>12 DEF NotEnabled
<1>13. ASSUME NEW k \in Runs, Execute(k) PROVE AutoTypes'
  <2>1. PICK i : runs' = [runs EXCEPT ![i] = @ + 1]
    BY <1>13 DEF Execute
  <2>2. runs' = [j \in Runs |-> IF j = i THEN runs[j] + 1 ELSE runs[j]]
    BY <2>1
  <2>3. runs' \in [Runs -> Nat]
    BY <2>2
  <2>4. did' = [did EXCEPT ![k] = "executed"]
    BY <1>13 DEF Execute
  <2> QED BY <1>13, <2>4, <2>3 DEF Execute
<1>14. ASSUME NEW k \in Runs, BudgetBlocked(k) PROVE AutoTypes'
  BY <1>14 DEF BudgetBlocked
<1>15. ASSUME NEW k \in Runs, UpdateSchedule(k) PROVE AutoTypes'
  BY <1>15 DEF UpdateSchedule
<1>16. ASSUME NEW k \in Runs, RunEnds(k) PROVE AutoTypes'
  BY <1>16 DEF RunEnds
<1>17. ASSUME NEW k \in Runs, RunThrows(k) PROVE AutoTypes'
  BY <1>17 DEF RunThrows
<1>18. ASSUME NEW a \in Autos, NEW n \in Steps, CreateAutomation(a, n) PROVE AutoTypes'
  BY <1>18 DEF CreateAutomation
<1>19. ASSUME NEW a \in Autos, ToggleAutomation(a) PROVE AutoTypes'
  BY <1>19 DEF ToggleAutomation
<1>20. ASSUME NEW a \in Autos, NEW n \in Steps, Reschedule(a, n) PROVE AutoTypes'
  BY <1>20 DEF Reschedule
<1>21. ASSUME NEW a \in Autos, DeleteAutomation(a) PROVE AutoTypes'
  BY <1>21 DEF DeleteAutomation
<1>22. CASE MinutePasses
  BY <1>22 DEF MinutePasses
<1>23. ASSUME NEW k \in Keys, WorkerDies(k) PROVE AutoTypes'
  BY <1>23 DEF WorkerDies, Dispatchers
<1>24. CASE RouteDies
  <2>1. deaths' \in 0..MaxTroubles /\ UNCHANGED <<failures, edits>>
    BY <1>24 DEF RouteDies
  <2>2. todo' \in [Dispatchers -> SUBSET Runs]
    BY <1>24 DEF RouteDies
  <2>3. UNCHANGED <<now, status, cron, nextRun, rescheduled, row, tries, did, loaded, runs>>
    BY <1>24 DEF RouteDies
  <2> QED BY <2>1, <2>2, <2>3
<1> QED BY <1>1, <1>3, <1>4, <1>5, <1>6, <1>7, <1>8, <1>9, <1>10, <1>11, <1>12, <1>13, <1>14,
           <1>15, <1>16, <1>17, <1>18, <1>19, <1>20, <1>21, <1>22, <1>23, <1>24
        DEF AutoNext, DispatchStep, RunStep, OwnerStep

LEMMA AutoTypeInvariant == AutoSpec => []AutoTypes
<1>1. AutoInit => AutoTypes
  BY AutomationsAssumption, SlotFacts DEF AutoInit, AutoTypes, AutoTypeOK, AttemptsLeft
<1>2. AutoTypes /\ UNCHANGED autoVars => AutoTypes'
  BY DEF AutoTypes, AutoTypeOK, AttemptsLeft, autoVars, scheduleVars, queueVars, handlerVars, boundVars
<1> QED BY <1>1, <1>2, AutoTypeStep, PTL DEF AutoSpec

(* The automations, their jobs and the handlers' variables keep their types, *)
(* and failJob never leaves a job more attempts than its maximum.            *)
THEOREM AutomationTypes == AutoSpec => []AutoTypeOK
BY AutoTypeInvariant, PTL DEF AutoTypes

(* The batch that a dispatcher reads: slots that are due, of enabled automations. *)
LEMMA ReadFacts ==
    ASSUME AutoTypes, NEW d \in Dispatchers, ReadDue(d)
    PROVE  /\ \A k \in todo'[d] : /\ k \in Runs /\ k[2] = nextRun[AutomationOf(k)] /\ k[2] <= now
                                   /\ status[AutomationOf(k)] = "enabled"
           /\ \A e \in Dispatchers : e # d => todo'[e] = todo[e]
<1>1. PICK B \in DueBatches : todo' = [todo EXCEPT ![d] = B]
  BY DEF ReadDue
<1>2. todo'[d] \subseteq Due /\ \A e \in Dispatchers : e # d => todo'[e] = todo[e]
  BY <1>1 DEF DueBatches, AutoTypes, AutoTypeOK
<1>3. \A k \in Due : /\ k \in Runs /\ k[2] = nextRun[AutomationOf(k)] /\ k[2] <= now
                     /\ status[AutomationOf(k)] = "enabled"
  BY DEF Due, Runs, AutomationOf, AutoTypes, AutoTypeOK
<1> QED BY <1>2, <1>3

-----------------------------------------------------------------------------
(* What is read or enqueued was due, and handlers work on running rows.     *)
LEMMA GroundedStep == AutoTypes /\ Grounded /\ AutoNext => Grounded'
<1> SUFFICES ASSUME AutoTypes, Grounded, AutoNext PROVE Grounded'
  OBVIOUS
<1> USE AutomationsAssumption, SlotFacts
    DEF AutoTypes, AutoTypeOK, Grounded, Dispatchers, scheduleVars, queueVars, handlerVars, boundVars, SetRow,
        HasDone, TroubleLeft, Fails, Dies, Fail, Complete, Edit
<1>1. ASSUME ScheduleDispatch PROVE Grounded'
  BY <1>1 DEF ScheduleDispatch, EnqueueJob
<1>2. ASSUME RouteReads PROVE Grounded'
  BY <1>2, ReadFacts DEF RouteReads
<1>3. ASSUME DispatchReads PROVE Grounded'
  BY <1>3, ReadFacts DEF DispatchReads
<1>4. ASSUME DispatchEnds PROVE Grounded'
  BY <1>4 DEF DispatchEnds
<1>5. ASSUME DispatchThrows PROVE Grounded'
  BY <1>5 DEF DispatchThrows
<1>6. ASSUME NEW d \in Dispatchers, NEW k \in Runs, EnqueueRun(d, k) PROVE Grounded'
  BY <1>6 DEF EnqueueRun, EarliestOf, EnqueueJob
<1>7. ASSUME NEW d \in Dispatchers, NEW k \in Runs, EnqueueThrows(d, k) PROVE Grounded'
  BY <1>7 DEF EnqueueThrows
<1>8. ASSUME NEW k \in Keys, Claim(k) PROVE Grounded'
  BY <1>8 DEF Claim
<1>9. ASSUME NEW k \in Keys, Begin(k) PROVE Grounded'
  BY <1>9 DEF Begin
<1>10. ASSUME NEW k \in Runs, LoadAutomation(k) PROVE Grounded'
  BY <1>10 DEF LoadAutomation
<1>11. ASSUME NEW k \in Runs, NotEnabled(k) PROVE Grounded'
  BY <1>11 DEF NotEnabled
<1>12. ASSUME NEW k \in Runs, Execute(k) PROVE Grounded'
  BY <1>12 DEF Execute
<1>13. ASSUME NEW k \in Runs, BudgetBlocked(k) PROVE Grounded'
  BY <1>13 DEF BudgetBlocked
<1>14. ASSUME NEW k \in Runs, UpdateSchedule(k) PROVE Grounded'
  BY <1>14 DEF UpdateSchedule
<1>15. ASSUME NEW k \in Runs, RunEnds(k) PROVE Grounded'
  BY <1>15 DEF RunEnds
<1>16. ASSUME NEW k \in Runs, RunThrows(k) PROVE Grounded'
  BY <1>16 DEF RunThrows
<1>17. ASSUME NEW a \in Autos, NEW n \in Steps, CreateAutomation(a, n) PROVE Grounded'
  BY <1>17 DEF CreateAutomation
<1>18. ASSUME NEW a \in Autos, ToggleAutomation(a) PROVE Grounded'
  BY <1>18 DEF ToggleAutomation
<1>19. ASSUME NEW a \in Autos, NEW n \in Steps, Reschedule(a, n) PROVE Grounded'
  BY <1>19 DEF Reschedule
<1>20. ASSUME NEW a \in Autos, DeleteAutomation(a) PROVE Grounded'
  BY <1>20 DEF DeleteAutomation
<1>21. ASSUME MinutePasses PROVE Grounded'
  <2>1. now' = now + 1 /\ UNCHANGED <<status, row, did, todo>>
    BY <1>21 DEF MinutePasses
  <2>2. SUFFICES ASSUME NEW k \in Runs, k[2] <= now PROVE k[2] <= now'
    BY <2>1
  <2>3. k[2] \in Nat /\ now \in Nat
    OBVIOUS
  <2> QED BY <2>1, <2>2, <2>3
<1>22. ASSUME NEW k \in Keys, WorkerDies(k) PROVE Grounded'
  BY <1>22 DEF WorkerDies
<1>23. ASSUME RouteDies PROVE Grounded'
  BY <1>23 DEF RouteDies
<1> QED BY <1>1, <1>2, <1>3, <1>4, <1>5, <1>6, <1>7, <1>8, <1>9, <1>10, <1>11, <1>12, <1>13,
           <1>14, <1>15, <1>16, <1>17, <1>18, <1>19, <1>20, <1>21, <1>22, <1>23
        DEF AutoNext, DispatchStep, RunStep, OwnerStep

(* One slot through a step: only its own handler moves next_run_at.         *)
LEMMA SlotStep ==
    ASSUME AutoTypes, Grounded, AutoNext, NEW i \in Runs, failures' = 0,
           AutomationOf(i) \notin rescheduled',
           \A k \in Runs : AutomationOf(k) \notin rescheduled => SlotIsHeld(k)
    PROVE  SlotIsHeld(i)'
<1> USE AutomationsAssumption, SlotFacts
    DEF AutoTypes, AutoTypeOK, Grounded, Dispatchers, SlotIsHeld, Unmoved, Over, scheduleVars, queueVars,
        handlerVars, boundVars, SetRow, HasDone, TroubleLeft, Fails, Dies, Fail, Complete, Edit
<1>1. ASSUME ScheduleDispatch PROVE SlotIsHeld(i)'
  BY <1>1 DEF ScheduleDispatch, EnqueueJob
<1>2. ASSUME RouteReads PROVE SlotIsHeld(i)'
  BY <1>2, ReadFacts DEF RouteReads
<1>3. ASSUME DispatchReads PROVE SlotIsHeld(i)'
  BY <1>3, ReadFacts DEF DispatchReads
<1>4. ASSUME DispatchEnds PROVE SlotIsHeld(i)'
  BY <1>4 DEF DispatchEnds
<1>5. ASSUME DispatchThrows PROVE SlotIsHeld(i)'
  BY <1>5 DEF DispatchThrows
<1>6. ASSUME NEW d \in Dispatchers, NEW k \in Runs, EnqueueRun(d, k) PROVE SlotIsHeld(i)'
  BY <1>6 DEF EnqueueRun, EarliestOf, EnqueueJob
<1>7. ASSUME NEW d \in Dispatchers, NEW k \in Runs, EnqueueThrows(d, k) PROVE SlotIsHeld(i)'
  BY <1>7 DEF EnqueueThrows
<1>8. ASSUME NEW k \in Keys, Claim(k) PROVE SlotIsHeld(i)'
  BY <1>8 DEF Claim
<1>9. ASSUME NEW k \in Keys, Begin(k) PROVE SlotIsHeld(i)'
  BY <1>9 DEF Begin
<1>10. ASSUME NEW k \in Runs, LoadAutomation(k) PROVE SlotIsHeld(i)'
  BY <1>10 DEF LoadAutomation
<1>11. ASSUME NEW k \in Runs, NotEnabled(k) PROVE SlotIsHeld(i)'
  BY <1>11 DEF NotEnabled
<1>12. ASSUME NEW k \in Runs, Execute(k) PROVE SlotIsHeld(i)'
  <2>1. PICK x : x = <<AutomationOf(k), loaded[k].slot>> /\ runs' = [runs EXCEPT ![x] = @ + 1]
    BY <1>12 DEF Execute
  <2>2. runs' = [j \in Runs |-> IF j = x THEN runs[j] + 1 ELSE runs[j]]
    BY <2>1
  <2>3. runs'[i] = IF i = x THEN runs[i] + 1 ELSE runs[i]
    BY <2>2
  <2>4. did[k] = "loaded" /\ did' = [did EXCEPT ![k] = "executed"]
        /\ UNCHANGED <<nextRun, status, rescheduled, row, todo, loaded, failures>>
    BY <1>12 DEF Execute
  <2>5. SlotIsHeld(i) /\ (AutomationOf(k) = AutomationOf(i) => SlotIsHeld(k))
    BY <2>4
  <2>6. CASE i = x
    <3>1. AutomationOf(k) = AutomationOf(i) /\ i[2] = loaded[k].slot
      BY <2>1, <2>6 DEF AutomationOf
    <3>2. k = i
      BY <2>4, <2>5, <3>1
    <3> QED BY <2>3, <2>4, <2>5, <3>2
  <2>7. CASE i # x
    <3>1. k # i
      BY <2>1, <2>4, <2>5, <2>7 DEF AutomationOf, Runs
    <3> QED BY <2>3, <2>4, <2>5, <2>7, <3>1
  <2> QED BY <2>6, <2>7
<1>13. ASSUME NEW k \in Runs, BudgetBlocked(k) PROVE SlotIsHeld(i)'
  BY <1>13 DEF BudgetBlocked
<1>14. ASSUME NEW k \in Runs, UpdateSchedule(k) PROVE SlotIsHeld(i)'
  <2>1. /\ did[k] = "executed" /\ did' = [did EXCEPT ![k] = "scheduled"]
        /\ UNCHANGED <<status, rescheduled, row, todo, loaded, runs, failures>>
    BY <1>14 DEF UpdateSchedule
  <2>2. CASE AutomationOf(k) # AutomationOf(i)
    <3>1. nextRun'[AutomationOf(i)] = nextRun[AutomationOf(i)] /\ k # i
      BY <1>14, <2>2 DEF UpdateSchedule
    <3> QED BY <2>1, <3>1
  <2>3. CASE AutomationOf(k) = AutomationOf(i)
    <3>1. SlotIsHeld(k) /\ SlotIsHeld(i)
      BY <2>1, <2>3
    <3>2. nextRun[AutomationOf(i)] = k[2]
      BY <2>1, <2>3, <3>1
    <3>3. CASE status[AutomationOf(i)] = "deleted"
      <4>1. nextRun' = nextRun
        BY <1>14, <2>3, <3>3 DEF UpdateSchedule
      <4> QED BY <2>1, <3>1, <3>3, <4>1
    <3>4. CASE status[AutomationOf(i)] # "deleted"
      <4>1. nextRun'[AutomationOf(i)] = NextRunAt(loaded[k].cron, loaded[k].at)
        BY <1>14, <2>3, <3>4 DEF UpdateSchedule
      <4>2. loaded[k].cron \in Steps /\ loaded[k].at \in 0..Horizon
        OBVIOUS
      <4>3. nextRun'[AutomationOf(i)] \in Nat /\ nextRun'[AutomationOf(i)] > k[2]
        <5>1. loaded[k].at >= k[2] /\ loaded[k].at \in Nat /\ k[2] \in Nat
          BY <2>1, <3>1, <4>2
        <5>2. NextRunAt(loaded[k].cron, loaded[k].at) \in Nat
              /\ NextRunAt(loaded[k].cron, loaded[k].at) > loaded[k].at
          BY <4>2
        <5> QED BY <4>1, <5>1, <5>2
      <4>4. Unmoved(i) => i = k
        BY <2>3, <3>1, <3>2
      <4>5. i # k => did'[i] = did[i]
        BY <2>1
      <4>6. did'[k] = "scheduled" /\ row[k] = "running"
        BY <2>1
      <4>7. CASE i = k
        BY <2>1, <3>1, <4>3, <4>6, <4>7
      <4>8. CASE i # k
        <5>1. ~Unmoved(i)
          BY <4>4, <4>8
        <5>2. did'[i] = did[i] /\ Over(i)' = Over(i) /\ Unmoved(i)' = Unmoved(i)
          BY <2>1, <4>5, <4>8
        <5>3. nextRun[AutomationOf(i)] = k[2] /\ i[2] \in Nat /\ k[2] \in Nat
          BY <3>2
        <5>4. Over(i) => nextRun'[AutomationOf(i)] > i[2]
          BY <3>1, <3>4, <4>3, <5>3
        <5>5. \A d \in Dispatchers : i \in todo[d] => row[i] # "absent"
          BY <2>3, <3>1, <3>2, <4>6, <4>8
        <5> QED BY <2>1, <3>1, <5>1, <5>2, <5>4, <5>5
      <4> QED BY <4>7, <4>8
    <3> QED BY <3>3, <3>4
  <2> QED BY <2>2, <2>3
<1>15. ASSUME NEW k \in Runs, RunEnds(k) PROVE SlotIsHeld(i)'
  BY <1>15 DEF RunEnds
<1>16. ASSUME NEW k \in Runs, RunThrows(k) PROVE SlotIsHeld(i)'
  BY <1>16 DEF RunThrows
<1>17. ASSUME NEW a \in Autos, NEW n \in Steps, CreateAutomation(a, n) PROVE SlotIsHeld(i)'
  BY <1>17 DEF CreateAutomation
<1>18. ASSUME NEW a \in Autos, ToggleAutomation(a) PROVE SlotIsHeld(i)'
  BY <1>18 DEF ToggleAutomation
<1>19. ASSUME NEW a \in Autos, NEW n \in Steps, Reschedule(a, n) PROVE SlotIsHeld(i)'
  BY <1>19 DEF Reschedule
<1>20. ASSUME NEW a \in Autos, DeleteAutomation(a) PROVE SlotIsHeld(i)'
  BY <1>20 DEF DeleteAutomation
<1>21. ASSUME MinutePasses PROVE SlotIsHeld(i)'
  BY <1>21 DEF MinutePasses
<1>22. ASSUME NEW k \in Keys, WorkerDies(k) PROVE SlotIsHeld(i)'
  BY <1>22 DEF WorkerDies
<1>23. ASSUME RouteDies PROVE SlotIsHeld(i)'
  BY <1>23 DEF RouteDies
<1> QED BY <1>1, <1>2, <1>3, <1>4, <1>5, <1>6, <1>7, <1>8, <1>9, <1>10, <1>11, <1>12, <1>13,
           <1>14, <1>15, <1>16, <1>17, <1>18, <1>19, <1>20, <1>21, <1>22, <1>23
        DEF AutoNext, DispatchStep, RunStep, OwnerStep

LEMMA SlotInvariant == AutoSpec => []SlotInv
<1>1. AutoInit => SlotInv
  BY SlotFacts DEF AutoInit, SlotInv, Grounded, SlotIsHeld, Unmoved, Over
<1>2. AutoTypes /\ SlotInv /\ AutoNext => SlotInv'
  <2> SUFFICES ASSUME AutoTypes, SlotInv, AutoNext PROVE SlotInv'
    OBVIOUS
  <2>1. Grounded'
    BY GroundedStep DEF SlotInv
  <2>2. ASSUME failures' = 0 PROVE failures = 0 /\ rescheduled \subseteq rescheduled'
    <3>1. failures' = failures \/ failures' = failures + 1
      <4>1. ASSUME NEW k \in Keys, Claim(k) \/ Begin(k) \/ WorkerDies(k)
            PROVE  failures' = failures
        BY <4>1 DEF Claim, Begin, WorkerDies, Dies, boundVars
      <4>2. ASSUME NEW k \in Runs, RunStep(k) PROVE failures' = failures
        BY <4>2 DEF RunStep, LoadAutomation, NotEnabled, Execute, BudgetBlocked, UpdateSchedule,
                    RunEnds, boundVars
      <4>3. ASSUME OwnerStep PROVE failures' = failures
        BY <4>3 DEF OwnerStep, Edit, CreateAutomation, ToggleAutomation, Reschedule,
                    DeleteAutomation, boundVars
      <4>4. ASSUME ScheduleDispatch \/ RouteReads \/ RouteDies \/ DispatchStep \/ MinutePasses
            PROVE  failures' = failures
        BY <4>4 DEF ScheduleDispatch, RouteReads, DispatchStep, DispatchReads, DispatchEnds,
                    EnqueueRun, RouteDies, Dies, MinutePasses, boundVars
      <4>5. ASSUME NEW k \in Runs, RunThrows(k) PROVE failures' = failures + 1
        BY <4>5 DEF RunThrows, Fails
      <4>6. ASSUME NEW d \in Dispatchers, NEW k \in Runs, EnqueueThrows(d, k)
            PROVE  failures' = failures + 1
        BY <4>6 DEF EnqueueThrows, Fails
      <4>7. ASSUME DispatchThrows PROVE failures' = failures + 1
        BY <4>7 DEF DispatchThrows, Fails
      <4> QED BY <4>1, <4>2, <4>3, <4>4, <4>5, <4>6, <4>7 DEF AutoNext
    <3>2. failures \in Nat
      BY AutomationsAssumption DEF AutoTypes, AutoTypeOK
    <3>3. rescheduled \subseteq rescheduled'
      BY DEF AutoNext, ScheduleDispatch, RouteReads, DispatchReads, DispatchEnds,
             DispatchThrows, DispatchStep, EnqueueRun, EnqueueThrows, Claim, Begin, RunStep,
             WorkerDies, RouteDies,
             LoadAutomation, NotEnabled, Execute, BudgetBlocked, UpdateSchedule, RunEnds, RunThrows,
             OwnerStep, Edit, CreateAutomation, ToggleAutomation, Reschedule, DeleteAutomation,
             MinutePasses, scheduleVars
    <3> QED BY <2>2, <3>2, <3>3, <3>1
  <2>3. ASSUME failures' = 0, NEW k \in Runs, AutomationOf(k) \notin rescheduled'
        PROVE  SlotIsHeld(k)'
    <3>1. \A i \in Runs : AutomationOf(i) \notin rescheduled => SlotIsHeld(i)
      BY <2>2, <2>3 DEF SlotInv
    <3> QED BY <2>3, <3>1, SlotStep DEF SlotInv
  <2> QED BY <2>1, <2>3 DEF SlotInv, AutomationOf
<1>3. AutoTypes /\ SlotInv /\ UNCHANGED autoVars => SlotInv'
  BY DEF SlotInv, Grounded, SlotIsHeld, Unmoved, Over, AutomationOf, autoVars, scheduleVars, queueVars,
         handlerVars, boundVars
<1> QED BY <1>1, <1>2, <1>3, AutoTypeInvariant, PTL DEF AutoSpec

(* Whatever ticks and cron calls read a slot as due, it is executed once,    *)
(* and once its job has completed it is never due again, as long as nothing  *)
(* throws and the user does not change the expression.                       *)
THEOREM EverySlotIsServedOnce == AutoSpec => []SlotIsServedOnce
<1>1. SlotInv => SlotRunsOnce
  BY DEF SlotInv, SlotIsHeld, SlotRunsOnce
<1>2. SlotInv => FinishedSlotIsPast
  BY DEF SlotInv, SlotIsHeld, Over, FinishedSlotIsPast
<1>3. SlotInv => SlotIsServedOnce
  BY <1>1, <1>2 DEF SlotIsServedOnce
<1> QED BY <1>3, SlotInvariant, PTL

-----------------------------------------------------------------------------
(* A row that keeps its status keeps its abstract state.                    *)
LEMMA SameRows ==
    ASSUME UNCHANGED <<row, tries>>
    PROVE  UNCHANGED Lifecycle!vars
BY DEF Lifecycle!vars, phaseOf, ownerOf, Owned

(* A change of one row's status, the others' untouched, moves that job.     *)
LEMMA MoveRow ==
    ASSUME NEW k \in Keys, NEW s, NEW from, NEW to, NEW o,
           row \in [Keys -> {"absent", "waiting", "claimed", "running", "lost",
                            "completed", "failed"}],
           SetRow(k, s), UNCHANGED tries,
           phaseOf[k] = from, phaseOf'[k] = to, ownerOf'[k] = o
    PROVE  Lifecycle!Move(k, from, to, o)
<1>1. \A i \in Keys \ {k} : row'[i] = row[i]
  BY DEF SetRow
<1>2. phaseOf' = [phaseOf EXCEPT ![k] = to]
  BY <1>1 DEF phaseOf, Owned
<1>3. ownerOf' = [ownerOf EXCEPT ![k] = o]
  BY <1>1 DEF ownerOf, Owned
<1> QED BY <1>2, <1>3 DEF Lifecycle!Move

(* The statements of the queue as the automations use them.                 *)
LEMMA QueueStep ==
    ASSUME AutoTypes, Grounded, NEW k \in Keys,
           \/ EnqueueJob(k) /\ UNCHANGED tries
           \/ Claim(k)
           \/ Begin(k)
           \/ row[k] = "running" /\ Fail(k)
           \/ row[k] = "running" /\ Complete(k)
           \/ WorkerDies(k)
    PROVE  [Lifecycle!Next]_(Lifecycle!vars)
<1> USE DEF AutoTypes, AutoTypeOK
<1>1. ASSUME EnqueueJob(k), UNCHANGED tries PROVE [Lifecycle!Next]_(Lifecycle!vars)
  <2>1. CASE row[k] = "absent"
    <3>1. SetRow(k, "waiting")
      BY <1>1, <2>1 DEF EnqueueJob
    <3>2. phaseOf[k] = "absent" /\ phaseOf'[k] = "waiting" /\ ownerOf'[k] = {}
      BY <2>1, <3>1 DEF phaseOf, ownerOf, Owned, SetRow
    <3>3. Lifecycle!Submit(k)
      BY <1>1, <3>1, <3>2, MoveRow DEF Lifecycle!Submit
    <3> QED BY <3>3 DEF Lifecycle!Next
  <2>2. CASE row[k] # "absent"
    BY <1>1, <2>2, SameRows DEF EnqueueJob, SetRow
  <2> QED BY <2>1, <2>2
<1>2. ASSUME Claim(k) PROVE [Lifecycle!Next]_(Lifecycle!vars)
  <2>1. SetRow(k, "claimed") /\ UNCHANGED tries
    BY <1>2 DEF Claim
  <2>2. phaseOf[k] = "waiting" /\ phaseOf'[k] = "owned" /\ ownerOf'[k] = {"worker"}
    BY <1>2, <2>1 DEF Claim, phaseOf, ownerOf, Owned, SetRow
  <2>3. Lifecycle!Take("worker", k)
    BY <2>1, <2>2, MoveRow DEF Lifecycle!Take
  <2> QED BY <2>3 DEF Lifecycle!Next
<1>3. ASSUME Begin(k) PROVE [Lifecycle!Next]_(Lifecycle!vars)
  <2>1. row[k] = "claimed" /\ row' = [row EXCEPT ![k] = "running"]
        /\ tries' = [tries EXCEPT ![k] = @ + 1]
    BY <1>3 DEF Begin, SetRow
  <2>2. phaseOf' = phaseOf /\ ownerOf' = ownerOf /\ phaseOf[k] = "owned"
    BY <2>1 DEF phaseOf, ownerOf, Owned
  <2>3. tries[k] < MaxAttempts
    BY <2>1 DEF AttemptsLeft
  <2>4. Lifecycle!Start(k)
    BY <2>1, <2>2, <2>3 DEF Lifecycle!Start
  <2> QED BY <2>4 DEF Lifecycle!Next
<1>4. ASSUME row[k] = "running", Fail(k) PROVE [Lifecycle!Next]_(Lifecycle!vars)
  <2>1. phaseOf[k] = "owned" /\ UNCHANGED tries
    BY <1>4 DEF Fail, phaseOf, Owned
  <2>2. CASE tries[k] < MaxAttempts
    <3>1. SetRow(k, "waiting")
      BY <1>4, <2>2 DEF Fail
    <3>2. phaseOf'[k] = "waiting" /\ ownerOf'[k] = {}
      BY <3>1 DEF phaseOf, ownerOf, Owned, SetRow
    <3>3. Lifecycle!Requeue(k)
      BY <2>1, <2>2, <3>1, <3>2, MoveRow DEF Lifecycle!Requeue
    <3> QED BY <3>3 DEF Lifecycle!Next
  <2>3. CASE ~(tries[k] < MaxAttempts)
    <3>1. SetRow(k, "failed")
      BY <1>4, <2>3 DEF Fail
    <3>2. phaseOf'[k] = "finished" /\ ownerOf'[k] = {}
      BY <3>1 DEF phaseOf, ownerOf, Owned, SetRow
    <3>3. Lifecycle!Finish(k)
      BY <2>1, <3>1, <3>2, MoveRow DEF Lifecycle!Finish
    <3> QED BY <3>3 DEF Lifecycle!Next
  <2> QED BY <2>2, <2>3
<1>5. ASSUME row[k] = "running", Complete(k) PROVE [Lifecycle!Next]_(Lifecycle!vars)
  <2>1. SetRow(k, "completed") /\ UNCHANGED tries
    BY <1>5 DEF Complete
  <2>2. phaseOf[k] = "owned" /\ phaseOf'[k] = "finished" /\ ownerOf'[k] = {}
    BY <1>5, <2>1 DEF phaseOf, ownerOf, Owned, SetRow
  <2>3. Lifecycle!Finish(k)
    BY <2>1, <2>2, MoveRow DEF Lifecycle!Finish
  <2> QED BY <2>3 DEF Lifecycle!Next
<1>6. ASSUME WorkerDies(k) PROVE [Lifecycle!Next]_(Lifecycle!vars)
  <2>1. phaseOf[k] = "owned" /\ UNCHANGED tries
    BY <1>6 DEF WorkerDies, phaseOf, Owned
  <2>2. CASE row[k] = "running" /\ SetRow(k, "lost")
    <3>1. phaseOf'[k] = "lost" /\ ownerOf'[k] = {}
      BY <2>2 DEF phaseOf, ownerOf, Owned, SetRow
    <3>2. Lifecycle!Lose(k)
      BY <2>1, <2>2, <3>1, MoveRow DEF Lifecycle!Lose
    <3> QED BY <3>2 DEF Lifecycle!Next
  <2>3. CASE row[k] = "claimed" /\ SetRow(k, "waiting")
    <3>1. phaseOf'[k] = "waiting" /\ ownerOf'[k] = {}
      BY <2>3 DEF phaseOf, ownerOf, Owned, SetRow
    <3>2. tries[k] < MaxAttempts
      BY <2>3 DEF AttemptsLeft
    <3>3. Lifecycle!Requeue(k)
      BY <2>1, <2>3, <3>1, <3>2, MoveRow DEF Lifecycle!Requeue
    <3> QED BY <3>3 DEF Lifecycle!Next
  <2> QED BY <1>6, <2>2, <2>3 DEF WorkerDies
<1> QED BY <1>1, <1>2, <1>3, <1>4, <1>5, <1>6

(* Dispatchers, handlers, users and the clock change job rows only as the job *)
(* queue promises: enqueue answers with an existing row, finished is final.   *)
THEOREM AutomationsUseQueue == AutoSpec => UsesQueueAsPromised
<1>1. AutoInit => Lifecycle!Init
  BY DEF AutoInit, Lifecycle!Init, phaseOf, ownerOf, Owned
<1>2. AutoTypes /\ Grounded /\ [AutoNext]_autoVars => [Lifecycle!Next]_(Lifecycle!vars)
  <2> SUFFICES ASSUME AutoTypes, Grounded, [AutoNext]_autoVars PROVE [Lifecycle!Next]_(Lifecycle!vars)
    OBVIOUS
  <2> USE SlotFacts DEF queueVars
  <2>1. ASSUME NEW k \in Keys, Claim(k) \/ Begin(k) \/ WorkerDies(k)
        PROVE  [Lifecycle!Next]_(Lifecycle!vars)
    BY <2>1, QueueStep
  <2>2. CASE ScheduleDispatch
    BY <2>2, QueueStep DEF ScheduleDispatch
  <2>3. CASE DispatchEnds
    BY <2>3, QueueStep DEF DispatchEnds, Grounded
  <2>4. CASE DispatchThrows
    BY <2>4, QueueStep DEF DispatchThrows
  <2>5. ASSUME NEW d \in Dispatchers, NEW k \in Runs, EnqueueRun(d, k)
        PROVE  [Lifecycle!Next]_(Lifecycle!vars)
    BY <2>5, QueueStep DEF EnqueueRun
  <2>6. ASSUME NEW k \in Runs, NotEnabled(k) \/ RunThrows(k)
        PROVE  [Lifecycle!Next]_(Lifecycle!vars)
    BY <2>6, QueueStep DEF NotEnabled, RunThrows
  <2>7. ASSUME NEW k \in Runs, RunEnds(k) PROVE [Lifecycle!Next]_(Lifecycle!vars)
    BY <2>7, QueueStep DEF RunEnds, Grounded
  <2>8. ASSUME NEW k \in Runs,
               LoadAutomation(k) \/ Execute(k) \/ BudgetBlocked(k) \/ UpdateSchedule(k)
        PROVE  UNCHANGED <<row, tries>>
    BY <2>8 DEF LoadAutomation, Execute, BudgetBlocked, UpdateSchedule
  <2>9. ASSUME \/ RouteReads \/ RouteDies \/ DispatchReads \/ OwnerStep \/ MinutePasses \/ UNCHANGED autoVars
               \/ \E d \in Dispatchers, k \in Runs : EnqueueThrows(d, k)
        PROVE  UNCHANGED <<row, tries>>
    BY <2>9 DEF RouteReads, RouteDies, DispatchReads, OwnerStep, Edit, CreateAutomation, ToggleAutomation,
                Reschedule, DeleteAutomation, MinutePasses, EnqueueThrows, autoVars
  <2> QED BY <2>1, <2>2, <2>3, <2>4, <2>5, <2>6, <2>7, <2>8, <2>9, SameRows
          DEF AutoNext, DispatchStep, RunStep
<1> QED BY <1>1, <1>2, AutoTypeInvariant, SlotInvariant, PTL
        DEF AutoSpec, UsesQueueAsPromised, Lifecycle!Spec, SlotInv
=============================================================================
