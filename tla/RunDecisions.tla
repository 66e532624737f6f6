---------------------------- MODULE RunDecisions ----------------------------
(***************************************************************************)
(* One chat run that stops for its user: the chat_runs row, the chat loop  *)
(* that streams, asks for tool approvals and answers, and executes tools   *)
(* (runtime/loop.server.ts, tool-handlers.server.ts, approval.server.ts),  *)
(* the tool calls that a run_code script makes meanwhile, the routes       *)
(* through which the user decides, the stuck-run reaper and the dismiss    *)
(* command (runs/*.server.ts).  Every database statement or transaction is *)
(* a step of its own.                                                      *)
(*                                                                         *)
(* pending_approvals and pending_questions hold one entry per token and a  *)
(* call has one token, so both columns become entry[call].                 *)
(***************************************************************************)
EXTENDS Naturals

CONSTANTS
    Approvals,     \* tool calls of the loop that require approval
    Questions,     \* ask_user calls of the loop
    Nested,        \* approval-requiring calls made by the run_code script
    MaxRunErrors,   \* bound: database calls of a waiting call that throw
    MaxCrashes     \* bound: crashes of the server process

ASSUME RunDecisionsAssumption ==
    /\ Approvals \cap Questions = {}
    /\ Nested \cap (Approvals \cup Questions) = {}
    /\ MaxRunErrors \in Nat /\ MaxCrashes \in Nat

VARIABLES
    state,      \* chat_runs.state
    finished,   \* finished_at IS NOT NULL
    stale,      \* updated_at is older than STUCK_RUN_THRESHOLD_MS
    entry,      \* entry[c]: the call's pending entry: absent, open, or its decision
    loop,       \* what the chat loop is doing
    pc,         \* where each call is in its wait
    verdict,    \* what the wait of each call returned
    expired,    \* the call's deadline has passed
    requests,   \* decision requests that found the run and not yet recorded
    acked,      \* acked[c]: the decisions that a route answered with resolved: true
    executed,   \* the calls whose tool has been executed
    crashes, dbErrors

rowVars  == <<state, finished, stale, entry>>
callVars == <<pc, verdict, expired>>
userVars == <<requests, acked>>
faultVars == <<crashes, dbErrors>>
runVars == <<rowVars, loop, callVars, userVars, executed, faultVars>>

TopLevel == Approvals \cup Questions
Calls == TopLevel \cup Nested

Active   == {"queued", "running", "waiting_tool_approval", "waiting_user_input"}
Terminal == {"completed", "failed", "canceled"}

Decisions(c) == IF c \in Questions THEN {"answered"} ELSE {"approved", "denied"}
Decided      == {"answered", "approved", "denied"}
\* A denied approval and an unanswered question are both the wait's negative result.
Verdicts     == {"none", "answered", "approved", "denied"}

LoopPhases == {"streaming", "deciding", "executing", "script", "ended", "dead"}
\* "dispatched": the call is about to write its entry; "missed": it read no
\* decision; "decided": it read one; "leaving": its entry is removed.
CallPhases == {"idle", "dispatched", "polling", "missed", "decided", "leaving",
               "executing", "returned", "threw", "dead"}
Waiting    == {"polling", "missed"}
InProcess  == {"dispatched", "polling", "missed", "decided", "leaving", "executing"}

RunTypeOK ==
    /\ state \in Active \cup Terminal
    /\ finished \in BOOLEAN /\ stale \in BOOLEAN
    /\ entry \in [Calls -> Decided \cup {"absent", "open"}]
    /\ loop \in LoopPhases
    /\ pc \in [Calls -> CallPhases]
    /\ verdict \in [Calls -> Verdicts]
    /\ expired \in [Calls -> BOOLEAN]
    /\ requests \subseteq Calls \X Decided
    /\ acked \in [Calls -> SUBSET Decided]
    /\ executed \subseteq Calls
    /\ crashes \in Nat /\ dbErrors \in Nat

SetEntry(c, e) == entry' = [entry EXCEPT ![c] = e]
GoTo(c, phase) == pc' = [pc EXCEPT ![c] = phase]

\* session.updateRun: an UPDATE by id alone, whatever the state of the row.
UpdateRun(s) == state' = s /\ stale' = FALSE /\ UNCHANGED <<finished, entry>>
FinishRun(s) == state' = s /\ stale' = FALSE /\ finished' = TRUE /\ UNCHANGED entry

\* routes/chat/[id]/stream inserts the row in state running.
RunInit ==
    /\ state = "running" /\ finished = FALSE /\ stale = FALSE
    /\ entry = [c \in Calls |-> "absent"]
    /\ loop = "streaming"
    /\ pc = [c \in Calls |-> "idle"]
    /\ verdict = [c \in Calls |-> "none"]
    /\ expired = [c \in Calls |-> FALSE]
    /\ requests = {} /\ acked = [c \in Calls |-> {}]
    /\ executed = {}
    /\ crashes = 0 /\ dbErrors = 0

-----------------------------------------------------------------------------
(* The chat loop. *)

\* A chunk from the model: heartbeat with state running.
StreamChunk ==
    /\ loop = "streaming"
    /\ UpdateRun("running")
    /\ UNCHANGED <<loop, callVars, userVars, executed, faultVars>>

\* checkToolApproval / handleAskUserCall: the entry and the state in one transaction.
Enqueue(c) ==
    /\ SetEntry(c, "open")
    /\ state' = IF c \in Questions THEN "waiting_user_input" ELSE "waiting_tool_approval"
    /\ stale' = FALSE
    /\ GoTo(c, "polling")
    /\ UNCHANGED <<finished, verdict, expired, userVars, executed, faultVars>>

AskUser(c) ==
    /\ c \in TopLevel /\ loop = "streaming" /\ pc[c] = "idle"
    /\ loop' = "deciding"
    /\ Enqueue(c)

\* A run_code call: the script starts, and may dispatch nested calls until it exits.
StartScript ==
    /\ loop = "streaming" /\ Nested # {}
    /\ UpdateRun("running")
    /\ loop' = "script"
    /\ UNCHANGED <<callVars, userVars, executed, faultVars>>

\* The script sends the call and exits whenever it likes (or is killed on its
\* timeout); what it dispatched goes on in the server.
DispatchNested(c) ==
    /\ c \in Nested /\ loop = "script" /\ pc[c] = "idle"
    /\ GoTo(c, "dispatched")
    /\ UNCHANGED <<rowVars, loop, verdict, expired, userVars, executed, faultVars>>

EnqueueNested(c) ==
    /\ c \in Nested /\ pc[c] = "dispatched"
    /\ Enqueue(c)
    /\ UNCHANGED loop

ScriptExits ==
    /\ loop = "script"
    /\ loop' = "streaming"
    /\ UNCHANGED <<rowVars, callVars, userVars, executed, faultVars>>

\* The approved tool runs; the loop goes on with the next call or round.
ExecuteTool(c) ==
    /\ pc[c] = "executing"
    /\ executed' = executed \cup {c}
    /\ GoTo(c, "returned")
    /\ loop' = IF c \in Nested THEN loop ELSE "streaming"
    /\ UNCHANGED <<rowVars, verdict, expired, userVars, faultVars>>

CompleteRun ==
    /\ loop = "streaming"
    /\ FinishRun("completed")
    /\ loop' = "ended"
    /\ UNCHANGED <<callVars, userVars, executed, faultVars>>

\* The model call threw: the route's catch block.
FailRun ==
    /\ loop = "streaming"
    /\ FinishRun("failed")
    /\ loop' = "ended"
    /\ UNCHANGED <<callVars, userVars, executed, faultVars>>

-----------------------------------------------------------------------------
(* awaitApprovalDecision / awaitQuestionAnswers: read, return or check the
   deadline, sleep, read again. *)

DeadlinePasses(c) ==
    /\ pc[c] \in Waiting /\ ~expired[c]
    /\ expired' = [expired EXCEPT ![c] = TRUE]
    /\ UNCHANGED <<rowVars, loop, pc, verdict, userVars, executed, faultVars>>

ReadDecision(c) ==
    /\ pc[c] = "polling"
    /\ IF entry[c] \in Decided
       THEN GoTo(c, "decided") /\ verdict' = [verdict EXCEPT ![c] = entry[c]]
       ELSE GoTo(c, "missed") /\ UNCHANGED verdict
    /\ UNCHANGED <<rowVars, loop, expired, userVars, executed, faultVars>>

PollAgain(c) ==
    /\ pc[c] = "missed" /\ ~expired[c]
    /\ GoTo(c, "polling")
    /\ UNCHANGED <<rowVars, loop, verdict, expired, userVars, executed, faultVars>>

\* Variant: the timeout path returns without removing the entry.
GiveUpKeepingEntry(c) ==
    /\ pc[c] = "missed" /\ expired[c]
    /\ verdict' = [verdict EXCEPT ![c] = "denied"]
    /\ GoTo(c, "leaving")
    /\ UNCHANGED <<rowVars, loop, expired, userVars, executed, faultVars>>

\* Variant: the timeout path expects to find the entry it enqueued.
GiveUpOnOwnEntry(c) ==
    /\ pc[c] = "missed" /\ expired[c] /\ entry[c] # "absent"
    /\ SetEntry(c, "absent")
    /\ verdict' = [verdict EXCEPT ![c] = "denied"]
    /\ GoTo(c, "leaving")
    /\ UNCHANGED <<state, finished, stale, loop, expired, userVars, executed, faultVars>>

\* The deadline has passed: remove the entry, whatever it holds by now.
GiveUp(c) ==
    /\ pc[c] = "missed" /\ expired[c]
    /\ SetEntry(c, "absent")
    /\ verdict' = [verdict EXCEPT ![c] = "denied"]
    /\ GoTo(c, "leaving")
    /\ UNCHANGED <<state, finished, stale, loop, expired, userVars, executed, faultVars>>

RemoveEntry(c) ==
    /\ pc[c] = "decided"
    /\ SetEntry(c, "absent")
    /\ GoTo(c, "leaving")
    /\ UNCHANGED <<state, finished, stale, loop, verdict, expired, userVars, executed, faultVars>>

\* The wait returned: the run goes back to running, and on to the tool if approved.
ResumeRun(c) ==
    /\ pc[c] = "leaving"
    /\ UpdateRun("running")
    /\ GoTo(c, IF verdict[c] = "approved" THEN "executing" ELSE "returned")
    /\ loop' = IF c \in Nested THEN loop
               ELSE IF verdict[c] = "approved" THEN "executing" ELSE "streaming"
    /\ UNCHANGED <<verdict, expired, userVars, executed, faultVars>>

\* A database call of the wait throws.  In the loop the exception reaches the
\* stream route's catch block; for a nested call it becomes the script's error.
WaitThrows(c) ==
    /\ pc[c] \in InProcess
    /\ dbErrors < MaxRunErrors /\ dbErrors' = dbErrors + 1
    /\ GoTo(c, "threw")
    /\ IF c \in Nested THEN UNCHANGED <<rowVars, loop>>
       ELSE FinishRun("failed") /\ loop' = "ended"
    /\ UNCHANGED <<verdict, expired, userVars, executed, crashes>>

-----------------------------------------------------------------------------
(* The user: POST tool-approve and POST ask-user look the run up, then record. *)

\* Variant: the routes accept a run only while it is in the waiting state.
ResolvableWhileWaiting(c) ==
    IF c \in Questions THEN {"waiting_user_input"} ELSE {"waiting_tool_approval"}

Resolvable(c) ==
    IF c \in Questions THEN {"running", "waiting_user_input"}
    ELSE {"running", "waiting_tool_approval"}

FindRun(c, d) ==
    /\ d \in Decisions(c)
    /\ state \in Resolvable(c) /\ entry[c] # "absent"
    /\ requests' = requests \cup {<<c, d>>}
    /\ UNCHANGED <<rowVars, loop, callVars, acked, executed, faultVars>>

\* Variant: a later decision overwrites an earlier one.
RecordOverDecision(c, d) ==
    /\ <<c, d>> \in requests
    /\ requests' = requests \ {<<c, d>>}
    /\ IF entry[c] # "absent"
       THEN SetEntry(c, d) /\ acked' = [acked EXCEPT ![c] = @ \cup {d}]
       ELSE UNCHANGED <<entry, acked>>
    /\ UNCHANGED <<state, finished, stale, loop, callVars, executed, faultVars>>

\* recordApprovalDecision / recordQuestionAnswers: the first decision wins.
RecordDecision(c, d) ==
    /\ <<c, d>> \in requests
    /\ requests' = requests \ {<<c, d>>}
    /\ IF entry[c] = "open"
       THEN SetEntry(c, d) /\ acked' = [acked EXCEPT ![c] = @ \cup {d}]
       ELSE UNCHANGED <<entry, acked>>
    /\ UNCHANGED <<state, finished, stale, loop, callVars, executed, faultVars>>

-----------------------------------------------------------------------------
(* The reaper, the dismiss command, time and crashes. *)

CancelChatRun ==
    /\ state' = "canceled" /\ finished' = TRUE /\ stale' = FALSE
    /\ entry' = [c \in Calls |-> "absent"]
    /\ UNCHANGED <<loop, callVars, userVars, executed, faultVars>>

\* Variant: the reaper knows only runs in state running.
ReapableIfRunning == ~finished /\ state = "running" /\ stale

Reapable == ~finished /\ state \in Active /\ stale
Reap     == Reapable /\ CancelChatRun

Dismiss == ~finished /\ state \in Active /\ CancelChatRun

\* An hour without a write.  A wait is opened by a write and is over after five
\* minutes, so the hour cannot pass while a live process is in one.
GoesStale ==
    /\ ~stale
    /\ \A c \in Calls : pc[c] \notin Waiting \cup {"decided", "leaving"}
    /\ stale' = TRUE
    /\ UNCHANGED <<state, finished, entry, loop, callVars, userVars, executed, faultVars>>

\* The process dies with its loop, its waits and its requests; nothing in the
\* boot sequence takes the run up again.
Crash ==
    /\ crashes < MaxCrashes /\ crashes' = crashes + 1
    /\ loop # "dead"
    /\ loop' = "dead"
    /\ pc' = [c \in Calls |-> IF pc[c] \in InProcess THEN "dead" ELSE pc[c]]
    /\ requests' = {}
    /\ UNCHANGED <<rowVars, verdict, expired, acked, executed, dbErrors>>

-----------------------------------------------------------------------------
LoopStep ==
    \/ StreamChunk \/ StartScript \/ ScriptExits \/ CompleteRun \/ FailRun
    \/ \E c \in Calls : AskUser(c) \/ DispatchNested(c)

WaitStep(c) ==
    \/ EnqueueNested(c) \/ ReadDecision(c) \/ PollAgain(c) \/ GiveUp(c)
    \/ RemoveEntry(c) \/ ResumeRun(c) \/ ExecuteTool(c)

UserStep == \E c \in Calls : \E d \in Decided : FindRun(c, d) \/ RecordDecision(c, d)

RunNext ==
    \/ LoopStep
    \/ \E c \in Calls : WaitStep(c) \/ DeadlinePasses(c) \/ WaitThrows(c)
    \/ UserStep
    \/ Reap \/ Dismiss \/ GoesStale \/ Crash

RunSpec == RunInit /\ [][RunNext]_runVars

\* The loop and its waits are timers and awaited statements of a live process,
\* deadlines and the hour are the clock, and the reaper is a scheduled job.
\* The loop ends (fifty rounds at most), so a run that keeps streaming is not
\* kept from its end by yet another tool call.  The user owes nothing.
RunFairness ==
    /\ WF_runVars(ScriptExits) /\ SF_runVars(CompleteRun \/ FailRun)
    /\ \A c \in Calls : WF_runVars(WaitStep(c)) /\ WF_runVars(DeadlinePasses(c))
    /\ WF_runVars(GoesStale) /\ WF_runVars(Reap)

RunFairSpec == RunSpec /\ RunFairness

-----------------------------------------------------------------------------
(* What must hold. *)

\* A tool that requires approval is executed only if a route told the user that
\* the approval, and no other decision, was recorded: not after a timeout, not
\* after a dismissal cleared the entry, not on a decision that was overwritten.
OnlyApprovedToolsRun == \A c \in executed : acked[c] = {"approved"}

\* However many tabs and retries answer, at most one decision per call is ever
\* acknowledged, and a wait that returns a positive result returns that one.
FirstDecisionWins ==
    \A c \in Calls :
        /\ \A d, e \in acked[c] : d = e
        /\ verdict[c] \in {"approved", "answered"} => verdict[c] \in acked[c]

\* A nested call that goes on in the server after its script has exited.
Straggler(c) == c \in Nested /\ pc[c] \in InProcess /\ loop # "script"

\* While the loop or a running script waits for an approval and nobody has
\* finished the run, the entry is there and the tool-approve route accepts the
\* run's state, whatever the other calls have made of that state meanwhile.
EveryApprovalIsAnswerable ==
    \A c \in Approvals \cup Nested :
        pc[c] \in Waiting /\ ~Straggler(c) /\ ~finished =>
            entry[c] # "absent" /\ state \in Resolvable(c)

\* Once the run is finished and every call has returned, no pending entry is
\* left in the row for the review inbox or the dock to show.
NothingLeftPending ==
    finished /\ (\A c \in Calls : pc[c] \in {"idle", "returned"}) =>
        \A c \in Calls : entry[c] = "absent"

\* Every wait comes to an end: with a decision, at its deadline, or with the
\* process, even if the entry it polls for has been removed by a dismissal.
EveryWaitEnds ==
    \A c \in Calls : (pc[c] \in Waiting) ~> (pc[c] \in {"returned", "threw", "dead"})

\* Every run is finished at last: by its loop, or, if its process died while it
\* was running or waiting for the user, by the reaper.
RunIsReleased == <>finished

-----------------------------------------------------------------------------
(* The inductive invariants behind the safety properties. *)

\* An entry goes from absent to open to one acknowledged decision to absent, and
\* a positive verdict is the decision it held.
DecisionInv ==
    /\ FirstDecisionWins
    /\ \A c \in Calls :
        /\ pc[c] \in {"idle", "dispatched"} => entry[c] = "absent" /\ acked[c] = {}
        /\ entry[c] = "open" => acked[c] = {}
        /\ entry[c] \in Decided => acked[c] = {entry[c]}
        /\ verdict[c] \in {"approved", "answered"} =>
               acked[c] = {verdict[c]} /\ pc[c] \notin Waiting
        /\ pc[c] = "executing" \/ c \in executed => verdict[c] = "approved"

Deciding == Waiting \cup {"decided", "leaving"}

\* The loop is in at most one wait; while that wait or a running script is for
\* approvals, no statement takes the run to waiting_user_input.
WaitInv ==
    /\ \A c \in TopLevel :
        /\ pc[c] # "dispatched"
        /\ pc[c] \in Deciding => loop = "deciding"
        /\ pc[c] = "executing" => loop = "executing"
        /\ \A d \in TopLevel : {pc[c], pc[d]} \subseteq Deciding \cup {"executing"} => c = d
    /\ ~finished /\ (loop = "script" \/ \E c \in Approvals : pc[c] \in Deciding) =>
        state \in {"running", "waiting_tool_approval"}
    /\ \A c \in Calls : pc[c] \in Waiting /\ ~finished => entry[c] # "absent"

=============================================================================
