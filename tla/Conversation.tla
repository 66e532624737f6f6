---------------------------- MODULE Conversation ----------------------------
(***************************************************************************)
(* The rows of one conversation and everything that writes them: chat      *)
(* requests (stream/+server.ts, stream-persistence.server.ts), partial     *)
(* replies saved by the page (chat.remote.ts, savePartialAssistant), agent *)
(* switches (agent-switch.server.ts) and edits (editMessage,               *)
(* deleteMessagesAfter).  All of them insert through                       *)
(* insertMessageWithSequence: SELECT max + 1, then INSERT under a unique   *)
(* index.  Transactions are read committed; an INSERT of a sequence that an *)
(* open transaction has inserted waits for that transaction, and so does an *)
(* UPDATE of the conversations row.                                        *)
(***************************************************************************)
EXTENDS Naturals, FiniteSets, FiniteSetsExt

CONSTANTS
    Requests,        \* POSTs to the stream route
    Regenerations,   \* those that insert no user message
    Flaky,           \* those whose page may stop or lose its stream
    Switches,        \* calls of setConversationAgent
    Agents, Default, \* agents, and the one the conversation starts with
    MaxAttempts,     \* MAX_SEQUENCE_RETRIES (1: the driver hides the error code)
    Millisecond,     \* ticks of the database's clock in one, a thousand microseconds
    MaxGap,          \* bound: ticks between two stamps
    MaxTruncations,  \* bound: edits and deletions
    MaxCrashes,      \* bound: crashes of the server process
    NoRun

ASSUME ConversationAssumption ==
    /\ Regenerations \subseteq Requests /\ Flaky \subseteq Requests
    /\ Default \in Agents
    /\ Millisecond \in Nat \ {0} /\ MaxGap \in Nat \ {0}
    /\ MaxAttempts \in Nat \ {0} /\ MaxTruncations \in Nat /\ MaxCrashes \in Nat
    /\ NoRun \notin Requests

\* Requests and switches are told apart by what they are.
ASSUME KindsAreApart == Requests \cap Switches = {} /\ NoRun \notin Switches

VARIABLES
    messages,     \* committed rows
    uncommitted,  \* rows of open transactions
    rowLock,      \* the switch whose transaction holds the conversations row
    agent,        \* conversations.agentId
    totals,       \* conversations.totalTokens, each reply counting one
    clock,        \* now() in ticks, later for every stamp
    writing,      \* where each insertMessageWithSequence call is
    pick,         \* the max + 1 it read
    tries,        \* its attempts
    pc,           \* where each request is
    snapshot,     \* the totals each request read first
    began,        \* now() of each transaction
    found,        \* the partial row a request is about to update
    run,          \* chat_runs: none, active (finished_at IS NULL) or finished
    started,      \* chat_runs.started_at
    page,         \* the page that reads the request's stream
    tagged,       \* the run a page's partial is stamped with
    switch,       \* where each agent switch is
    target,       \* the agent it switches to
    overlap,      \* history: a request was opened while another was unsaved
    truncations, crashes

rowVars  == <<messages, uncommitted, rowLock, agent, totals, clock>>
writeVars == <<writing, pick, tries>>
requestVars == <<pc, snapshot, found, overlap>>
runVars == <<run, started>>
pageVars == <<page, tagged>>
switchVars == <<switch, target>>
boundVars == <<truncations, crashes>>
vars == <<rowVars, writeVars, requestVars, began, runVars, pageVars, switchVars, boundVars>>

User(r)    == <<r, "user">>
Reply(r)   == <<r, "reply">>
Partial(r) == <<r, "partial">>
Anchor(s)  == <<s, "anchor">>
InTx    == {Reply(r) : r \in Requests} \cup {Anchor(s) : s \in Switches}
Writers == InTx \cup {User(r) : r \in Requests} \cup {Partial(r) : r \in Requests}

Rows == [id : Writers, seq : Nat, at : Nat, of : Requests \cup Agents \cup {NoRun}, partial : BOOLEAN]
Unsaved == {"asking", "opened", "loop", "merge", "insert", "totals"}

TypeOK ==
    /\ messages \subseteq Rows /\ uncommitted \subseteq Rows
    /\ rowLock \in Switches \cup {NoRun}
    /\ agent \in Agents /\ totals \in Nat /\ clock \in Nat
    /\ writing \in [Writers -> {"no", "pick", "insert", "saved", "threw", "aborted"}]
    /\ pick \in [Writers -> Nat] /\ tries \in [Writers -> 0..MaxAttempts]
    /\ pc \in [Requests -> Unsaved \cup {"idle", "saved", "lost", "failing", "done", "failed", "dead"}]
    /\ snapshot \in [Requests -> Nat]
    /\ began \in [Requests \cup Switches -> Nat]
    /\ found \in [Requests -> Writers \cup {NoRun}]
    /\ run \in [Requests -> {"none", "active", "finished"}] /\ started \in [Requests -> Nat]
    /\ page \in [Requests -> {"none", "streaming", "saving", "closed"}]
    /\ tagged \in [Requests -> Requests \cup {NoRun}]
    /\ switch \in [Switches -> {"idle", "begin", "lock", "insert", "done", "threw", "dead"}]
    /\ target \in [Switches -> Agents]
    /\ overlap \in BOOLEAN /\ truncations \in Nat /\ crashes \in Nat

Init ==
    /\ messages = {} /\ uncommitted = {} /\ rowLock = NoRun
    /\ agent = Default /\ totals = 0 /\ clock = 1
    /\ writing = [w \in Writers |-> "no"]
    /\ pick = [w \in Writers |-> 0] /\ tries = [w \in Writers |-> 0]
    /\ pc = [r \in Requests |-> "idle"] /\ snapshot = [r \in Requests |-> 0]
    /\ began = [p \in Requests \cup Switches |-> 0]
    /\ found = [r \in Requests |-> NoRun]
    /\ run = [r \in Requests |-> "none"] /\ started = [r \in Requests |-> 0]
    /\ page = [r \in Requests |-> "none"] /\ tagged = [r \in Requests |-> NoRun]
    /\ switch = [s \in Switches |-> "idle"] /\ target = [s \in Switches |-> Default]
    /\ overlap = FALSE /\ truncations = 0 /\ crashes = 0

\* Time goes on after a stamp, within the millisecond or out of it.
ClockTicks == \E d \in 1..MaxGap : clock' = clock + d

Goto(r, phase) == pc' = [pc EXCEPT ![r] = phase]

-----------------------------------------------------------------------------
(* insertMessageWithSequence. *)

MaxPlusOne == Max({m.seq : m \in messages} \cup {0}) + 1

Taken(n) == \E m \in messages : m.seq = n
Held(n)  == \E m \in uncommitted : m.seq = n

\* (The locals of a call that is over, pick and snapshot, are forgotten.)

\* The row w writes; its created_at is now() of the statement or transaction.
Row(w, at) ==
    [id |-> w, seq |-> pick[w], at |-> at, partial |-> w[2] = "partial",
     of |-> CASE w[2] = "user"    -> NoRun
              [] w[2] = "reply"   -> w[1]
              [] w[2] = "partial" -> tagged[w[1]]
              [] w[2] = "anchor"  -> target[w[1]]]

SelectMax(w) ==
    /\ writing[w] = "pick"
    /\ writing' = [writing EXCEPT ![w] = "insert"]
    /\ pick' = [pick EXCEPT ![w] = MaxPlusOne]
    /\ tries' = [tries EXCEPT ![w] = @ + 1]
    /\ UNCHANGED <<rowVars, requestVars, began, runVars, pageVars, switchVars, boundVars>>

\* Each attempt outside a transaction is one of its own.
InsertPlain(w) ==
    /\ w \notin InTx /\ writing[w] = "insert" /\ ~Held(pick[w])
    /\ \/ /\ ~Taken(pick[w])
          /\ messages' = messages \cup {Row(w, clock)} /\ ClockTicks
          /\ writing' = [writing EXCEPT ![w] = "saved"]
       \/ /\ Taken(pick[w])
          /\ writing' = [writing EXCEPT ![w] = IF tries[w] < MaxAttempts THEN "pick" ELSE "threw"]
          /\ UNCHANGED <<messages, clock>>
    /\ pick' = [pick EXCEPT ![w] = 0]
    /\ UNCHANGED <<uncommitted, rowLock, agent, totals, tries, requestVars, began,
                   runVars, pageVars, switchVars, boundVars>>

-----------------------------------------------------------------------------
(* A chat request. *)

\* The conversation is read first; its totals are written back at the end.
Open(r) ==
    /\ pc[r] = "idle"
    /\ snapshot' = [snapshot EXCEPT ![r] = totals]
    /\ overlap' = (overlap \/ \E q \in Requests : pc[q] \in Unsaved)
    /\ IF r \in Regenerations
       THEN Goto(r, "opened") /\ UNCHANGED writing
       ELSE Goto(r, "asking") /\ writing' = [writing EXCEPT ![User(r)] = "pick"]
    /\ UNCHANGED <<rowVars, pick, tries, found, began, runVars, pageVars, switchVars, boundVars>>

Asked(r) ==
    /\ pc[r] = "asking" /\ writing[User(r)] \in {"saved", "threw"}
    /\ Goto(r, IF writing[User(r)] = "saved" THEN "opened" ELSE "failed")
    /\ UNCHANGED <<rowVars, writeVars, snapshot, found, overlap, began, runVars, pageVars, switchVars, boundVars>>

StartRun(r) ==
    /\ pc[r] = "opened"
    /\ run' = [run EXCEPT ![r] = "active"]
    /\ started' = [started EXCEPT ![r] = clock] /\ ClockTicks
    /\ page' = [page EXCEPT ![r] = IF r \in Flaky THEN "streaming" ELSE "closed"]
    /\ Goto(r, "loop")
    /\ UNCHANGED <<messages, uncommitted, rowLock, agent, totals, writeVars, snapshot, found,
                   overlap, began, tagged, switchVars, boundVars>>

LoopFails(r) ==
    /\ pc[r] = "loop" /\ Goto(r, "failing")
    /\ UNCHANGED <<rowVars, writeVars, snapshot, found, overlap, began, runVars, pageVars, switchVars, boundVars>>

Partials(r) == {m \in messages : m.of = r /\ m.partial}

\* Variant: the reply is always inserted.
NeverMerge(r) ==
    /\ pc[r] = "loop"
    /\ began' = [began EXCEPT ![r] = clock] /\ ClockTicks
    /\ Goto(r, "insert")
    /\ writing' = [writing EXCEPT ![Reply(r)] = "pick"]
    /\ UNCHANGED <<messages, uncommitted, rowLock, agent, totals, pick, tries, snapshot, found,
                   overlap, runVars, pageVars, switchVars, boundVars>>

\* persistAssistantMessage: BEGIN, and look for a partial row of this run.
FindPartial(r) ==
    /\ pc[r] = "loop"
    /\ began' = [began EXCEPT ![r] = clock] /\ ClockTicks
    /\ \/ /\ Partials(r) # {} /\ Goto(r, "merge")
          /\ \E m \in Partials(r) : found' = [found EXCEPT ![r] = m.id]
          /\ UNCHANGED writing
       \/ /\ Partials(r) = {} /\ Goto(r, "insert")
          /\ writing' = [writing EXCEPT ![Reply(r)] = "pick"]
          /\ UNCHANGED found
    /\ UNCHANGED <<messages, uncommitted, rowLock, agent, totals, pick, tries, snapshot,
                   overlap, runVars, pageVars, switchVars, boundVars>>

Merged(r) == {IF m.id = found[r] THEN [m EXCEPT !.of = r, !.partial = FALSE] ELSE m : m \in messages}

\* UPDATE the partial row by its id, UPDATE the totals, COMMIT.  If the row has
\* been deleted meanwhile the transaction still commits, without a reply.
MergePartial(r) ==
    /\ pc[r] = "merge" /\ rowLock = NoRun
    /\ messages' = Merged(r)
    /\ totals' = snapshot[r] + 1 /\ snapshot' = [snapshot EXCEPT ![r] = 0]
    /\ Goto(r, IF \E m \in messages : m.id = found[r] THEN "saved" ELSE "lost")
    /\ UNCHANGED <<uncommitted, rowLock, agent, clock, writeVars, found, overlap,
                   began, runVars, pageVars, switchVars, boundVars>>

\* A unique violation aborts the transaction; the retry inside it fails too.
InsertReply(r) ==
    /\ pc[r] = "insert" /\ writing[Reply(r)] = "insert" /\ ~Held(pick[Reply(r)])
    /\ IF Taken(pick[Reply(r)])
       THEN /\ writing' = [writing EXCEPT ![Reply(r)] = "threw"] /\ Goto(r, "failing")
            /\ UNCHANGED uncommitted
       ELSE /\ writing' = [writing EXCEPT ![Reply(r)] = "saved"] /\ Goto(r, "totals")
            /\ uncommitted' = uncommitted \cup {Row(Reply(r), began[r])}
    /\ pick' = [pick EXCEPT ![Reply(r)] = 0]
    /\ UNCHANGED <<messages, rowLock, agent, totals, clock, tries, snapshot, found,
                   overlap, began, runVars, pageVars, switchVars, boundVars>>

\* Variant: the totals are a statement after the transaction, lost if it fails.
CommitWithoutTotals(r) ==
    /\ pc[r] = "totals" /\ rowLock = NoRun
    /\ messages' = messages \cup {m \in uncommitted : m.id = Reply(r)}
    /\ uncommitted' = {m \in uncommitted : m.id # Reply(r)}
    /\ Goto(r, "saved")
    /\ UNCHANGED <<rowLock, agent, totals, clock, writeVars, snapshot, found, overlap, began,
                   runVars, pageVars, switchVars, boundVars>>

\* UPDATE the totals from the snapshot, COMMIT.
CommitReply(r) ==
    /\ pc[r] = "totals" /\ rowLock = NoRun
    /\ messages' = messages \cup {m \in uncommitted : m.id = Reply(r)}
    /\ uncommitted' = {m \in uncommitted : m.id # Reply(r)}
    /\ totals' = snapshot[r] + 1 /\ snapshot' = [snapshot EXCEPT ![r] = 0]
    /\ Goto(r, "saved")
    /\ UNCHANGED <<rowLock, agent, clock, writeVars, found, overlap, began,
                   runVars, pageVars, switchVars, boundVars>>

\* Variant: the catch block forgets the run.
FinishRunOnSuccess(r) ==
    /\ pc[r] \in {"saved", "lost", "failing"}
    /\ run' = [run EXCEPT ![r] = IF pc[r] = "saved" THEN "finished" ELSE @]
    /\ Goto(r, IF pc[r] = "saved" THEN "done" ELSE "failed")
    /\ UNCHANGED <<rowVars, writeVars, snapshot, found, overlap, began, started, pageVars, switchVars, boundVars>>

\* updateRun, finished: completed, or failed by the catch block.
FinishRun(r) ==
    /\ pc[r] \in {"saved", "lost", "failing"}
    /\ run' = [run EXCEPT ![r] = "finished"]
    /\ Goto(r, IF pc[r] = "saved" THEN "done" ELSE "failed")
    /\ UNCHANGED <<rowVars, writeVars, snapshot, found, overlap, began, started, pageVars, switchVars, boundVars>>

-----------------------------------------------------------------------------
(* The page: it closes on a done event with a message id, and otherwise saves
   what it has received, if anything. *)

PageCloses(r) ==
    /\ page[r] = "streaming"
    /\ page' = [page EXCEPT ![r] = "closed"]
    /\ UNCHANGED <<rowVars, writeVars, requestVars, began, runVars, tagged, switchVars, boundVars>>

NewestActive(q) == run[q] = "active" /\ \A o \in Requests : run[o] = "active" => started[o] <= started[q]

SavePartial(r) ==
    /\ page[r] = "streaming"
    /\ page' = [page EXCEPT ![r] = "saving"]
    /\ tagged' = [tagged EXCEPT ![r] =
           IF \E q \in Requests : NewestActive(q) THEN CHOOSE q \in Requests : NewestActive(q) ELSE NoRun]
    /\ writing' = [writing EXCEPT ![Partial(r)] = "pick"]
    /\ UNCHANGED <<rowVars, pick, tries, requestVars, began, runVars, switchVars, boundVars>>

-----------------------------------------------------------------------------
(* setConversationAgent. *)

\* Without a change of agent there is no anchor.
ReadAgent(s, g) ==
    /\ switch[s] = "idle"
    /\ target' = [target EXCEPT ![s] = g]
    /\ switch' = [switch EXCEPT ![s] = IF agent = g THEN "done" ELSE "begin"]
    /\ UNCHANGED <<rowVars, writeVars, requestVars, began, runVars, pageVars, boundVars>>

BeginSwitch(s) ==
    /\ switch[s] = "begin"
    /\ switch' = [switch EXCEPT ![s] = "lock"]
    /\ began' = [began EXCEPT ![s] = clock] /\ ClockTicks
    /\ UNCHANGED <<messages, uncommitted, rowLock, agent, totals, writeVars, requestVars,
                   runVars, pageVars, target, boundVars>>

\* Variant: the UPDATE is a transaction of its own.
UpdateAgentAlone(s) ==
    /\ switch[s] = "lock" /\ rowLock = NoRun
    /\ agent' = target[s]
    /\ switch' = [switch EXCEPT ![s] = "insert"]
    /\ writing' = [writing EXCEPT ![Anchor(s)] = "pick"]
    /\ UNCHANGED <<messages, uncommitted, rowLock, totals, clock, pick, tries, requestVars,
                   began, runVars, pageVars, target, boundVars>>

\* UPDATE conversations: the row is held until the transaction ends.
UpdateAgent(s) ==
    /\ switch[s] = "lock" /\ rowLock = NoRun
    /\ rowLock' = s
    /\ switch' = [switch EXCEPT ![s] = "insert"]
    /\ writing' = [writing EXCEPT ![Anchor(s)] = "pick"]
    /\ UNCHANGED <<messages, uncommitted, agent, totals, clock, pick, tries, requestVars,
                   began, runVars, pageVars, target, boundVars>>

\* The anchor's INSERT and the COMMIT.
InsertAnchor(s) ==
    /\ switch[s] = "insert" /\ writing[Anchor(s)] = "insert" /\ ~Held(pick[Anchor(s)])
    /\ rowLock' = NoRun
    /\ IF Taken(pick[Anchor(s)])
       THEN /\ writing' = [writing EXCEPT ![Anchor(s)] = "threw"]
            /\ switch' = [switch EXCEPT ![s] = "threw"]
            /\ UNCHANGED <<messages, agent>>
       ELSE /\ writing' = [writing EXCEPT ![Anchor(s)] = "saved"]
            /\ switch' = [switch EXCEPT ![s] = "done"]
            /\ messages' = messages \cup {Row(Anchor(s), began[s])}
            /\ agent' = target[s]
    /\ pick' = [pick EXCEPT ![Anchor(s)] = 0]
    /\ UNCHANGED <<uncommitted, totals, clock, tries, requestVars, began, runVars,
                   pageVars, target, boundVars>>

-----------------------------------------------------------------------------
(* The database, the user's edits, and crashes. *)

\* A reply holds a sequence and waits for the conversations row; a switch holds
\* the row and waits for the sequence.
Deadlocked(r, s) ==
    /\ pc[r] = "totals" /\ rowLock = s
    /\ writing[Anchor(s)] = "insert"
    /\ \E m \in uncommitted : m.id = Reply(r) /\ m.seq = pick[Anchor(s)]

\* Postgres aborts one of the two; neither is retried.
AbortReply(r, s) ==
    /\ Deadlocked(r, s)
    /\ uncommitted' = {m \in uncommitted : m.id # Reply(r)}
    /\ writing' = [writing EXCEPT ![Reply(r)] = "aborted"]
    /\ Goto(r, "failing")
    /\ UNCHANGED <<messages, rowLock, agent, totals, clock, pick, tries, snapshot, found,
                   overlap, began, runVars, pageVars, switchVars, boundVars>>

AbortSwitch(r, s) ==
    /\ Deadlocked(r, s)
    /\ rowLock' = NoRun
    /\ writing' = [writing EXCEPT ![Anchor(s)] = "aborted"]
    /\ switch' = [switch EXCEPT ![s] = "threw"]
    /\ UNCHANGED <<messages, uncommitted, agent, totals, clock, pick, tries, requestVars,
                   began, runVars, pageVars, target, boundVars>>

\* created_at as the server reads it: a Date, which counts milliseconds.
DateOf(t) == (t \div Millisecond) * Millisecond

DeleteRows(D) ==
    /\ truncations < MaxTruncations /\ truncations' = truncations + 1
    /\ messages' = messages \ D
    /\ UNCHANGED <<uncommitted, rowLock, agent, totals, clock, writeVars, requestVars, began,
                   runVars, pageVars, switchVars, crashes>>

\* Variant: the pivot's time is cut to a coarser unit still.
EditByCoarserDate(m) ==
    /\ m.id[2] = "user"
    /\ DeleteRows({x \in messages : x.at > (m.at \div (2 * Millisecond)) * (2 * Millisecond)})

\* The new content, and everything created after the question, or with it.  The
\* pivot is the Date of a stamp that is finer: rows of its millisecond are "after" it,
\* the question itself among them.
\* (A pivot's created_at never changes, so reading it and deleting is one step.)
EditMessage(m) ==
    /\ m.id[2] = "user"
    /\ DeleteRows({x \in messages : x.at > DateOf(m.at) \/ (x.at = DateOf(m.at) /\ x # m)})

DeleteMessagesAfter(m) == DeleteRows({x \in messages : x.at > DateOf(m.at)})

Crash ==
    /\ crashes < MaxCrashes /\ crashes' = crashes + 1
    /\ uncommitted' = {} /\ rowLock' = NoRun
    /\ pc' = [r \in Requests |-> IF pc[r] \in {"idle", "done", "failed"} THEN pc[r] ELSE "dead"]
    /\ page' = [r \in Requests |-> IF page[r] = "saving" THEN "closed" ELSE page[r]]
    /\ switch' = [s \in Switches |-> IF switch[s] \in {"idle", "done", "threw"} THEN switch[s] ELSE "dead"]
    /\ writing' = [w \in Writers |-> IF writing[w] \in {"pick", "insert"} THEN "aborted" ELSE writing[w]]
    /\ UNCHANGED <<messages, agent, totals, clock, pick, tries, snapshot, found, overlap, began,
                   runVars, tagged, target, truncations>>

-----------------------------------------------------------------------------
RequestStep(r) ==
    \/ Open(r) \/ Asked(r) \/ StartRun(r) \/ LoopFails(r) \/ FindPartial(r)
    \/ MergePartial(r) \/ InsertReply(r) \/ CommitReply(r) \/ FinishRun(r)

SwitchStep(s) == (\E g \in Agents : ReadAgent(s, g)) \/ BeginSwitch(s) \/ UpdateAgent(s) \/ InsertAnchor(s)

Write(w) == SelectMax(w) \/ InsertPlain(w)

DeadlockDetected == \E r \in Requests, s \in Switches : AbortReply(r, s) \/ AbortSwitch(r, s)

Next ==
    \/ \E r \in Requests : RequestStep(r) \/ PageCloses(r) \/ SavePartial(r)
    \/ \E s \in Switches : SwitchStep(s)
    \/ \E w \in Writers : Write(w)
    \/ DeadlockDetected
    \/ \E m \in messages : EditMessage(m) \/ DeleteMessagesAfter(m)
    \/ Crash

Spec == Init /\ [][Next]_vars

RequestProcess(r) ==
    pc[r] # "idle" /\ (RequestStep(r) \/ Write(User(r)) \/ Write(Reply(r)))

SwitchProcess(s) == switch[s] # "idle" /\ (SwitchStep(s) \/ Write(Anchor(s)))

\* Handlers of a live process go on and the database detects its deadlocks; the
\* user owes nothing.
Fairness ==
    /\ \A r \in Requests : WF_vars(RequestProcess(r))
    /\ \A s \in Switches : WF_vars(SwitchProcess(s))
    /\ WF_vars(DeadlockDetected)

FairSpec == Spec /\ Fairness

-----------------------------------------------------------------------------
(* What must hold. *)

Final(m) == m.id[2] \in {"reply", "partial"} /\ ~m.partial

\* A turn reads in order: whatever is stored for a run, its final reply or a
\* partial that the page saved for it, is displayed after the run's question.
ReplyFollowsQuestion ==
    \A m, u \in messages :
        m.id[2] \in {"reply", "partial"} /\ u.id[2] = "user" /\ m.of = u.id[1] => m.seq > u.seq

\* As long as no two requests overlap and nothing was deleted, the conversation's
\* totals count each final reply once: through collisions, aborted transactions,
\* merged partials, agent switches and crashes.
TotalsAddUp == ~overlap /\ truncations = 0 => totals = Cardinality({m \in messages : Final(m)})

\* The anchor that the model reads last names the agent it runs as, however the
\* switches interleave.
LastAnchorNamesTheAgent ==
    truncations = 0 =>
        \A a \in messages :
            /\ a.id[2] = "anchor"
            /\ \A b \in messages : b.id[2] = "anchor" => b.seq <= a.seq
            => a.of = agent

\* Next to a reply of its own row, a run has a partial row only if the page
\* inserted it after the reply's transaction had begun: an earlier one is merged.
MergedUnlessRaced ==
    \A r \in Requests : \A m \in messages :
        m.id = Reply(r) => \A p \in Partials(r) : p.at > m.at

\* A turn reads as one question and its reply.
TurnReadsAsOne == ReplyFollowsQuestion /\ MergedUnlessRaced

\* An edit deletes only what is displayed after its question, or was created in the
\* question's own millisecond: the pivot is compared as a Date with stamps that are
\* finer, so the question and what came just before it are not safe.
EditKeepsWhatCameBefore ==
    [][\A u \in messages : u.id[2] = "user" /\ truncations = 0 /\ EditMessage(u) =>
           \A x \in messages \ messages' : x.seq > u.seq \/ DateOf(x.at) = DateOf(u.at)]_vars

\* A run that was started is finished, whatever its transaction collides or
\* deadlocks with.
EveryRunIsFinished ==
    \A r \in Requests : run[r] = "active" ~> (run[r] = "finished" \/ pc[r] = "dead")

=============================================================================
