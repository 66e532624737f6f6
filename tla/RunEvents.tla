----------------------------- MODULE RunEvents -----------------------------
(***************************************************************************)
(* The event stream of one chat run, from session.emit to the chat page:   *)
(* run_events with its per-run counter (runs/events.server.ts), the SSE    *)
(* session that logs an event and then sends it (runtime/session/          *)
(* sse.server.ts), the resume endpoint that replays and tails the log      *)
(* (routes/chat/[id]/stream/resume) and the consumer in the browser that   *)
(* reconnects with the last id it saw (chat/sse-consumer.ts).              *)
(*                                                                         *)
(* An event is <<emitter, n>>: the n-th event of the loop, or the event of *)
(* one tool call that a run_code script makes through the same session.    *)
(* The loop emits Rounds events, finishes the run, then emits its metrics  *)
(* and its done.                                                           *)
(***************************************************************************)
EXTENDS Integers, SequencesExt

CONSTANTS
    Script,        \* tool calls of a run_code script, each emitting one event
    Rounds,        \* events of the loop before it finishes the run
    Deltas,        \* those of 1..Rounds that are not persisted (delta, reasoning)
    MaxResumes,    \* maxResumeAttempts of the consumer
    MaxDrops,      \* bound: connections lost
    MaxDbErrors,   \* bound: database calls that throw
    MaxCrashes     \* bound: crashes of the server process

ASSUME RunEventsAssumption ==
    /\ Script \cap {"loop", "resume", "nobody"} = {}
    /\ Rounds \in Nat /\ Deltas \subseteq 1..Rounds
    /\ MaxResumes \in Nat /\ MaxDrops \in Nat
    /\ MaxDbErrors \in Nat /\ MaxCrashes \in Nat

VARIABLES
    counter,    \* chat_runs.next_event_seq, as committed
    log,        \* run_events: committed rows [seq, event]
    holder,     \* the emitter whose transaction holds the chat_runs row
    finished,   \* the run is out of the active states
    flip,       \* counter when it left them
    pc, next,   \* per emitter: where its emit is, and which event it emits
    seq,        \* per emitter: what appendRunEvent gives it
    ended,      \* the loop has written the final state
    unsure,     \* events whose append was committed but reported as failed
    source,     \* who feeds the page's connection, or how it ended
    channel,    \* frames on that connection
    handler,    \* what the resume request is doing
    lastSeq, wasActive,   \* its cursor and its first look at the run
    client, lastSeen, attempts,   \* the consumer
    received, repeated,   \* events it has yielded, and yielded again
    drops, dbErrors, crashes

logVars     == <<counter, log, holder>>
runVars     == <<finished, flip>>
emitVars    == <<pc, next, seq, ended, unsure>>
connVars    == <<source, channel>>
handlerVars == <<handler, lastSeq, wasActive>>
clientVars  == <<client, lastSeen, attempts, received, repeated>>
faultVars   == <<drops, dbErrors, crashes>>
vars == <<logVars, runVars, emitVars, connVars, handlerVars, clientVars, faultVars>>

Nobody   == "nobody"
Emitters == Script \cup {"loop"}
LastOf(e)  == IF e = "loop" THEN Rounds + 2 ELSE 1
Done     == <<"loop", Rounds + 2>>
Events   == {<<e, n>> : e \in Emitters, n \in 1..(Rounds + 2)}
\* The dones that the resume endpoint makes up: not rows of run_events.
SyntheticDone == <<"resume", 0>>
ErrorDone     == <<"resume", 1>>
NoId == 0
Row   == [seq : Nat, event : Events]
Frame == [event : Events \cup {SyntheticDone, ErrorDone}, id : Nat]

TypeOK ==
    /\ counter \in Nat /\ log \subseteq Row /\ holder \in Emitters \cup {Nobody}
    /\ finished \in BOOLEAN /\ flip \in Nat
    /\ pc \in [Emitters -> {"ready", "counted", "logged", "dead"}]
    /\ next \in [Emitters -> 1..(Rounds + 3)]
    /\ seq \in [Emitters -> Nat]
    /\ ended \in BOOLEAN /\ unsure \subseteq Events
    /\ source \in {"live", "resume", "closed", "broken"}
    /\ channel \in Seq(Frame)
    /\ handler \in {"none", "check", "replay", "tail", "look", "drain"}
    /\ lastSeq \in Nat /\ wasActive \in BOOLEAN
    /\ client \in {"reading", "done", "stopped", "gaveUp"}
    /\ lastSeen \in Nat /\ attempts \in 0..MaxResumes
    /\ received \subseteq Events \cup {SyntheticDone, ErrorDone} /\ repeated \subseteq received
    /\ drops \in 0..MaxDrops /\ dbErrors \in 0..MaxDbErrors /\ crashes \in 0..MaxCrashes

\* The page has the response of the stream route, and nothing has been emitted.
Init ==
    /\ counter = 0 /\ log = {} /\ holder = Nobody
    /\ finished = FALSE /\ flip = 0
    /\ pc = [e \in Emitters |-> "ready"] /\ next = [e \in Emitters |-> 1]
    /\ seq = [e \in Emitters |-> NoId] /\ ended = FALSE /\ unsure = {}
    /\ source = "live" /\ channel = <<>>
    /\ handler = "none" /\ lastSeq = 0 /\ wasActive = FALSE
    /\ client = "reading" /\ lastSeen = 0 /\ attempts = 0
    /\ received = {} /\ repeated = {}
    /\ drops = 0 /\ dbErrors = 0 /\ crashes = 0

-----------------------------------------------------------------------------
(* session.emit: append to the log in a transaction, then send the frame. *)

Current(e) == <<e, next[e]>>

\* The loop emits its last two events only after it has written the final state.
MayEmit(e) ==
    /\ pc[e] = "ready" /\ next[e] <= LastOf(e)
    /\ e = "loop" => next[e] <= Rounds \/ ended

IsDelta(e) == e = "loop" /\ next[e] \in Deltas

Logged(e, n) == pc' = [pc EXCEPT ![e] = "logged"] /\ seq' = [seq EXCEPT ![e] = n]

\* delta and reasoning are only sent.
SkipLog(e) ==
    /\ MayEmit(e) /\ IsDelta(e)
    /\ Logged(e, NoId)
    /\ UNCHANGED <<logVars, runVars, next, ended, unsure, connVars, handlerVars, clientVars,
                   faultVars>>

\* Variant: the counter is read, and written back with the row later.
BumpCounterUnlocked(e) ==
    /\ MayEmit(e) /\ ~IsDelta(e)
    /\ pc' = [pc EXCEPT ![e] = "counted"]
    /\ seq' = [seq EXCEPT ![e] = counter + 1]
    /\ UNCHANGED <<logVars, runVars, next, ended, unsure, connVars, handlerVars, clientVars,
                   faultVars>>

\* UPDATE chat_runs SET next_event_seq = next_event_seq + 1 ... RETURNING: from
\* here to the end of the transaction the row is locked.
BumpCounter(e) ==
    /\ MayEmit(e) /\ ~IsDelta(e)
    /\ holder = Nobody /\ holder' = e
    /\ pc' = [pc EXCEPT ![e] = "counted"]
    /\ seq' = [seq EXCEPT ![e] = counter + 1]
    /\ UNCHANGED <<counter, log, runVars, next, ended, unsure, connVars, handlerVars, clientVars,
                   faultVars>>

CommitEvent(e) ==
    /\ counter' = seq[e]
    /\ log' = log \cup {[seq |-> seq[e], event |-> Current(e)]}
    /\ holder' = Nobody

\* INSERT INTO run_events, COMMIT.
InsertEvent(e) ==
    /\ pc[e] = "counted"
    /\ CommitEvent(e)
    /\ Logged(e, seq[e])
    /\ UNCHANGED <<runVars, next, ended, unsure, connVars, handlerVars, clientVars, faultVars>>

\* appendRunEvent throws: the transaction is rolled back, or it is committed and
\* only its answer lost.  emit logs the error and sends the frame without an id.
AppendThrows(e) ==
    /\ pc[e] = "counted"
    /\ dbErrors < MaxDbErrors /\ dbErrors' = dbErrors + 1
    /\ \/ holder' = Nobody /\ UNCHANGED <<counter, log, unsure>>
       \/ CommitEvent(e) /\ unsure' = unsure \cup {Current(e)}
    /\ Logged(e, NoId)
    /\ UNCHANGED <<runVars, next, ended, connVars, handlerVars, clientVars, drops, crashes>>

\* safeEnqueue: nothing is sent once the page has gone.
SendFrame(e) ==
    /\ pc[e] = "logged"
    /\ pc' = [pc EXCEPT ![e] = "ready"]
    /\ next' = [next EXCEPT ![e] = @ + 1]
    /\ channel' = IF source = "live"
                  THEN Append(channel, [event |-> Current(e), id |-> seq[e]])
                  ELSE channel
    /\ UNCHANGED <<logVars, runVars, seq, ended, unsure, source, handlerVars, clientVars, faultVars>>

-----------------------------------------------------------------------------
(* The state of the run: an UPDATE waits for the row like any other. *)

LeaveActive ==
    /\ holder = Nobody
    /\ finished' = TRUE
    /\ flip' = IF finished THEN flip ELSE counter

\* The stream route's last updateRun, or the one in its catch block, after which
\* only done is emitted.
CompleteRun ==
    /\ pc["loop"] = "ready" /\ next["loop"] = Rounds + 1 /\ ~ended
    /\ LeaveActive
    /\ ended' = TRUE
    /\ UNCHANGED <<logVars, pc, next, seq, unsure, connVars, handlerVars, clientVars, faultVars>>

FailRun ==
    /\ pc["loop"] = "ready" /\ next["loop"] <= Rounds /\ ~ended
    /\ LeaveActive
    /\ ended' = TRUE
    /\ next' = [next EXCEPT !["loop"] = Rounds + 2]
    /\ UNCHANGED <<logVars, pc, seq, unsure, connVars, handlerVars, clientVars, faultVars>>

\* The user dismisses the run; the loop does not notice.
DismissRun ==
    /\ ~finished /\ LeaveActive
    /\ UNCHANGED <<logVars, emitVars, connVars, handlerVars, clientVars, faultVars>>

\* The reaper, an hour after the last write of a process that died.
ReapRun == pc["loop"] = "dead" /\ DismissRun

\* controller.close() after done.
CloseLive ==
    /\ pc["loop"] = "ready" /\ next["loop"] = Rounds + 3
    /\ source = "live" /\ source' = "closed"
    /\ UNCHANGED <<logVars, runVars, emitVars, channel, handlerVars, clientVars, faultVars>>

-----------------------------------------------------------------------------
(* GET stream/resume?since=lastSeen. *)

\* The rows past the cursor, in the order of their numbers: at i the one that has fewer
\* than i before it, and with itself at least i.
Unsent ==
    LET rows == {r \in log : r.seq > lastSeq}
        UpTo(n) == Cardinality({r \in rows : r.seq <= n})
    IN  [i \in 1..Cardinality(rows) |-> CHOOSE r \in rows : UpTo(r.seq - 1) < i /\ i <= UpTo(r.seq)]
Frames(rows) == [i \in DOMAIN rows |-> [event |-> rows[i].event, id |-> rows[i].seq]]

\* The cursor moves to the last row that was sent.
MoveCursor == lastSeq' = Max({lastSeq} \cup {r.seq : r \in log})

SendUnsent == channel' = channel \o Frames(Unsent) /\ MoveCursor

CheckActive ==
    /\ handler = "check" /\ handler' = "replay"
    /\ wasActive' = ~finished
    /\ UNCHANGED <<logVars, runVars, emitVars, connVars, lastSeq, clientVars, faultVars>>

ReplayActive ==
    /\ handler = "replay" /\ wasActive
    /\ SendUnsent
    /\ handler' = "tail"
    /\ UNCHANGED <<logVars, runVars, emitVars, source, wasActive, clientVars, faultVars>>

\* The run was over when the request came: a synthetic done, and the end.
ReplayTerminal ==
    /\ handler = "replay" /\ ~wasActive
    /\ channel' = channel \o Append(Frames(Unsent), [event |-> SyntheticDone, id |-> NoId])
    /\ MoveCursor
    /\ handler' = "none" /\ source' = "closed"
    /\ UNCHANGED <<logVars, runVars, emitVars, wasActive, clientVars, faultVars>>

TailLog ==
    /\ handler = "tail"
    /\ SendUnsent
    /\ handler' = "look"
    /\ UNCHANGED <<logVars, runVars, emitVars, source, wasActive, clientVars, faultVars>>

LookAgain ==
    /\ handler = "look" /\ ~finished
    /\ handler' = "tail"
    /\ UNCHANGED <<logVars, runVars, emitVars, connVars, lastSeq, wasActive, clientVars, faultVars>>

\* Variant: the run is over, so close at once.
CloseWithoutDraining ==
    /\ handler = "look" /\ finished
    /\ handler' = "none" /\ source' = "closed"
    /\ UNCHANGED <<logVars, runVars, emitVars, channel, lastSeq, wasActive, clientVars, faultVars>>

\* Variant: the tail goes on until the run's own done is in the log.
LookFinishedAtDone ==
    /\ handler = "look" /\ \E r \in log : r.event = Done
    /\ handler' = "drain"
    /\ UNCHANGED <<logVars, runVars, emitVars, connVars, lastSeq, wasActive, clientVars, faultVars>>

LookFinished ==
    /\ handler = "look" /\ finished
    /\ handler' = "drain"
    /\ UNCHANGED <<logVars, runVars, emitVars, connVars, lastSeq, wasActive, clientVars, faultVars>>

Drain ==
    /\ handler = "drain"
    /\ SendUnsent
    /\ handler' = "none" /\ source' = "closed"
    /\ UNCHANGED <<logVars, runVars, emitVars, wasActive, clientVars, faultVars>>

\* A query of the handler throws: the replay answers with a done that carries the
\* error, the tail breaks the response off.
HandlerThrows ==
    /\ handler \in {"replay", "tail", "look", "drain"}
    /\ dbErrors < MaxDbErrors /\ dbErrors' = dbErrors + 1
    /\ handler' = "none"
    /\ IF handler = "replay"
       THEN /\ channel' = Append(channel, [event |-> ErrorDone, id |-> NoId])
            /\ source' = "closed"
       ELSE channel' = <<>> /\ source' = "broken"
    /\ UNCHANGED <<logVars, runVars, emitVars, lastSeq, wasActive, clientVars, drops, crashes>>

-----------------------------------------------------------------------------
(* consumeSseStream in the page, the network and the process. *)

IsDone(ev) == ev \in {Done, SyntheticDone, ErrorDone}

\* The next frame: an id only counts if it is past the last one; the event is
\* yielded whatever its id, and after a done nothing more is read.
ReadFrame ==
    /\ client = "reading" /\ channel # <<>>
    /\ LET frame == Head(channel) IN
        /\ lastSeen' = IF frame.id > lastSeen THEN frame.id ELSE lastSeen
        /\ received' = received \cup {frame.event}
        /\ repeated' = repeated \cup ({frame.event} \cap received)
        /\ client' = IF IsDone(frame.event) THEN "done" ELSE client
    /\ channel' = Tail(channel)
    /\ UNCHANGED <<logVars, runVars, emitVars, source, handlerVars, attempts, faultVars>>

StreamEnded == client = "reading" /\ channel = <<>> /\ source \in {"closed", "broken"}

\* Variant: the request asks from the next id on, which the server skips too.
ResumePastNext ==
    /\ StreamEnded /\ attempts < MaxResumes
    /\ attempts' = attempts + 1
    /\ source' = "resume"
    /\ handler' = "check" /\ lastSeq' = lastSeen + 1
    /\ UNCHANGED <<logVars, runVars, emitVars, channel, wasActive, client, lastSeen, received,
                   repeated, faultVars>>

\* tryResume: a new request with the last id seen ...
Resume ==
    /\ StreamEnded /\ attempts < MaxResumes
    /\ attempts' = attempts + 1
    /\ source' = "resume"
    /\ handler' = "check" /\ lastSeq' = lastSeen
    /\ UNCHANGED <<logVars, runVars, emitVars, channel, wasActive, client, lastSeen, received,
                   repeated, faultVars>>

\* ... which may be rejected, or be one too many.
GiveUp ==
    /\ StreamEnded
    /\ client' = "gaveUp"
    /\ UNCHANGED <<logVars, runVars, emitVars, connVars, handlerVars, lastSeen, attempts,
                   received, repeated, faultVars>>

StopByUser ==
    /\ client = "reading" /\ client' = "stopped"
    /\ UNCHANGED <<logVars, runVars, emitVars, connVars, handlerVars, lastSeen, attempts,
                   received, repeated, faultVars>>

\* Frames in flight are lost with their connection.
Disconnect == source' = "broken" /\ channel' = <<>> /\ handler' = "none"

Drop ==
    /\ client = "reading" /\ source # "broken"
    /\ drops < MaxDrops /\ drops' = drops + 1
    /\ Disconnect
    /\ UNCHANGED <<logVars, runVars, emitVars, lastSeq, wasActive, clientVars, dbErrors, crashes>>

\* The server process dies and is started again without the loop; the database
\* rolls its open transaction back.
Crash ==
    /\ crashes < MaxCrashes /\ crashes' = crashes + 1
    /\ pc' = [e \in Emitters |-> "dead"]
    /\ holder' = Nobody
    /\ Disconnect
    /\ UNCHANGED <<counter, log, runVars, next, seq, ended, unsure, lastSeq, wasActive,
                   clientVars, drops, dbErrors>>

-----------------------------------------------------------------------------
EmitStep(e) == SkipLog(e) \/ BumpCounter(e) \/ InsertEvent(e) \/ AppendThrows(e) \/ SendFrame(e)

HandlerStep ==
    \/ CheckActive \/ ReplayActive \/ ReplayTerminal
    \/ TailLog \/ LookAgain \/ LookFinished \/ Drain

ClientStep == ReadFrame \/ Resume \/ GiveUp

Next ==
    \/ \E e \in Emitters : EmitStep(e)
    \/ CompleteRun \/ FailRun \/ DismissRun \/ ReapRun \/ CloseLive
    \/ HandlerStep \/ HandlerThrows
    \/ ClientStep \/ StopByUser
    \/ Drop \/ Crash

Spec == Init /\ [][Next]_vars

\* The loop, the handler and the consumer are awaited statements of a running
\* process, and the reaper a scheduled job.  Nobody has to dismiss or stop.
Fairness ==
    /\ \A e \in Emitters : WF_vars(EmitStep(e))
    /\ WF_vars(CompleteRun) /\ WF_vars(ReapRun) /\ WF_vars(CloseLive)
    /\ WF_vars(HandlerStep) /\ WF_vars(ClientStep)

FairSpec == Spec /\ Fairness

-----------------------------------------------------------------------------
(* What must hold. *)

\* The rows of run_events are numbered from 1 without a gap or a double, through
\* concurrent emits, rolled-back appends and crashes in the middle of one: a
\* reader that has seen n has seen everything below n that will ever exist.
LogIsGapless ==
    /\ \A r \in log : r.seq \in 1..counter
    /\ \A n \in 1..counter : \E r \in log : r.seq = n
    /\ \A r, s \in log : r.seq = s.seq => r = s

\* Reconnecting with the last id never delivers an event twice, except one whose
\* append was reported as failed although it had been committed.
NoEventTwice == repeated \subseteq unsure

\* A resume response that ends without an error has sent every event that was in
\* the log when the run left the active states.
ClosesCaughtUp ==
    [][source = "resume" /\ source' = "closed" /\ UNCHANGED dbErrors => lastSeq' >= flip]_vars

\* The page comes to the end of its stream, whatever becomes of the connection,
\* the process and the run.
StreamEnds == <>(client # "reading")

CursorCovers == \A r \in log : r.seq <= lastSeen => r.event \in received

\* The consumer's cursor stands for everything before it, through lost
\* connections, replays and failed appends, as long as the loop alone emits.
NothingSkipped == (\A r \in log : r.event[1] = "loop") => CursorCovers

\* What resuming with the last id promises: nothing again, and nothing left out.
ReplayIsExact == NoEventTwice /\ NothingSkipped

=============================================================================
