------------------------------- MODULE ChatPage -------------------------------
(* The chat page while a turn is streamed to it (routes/chat/[id]/+page.svelte *)
(* with streaming-blocks.ts, streaming-interpolation.ts and sse-consumer.ts):  *)
(* the run emits events, the page folds them into blocks, the line may break   *)
(* and be resumed, the user stops the turn, decides tool calls, answers a      *)
(* question or edits the question, and whatever is on the page at the end of   *)
(* the turn has to survive in the draft, the partial row or the reload.  One   *)
(* run at a time; RunEvents has the transport, RunDecisions the decisions,     *)
(* Conversation the rows.                                                      *)
EXTENDS Integers, Sequences, SequencesExt, FiniteSets

CONSTANTS MaxTurns,    \* bound on turns
          MaxEvents,   \* bound on the events of a turn after which the model calls no more tools
          MaxResumes,  \* maxResumeAttempts
          MaxFaults,   \* bound on broken lines, failed requests and failing runs
          MaxEdits     \* bound on edits of the question

ASSUME ChatPageAssumption == {MaxTurns, MaxEvents, MaxResumes, MaxFaults, MaxEdits} \subseteq Nat

VARIABLES
  run,    \* the run of the current turn: where it is, its event log, the tool call in hand and its decision
  page,   \* the page's state
  posts,  \* approvals and answers sent whose responses the page has not seen
  db,     \* rows of the conversation: questions in order, replies by turn
  hist,   \* history: a response came late, a handshake failed after the question was stored, turn of the last edit,
          \* turn whose partial text could not be saved
  spent   \* faults and edits used

vars == <<run, page, posts, db, hist, spent>>

None    == 0
NoAsk   == <<0, 0>>   \* a question is known by its turn and tool call
NoLimit == -1
Kinds   == {"text", "thinking", "tool"}
Status  == {"none", "pending", "approved", "executing", "completed", "failed", "denied"}
Closed == {"completed", "failed", "denied"}
Events  == {"reasoning", "delta", "pending", "call", "result", "denied", "ask", "done", "error"}
RunPc   == {"idle", "model", "approval", "tool", "question", "closing", "over"}
Intents == {"none", "send", "regenerate", "post"}
PagePc  == {"idle", "opening", "open", "broken", "saving", "refreshing"}

Fresh ==
  [pc |-> "idle", question |-> 0, regenerate |-> FALSE, blocks |-> << >>, text |-> << >>, think |-> << >>,
   from |-> 0, seen |-> 0, resumes |-> 0, thrown |-> FALSE, limit |-> NoLimit, pending |-> FALSE,
   error |-> FALSE, retry |-> "none", stopped |-> FALSE, ask |-> NoAsk, edit |-> "none",
   drafts |-> {}, optimistic |-> {}, delivered |-> {}, shown |-> [questions |-> << >>, replies |-> {}]]

Init ==
  /\ run = [turn |-> 0, pc |-> "idle", log |-> << >>, tool |-> None, decision |-> "none"]
  /\ page = Fresh
  /\ posts = {}
  /\ db = [questions |-> << >>, replies |-> {}]
  /\ hist = [late |-> FALSE, refused |-> FALSE, cut |-> 0, unsaved |-> 0]
  /\ spent = [faults |-> 0, edits |-> 0]

Streaming == page.pc # "idle"
Fault == /\ spent.faults < MaxFaults
         /\ spent' = [spent EXCEPT !.faults = @ + 1]

(***************************************************************************)
(* Blocks.  A text or thinking block that is still growing holds what the  *)
(* typewriter has shown of its target; finalizing writes the target into   *)
(* the block if that block is the last one, and forgets the target.        *)
(***************************************************************************)
Block(kind, content, id, status) == [kind |-> kind, content |-> content, id |-> id, status |-> status]
LastIs(p, kind) == p.blocks # << >> /\ Last(p.blocks).kind = kind
WriteLast(p, content) == [p.blocks EXCEPT ![Len(p.blocks)].content = content]

FinalizeText(p) ==
  [p EXCEPT !.blocks = IF p.text # << >> /\ LastIs(p, "text") THEN WriteLast(p, p.text) ELSE @, !.text = << >>]
FinalizeThinking(p) ==
  [p EXCEPT !.blocks = IF p.think # << >> /\ LastIs(p, "thinking") THEN WriteLast(p, p.think) ELSE @,
            !.think = << >>]
FinalizeBoth(p) == FinalizeText(FinalizeThinking(p))

HasTool(p, id) == \E i \in DOMAIN p.blocks : p.blocks[i].kind = "tool" /\ p.blocks[i].id = id
SetStatus(p, id, status) ==
  [p EXCEPT !.blocks = [i \in DOMAIN p.blocks |->
     IF p.blocks[i].kind = "tool" /\ p.blocks[i].id = id THEN [p.blocks[i] EXCEPT !.status = status]
     ELSE p.blocks[i]]]
AddTool(p, id, status) == [p EXCEPT !.blocks = Append(@, Block("tool", << >>, id, status))]

\* One animation frame that catches up: the last block of its kind, wherever it is, shows its target.
LastOf(p, kind) ==
  LET at == {i \in DOMAIN p.blocks : p.blocks[i].kind = kind}
  IN  IF at = {} THEN 0 ELSE CHOOSE i \in at : \A j \in at : j <= i
CatchUp(p, kind, target) ==
  LET i == LastOf(p, kind)
  IN  IF i = 0 \/ Len(p.blocks[i].content) >= Len(target) THEN p
      ELSE [p EXCEPT !.blocks[i].content = target]

Texts(p) == FlattenSeq([i \in DOMAIN p.blocks |-> IF p.blocks[i].kind = "text" THEN p.blocks[i].content ELSE << >>])
ClosedTools(p) == {p.blocks[i].id : i \in {j \in DOMAIN p.blocks : p.blocks[j].kind = "tool"
                                                                 /\ p.blocks[j].status \in Closed}}

(***************************************************************************)
(* The events, in the order the page's loop handles them.                  *)
(***************************************************************************)
OnReasoning(p, e) ==
  IF LastIs(p, "thinking") THEN [p EXCEPT !.think = Append(@, e.id)]
  ELSE [p EXCEPT !.blocks = Append(@, Block("thinking", << >>, None, "none")), !.think = <<e.id>>]

OnDelta(p, e) ==
  LET q == FinalizeThinking(p)
  IN  [q EXCEPT !.blocks = IF LastIs(q, "text") THEN @ ELSE Append(@, Block("text", << >>, None, "none")),
                !.text = Append(@, e.id)]

\* Mutant: the approval card is appended below text that is still being written.
OnPendingUnfinalized(p, e) == AddTool(p, e.id, "pending")
OnPending(p, e) == AddTool(FinalizeBoth(p), e.id, "pending")

\* Mutant: the question card is shown, but only the modal could answer it.
OnAskCardOnly(p, e) == AddTool(FinalizeBoth(p), e.id, "executing")
OnAsk(p, e) == [AddTool(FinalizeBoth(p), e.id, "executing") EXCEPT !.ask = <<run.turn, e.id>>]

OnCall(p, e) ==
  IF HasTool(p, e.id) THEN SetStatus(p, e.id, "executing")
  ELSE AddTool(FinalizeBoth(p), e.id, "executing")

\* A result without a block gets one; the growing text is not finalized.
OnResult(p, e) ==
  LET q == IF e.asked THEN [p EXCEPT !.ask = NoAsk] ELSE p
  IN  IF HasTool(q, e.id) THEN SetStatus(q, e.id, IF e.ok THEN "completed" ELSE "failed")
      ELSE AddTool(q, e.id, IF e.ok THEN "completed" ELSE "failed")

\* done with a message id: the draft stands in for the row until a reload has it.
AskedInTurn(p) == \E i \in DOMAIN p.blocks : p.blocks[i].kind = "tool" /\ p.blocks[i].status \in Closed
                                          /\ \E k \in DOMAIN run.log : /\ run.log[k].id = p.blocks[i].id
                                                                       /\ run.log[k].asked
OnDone(p, e) ==
  LET q == FinalizeBoth(p)
      worth == ~AskedInTurn(q) /\ (Texts(q) # << >> \/ ClosedTools(q) # {})
      draft == [turn |-> run.turn, text |-> Texts(q), tools |-> ClosedTools(q)]
  IN  [q EXCEPT !.pc = "saving", !.pending = TRUE, !.error = FALSE, !.retry = "none",
                !.drafts = IF worth THEN {d \in @ : d.turn # run.turn} \cup {draft} ELSE @,
                !.delivered = IF worth THEN @ \cup {run.turn} ELSE @]

\* A failed turn is offered for retry without sending the question again once the stream had been opened.
Failed(p) == [p EXCEPT !.error = TRUE, !.retry = "regenerate"]
OnError(p, e) == [Failed(p) EXCEPT !.pc = "saving"]

Apply(p, e) ==
  CASE e.type = "reasoning" -> OnReasoning(p, e)
    [] e.type = "delta"     -> OnDelta(p, e)
    [] e.type = "pending"   -> OnPending(p, e)
    [] e.type = "ask"       -> OnAsk(p, e)
    [] e.type = "call"      -> OnCall(p, e)
    [] e.type = "result"    -> OnResult(p, e)
    [] e.type = "denied"    -> SetStatus(p, e.id, "denied")
    [] e.type = "done"      -> OnDone(p, e)
    [] e.type = "error"     -> OnError(p, e)

(***************************************************************************)
(* The run: what the loop and its tool handlers emit.                      *)
(***************************************************************************)
Event(type, id, ok, asked) == [type |-> type, id |-> id, ok |-> ok, asked |-> asked]
Emit(type, id, ok, asked, pc, tool) ==
  run' = [run EXCEPT !.log = Append(@, Event(type, id, ok, asked)), !.pc = pc, !.tool = tool, !.decision = "none"]
Next_Id == Len(run.log) + 1
Deltas(log) == FlattenSeq([i \in DOMAIN log |-> IF log[i].type = "delta" THEN <<log[i].id>> ELSE << >>])
Calls(log)  == {log[i].id : i \in {j \in DOMAIN log : log[j].type \in {"result", "denied"}}}
More == run.pc = "model" /\ Len(run.log) < MaxEvents

ModelThinks == /\ More /\ Emit("reasoning", Next_Id, TRUE, FALSE, "model", None)
               /\ UNCHANGED <<page, posts, db, hist, spent>>
ModelWrites == /\ More /\ Emit("delta", Next_Id, TRUE, FALSE, "model", None)
               /\ UNCHANGED <<page, posts, db, hist, spent>>

\* A tool call: run at once, or after an approval, or a question, or a question the handler refuses outright.
CallTool ==
  /\ More
  /\ \/ Emit("call", Next_Id, TRUE, FALSE, "tool", Next_Id)
     \/ Emit("pending", Next_Id, TRUE, FALSE, "approval", Next_Id)
     \/ Emit("ask", Next_Id, TRUE, TRUE, "question", Next_Id)
     \/ Emit("result", Next_Id, FALSE, TRUE, "model", None)
  /\ UNCHANGED <<page, posts, db, hist, spent>>

ToolEnds ==
  /\ run.pc = "tool"
  /\ \E ok \in BOOLEAN : Emit("result", run.tool, ok, FALSE, "model", None)
  /\ UNCHANGED <<page, posts, db, hist, spent>>

\* The decision is polled; without one the wait times out as a denial.
ApprovalEnds ==
  /\ run.pc = "approval"
  /\ IF run.decision = "approve" THEN Emit("call", run.tool, TRUE, FALSE, "tool", run.tool)
     ELSE Emit("denied", run.tool, FALSE, FALSE, "model", None)
  /\ UNCHANGED <<page, posts, db, hist, spent>>

QuestionEnds ==
  /\ run.pc = "question"
  /\ Emit("result", run.tool, run.decision = "answer", TRUE, "model", None)
  /\ UNCHANGED <<page, posts, db, hist, spent>>

\* The reply is committed, merged into the turn's partial row if there is one, before done is emitted.
Reply(turn, text, tools, partial) == [turn |-> turn, text |-> text, tools |-> tools, partial |-> partial]
Commit ==
  /\ run.pc = "model"
  /\ db' = [db EXCEPT !.replies = {r \in @ : ~(r.turn = run.turn /\ r.partial)}
                                  \cup {Reply(run.turn, Deltas(run.log), Calls(run.log), FALSE)}]
  /\ run' = [run EXCEPT !.pc = "closing"]
  /\ UNCHANGED <<page, posts, hist, spent>>

EmitDone ==
  /\ run.pc = "closing" /\ Emit("done", None, TRUE, FALSE, "over", None)
  /\ UNCHANGED <<page, posts, db, hist, spent>>

\* Mutant: the catch block closes the run without telling the client.
FailSilently ==
  /\ run.pc \in {"model", "tool", "approval", "question"} /\ Fault
  /\ run' = [run EXCEPT !.pc = "over"]
  /\ UNCHANGED <<page, posts, db, hist>>

RunFails ==
  /\ run.pc \in {"model", "tool", "approval", "question"} /\ Fault
  /\ Emit("error", None, FALSE, FALSE, "over", None)
  /\ UNCHANGED <<page, posts, db, hist>>

(***************************************************************************)
(* The page: a turn from the composer to the end of its finally block.     *)
(***************************************************************************)
Begin(p, question, regenerate) ==
  [p EXCEPT !.pc = "opening", !.question = question, !.regenerate = regenerate,
            !.blocks = << >>, !.text = << >>, !.think = << >>, !.from = 0, !.seen = 0,
            !.resumes = 0, !.limit = NoLimit, !.thrown = FALSE, !.pending = FALSE,
            !.error = FALSE, !.retry = "none", !.stopped = FALSE,
            !.optimistic = IF regenerate THEN @ ELSE @ \cup {question}]
MayStart == page.pc = "idle" /\ page.edit = "none" /\ run.pc \in {"idle", "over"} /\ run.turn < MaxTurns

Send ==
  /\ MayStart /\ page.ask = NoAsk
  /\ page' = Begin(page, page.question + 1, FALSE)
  /\ UNCHANGED <<run, posts, db, hist, spent>>

Retry ==
  /\ MayStart /\ page.retry \in {"send", "regenerate"}
  /\ page' = Begin(page, page.question, page.retry = "regenerate")
  /\ UNCHANGED <<run, posts, db, hist, spent>>

\* The endpoint stores the question first; the budget guard, or any step before the stream, may still refuse.
Store == IF page.regenerate THEN db ELSE [db EXCEPT !.questions = Append(@, page.question)]
Open ==
  /\ page.pc = "opening"
  /\ db' = Store
  /\ run' = [turn |-> run.turn + 1, pc |-> "model", log |-> << >>, tool |-> None, decision |-> "none"]
  /\ page' = [page EXCEPT !.pc = "open"]
  /\ UNCHANGED <<posts, hist, spent>>

OpenRefused ==
  /\ page.pc = "opening" /\ Fault
  /\ \E stored \in BOOLEAN : /\ db' = IF stored THEN Store ELSE db
                             /\ hist' = [hist EXCEPT !.refused = @ \/ (stored /\ ~page.regenerate)]
  /\ page' = [page EXCEPT !.pc = "saving", !.error = TRUE,
                          !.retry = IF page.regenerate THEN "regenerate" ELSE "send"]
  /\ UNCHANGED <<run, posts>>

Read ==
  /\ page.pc = "open" /\ page.seen < Len(run.log) /\ page.seen # page.limit
  /\ page' = [Apply(page, run.log[page.seen + 1]) EXCEPT !.seen = page.seen + 1]
  /\ UNCHANGED <<run, posts, db, hist, spent>>

\* The resume endpoint found the run finished: after the replay it sends a done of its own, without a message.
ReadTerminal ==
  /\ page.pc = "open" /\ page.seen = page.limit
  /\ page' = [page EXCEPT !.pc = "saving"]
  /\ UNCHANGED <<run, posts, db, hist, spent>>

Animate ==
  /\ page.pc \in {"open", "broken"}
  /\ page' = CatchUp(CatchUp(page, "text", page.text), "thinking", page.think)
  /\ page' # page
  /\ UNCHANGED <<run, posts, db, hist, spent>>

\* The reader throws, or ends without a done.
LineBreaks ==
  /\ page.pc = "open" /\ Fault
  /\ \E thrown \in BOOLEAN : page' = [page EXCEPT !.pc = "broken", !.thrown = thrown]
  /\ UNCHANGED <<run, posts, db, hist>>

Resume ==
  /\ page.pc = "broken" /\ page.resumes < MaxResumes
  /\ page' = [page EXCEPT !.pc = "open", !.resumes = @ + 1, !.limit = IF run.pc = "closing" THEN Len(run.log) ELSE NoLimit]
  /\ UNCHANGED <<run, posts, db, hist, spent>>

\* No attempt left, or the resume is refused: an error if the reader threw, silence if it ended.
GiveUp ==
  /\ page.pc = "broken"
  /\ \/ page.resumes >= MaxResumes /\ UNCHANGED spent
     \/ page.resumes < MaxResumes /\ Fault
  /\ page' = [IF page.thrown THEN Failed(page) ELSE page EXCEPT !.pc = "saving"]
  /\ UNCHANGED <<run, posts, db, hist>>

Stop ==
  /\ page.pc \in {"open", "broken"}
  /\ page' = [FinalizeBoth(page) EXCEPT !.pc = "saving", !.stopped = TRUE]
  /\ UNCHANGED <<run, posts, db, hist, spent>>

\* Mutant: what the typewriter has not shown yet is not saved.
SaveWhatIsShown ==
  /\ page.pc = "saving"
  /\ db' = IF page.pending \/ Texts(page) = << >> THEN db
           ELSE [db EXCEPT !.replies = @ \cup {Reply(run.turn, Texts(page), ClosedTools(page), TRUE)}]
  /\ page' = [page EXCEPT !.pc = "refreshing"]
  /\ UNCHANGED <<run, posts, hist, spent>>

\* persistPartialIfIncomplete: text, or the thinking if there is none.  A request that fails is only logged.
Thinks(p) == \E i \in DOMAIN p.blocks : p.blocks[i].kind = "thinking" /\ p.blocks[i].content # << >>
ToSave(p) == ~page.pending /\ (Texts(p) # << >> \/ Thinks(p))
SavePartial ==
  /\ page.pc = "saving"
  /\ LET p == FinalizeBoth(page)
     IN  /\ page' = [IF page.pending THEN page ELSE p EXCEPT !.pc = "refreshing"]
         /\ \/ /\ db' = IF ToSave(p)
                         THEN [db EXCEPT !.replies = @ \cup {Reply(run.turn, Texts(p), ClosedTools(p), TRUE)}] ELSE db
               /\ UNCHANGED <<hist, spent>>
            \/ /\ ToSave(p) /\ Fault
               /\ hist' = [hist EXCEPT !.unsaved = run.turn]
               /\ UNCHANGED db
  /\ UNCHANGED <<run, posts>>

\* loadConversationState: drafts the reload confirms go; the question is only reconciled outside a turn.
Turns(rows) == {r.turn : r \in rows}
Reload(p) ==
  [p EXCEPT !.shown = db,
            !.drafts = {d \in @ : d.turn \notin Turns(db.replies)},
            !.optimistic = @ \ Range(db.questions),
            !.ask = IF Streaming THEN @ ELSE IF run.pc = "question" /\ run.decision = "none" THEN <<run.turn, run.tool>> ELSE NoAsk]
Clear(p) == [p EXCEPT !.pc = "idle", !.blocks = << >>, !.text = << >>, !.think = << >>, !.stopped = FALSE]

Refresh ==
  /\ page.pc = "refreshing"
  /\ \/ page' = Clear([Reload(page) EXCEPT !.pending = FALSE]) /\ UNCHANGED spent
     \/ page' = Clear(page) /\ Fault
  /\ UNCHANGED <<run, posts, db, hist>>

(***************************************************************************)
(* Decisions and answers, and the responses to them.                       *)
(***************************************************************************)
Post(kind, turn, id) == [kind |-> kind, turn |-> turn, id |-> id]
Decide(kind) ==
  \E i \in DOMAIN page.blocks :
    /\ page.pc \in {"open", "broken"}
    /\ page.blocks[i].kind = "tool" /\ page.blocks[i].status = "pending"
    /\ Post(kind, run.turn, page.blocks[i].id) \notin posts
    /\ posts' = posts \cup {Post(kind, run.turn, page.blocks[i].id)}
    /\ run' = IF run.pc = "approval" /\ run.tool = page.blocks[i].id /\ run.decision = "none"
              THEN [run EXCEPT !.decision = kind] ELSE run
    /\ UNCHANGED <<page, db, hist, spent>>

Answer ==
  /\ page.ask # NoAsk /\ page.pc \in {"open", "broken", "idle"}
  /\ Post("answer", page.ask[1], page.ask[2]) \notin posts
  /\ posts' = posts \cup {Post("answer", page.ask[1], page.ask[2])}
  /\ run' = IF run.pc = "question" /\ page.ask = <<run.turn, run.tool>> /\ run.decision = "none"
            THEN [run EXCEPT !.decision = "answer"] ELSE run
  /\ UNCHANGED <<page, db, hist, spent>>

\* The page does not look at what has happened since the request: status and question are overwritten.
StatusAfter(kind) == IF kind = "approve" THEN "approved" ELSE "denied"
Overtaken(post) ==
  IF post.kind = "answer" THEN page.ask # <<post.turn, post.id>>
  ELSE \/ post.turn # run.turn
       \/ \E i \in 1..page.seen : run.log[i].id = post.id /\ run.log[i].type \in {"call", "result", "denied"}
PostReturns ==
  \E post \in posts :
    /\ posts' = posts \ {post}
    /\ page' = [IF post.kind = "answer" THEN [page EXCEPT !.ask = NoAsk]
                ELSE IF post.turn = run.turn THEN SetStatus(page, post.id, StatusAfter(post.kind)) ELSE page
                EXCEPT !.error = FALSE, !.retry = "none"]
    /\ hist' = [hist EXCEPT !.late = @ \/ Overtaken(post)]
    /\ UNCHANGED <<run, db, spent>>

\* A request that fails leaves the card as it was, to be clicked again.
PostFails ==
  /\ Fault
  /\ \E post \in posts : posts' = posts \ {post}
  /\ page' = [page EXCEPT !.error = TRUE, !.retry = "post"]
  /\ UNCHANGED <<run, db, hist>>

(***************************************************************************)
(* Editing the question, which the page allows at any time: the server     *)
(* drops what came after it, as a rule with the question's own row (see    *)
(* Conversation), the page forgets what it holds, reloads and asks again,  *)
(* unless a turn is still being streamed.                                  *)
(***************************************************************************)
Edit ==
  /\ page.edit = "none" /\ page.shown.questions # << >> /\ spent.edits < MaxEdits
  /\ spent' = [spent EXCEPT !.edits = @ + 1]
  /\ \E kept \in {0, 1} : db' = [questions |-> SubSeq(page.shown.questions, 1, kept), replies |-> {}]
  /\ page' = [page EXCEPT !.edit = "reset"]
  /\ UNCHANGED <<run, posts, hist>>

EditResets ==
  /\ page.edit = "reset"
  /\ page' = [page EXCEPT !.edit = "reload", !.error = FALSE, !.retry = "none", !.drafts = {}, !.optimistic = {},
                          !.pending = FALSE, !.blocks = << >>, !.text = << >>, !.think = << >>,
                          !.from = page.seen, !.delivered = {}]
  /\ hist' = [hist EXCEPT !.cut = run.turn]
  /\ UNCHANGED <<run, posts, db, spent>>

EditAsksAgain ==
  /\ page.edit = "reload"
  /\ Streaming \/ (run.pc \in {"idle", "over"} /\ run.turn < MaxTurns)
  /\ LET p == [Reload(page) EXCEPT !.edit = "none"]
     IN  page' = IF Streaming THEN p ELSE Begin(p, page.question, TRUE)
  /\ UNCHANGED <<run, posts, db, hist, spent>>

RunStep ==
  \/ ModelThinks \/ ModelWrites \/ CallTool \/ ToolEnds \/ ApprovalEnds \/ QuestionEnds \/ Commit \/ EmitDone \/ RunFails
PageStep ==
  \/ Open \/ Read \/ ReadTerminal \/ Resume \/ GiveUp \/ SavePartial \/ Refresh \/ EditResets \/ EditAsksAgain
Next ==
  \/ RunStep \/ PageStep \/ PostReturns \/ PostFails
  \/ Send \/ Retry \/ OpenRefused \/ Animate \/ LineBreaks \/ Stop
  \/ Decide("approve") \/ Decide("deny") \/ Answer \/ Edit

Fairness == WF_vars(RunStep) /\ WF_vars(PageStep)
Spec == Init /\ [][Next]_vars /\ Fairness

(***************************************************************************)
(* Properties                                                              *)
(***************************************************************************)
TypeOK ==
  /\ run.pc \in RunPc /\ run.turn \in 0..MaxTurns /\ run.decision \in {"none", "approve", "deny", "answer"}
  /\ \A i \in DOMAIN run.log : run.log[i].type \in Events /\ run.log[i].id \in 0..Len(run.log)
  /\ page.pc \in PagePc /\ page.retry \in Intents /\ page.edit \in {"none", "reset", "reload"}
  /\ page.seen \in 0..Len(run.log) /\ page.from \in 0..Len(run.log) /\ page.resumes \in 0..MaxResumes
  /\ \A i \in DOMAIN page.blocks : page.blocks[i].kind \in Kinds /\ page.blocks[i].status \in Status
  /\ \A i, j \in DOMAIN page.blocks : i # j /\ page.blocks[i].kind = "tool" => page.blocks[i].id # page.blocks[j].id
  /\ spent.faults \in 0..MaxFaults /\ spent.edits \in 0..MaxEdits

\* Text that is followed by reasoning, or by the result of a call that was never announced, before it is finalized.
Interleaved(log) ==
  \E i \in 1..Len(log)-1 : log[i].type = "delta" /\ log[i+1].type \in {"reasoning", "result"}
Arrived == SubSeq(run.log, page.from + 1, page.seen)
Target(p) == IF p.text = << >> THEN p.blocks ELSE [p.blocks EXCEPT ![LastOf(p, "text")].content = p.text]

\* Whatever mix of approvals, questions, tool calls, stops, broken lines and typewriter frames: the text blocks,
\* the last one read as the text it is growing to, are the text events that arrived, each once and in order; a
\* call has one card (TypeOK).
ShownIsWhatArrived ==
  TypeOK /\ (page.pc \in {"open", "broken", "saving"} /\ ~Interleaved(Arrived)
    => Texts([page EXCEPT !.blocks = Target(page)]) = Deltas(Arrived))

\* The draft shown in place of the row has the row's text, and its tool calls unless a response came late.
DraftMatchesReply ==
  \A d \in page.drafts, r \in db.replies :
    d.turn = run.turn /\ r.turn = run.turn /\ ~r.partial /\ hist.cut < run.turn =>
      /\ Interleaved(run.log) \/ d.text = r.text
      /\ hist.late \/ d.tools = r.tools

\* The page shows the reply that the server made, while it is streamed and when it is done.
PageShowsTheReply == ShownIsWhatArrived /\ DraftMatchesReply

\* A reply that was on the page when its turn ended stays there, as draft or as row, whether or not the reload
\* works, until the user edits the question.
ReplyStaysVisible ==
  page.pc = "idle" /\ page.edit = "none" =>
    page.delivered \subseteq Turns(page.shown.replies) \cup Turns(page.drafts)

\* A turn that ends without its reply, stopped, failed or cut off, leaves the text that arrived in the database,
\* unless the request that saves it failed too.
PartialIsSaved ==
  page.pc = "refreshing" /\ page.edit = "none" /\ run.turn \notin {hist.cut, hist.unsaved}
    /\ ~Interleaved(Arrived) /\ Deltas(Arrived) # << >>
    => \E r \in db.replies : r.turn = run.turn /\ IsPrefix(Deltas(Arrived), r.text)

\* Retrying a failed turn does not put the question into the conversation again, unless the server had refused
\* the first request after storing it.
QuestionStoredOnce ==
  ~hist.refused => \A i, j \in DOMAIN db.questions : db.questions[i] = db.questions[j] => i = j

\* Nothing that was said is lost, and nothing is stored twice, whatever the page's turn runs into.
TalkIsKept == ReplyStaysVisible /\ PartialIsSaved /\ QuestionStoredOnce

\* A question the run is waiting on and the page has read can be answered from the page.
QuestionAnswerable ==
  page.pc = "open" /\ run.pc = "question" /\ run.decision = "none" /\ page.seen = Len(run.log) /\ ~hist.late
    => page.ask = <<run.turn, run.tool>>

\* The composer always comes back: every turn ends on the page, whatever breaks.
TurnEnds == Streaming ~> ~Streaming

=============================================================================
