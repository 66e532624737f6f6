------------------------------- MODULE Memory -------------------------------
(***************************************************************************)
(* The memory palace of one user: wings hold rooms, rooms closets, closets *)
(* drawers, and a drawer holds one message.  A job per conversation mines  *)
(* it (memory-handler, memory.server, mining, palace); a command merges    *)
(* wings and closets that mean the same (reorganize.server); the user      *)
(* deletes drawers.  Miners and the command share no lock, only the foreign *)
(* keys: an insert below a deleted row fails, and deleting a row deletes    *)
(* what is below it (memory.schema.ts, onDelete: cascade).  The process may *)
(* die with all of them under way.                                          *)
(***************************************************************************)
EXTENDS Naturals, Sequences, FiniteSets, FiniteSetsExt

CONSTANTS
    Convs,               \* conversations
    Names,               \* names of wings
    Topics,              \* topics of closets
    MaxMessages,         \* bound: messages of a conversation
    MaxAttempts,         \* jobs.max_attempts
    MaxReorganizations,  \* bound: calls of applyReorganization
    MaxDeletes,          \* bound: drawers the user deletes
    MaxFailures,         \* bound: calls that throw
    MaxCrashes           \* bound: deaths of the process

ASSUME MemoryAssumption == MaxMessages \in Nat /\ MaxAttempts \in Nat \ {0}

VARIABLES
    messages,   \* the number of messages of each conversation
    job,        \* status of the row with dedupe key mine:<conversation>
    attempts,   \* its attempt count
    asked,      \* the messages there were when the row was made
    wings,      \* ids: <<name, generation>>
    born,       \* how many wings of a name there have been
    rooms,      \* [id: <<first wing, conversation>>, wing]
    closets,    \* ids: <<room, topic>>
    drawers,    \* [id: <<conversation, message, attempt>>, closet]
    pc,         \* where the miner of each conversation is
    turns,      \* the messages it has still to store
    wing,       \* the wing it found, or is about to insert
    room,       \* the room it works in
    cache,      \* the topics whose closets it knows (closetCache)
    topic,      \* the topic of the next message
    merge,      \* the reorganization: where it is, the merge in hand, the merges to come
    forgotten,  \* history: messages whose drawer the user deleted
    swept,      \* history: messages whose drawer a merge deleted
    spent       \* the bounded events so far

palace == <<wings, born, rooms, closets, drawers>>
miner  == <<pc, turns, wing, room, cache, topic>>
jobVars == <<job, attempts, asked>>
history == <<forgotten, swept, spent>>
vars == <<messages, jobVars, palace, miner, merge, history>>

NoRow == <<>>
NoMerge == [at |-> "idle", from |-> NoRow, to |-> NoRow, moved |-> {}, before |-> {},
            wings |-> << >>, closets |-> {}]

MessageOf(d) == <<d.id[1], d.id[2]>>
Mined(c, k)  == \E d \in drawers : MessageOf(d) = <<c, k>>
Ids(S) == {x.id : x \in S}

Init ==
    /\ messages = [c \in Convs |-> 0]
    /\ job = [c \in Convs |-> "none"]
    /\ attempts = [c \in Convs |-> 0] /\ asked = [c \in Convs |-> 0]
    /\ wings = {} /\ born = [n \in Names |-> 0]
    /\ rooms = {} /\ closets = {} /\ drawers = {}
    /\ pc = [c \in Convs |-> "idle"] /\ turns = [c \in Convs |-> {}]
    /\ wing = [c \in Convs |-> NoRow] /\ room = [c \in Convs |-> NoRow]
    /\ cache = [c \in Convs |-> {}] /\ topic = [c \in Convs |-> NoRow]
    /\ merge = NoMerge /\ forgotten = {} /\ swept = {}
    /\ spent = [reorganizations |-> 0, deletes |-> 0, failures |-> 0, crashes |-> 0]

-----------------------------------------------------------------------------
(* The conversation and its job. *)

Say(c) ==
    /\ messages[c] < MaxMessages
    /\ messages' = [messages EXCEPT ![c] = @ + 1]
    /\ UNCHANGED <<jobVars, palace, miner, merge, history>>

\* At the end of a turn, and by mineAllPending.  A row of any status answers a later
\* enqueue with itself, so that one changes nothing.
Enqueue(c) ==
    /\ messages[c] > 0 /\ job[c] = "none"
    /\ job' = [job EXCEPT ![c] = "queued"] /\ asked' = [asked EXCEPT ![c] = messages[c]]
    /\ UNCHANGED <<messages, attempts, palace, miner, merge, history>>

Claim(c) ==
    /\ job[c] = "queued"
    /\ job' = [job EXCEPT ![c] = "running"]
    /\ attempts' = [attempts EXCEPT ![c] = @ + 1]
    /\ pc' = [pc EXCEPT ![c] = "read"]
    /\ UNCHANGED <<messages, asked, palace, turns, wing, room, cache, topic, merge, history>>

Goto(c, place) == pc' = [pc EXCEPT ![c] = place]

\* What the attempt knows is gone with it.
Ends(c, status) ==
    /\ Goto(c, "idle") /\ job' = [job EXCEPT ![c] = status]
    /\ turns' = [turns EXCEPT ![c] = {}] /\ cache' = [cache EXCEPT ![c] = {}]
    /\ wing' = [wing EXCEPT ![c] = NoRow] /\ room' = [room EXCEPT ![c] = NoRow]
    /\ topic' = [topic EXCEPT ![c] = NoRow]
    /\ UNCHANGED <<messages, attempts, asked, palace, merge, forgotten, swept>>

\* Variant: the error is logged and forgotten.
ThrowsQuietly(c) == Ends(c, "done")

Throws(c) == Ends(c, IF attempts[c] < MaxAttempts THEN "queued" ELSE "failed")

Fail(c) ==
    /\ pc[c] # "idle" /\ spent.failures < MaxFailures
    /\ spent' = [spent EXCEPT !.failures = @ + 1]
    /\ Throws(c)

Finish(c) == pc[c] = "finish" /\ Ends(c, "done") /\ UNCHANGED spent

-----------------------------------------------------------------------------
(* mineConversation and mineSession. *)

\* Variant: every message of the conversation.
ReadAll(c) ==
    /\ pc[c] = "read" /\ turns' = [turns EXCEPT ![c] = 1 .. messages[c]]
    /\ Goto(c, "wing")
    /\ UNCHANGED <<messages, jobVars, palace, wing, room, cache, topic, merge, history>>

\* (No one else stores messages of c between the SELECT of messages and that of drawers.)
ReadMessages(c) ==
    /\ pc[c] = "read"
    /\ turns' = [turns EXCEPT ![c] = {k \in 1 .. messages[c] : ~Mined(c, k)}]
    /\ Goto(c, IF turns'[c] = {} THEN "finish" ELSE "wing")
    /\ UNCHANGED <<messages, jobVars, palace, wing, room, cache, topic, merge, history>>

\* The model names the wing; the lookup is by slug, by alias and by name.
FindWing(c) ==
    /\ pc[c] = "wing"
    /\ \/ \E w \in wings : wing' = [wing EXCEPT ![c] = w] /\ Goto(c, "room")
       \/ \E n \in Names :
            /\ \A w \in wings : w[1] # n
            /\ wing' = [wing EXCEPT ![c] = <<n, born[n] + 1>>] /\ Goto(c, "newWing")
    /\ UNCHANGED <<messages, jobVars, palace, turns, room, cache, topic, merge, history>>

\* memory_wings_user_slug_unique
InsertWing(c) ==
    /\ pc[c] = "newWing" /\ \A w \in wings : w[1] # wing[c][1]
    /\ born' = [born EXCEPT ![wing[c][1]] = @ + 1]
    /\ wing' = [wing EXCEPT ![c] = <<@[1], born'[@[1]]>>]
    /\ wings' = wings \cup {wing'[c]}
    /\ Goto(c, "room")
    /\ UNCHANGED <<messages, jobVars, rooms, closets, drawers, turns, room, cache, topic, merge, history>>

WingIsTaken(c) ==
    /\ pc[c] = "newWing" /\ \E w \in wings : w[1] = wing[c][1]
    /\ Throws(c) /\ UNCHANGED spent

\* (Only c's miner makes rooms for c and closets in them, so that between their SELECT and
\* INSERT nothing happens that would not, for the INSERT, have happened before both.)
GetRoom(c) ==
    /\ pc[c] = "room"
    /\ \/ \E r \in rooms :
            /\ r.wing = wing[c] /\ r.id[2] = c
            /\ room' = [room EXCEPT ![c] = r.id] /\ UNCHANGED rooms
       \/ /\ wing[c] \in wings /\ \A r \in rooms : ~(r.wing = wing[c] /\ r.id[2] = c)
          /\ rooms' = rooms \cup {[id |-> <<wing[c], c>>, wing |-> wing[c]]}
          /\ room' = [room EXCEPT ![c] = <<wing[c], c>>]
    /\ Goto(c, "closet")
    /\ UNCHANGED <<messages, jobVars, wings, born, closets, drawers, turns, wing, cache, topic, merge, history>>

WingIsGone(c) ==
    /\ pc[c] = "room" /\ wing[c] \notin wings /\ \A r \in rooms : r.wing # wing[c]
    /\ Throws(c) /\ UNCHANGED spent

Closet(c, t) == <<room[c], t>>

GetCloset(c) ==
    /\ pc[c] = "closet"
    /\ \E t \in Topics :
         /\ t \in cache[c] \/ room[c] \in Ids(rooms)
         /\ closets' = IF t \in cache[c] THEN closets ELSE closets \cup {Closet(c, t)}
         /\ cache' = [cache EXCEPT ![c] = @ \cup {t}]
         /\ topic' = [topic EXCEPT ![c] = t]
    /\ Goto(c, "drawer")
    /\ UNCHANGED <<messages, jobVars, wings, born, rooms, drawers, turns, wing, room, merge, history>>

RoomIsGone(c) ==
    /\ pc[c] = "closet" /\ room[c] \notin Ids(rooms)
    /\ Throws(c) /\ UNCHANGED spent

InsertDrawer(c) ==
    /\ pc[c] = "drawer" /\ Closet(c, topic[c]) \in closets
    /\ LET k == Min(turns[c]) IN
         /\ drawers' = drawers \cup {[id |-> <<c, k, attempts[c]>>, closet |-> Closet(c, topic[c])]}
         /\ turns' = [turns EXCEPT ![c] = @ \ {k}]
    /\ topic' = [topic EXCEPT ![c] = NoRow]
    /\ Goto(c, IF turns'[c] = {} THEN "finish" ELSE "closet")
    /\ UNCHANGED <<messages, jobVars, wings, born, rooms, closets, wing, room, cache, merge, history>>

ClosetIsGone(c) ==
    /\ pc[c] = "drawer" /\ Closet(c, topic[c]) \notin closets
    /\ Throws(c) /\ UNCHANGED spent

-----------------------------------------------------------------------------
(* applyReorganization.  A transaction's UPDATE moves the rows it sees; its  *)
(* DELETE takes with it whatever has been put below the row since.           *)

At(place) == merge.at = place
DrawersIn(cl) == {d \in drawers : d.closet = cl}

Reorganize ==
    /\ At("idle") /\ spent.reorganizations < MaxReorganizations
    /\ spent' = [spent EXCEPT !.reorganizations = @ + 1]
    /\ merge' = [merge EXCEPT !.at = "wings"]
    /\ UNCHANGED <<messages, jobVars, palace, miner, forgotten, swept>>

\* A wing that has lost is named by no later merge, but a winner may lose or win again.
\* Names and aliases say which wings mean the same; which of two wins is up to their
\* drawers, their rooms and the length of their names: here any of them may.
Merges(S) == {p \in [from : S, to : S] : p.from # p.to}
WingPlans ==
    {plan \in UNION {[1 .. n -> Merges(wings)] : n \in 0 .. Cardinality(wings)} :
       \A i, j \in DOMAIN plan : i < j => plan[i].from \notin {plan[j].from, plan[j].to}}

FindWingMerges ==
    /\ At("wings")
    /\ \E plan \in WingPlans : merge' = [merge EXCEPT !.at = "wing", !.wings = plan]
    /\ UNCHANGED <<messages, jobVars, palace, miner, history>>

NextWing ==
    /\ At("wing")
    /\ merge' = IF merge.wings = << >> THEN [merge EXCEPT !.at = "closets"]
                ELSE [merge EXCEPT !.at = "moveRooms", !.wings = Tail(@),
                                   !.from = Head(merge.wings).from, !.to = Head(merge.wings).to]
    /\ UNCHANGED <<messages, jobVars, palace, miner, history>>

\* Variant: leaves the rooms to the DELETE.
MoveNoRooms ==
    /\ At("moveRooms")
    /\ merge' = [merge EXCEPT !.at = "deleteWing", !.before = Ids(drawers)]
    /\ UNCHANGED <<messages, jobVars, palace, miner, history>>

MoveRooms ==
    /\ At("moveRooms")
    /\ merge' = [merge EXCEPT !.at = "deleteWing", !.before = Ids(drawers),
                              !.moved = Ids({r \in rooms : r.wing = merge.from})]
    /\ UNCHANGED <<messages, jobVars, palace, miner, history>>

\* The rows below the deleted ones go with them.
Keep(keptRooms, keptClosets, moved) ==
    LET cs == {cl \in keptClosets : cl[1] \in Ids(keptRooms)} IN
    /\ rooms' = keptRooms /\ closets' = cs
    /\ drawers' = {d \in moved : d.closet \in cs}
    /\ swept' = swept \cup {MessageOf(d) : d \in {e \in moved : e.closet \notin cs}}

DeleteLoser ==
    /\ At("deleteWing")
    /\ Keep({[r EXCEPT !.wing = IF r.id \in merge.moved THEN merge.to ELSE @] :
               r \in {s \in rooms : s.id \in merge.moved \/ s.wing # merge.from}}, closets, drawers)
    /\ wings' = wings \ {merge.from}
    /\ merge' = [NoMerge EXCEPT !.at = "wing", !.wings = merge.wings]
    /\ UNCHANGED <<messages, jobVars, born, miner, forgotten, spent>>

\* In a room, the fullest closet of each normalized topic wins.
Winners == {w \in [closets -> closets] :
              \A cl \in closets : /\ w[cl][1] = cl[1] /\ w[w[cl]] = w[cl]
                                  /\ Cardinality(DrawersIn(w[cl])) >= Cardinality(DrawersIn(cl))}

FindClosetMerges ==
    /\ At("closets")
    /\ \E w \in Winners :
         merge' = [merge EXCEPT !.at = "closet", !.closets = {m \in Merges(closets) : m.to = w[m.from]}]
    /\ UNCHANGED <<messages, jobVars, palace, miner, history>>

NextCloset ==
    /\ At("closet")
    /\ \/ merge.closets = {} /\ merge' = NoMerge
       \/ \E m \in merge.closets :
            merge' = [merge EXCEPT !.at = "moveDrawers", !.from = m.from, !.to = m.to, !.closets = @ \ {m}]
    /\ UNCHANGED <<messages, jobVars, palace, miner, history>>

MoveDrawers ==
    /\ At("moveDrawers")
    /\ merge' = [merge EXCEPT !.at = "deleteCloset", !.before = Ids(drawers),
                              !.moved = Ids(DrawersIn(merge.from))]
    /\ UNCHANGED <<messages, jobVars, palace, miner, history>>

DeleteCloset ==
    /\ At("deleteCloset")
    /\ Keep(rooms, closets \ {merge.from},
            {[d EXCEPT !.closet = IF d.id \in merge.moved THEN merge.to ELSE @] : d \in drawers})
    /\ merge' = [NoMerge EXCEPT !.at = "closet", !.closets = merge.closets]
    /\ UNCHANGED <<messages, jobVars, wings, born, miner, forgotten, spent>>

\* The transaction is rolled back and the next proposal tried; without proposals the command ends.
MergeFails ==
    /\ spent.failures < MaxFailures
    /\ spent' = [spent EXCEPT !.failures = @ + 1]
    /\ \/ /\ merge.at \in {"moveRooms", "deleteWing"}
          /\ merge' = [NoMerge EXCEPT !.at = "wing", !.wings = merge.wings]
       \/ /\ merge.at \in {"moveDrawers", "deleteCloset"}
          /\ merge' = [NoMerge EXCEPT !.at = "closet", !.closets = merge.closets]
       \/ merge.at \in {"wings", "closets"} /\ merge' = NoMerge
    /\ UNCHANGED <<messages, jobVars, palace, miner, forgotten, swept>>

DeleteDrawer(d) ==
    /\ spent.deletes < MaxDeletes
    /\ spent' = [spent EXCEPT !.deletes = @ + 1]
    /\ drawers' = drawers \ {d} /\ forgotten' = forgotten \cup {MessageOf(d)}
    /\ UNCHANGED <<messages, jobVars, wings, born, rooms, closets, miner, merge, swept>>

\* The process dies: a transaction is rolled back, and a job that had begun stays "running".
Crash ==
    /\ spent.crashes < MaxCrashes
    /\ spent' = [spent EXCEPT !.crashes = @ + 1]
    /\ pc' = [c \in Convs |-> "idle"] /\ turns' = [c \in Convs |-> {}] /\ cache' = [c \in Convs |-> {}]
    /\ wing' = [c \in Convs |-> NoRow] /\ room' = [c \in Convs |-> NoRow] /\ topic' = [c \in Convs |-> NoRow]
    /\ merge' = NoMerge
    /\ UNCHANGED <<messages, jobVars, palace, forgotten, swept>>

-----------------------------------------------------------------------------

MineStep(c) ==
    \/ Claim(c) \/ ReadMessages(c) \/ FindWing(c) \/ InsertWing(c) \/ WingIsTaken(c)
    \/ GetRoom(c) \/ WingIsGone(c) \/ GetCloset(c) \/ RoomIsGone(c)
    \/ InsertDrawer(c) \/ ClosetIsGone(c) \/ Finish(c)

MergeStep ==
    \/ FindWingMerges \/ NextWing \/ MoveRooms \/ DeleteLoser
    \/ FindClosetMerges \/ NextCloset \/ MoveDrawers \/ DeleteCloset

Next ==
    \/ \E c \in Convs : Say(c) \/ Enqueue(c) \/ MineStep(c) \/ Fail(c)
    \/ Reorganize \/ MergeStep \/ MergeFails
    \/ \E d \in drawers : DeleteDrawer(d)
    \/ Crash

\* The worker polls for ever, and a request of the browser is carried out.
Fairness == WF_vars(MergeStep) /\ \A c \in Convs : WF_vars(MineStep(c))

Spec == Init /\ [][Next]_vars /\ Fairness

-----------------------------------------------------------------------------

\* No message is stored twice, whatever attempt of its job failed where and whatever a
\* merge moved or swept between the attempts (memory.server.ts:42-53).
MinedOnce == \A d, e \in drawers : MessageOf(d) = MessageOf(e) => d = e

\* A merge takes no drawer with it that was in the palace when its transaction moved the
\* loser's rows, although closets and rooms come and go under it; outside of a
\* merge only the user deletes drawers (reorganize.server.ts:282-326).
DrawersOutliveMerges ==
    [][\A d \in drawers :
         \/ d.id \in Ids(drawers')
         \/ MessageOf(d) \in forgotten'
         \/ merge.at \in {"deleteWing", "deleteCloset"} /\ d.id \notin merge.before]_vars

\* Every message there was when the job was made comes to its drawer for good, however
\* often inserts fail under a wing, a room or a closet that was merged away, unless all
\* attempts are used up, the user deletes the drawer, a merge sweeps it, or the process died
\* with the job begun: the row then says "running" for good (JobQueue's AbandonedJobIsClaimable)
\* and answers every later enqueue, although memory-handler.server.ts:7-12 says that mining
\* survives a restart.
Stranded(c) == job[c] = "running" /\ pc[c] = "idle"
AskedIsMined ==
    \A c \in Convs :
        <>[](\/ job[c] \in {"none", "failed"} \/ Stranded(c)
             \/ \A k \in 1 .. asked[c] : Mined(c, k) \/ <<c, k>> \in forgotten \cup swept)
=============================================================================
