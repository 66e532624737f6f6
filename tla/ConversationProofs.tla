------------------------- MODULE ConversationProofs -------------------------
(***************************************************************************)
(* Proofs about the rows of a conversation, for every number of requests,  *)
(* regenerations, pages, switches and agents, and any number of edits and  *)
(* crashes.                                                                *)
(***************************************************************************)
EXTENDS Conversation, TLAPS, FiniteSetTheorems, WellFoundedInduction

-----------------------------------------------------------------------------
(* The invariant, in parts. *)

AllRows == messages \cup uncommitted
Early   == {"idle", "asking", "opened"}
Pending == {"pick", "insert"}

\* Where a writer is, the request, page or switch it works for is too.
WriterPlace ==
    \A w \in Writers :
        /\ writing[w] = "no" => tries[w] = 0
        /\ writing[w] = "pick" => tries[w] < MaxAttempts

RequestPlace ==
    \A r \in Requests :
        /\ writing[User(r)] \in Pending => pc[r] = "asking"
        /\ pc[r] = "idle" => writing[User(r)] = "no"
        /\ writing[Reply(r)] \in Pending => pc[r] = "insert"
        /\ pc[r] \in Early \cup {"loop", "merge"} => writing[Reply(r)] = "no"
        /\ pc[r] = "totals" => writing[Reply(r)] = "saved"
        /\ page[r] \in {"none", "streaming"} => writing[Partial(r)] = "no"
        /\ pc[r] \in Early => run[r] = "none" /\ page[r] = "none"

SwitchPlace ==
    \A s \in Switches :
        /\ switch[s] = "insert" <=> rowLock = s
        /\ writing[Anchor(s)] \in Pending => switch[s] = "insert"
        /\ switch[s] \in {"idle", "begin", "lock"} => writing[Anchor(s)] = "no"

PlaceInv == WriterPlace /\ RequestPlace /\ SwitchPlace

\* A row is there only after its one INSERT, and is uncommitted only in the
\* transaction of a reply.
RowInv ==
    /\ \A m \in AllRows : writing[m.id] = "saved"
    /\ \A m, n \in messages : m.id = n.id => m = n
    /\ \A m \in uncommitted : \E r \in Requests : m.id = Reply(r) /\ pc[r] = "totals"
    /\ \A m, n \in uncommitted : m.id = n.id => m = n
    /\ \A m \in messages, n \in uncommitted : m.id # n.id
    /\ \A r \in Requests : pc[r] = "totals" => \E m \in uncommitted : m.id = Reply(r)
    /\ \A m \in AllRows : m.partial => m.id[2] = "partial"
    /\ \A m \in AllRows : m.id[2] = "reply" => ~m.partial

\* What is stamped with a run comes from a run that has started, so after its question.
OrderInv ==
    /\ \A r \in Requests : tagged[r] \in Requests => pc[tagged[r]] \notin Early
    /\ \A m \in AllRows : m.id[2] \in {"reply", "partial"} /\ m.of \in Requests => pc[m.of] \notin Early
    /\ \A u \in messages : u.id[2] = "user" =>
         /\ \A m \in AllRows : m.id[2] \in {"reply", "partial"} /\ m.of = u.id[1] => m.seq > u.seq
         /\ writing[Reply(u.id[1])] = "insert" => pick[Reply(u.id[1])] > u.seq
         /\ \A q \in Requests : writing[Partial(q)] = "insert" /\ tagged[q] = u.id[1] => pick[Partial(q)] > u.seq

\* What a request has found to merge is its own partial, as long as it is there.
FoundInv ==
    \A r \in Requests : pc[r] = "merge" =>
        /\ found[r] \in Writers /\ found[r][2] = "partial" /\ writing[found[r]] = "saved"
        /\ \A m \in messages : m.id = found[r] => m.of = r /\ m.partial
        /\ truncations = 0 => \E m \in messages : m.id = found[r]

\* A transaction that inserts a reply has seen no partial, so those there are came later.
StampInv ==
    /\ \A p \in Requests \cup Switches : began[p] < clock
    /\ \A m \in AllRows : m.at < clock
    /\ \A r \in Requests : writing[Reply(r)] # "no" => \A p \in Partials(r) : p.at > began[r]
    /\ \A r \in Requests : \A m \in AllRows : m.id = Reply(r) => m.at = began[r]

\* Without overlap one request at a time is between its read of the totals and its write.
CountInv ==
    /\ IsFiniteSet(messages)
    /\ ~overlap => \A q, r \in Requests : pc[q] \in Unsaved /\ pc[r] \in Unsaved => q = r
    /\ ~overlap => \A r \in Requests : pc[r] \in Unsaved => snapshot[r] = totals
    /\ TotalsAddUp

\* The switch that holds the row has read its number above every anchor.
AnchorInv ==
    /\ \A s \in Switches : writing[Anchor(s)] = "insert" =>
         \A b \in messages : b.id[2] = "anchor" => b.seq < pick[Anchor(s)]
    /\ LastAnchorNamesTheAgent

\* Without edits the sequence is gapless, and every number on its way is at most the next.
GapInv ==
    truncations = 0 =>
        /\ \A m \in AllRows : \A n \in 1..m.seq - 1 : Taken(n)
        /\ \A m \in uncommitted : ~Taken(m.seq)
        /\ \A m, n \in uncommitted : m.seq = n.seq => m = n
        /\ \A w \in Writers : writing[w] = "insert" => \A n \in 1..pick[w] - 1 : Taken(n)
        /\ \A u, x \in messages : u.id[2] = "user" /\ x.at > u.at => x.seq > u.seq

\* The sequences are positive and have an upper bound, so max(sequence) exists.
Bounded ==
    /\ \A m \in AllRows : m.seq > 0
    /\ \A w \in Writers : writing[w] = "insert" => pick[w] > 0
    /\ \E b \in Nat : \A m \in AllRows : m.seq <= b

-----------------------------------------------------------------------------
(* The least and the greatest number of a set. *)

LEMMA LeastExists ==
    ASSUME NEW T, T \subseteq Nat, T # {}
    PROVE  \E x \in T : \A y \in T : x <= y
<1> DEFINE R == OpToRel(<, Nat)
<1>1. IsWellFoundedOn(R, Nat)
  BY NatLessThanWellFounded
<1>2. \A x, y \in Nat : y < x => <<y, x>> \in R
  BY DEF OpToRel
<1> HIDE DEF R
<1>3. PICK x \in T : \A y \in T : ~(<<y, x>> \in R)
  BY <1>1, WFMin
<1>4. \A y \in T : ~(y < x)
  BY <1>2, <1>3
<1>5. \A y \in T : y \in Nat /\ x \in Nat
  OBVIOUS
<1> QED BY <1>4, <1>5

LEMMA GreatestExists ==
    ASSUME NEW T, T \subseteq Nat, T # {}, NEW b \in Nat, \A n \in T : n <= b
    PROVE  \E x \in T : \A y \in T : y <= x
<1> DEFINE U == {b - n : n \in T}
<1>1. U \subseteq Nat
  <2>1. \A n \in T : b - n \in Nat
    OBVIOUS
  <2> QED BY <2>1
<1>2. U # {}
  <2>1. PICK n \in T : TRUE
    OBVIOUS
  <2>2. b - n \in U
    BY <2>1
  <2> QED BY <2>2
<1>3. PICK u \in U : \A v \in U : u <= v
  <2> HIDE DEF U
  <2> QED BY <1>1, <1>2, LeastExists
<1>4. PICK x \in T : u = b - x
  BY <1>3
<1>5. \A y \in T : b - y \in U
  OBVIOUS
<1>6. \A y \in T : b - x <= b - y
  BY <1>3, <1>4, <1>5
<1> QED BY <1>6

\* max(sequence) + 1 is above every committed row and right above one of them.
LEMMA NextNumber ==
    ASSUME TypeOK, Bounded
    PROVE  /\ MaxPlusOne \in Nat \ {0}
           /\ \A m \in messages : m.seq < MaxPlusOne
           /\ MaxPlusOne # 1 => \E m \in messages : m.seq + 1 = MaxPlusOne
<1> DEFINE S == {m.seq : m \in messages} \cup {0}
<1>1. \A m \in messages : m.seq \in Nat
  BY DEF TypeOK, Rows
<1>2. S \subseteq Nat /\ S # {} /\ \A m \in messages : m.seq \in S
  BY <1>1
<1>3. PICK b \in Nat : \A m \in messages : m.seq <= b
  BY DEF Bounded, AllRows
<1>4. \A n \in S : n <= b
  BY <1>3
<1>5. \A n \in S : n = 0 \/ \E m \in messages : n = m.seq
  OBVIOUS
<1> HIDE DEF S
<1>6. \E x \in S : \A y \in S : y <= x
  BY <1>2, <1>3, <1>4, GreatestExists
<1>7. \E x \in S : \A y \in S : x >= y
  BY <1>2, <1>6
<1>8. Max(S) \in S /\ \A y \in S : Max(S) >= y
  BY <1>7 DEF Max
<1>9. MaxPlusOne = Max(S) + 1
  BY DEF MaxPlusOne, S
<1>10. Max(S) \in Nat /\ \A m \in messages : m.seq <= Max(S)
  BY <1>1, <1>2, <1>8
<1>11. Max(S) = 0 \/ \E m \in messages : m.seq = Max(S)
  BY <1>5, <1>8
<1>12. MaxPlusOne # 1 => \E m \in messages : m.seq + 1 = MaxPlusOne
  BY <1>9, <1>10, <1>11
<1> QED BY <1>1, <1>9, <1>10, <1>12

-----------------------------------------------------------------------------
(* Writers. *)

LEMMA RequestWriters ==
    ASSUME NEW r \in Requests
    PROVE  /\ User(r) \in Writers /\ User(r)[1] = r /\ User(r)[2] = "user" /\ User(r) \notin InTx
           /\ Reply(r) \in Writers /\ Reply(r)[1] = r /\ Reply(r)[2] = "reply" /\ Reply(r) \in InTx
           /\ Partial(r) \in Writers /\ Partial(r)[1] = r /\ Partial(r)[2] = "partial" /\ Partial(r) \notin InTx
BY DEF User, Reply, Partial, Anchor, Writers, InTx

LEMMA SwitchWriters ==
    ASSUME NEW s \in Switches
    PROVE  Anchor(s) \in Writers /\ Anchor(s)[1] = s /\ Anchor(s)[2] = "anchor" /\ Anchor(s) \in InTx
BY DEF User, Reply, Partial, Anchor, Writers, InTx

LEMMA WriterKinds ==
    ASSUME NEW w \in Writers
    PROVE  \/ \E r \in Requests : w = User(r) \/ w = Reply(r) \/ w = Partial(r)
           \/ \E s \in Switches : w = Anchor(s)
BY DEF Writers, InTx

\* The fields of the row that a writer writes.
LEMMA RowFields ==
    ASSUME TypeOK, NEW w \in Writers, NEW at \in Nat
    PROVE  /\ Row(w, at) \in Rows
           /\ Row(w, at).id = w /\ Row(w, at).seq = pick[w] /\ Row(w, at).at = at
           /\ Row(w, at).partial <=> w[2] = "partial"
           /\ \A r \in Requests : w = Reply(r) => Row(w, at).of = r
           /\ \A r \in Requests : w = Partial(r) => Row(w, at).of = tagged[r]
           /\ \A s \in Switches : w = Anchor(s) => Row(w, at).of = target[s]
<1>1. pick[w] \in Nat
  BY DEF TypeOK
<1>2. \A r \in Requests : tagged[r] \in Requests \cup {NoRun}
  BY DEF TypeOK
<1>3. \A s \in Switches : target[s] \in Agents
  BY DEF TypeOK
<1> DEFINE tag == CASE w[2] = "user"    -> NoRun
                     [] w[2] = "reply"   -> w[1]
                     [] w[2] = "partial" -> tagged[w[1]]
                     [] w[2] = "anchor"  -> target[w[1]]
           part == w[2] = "partial"
<1>4. Row(w, at) = [id |-> w, seq |-> pick[w], at |-> at, partial |-> part, of |-> tag]
  BY DEF Row
<1>5. /\ w[2] = "user" => tag = NoRun
      /\ w[2] = "reply" => tag = w[1]
      /\ w[2] = "partial" => tag = tagged[w[1]]
      /\ w[2] = "anchor" => tag = target[w[1]]
  OBVIOUS
<1>6. part \in BOOLEAN /\ (part <=> w[2] = "partial")
  OBVIOUS
<1> HIDE DEF tag, part
<1>7. tag \in Requests \cup Agents \cup {NoRun}
  BY <1>2, <1>3, <1>5, WriterKinds, RequestWriters, SwitchWriters
<1>8. Row(w, at) \in Rows
  BY <1>1, <1>4, <1>6, <1>7 DEF Rows
<1>9. /\ \A r \in Requests : w = Reply(r) => tag = r
      /\ \A r \in Requests : w = Partial(r) => tag = tagged[r]
      /\ \A s \in Switches : w = Anchor(s) => tag = target[s]
  BY <1>5, RequestWriters, SwitchWriters
<1> QED BY <1>4, <1>6, <1>8, <1>9

\* What MergePartial makes of the rows: the one it has found becomes r's reply.
MergesTo(r, m, x) ==
    /\ x.id = m.id /\ x.seq = m.seq /\ x.at = m.at
    /\ m.id # found[r] => x = m
    /\ m.id = found[r] => x.of = r /\ x.partial = FALSE

LEMMA MergedRows ==
    ASSUME TypeOK, NEW r \in Requests
    PROVE  /\ Merged(r) \subseteq Rows
           /\ \A x \in Merged(r) : \E m \in messages : MergesTo(r, m, x)
           /\ \A m \in messages : \E x \in Merged(r) : MergesTo(r, m, x)
<1> DEFINE F(m) == IF m.id = found[r] THEN [m EXCEPT !.of = r, !.partial = FALSE] ELSE m
<1>1. Merged(r) = {F(m) : m \in messages}
  BY DEF Merged
<1>2. ASSUME NEW m \in messages PROVE F(m) \in Rows /\ MergesTo(r, m, F(m))
  <2>1. m \in Rows
    BY DEF TypeOK
  <2>2. CASE m.id = found[r]
    <3>1. [m EXCEPT !.of = r, !.partial = FALSE] \in Rows
      BY <2>1 DEF Rows
    <3>2. MergesTo(r, m, [m EXCEPT !.of = r, !.partial = FALSE])
      BY <2>1, <2>2 DEF Rows, MergesTo
    <3> QED BY <2>2, <3>1, <3>2
  <2>3. CASE m.id # found[r]
    BY <2>1, <2>3 DEF MergesTo
  <2> QED BY <2>2, <2>3
<1> HIDE DEF F
<1> QED BY <1>1, <1>2

LEMMA ReplyRow ==
    ASSUME TypeOK, NEW r \in Requests
    PROVE  LET x == Row(Reply(r), began[r])
           IN  /\ x \in Rows /\ x.id = Reply(r) /\ x.seq = pick[Reply(r)] /\ x.at = began[r]
               /\ x.of = r /\ ~x.partial
<1>1. Reply(r) \in Writers /\ Reply(r)[2] # "partial"
  BY RequestWriters
<1>2. began[r] \in Nat
  BY DEF TypeOK
<1> QED BY <1>1, <1>2, RowFields

LEMMA AnchorRow ==
    ASSUME TypeOK, NEW s \in Switches
    PROVE  LET x == Row(Anchor(s), began[s])
           IN  /\ x \in Rows /\ x.id = Anchor(s) /\ x.seq = pick[Anchor(s)] /\ x.at = began[s]
               /\ x.of = target[s] /\ ~x.partial
<1>1. Anchor(s) \in Writers /\ Anchor(s)[2] # "partial"
  BY SwitchWriters
<1>2. began[s] \in Nat
  BY DEF TypeOK
<1> QED BY <1>1, <1>2, RowFields

\* A plain insert writes a question or a partial.
LEMMA PlainRow ==
    ASSUME TypeOK, NEW w \in Writers, w \notin InTx
    PROVE  LET x == Row(w, clock)
           IN  /\ x \in Rows /\ x.id = w /\ x.seq = pick[w] /\ x.at = clock
               /\ \/ \E r \in Requests : w = User(r) /\ ~x.partial
                  \/ \E r \in Requests : w = Partial(r) /\ x.partial /\ x.of = tagged[r]
<1>1. \E r \in Requests : w = User(r) \/ w = Partial(r)
  BY WriterKinds, RequestWriters, SwitchWriters
<1>2. clock \in Nat
  BY DEF TypeOK
<1> QED BY <1>1, <1>2, RowFields, RequestWriters

\* The edits and deletions delete rows, whichever.
LEMMA Deletions ==
    \A m \in messages : EditMessage(m) \/ DeleteMessagesAfter(m) => \E D : DeleteRows(D)
BY DEF EditMessage, DeleteMessagesAfter

\* The clock is later after a stamp.
LEMMA Ticks ==
    ASSUME TypeOK, ClockTicks
    PROVE  clock' \in Nat /\ clock' > clock /\ clock' >= clock
BY ConversationAssumption DEF TypeOK, ClockTicks

-----------------------------------------------------------------------------
(* Types. *)

LEMMA InitTyping == Init => TypeOK
<1> SUFFICES ASSUME Init PROVE TypeOK
  OBVIOUS
<1>1. /\ messages \subseteq Rows /\ uncommitted \subseteq Rows /\ rowLock \in Switches \cup {NoRun}
      /\ agent \in Agents /\ totals \in Nat /\ clock \in Nat
      /\ overlap \in BOOLEAN /\ truncations \in Nat /\ crashes \in Nat
  BY ConversationAssumption DEF Init
<1>2. /\ writing \in [Writers -> {"no", "pick", "insert", "saved", "threw", "aborted"}]
      /\ pick \in [Writers -> Nat] /\ tries \in [Writers -> 0..MaxAttempts]
  BY ConversationAssumption DEF Init
<1>3. /\ pc \in [Requests -> Unsaved \cup {"idle", "saved", "lost", "failing", "done", "failed", "dead"}]
      /\ snapshot \in [Requests -> Nat] /\ began \in [Requests \cup Switches -> Nat]
      /\ found \in [Requests -> Writers \cup {NoRun}]
  BY DEF Init, Unsaved
<1>4. /\ run \in [Requests -> {"none", "active", "finished"}] /\ started \in [Requests -> Nat]
      /\ page \in [Requests -> {"none", "streaming", "saving", "closed"}]
      /\ tagged \in [Requests -> Requests \cup {NoRun}]
      /\ switch \in [Switches -> {"idle", "begin", "lock", "insert", "done", "threw", "dead"}]
      /\ target \in [Switches -> Agents]
  BY ConversationAssumption DEF Init
<1> QED BY <1>1, <1>2, <1>3, <1>4 DEF TypeOK

LEMMA StepTyping ==
    ASSUME TypeOK, WriterPlace, Bounded, [Next]_vars
    PROVE  TypeOK'
<1> USE DEF TypeOK
<1>1. ASSUME NEW r \in Requests, Open(r) PROVE TypeOK'
  <2>1. writing' \in [Writers -> {"no", "pick", "insert", "saved", "threw", "aborted"}]
    BY <1>1, RequestWriters DEF Open
  <2>2. pc' \in [Requests -> Unsaved \cup {"idle", "saved", "lost", "failing", "done", "failed", "dead"}]
    BY <1>1 DEF Open, Goto, Unsaved
  <2>3. overlap' \in BOOLEAN
    BY <1>1 DEF Open
  <2> QED BY <1>1, <2>1, <2>2, <2>3 DEF Open, rowVars, runVars, pageVars, switchVars, boundVars
<1>2. ASSUME NEW r \in Requests, Asked(r) \/ LoopFails(r) \/ FinishRun(r) PROVE TypeOK'
  BY <1>2 DEF Asked, LoopFails, FinishRun, Goto, Unsaved, rowVars, writeVars, runVars, pageVars, switchVars, boundVars
<1>3. ASSUME NEW r \in Requests, StartRun(r) PROVE TypeOK'
  BY <1>3, Ticks DEF StartRun, Goto, Unsaved, writeVars, switchVars, boundVars
<1>4. ASSUME NEW r \in Requests, FindPartial(r) PROVE TypeOK'
  <2>1. \A m \in Partials(r) : m.id \in Writers
    BY DEF Partials, Rows
  <2>2. found' \in [Requests -> Writers \cup {NoRun}]
    BY <1>4, <2>1 DEF FindPartial
  <2>3. writing' \in [Writers -> {"no", "pick", "insert", "saved", "threw", "aborted"}]
    <3>1. writing' = writing \/ writing' = [writing EXCEPT ![Reply(r)] = "pick"]
      BY <1>4 DEF FindPartial
    <3> QED BY <3>1
  <2>4. pc' \in [Requests -> Unsaved \cup {"idle", "saved", "lost", "failing", "done", "failed", "dead"}]
    BY <1>4 DEF FindPartial, Goto, Unsaved
  <2>5. began' \in [Requests \cup Switches -> Nat]
    BY <1>4 DEF FindPartial
  <2>6. clock' \in Nat
    BY <1>4, Ticks DEF FindPartial
  <2> QED BY <1>4, <2>2, <2>3, <2>4, <2>5, <2>6 DEF FindPartial, runVars, pageVars, switchVars, boundVars
<1>5. ASSUME NEW r \in Requests, MergePartial(r) PROVE TypeOK'
  <2>1. Merged(r) \subseteq Rows
    BY MergedRows
  <2> QED BY <1>5, <2>1 DEF MergePartial, Goto, Unsaved, writeVars, runVars, pageVars, switchVars, boundVars
<1>6. ASSUME NEW r \in Requests, InsertReply(r) PROVE TypeOK'
  <2>1. Row(Reply(r), began[r]) \in Rows
    BY RowFields, RequestWriters
  <2>2. uncommitted' \subseteq Rows
    BY <1>6, <2>1 DEF InsertReply
  <2>3. writing' \in [Writers -> {"no", "pick", "insert", "saved", "threw", "aborted"}]
    BY <1>6, RequestWriters DEF InsertReply
  <2>4. pc' \in [Requests -> Unsaved \cup {"idle", "saved", "lost", "failing", "done", "failed", "dead"}]
    BY <1>6 DEF InsertReply, Goto, Unsaved
  <2>5. pick' \in [Writers -> Nat]
    BY <1>6, RequestWriters DEF InsertReply
  <2> QED BY <1>6, <2>2, <2>3, <2>4, <2>5 DEF InsertReply, runVars, pageVars, switchVars, boundVars
<1>7. ASSUME NEW r \in Requests, CommitReply(r) PROVE TypeOK'
  BY <1>7 DEF CommitReply, Goto, Unsaved, writeVars, runVars, pageVars, switchVars, boundVars
<1>8. ASSUME NEW r \in Requests, PageCloses(r) PROVE TypeOK'
  BY <1>8 DEF PageCloses, rowVars, writeVars, requestVars, runVars, switchVars, boundVars
<1>9. ASSUME NEW r \in Requests, SavePartial(r) PROVE TypeOK'
  <2>1. tagged'[r] \in Requests \cup {NoRun}
    BY <1>9 DEF SavePartial
  <2> QED BY <1>9, <2>1, RequestWriters DEF SavePartial, rowVars, requestVars, runVars, switchVars, boundVars
<1>10. ASSUME NEW s \in Switches, NEW g \in Agents, ReadAgent(s, g) PROVE TypeOK'
  BY <1>10 DEF ReadAgent, rowVars, writeVars, requestVars, runVars, pageVars, boundVars
<1>11. ASSUME NEW s \in Switches, BeginSwitch(s) PROVE TypeOK'
  BY <1>11, Ticks DEF BeginSwitch, writeVars, requestVars, runVars, pageVars, boundVars
<1>12. ASSUME NEW s \in Switches, UpdateAgent(s) PROVE TypeOK'
  BY <1>12, SwitchWriters DEF UpdateAgent, requestVars, runVars, pageVars, boundVars
<1>13. ASSUME NEW s \in Switches, InsertAnchor(s) PROVE TypeOK'
  <2>1. Row(Anchor(s), began[s]) \in Rows
    BY RowFields, SwitchWriters
  <2> QED BY <1>13, <2>1, SwitchWriters DEF InsertAnchor, requestVars, runVars, pageVars, boundVars
<1>14. ASSUME NEW w \in Writers, SelectMax(w) PROVE TypeOK'
  <2>1. MaxPlusOne \in Nat
    BY NextNumber
  <2>2. tries[w] + 1 \in 0..MaxAttempts
    BY <1>14, ConversationAssumption DEF SelectMax, WriterPlace
  <2> QED BY <1>14, <2>1, <2>2 DEF SelectMax, rowVars, requestVars, runVars, pageVars, switchVars, boundVars
<1>15. ASSUME NEW w \in Writers, InsertPlain(w) PROVE TypeOK'
  <2>1. Row(w, clock) \in Rows
    BY RowFields
  <2> QED BY <1>15, <2>1, Ticks DEF InsertPlain, requestVars, runVars, pageVars, switchVars, boundVars
<1>16. ASSUME NEW r \in Requests, NEW s \in Switches, AbortReply(r, s) PROVE TypeOK'
  BY <1>16, RequestWriters DEF AbortReply, Goto, Unsaved, runVars, pageVars, switchVars, boundVars
<1>17. ASSUME NEW r \in Requests, NEW s \in Switches, AbortSwitch(r, s) PROVE TypeOK'
  BY <1>17, SwitchWriters DEF AbortSwitch, requestVars, runVars, pageVars, boundVars
<1>18. ASSUME NEW D, DeleteRows(D) PROVE TypeOK'
  BY <1>18 DEF DeleteRows, writeVars, requestVars, runVars, pageVars, switchVars
<1>19. CASE Crash
  BY <1>19 DEF Crash, Unsaved, runVars
<1>20. CASE UNCHANGED vars
  BY <1>20 DEF vars, rowVars, writeVars, requestVars, runVars, pageVars, switchVars, boundVars
<1> QED BY <1>1, <1>2, <1>3, <1>4, <1>5, <1>6, <1>7, <1>8, <1>9, <1>10, <1>11, <1>12, <1>13,
           <1>14, <1>15, <1>16, <1>17, <1>18, <1>19, <1>20, Deletions
        DEF Next, RequestStep, SwitchStep, Write, DeadlockDetected

-----------------------------------------------------------------------------
(* Places. *)

LEMMA StepWriterPlace ==
    ASSUME TypeOK, PlaceInv, [Next]_vars
    PROVE  WriterPlace'
<1> USE DEF TypeOK, PlaceInv, WriterPlace
<1>1. ASSUME NEW w \in Writers, writing[w] = "no", writing' = [writing EXCEPT ![w] = "pick"], tries' = tries
      PROVE  WriterPlace'
  BY <1>1, ConversationAssumption
<1>2. ASSUME writing' = writing, tries' = tries PROVE WriterPlace'
  BY <1>2
<1>3. ASSUME NEW w \in Writers, NEW v \in {"saved", "threw", "aborted"},
             writing' = [writing EXCEPT ![w] = v], tries' = tries
      PROVE  WriterPlace'
  BY <1>3
<1>4. ASSUME NEW r \in Requests, Open(r) PROVE WriterPlace'
  BY <1>1, <1>2, <1>4, RequestWriters DEF Open, RequestPlace
<1>5. ASSUME NEW r \in Requests, FindPartial(r) PROVE WriterPlace'
  BY <1>1, <1>2, <1>5, RequestWriters DEF FindPartial, RequestPlace
<1>6. ASSUME NEW r \in Requests, SavePartial(r) PROVE WriterPlace'
  <2>1. writing[Partial(r)] = "no" /\ writing' = [writing EXCEPT ![Partial(r)] = "pick"] /\ tries' = tries
    BY <1>6 DEF SavePartial, RequestPlace
  <2> QED BY <1>1, <2>1, RequestWriters
<1>7. ASSUME NEW s \in Switches, UpdateAgent(s) PROVE WriterPlace'
  <2>1. writing[Anchor(s)] = "no" /\ writing' = [writing EXCEPT ![Anchor(s)] = "pick"] /\ tries' = tries
    BY <1>7 DEF UpdateAgent, SwitchPlace
  <2> QED BY <1>1, <2>1, SwitchWriters
<1>8. ASSUME NEW r \in Requests,
             \/ Asked(r) \/ StartRun(r) \/ LoopFails(r) \/ FinishRun(r)
             \/ MergePartial(r) \/ CommitReply(r) \/ PageCloses(r)
      PROVE  WriterPlace'
  BY <1>2, <1>8 DEF Asked, StartRun, LoopFails, FinishRun, MergePartial, CommitReply, PageCloses, writeVars
<1>9. ASSUME NEW r \in Requests, InsertReply(r) PROVE WriterPlace'
  BY <1>3, <1>9, RequestWriters DEF InsertReply
<1>10. ASSUME NEW s \in Switches, (\E g \in Agents : ReadAgent(s, g)) \/ BeginSwitch(s) PROVE WriterPlace'
  BY <1>2, <1>10 DEF ReadAgent, BeginSwitch, writeVars
<1>11. ASSUME NEW s \in Switches, InsertAnchor(s) PROVE WriterPlace'
  BY <1>3, <1>11, SwitchWriters DEF InsertAnchor
<1>12. ASSUME NEW w \in Writers, SelectMax(w) PROVE WriterPlace'
  BY <1>12 DEF SelectMax
<1>13. ASSUME NEW w \in Writers, InsertPlain(w) PROVE WriterPlace'
  BY <1>13 DEF InsertPlain
<1>14. ASSUME NEW r \in Requests, NEW s \in Switches, AbortReply(r, s) \/ AbortSwitch(r, s) PROVE WriterPlace'
  BY <1>3, <1>14, RequestWriters, SwitchWriters DEF AbortReply, AbortSwitch
<1>15. ASSUME NEW D, DeleteRows(D) PROVE WriterPlace'
  BY <1>2, <1>15 DEF DeleteRows, writeVars
<1>16. CASE Crash
  BY <1>16 DEF Crash
<1>17. CASE UNCHANGED vars
  BY <1>2, <1>17 DEF vars, writeVars
<1> QED BY <1>4, <1>5, <1>6, <1>7, <1>8, <1>9, <1>10, <1>11, <1>12, <1>13, <1>14, <1>15, <1>16, <1>17, Deletions
        DEF Next, RequestStep, SwitchStep, Write, DeadlockDetected

LEMMA StepRequestPlace ==
    ASSUME TypeOK, PlaceInv, RowInv, [Next]_vars
    PROVE  RequestPlace'
<1> USE DEF TypeOK, PlaceInv, RequestPlace, Early, Pending
<1>1. ASSUME NEW r \in Requests, Open(r) PROVE RequestPlace'
  <2>1. CASE r \in Regenerations
    BY <1>1, <2>1, RequestWriters DEF Open, Goto, runVars, pageVars
  <2>2. CASE r \notin Regenerations
    BY <1>1, <2>2, RequestWriters DEF Open, Goto, runVars, pageVars
  <2> QED BY <2>1, <2>2
<1>2. ASSUME NEW r \in Requests, Asked(r) \/ LoopFails(r) \/ FinishRun(r) PROVE RequestPlace'
  BY <1>2 DEF Asked, LoopFails, FinishRun, Goto, rowVars, writeVars, runVars, pageVars, switchVars, boundVars
<1>3. ASSUME NEW r \in Requests, StartRun(r) PROVE RequestPlace'
  BY <1>3 DEF StartRun, Goto, writeVars, switchVars, boundVars
<1>4. ASSUME NEW r \in Requests, FindPartial(r) PROVE RequestPlace'
  BY <1>4, RequestWriters DEF FindPartial, Goto, runVars, pageVars, switchVars, boundVars
<1>5. ASSUME NEW r \in Requests, MergePartial(r) \/ CommitReply(r) PROVE RequestPlace'
  BY <1>5 DEF MergePartial, CommitReply, Goto, writeVars, runVars, pageVars, switchVars, boundVars
<1>6. ASSUME NEW r \in Requests, InsertReply(r) PROVE RequestPlace'
  BY <1>6, RequestWriters DEF InsertReply, Goto, runVars, pageVars, switchVars, boundVars
<1>8. ASSUME NEW r \in Requests, PageCloses(r) PROVE RequestPlace'
  BY <1>8 DEF PageCloses, rowVars, writeVars, requestVars, runVars, switchVars, boundVars
<1>9. ASSUME NEW r \in Requests, SavePartial(r) PROVE RequestPlace'
  BY <1>9, RequestWriters DEF SavePartial, rowVars, requestVars, runVars, switchVars, boundVars
<1>10. ASSUME NEW s \in Switches, (\E g \in Agents : ReadAgent(s, g)) \/ BeginSwitch(s) PROVE RequestPlace'
  BY <1>10 DEF ReadAgent, BeginSwitch, rowVars, writeVars, requestVars, runVars, pageVars, boundVars
<1>12. ASSUME NEW s \in Switches, UpdateAgent(s) \/ InsertAnchor(s) PROVE RequestPlace'
  BY <1>12, RequestWriters, SwitchWriters DEF UpdateAgent, InsertAnchor, requestVars, runVars, pageVars, boundVars
<1>14. ASSUME NEW w \in Writers, SelectMax(w) PROVE RequestPlace'
  BY <1>14, RequestWriters DEF SelectMax, rowVars, requestVars, runVars, pageVars, switchVars, boundVars
<1>15. ASSUME NEW w \in Writers, InsertPlain(w) PROVE RequestPlace'
  BY <1>15, RequestWriters DEF InsertPlain, requestVars, runVars, pageVars, switchVars, boundVars
<1>16. ASSUME NEW r \in Requests, NEW s \in Switches, AbortReply(r, s) PROVE RequestPlace'
  BY <1>16, RequestWriters DEF AbortReply, Deadlocked, Goto, runVars, pageVars, switchVars, boundVars
<1>17. ASSUME NEW r \in Requests, NEW s \in Switches, AbortSwitch(r, s) PROVE RequestPlace'
  BY <1>17, RequestWriters, SwitchWriters DEF AbortSwitch, requestVars, runVars, pageVars, boundVars
<1>18. ASSUME NEW D, DeleteRows(D) PROVE RequestPlace'
  BY <1>18 DEF DeleteRows, writeVars, requestVars, runVars, pageVars, switchVars
<1>19. CASE Crash
  BY <1>19, RequestWriters DEF Crash, runVars
<1>20. CASE UNCHANGED vars
  BY <1>20 DEF vars, rowVars, writeVars, requestVars, runVars, pageVars, switchVars, boundVars
<1> QED BY <1>1, <1>2, <1>3, <1>4, <1>5, <1>6, <1>8, <1>9, <1>10, <1>12,
           <1>14, <1>15, <1>16, <1>17, <1>18, <1>19, <1>20, Deletions
        DEF Next, RequestStep, SwitchStep, Write, DeadlockDetected

LEMMA StepSwitchPlace ==
    ASSUME TypeOK, PlaceInv, [Next]_vars
    PROVE  SwitchPlace'
<1> USE DEF TypeOK, PlaceInv, SwitchPlace, Pending
<1>1. ASSUME NEW r \in Requests, Open(r) \/ FindPartial(r) \/ InsertReply(r) \/ SavePartial(r) PROVE SwitchPlace'
  BY <1>1, RequestWriters, SwitchWriters
     DEF Open, FindPartial, InsertReply, SavePartial, rowVars, requestVars, runVars, switchVars, boundVars
<1>2. ASSUME NEW r \in Requests,
             \/ Asked(r) \/ StartRun(r) \/ LoopFails(r) \/ FinishRun(r)
             \/ MergePartial(r) \/ CommitReply(r) \/ PageCloses(r)
      PROVE  SwitchPlace'
  BY <1>2 DEF Asked, StartRun, LoopFails, FinishRun, MergePartial, CommitReply, PageCloses, rowVars, writeVars, switchVars
<1>10. ASSUME NEW s \in Switches, (\E g \in Agents : ReadAgent(s, g)) \/ BeginSwitch(s) PROVE SwitchPlace'
  BY <1>10, SwitchWriters DEF ReadAgent, BeginSwitch, rowVars, writeVars, requestVars, runVars, pageVars, boundVars
<1>12. ASSUME NEW s \in Switches, UpdateAgent(s) PROVE SwitchPlace'
  BY <1>12, SwitchWriters, KindsAreApart DEF UpdateAgent, requestVars, runVars, pageVars, boundVars
<1>13. ASSUME NEW s \in Switches, InsertAnchor(s) PROVE SwitchPlace'
  BY <1>13, SwitchWriters, KindsAreApart DEF InsertAnchor, requestVars, runVars, pageVars, boundVars
<1>14. ASSUME NEW w \in Writers, SelectMax(w) PROVE SwitchPlace'
  BY <1>14, SwitchWriters DEF SelectMax, rowVars, requestVars, runVars, pageVars, switchVars, boundVars
<1>15. ASSUME NEW w \in Writers, InsertPlain(w) PROVE SwitchPlace'
  BY <1>15, SwitchWriters DEF InsertPlain, requestVars, runVars, pageVars, switchVars, boundVars
<1>16. ASSUME NEW r \in Requests, NEW s \in Switches, AbortReply(r, s) PROVE SwitchPlace'
  BY <1>16, RequestWriters, SwitchWriters DEF AbortReply, Deadlocked, Goto, runVars, pageVars, switchVars, boundVars
<1>17. ASSUME NEW r \in Requests, NEW s \in Switches, AbortSwitch(r, s) PROVE SwitchPlace'
  BY <1>17, SwitchWriters, KindsAreApart DEF AbortSwitch, Deadlocked, requestVars, runVars, pageVars, boundVars
<1>18. ASSUME NEW D, DeleteRows(D) PROVE SwitchPlace'
  BY <1>18 DEF DeleteRows, writeVars, requestVars, runVars, pageVars, switchVars
<1>19. CASE Crash
  BY <1>19, SwitchWriters, KindsAreApart DEF Crash, runVars
<1>20. CASE UNCHANGED vars
  BY <1>20 DEF vars, rowVars, writeVars, requestVars, runVars, pageVars, switchVars, boundVars
<1> QED BY <1>1, <1>2, <1>10, <1>12, <1>13, <1>14, <1>15, <1>16, <1>17, <1>18, <1>19, <1>20, Deletions
        DEF Next, RequestStep, SwitchStep, Write, DeadlockDetected

-----------------------------------------------------------------------------
(* Rows. *)

LEMMA StepRows ==
    ASSUME TypeOK, PlaceInv, RowInv, [Next]_vars
    PROVE  RowInv'
<1> USE DEF TypeOK, PlaceInv, RowInv, AllRows
<1>0. \A m \in AllRows : m.id \in Writers
  BY DEF Rows
<1>1. ASSUME NEW r \in Requests,
             Open(r) \/ Asked(r) \/ StartRun(r) \/ LoopFails(r) \/ FindPartial(r) \/ FinishRun(r)
      PROVE  RowInv'
  <2>1. messages' = messages /\ uncommitted' = uncommitted
    BY <1>1 DEF Open, Asked, StartRun, LoopFails, FindPartial, FinishRun, rowVars
  <2>2. \A w \in Writers : writing[w] = "saved" => writing'[w] = "saved"
    BY <1>1, RequestWriters DEF Open, Asked, StartRun, LoopFails, FindPartial, FinishRun, writeVars, RequestPlace
  <2>3. pc[r] # "totals" /\ pc'[r] # "totals" /\ \A q \in Requests : q # r => pc'[q] = pc[q]
    BY <1>1 DEF Open, Asked, StartRun, LoopFails, FindPartial, FinishRun, Goto
  <2> QED BY <2>1, <2>2, <2>3 DEF Rows
<1>2. ASSUME NEW r \in Requests, MergePartial(r) PROVE RowInv'
  <2>1. /\ messages' = Merged(r) /\ uncommitted' = uncommitted /\ writing' = writing
        /\ pc[r] # "totals" /\ pc'[r] # "totals" /\ \A q \in Requests : q # r => pc'[q] = pc[q]
    BY <1>2 DEF MergePartial, Goto, writeVars
  <2>2. \A x \in messages' : \E m \in messages : MergesTo(r, m, x)
    BY <2>1, MergedRows
  <2>3. \A x \in messages' : writing[x.id] = "saved"
    BY <2>2 DEF MergesTo
  <2>4. \A x, y \in messages' : x.id = y.id => x = y
    <3> SUFFICES ASSUME NEW x \in messages', NEW y \in messages', x.id = y.id PROVE x = y
      OBVIOUS
    <3>1. PICK m \in messages : x = IF m.id = found[r] THEN [m EXCEPT !.of = r, !.partial = FALSE] ELSE m
      BY <2>1 DEF Merged
    <3>2. PICK n \in messages : y = IF n.id = found[r] THEN [n EXCEPT !.of = r, !.partial = FALSE] ELSE n
      BY <2>1 DEF Merged
    <3>3. x.id = m.id /\ y.id = n.id
      BY <3>1, <3>2 DEF Rows
    <3>4. m = n
      BY <3>1, <3>2, <3>3
    <3> QED BY <3>1, <3>2, <3>4
  <2>5. \A x \in messages', n \in uncommitted : x.id # n.id
    BY <2>2 DEF MergesTo
  <2>6. \A x \in messages' : (x.partial => x.id[2] = "partial") /\ (x.id[2] = "reply" => ~x.partial)
    BY <2>2 DEF MergesTo
  <2> QED BY <2>1, <2>3, <2>4, <2>5, <2>6
<1>3. ASSUME NEW r \in Requests, InsertReply(r) PROVE RowInv'
  <2> DEFINE x == Row(Reply(r), began[r])
  <2>1. x.id = Reply(r) /\ ~x.partial
    BY ReplyRow
  <2>2. /\ messages' = messages
        /\ \/ uncommitted' = uncommitted /\ pc' = [pc EXCEPT ![r] = "failing"] /\ writing' = [writing EXCEPT ![Reply(r)] = "threw"]
           \/ /\ uncommitted' = uncommitted \cup {x} /\ pc' = [pc EXCEPT ![r] = "totals"]
              /\ writing' = [writing EXCEPT ![Reply(r)] = "saved"]
        /\ writing[Reply(r)] = "insert" /\ pc[r] = "insert"
    BY <1>3 DEF InsertReply, Goto
  <2> HIDE DEF x
  <2>3. CASE uncommitted' = uncommitted /\ pc' = [pc EXCEPT ![r] = "failing"] /\ writing' = [writing EXCEPT ![Reply(r)] = "threw"]
    BY <1>0, <2>2, <2>3, RequestWriters
  <2>4. CASE /\ uncommitted' = uncommitted \cup {x} /\ pc' = [pc EXCEPT ![r] = "totals"]
             /\ writing' = [writing EXCEPT ![Reply(r)] = "saved"]
    <3>1. \A m \in AllRows : m.id # Reply(r) /\ writing'[m.id] = writing[m.id]
      BY <1>0, <2>2, <2>4, RequestWriters
    <3>2. writing'[x.id] = "saved" /\ pc'[r] = "totals" /\ \A q \in Requests : q # r => pc'[q] = pc[q]
      BY <2>1, <2>2, <2>4, RequestWriters
    <3>3. \A m \in AllRows' : m \in AllRows \/ m = x
      BY <2>2, <2>4
    <3>4. \A m \in AllRows' : writing'[m.id] = "saved" /\ (m.partial => m.id[2] = "partial") /\ (m.id[2] = "reply" => ~m.partial)
      BY <2>1, <3>1, <3>2, <3>3
    <3>5. \A m \in uncommitted' : \E q \in Requests : m.id = Reply(q) /\ pc'[q] = "totals"
      BY <2>1, <2>2, <2>4, <3>2
    <3>6. \A q \in Requests : pc'[q] = "totals" => \E m \in uncommitted' : m.id = Reply(q)
      BY <2>1, <2>2, <2>4, <3>2
    <3>7. /\ \A m, n \in uncommitted' : m.id = n.id => m = n
          /\ \A m \in messages', n \in uncommitted' : m.id # n.id
      BY <2>1, <2>2, <2>4, <3>1
    <3>8. \A m, n \in messages' : m.id = n.id => m = n
      BY <2>2
    <3> QED BY <3>4, <3>5, <3>6, <3>7, <3>8
  <2> QED BY <2>2, <2>3, <2>4
<1>4. ASSUME NEW r \in Requests, CommitReply(r) PROVE RowInv'
  BY <1>4, RequestWriters DEF CommitReply, Goto, writeVars, Rows
<1>5. ASSUME NEW r \in Requests, PageCloses(r) \/ SavePartial(r) PROVE RowInv'
  BY <1>5, RequestWriters DEF PageCloses, SavePartial, rowVars, writeVars, requestVars, RequestPlace, Rows
<1>6. ASSUME NEW s \in Switches, (\E g \in Agents : ReadAgent(s, g)) \/ BeginSwitch(s) PROVE RowInv'
  BY <1>6 DEF ReadAgent, BeginSwitch, rowVars, writeVars, requestVars
<1>7. ASSUME NEW s \in Switches, UpdateAgent(s) PROVE RowInv'
  BY <1>7, SwitchWriters DEF UpdateAgent, requestVars, SwitchPlace, Rows
<1>8. ASSUME NEW s \in Switches, InsertAnchor(s) PROVE RowInv'
  <2> DEFINE x == Row(Anchor(s), began[s])
  <2>1. x.id = Anchor(s) /\ ~x.partial
    BY AnchorRow
  <2>2. /\ uncommitted' = uncommitted /\ pc' = pc /\ writing[Anchor(s)] = "insert"
        /\ \/ messages' = messages /\ writing' = [writing EXCEPT ![Anchor(s)] = "threw"]
           \/ messages' = messages \cup {x} /\ writing' = [writing EXCEPT ![Anchor(s)] = "saved"]
    BY <1>8 DEF InsertAnchor, requestVars
  <2> HIDE DEF x
  <2>3. \A m \in AllRows : m.id # Anchor(s) /\ writing'[m.id] = writing[m.id]
    BY <1>0, <2>2, SwitchWriters
  <2>4. CASE messages' = messages
    BY <2>2, <2>3, <2>4
  <2>5. CASE messages' = messages \cup {x} /\ writing' = [writing EXCEPT ![Anchor(s)] = "saved"]
    <3>1. writing'[x.id] = "saved"
      BY <2>1, <2>5, SwitchWriters
    <3>2. \A m \in uncommitted : m.id # x.id
      BY <2>1, <2>3
    <3> QED BY <2>1, <2>2, <2>3, <2>5, <3>1, <3>2, SwitchWriters
  <2> QED BY <2>2, <2>4, <2>5
<1>9. ASSUME NEW w \in Writers, SelectMax(w) PROVE RowInv'
  BY <1>9 DEF SelectMax, rowVars, requestVars, Rows
<1>10. ASSUME NEW w \in Writers, InsertPlain(w) PROVE RowInv'
  <2> DEFINE x == Row(w, clock)
  <2>1. x.id = w /\ w[2] # "reply" /\ (x.partial => w[2] = "partial")
    BY <1>10, PlainRow, RequestWriters DEF InsertPlain
  <2>2. /\ uncommitted' = uncommitted /\ pc' = pc /\ writing[w] = "insert"
        /\ \/ messages' = messages /\ writing' = [writing EXCEPT ![w] = IF tries[w] < MaxAttempts THEN "pick" ELSE "threw"]
           \/ messages' = messages \cup {x} /\ writing' = [writing EXCEPT ![w] = "saved"]
    BY <1>10 DEF InsertPlain, requestVars
  <2> HIDE DEF x
  <2>3. \A m \in AllRows : m.id # w /\ writing'[m.id] = writing[m.id]
    BY <1>0, <2>2
  <2>4. CASE messages' = messages
    BY <2>2, <2>3, <2>4
  <2>5. CASE messages' = messages \cup {x} /\ writing' = [writing EXCEPT ![w] = "saved"]
    <3>1. writing'[x.id] = "saved"
      BY <2>1, <2>5
    <3>2. \A m \in uncommitted : m.id # x.id
      BY <2>1, <2>3
    <3> QED BY <2>1, <2>2, <2>3, <2>5, <3>1, <3>2
  <2> QED BY <2>2, <2>4, <2>5
<1>11. ASSUME NEW r \in Requests, NEW s \in Switches, AbortReply(r, s) PROVE RowInv'
  BY <1>11, RequestWriters DEF AbortReply, Deadlocked, Goto, Rows
<1>12. ASSUME NEW r \in Requests, NEW s \in Switches, AbortSwitch(r, s) PROVE RowInv'
  BY <1>12, SwitchWriters DEF AbortSwitch, Deadlocked, requestVars, Rows
<1>13. ASSUME NEW D, DeleteRows(D) PROVE RowInv'
  BY <1>13 DEF DeleteRows, writeVars, requestVars
<1>14. CASE Crash
  BY <1>14, RequestWriters DEF Crash, Rows
<1>15. CASE UNCHANGED vars
  BY <1>15 DEF vars, rowVars, writeVars, requestVars
<1> QED BY <1>1, <1>2, <1>3, <1>4, <1>5, <1>6, <1>7, <1>8, <1>9, <1>10, <1>11, <1>12, <1>13, <1>14, <1>15, Deletions
        DEF Next, RequestStep, SwitchStep, Write, DeadlockDetected

-----------------------------------------------------------------------------
(* Order: a run's rows after its question. *)

\* A row that may appear: not a question, and if it is a run's, after its question.
MayAppear(x) ==
    x.id[2] \in {"reply", "partial"} =>
        /\ x.of \in Requests => pc[x.of] \notin Early
        /\ \A u \in messages : u.id[2] = "user" /\ x.of = u.id[1] => x.seq > u.seq

\* No new question, number or tag, and nobody has yet to ask who had asked.
LEMMA OrderKept ==
    ASSUME TypeOK, OrderInv,
           \A x \in AllRows' : x \in AllRows \/ MayAppear(x),
           \A u \in messages' : u.id[2] = "user" => u \in messages,
           \A w \in Writers : writing'[w] = "insert" => writing[w] = "insert" /\ pick'[w] = pick[w],
           tagged' = tagged,
           \A r \in Requests : pc'[r] \in Early => pc[r] \in Early
    PROVE  OrderInv'
<1>1. \A m \in AllRows : m.id \in Writers
  BY DEF TypeOK, Rows, AllRows
<1>2. \A u \in messages : u.id[2] = "user" => u.id[1] \in Requests
  <2> SUFFICES ASSUME NEW u \in messages, u.id[2] = "user" PROVE u.id[1] \in Requests
    OBVIOUS
  <2>1. u.id \in Writers
    BY <1>1 DEF AllRows
  <2> QED BY <2>1, WriterKinds, RequestWriters, SwitchWriters
<1>3. \A r \in Requests : tagged'[r] \in Requests => pc'[tagged'[r]] \notin Early
  BY DEF OrderInv
<1>4. \A m \in AllRows' : m.id[2] \in {"reply", "partial"} /\ m.of \in Requests => pc'[m.of] \notin Early
  BY DEF OrderInv, MayAppear
<1>5. \A u \in messages' : u.id[2] = "user" =>
         /\ \A m \in AllRows' : m.id[2] \in {"reply", "partial"} /\ m.of = u.id[1] => m.seq > u.seq
         /\ writing'[Reply(u.id[1])] = "insert" => pick'[Reply(u.id[1])] > u.seq
         /\ \A q \in Requests : writing'[Partial(q)] = "insert" /\ tagged'[q] = u.id[1] => pick'[Partial(q)] > u.seq
  BY <1>2, RequestWriters DEF OrderInv, MayAppear
<1> QED BY <1>3, <1>4, <1>5 DEF OrderInv

LEMMA StepOrder ==
    ASSUME TypeOK, PlaceInv, RowInv, OrderInv, FoundInv, Bounded, [Next]_vars
    PROVE  OrderInv'
<1>0. \A m \in AllRows : m.id \in Writers
  BY DEF TypeOK, Rows, AllRows
<1>1. ASSUME NEW r \in Requests,
             Open(r) \/ Asked(r) \/ StartRun(r) \/ LoopFails(r) \/ FindPartial(r) \/ FinishRun(r) \/ PageCloses(r)
      PROVE  OrderInv'
  <2>1. messages' = messages /\ uncommitted' = uncommitted /\ pick' = pick /\ tagged' = tagged
    BY <1>1 DEF Open, Asked, StartRun, LoopFails, FindPartial, FinishRun, PageCloses, rowVars, writeVars, pageVars
  <2>2. \A w \in Writers : writing'[w] = "insert" => writing[w] = "insert"
    BY <1>1, RequestWriters
       DEF Open, Asked, StartRun, LoopFails, FindPartial, FinishRun, PageCloses, writeVars, TypeOK
  <2>3. \A q \in Requests : pc'[q] \in Early => pc[q] \in Early
    BY <1>1 DEF Open, Asked, StartRun, LoopFails, FindPartial, FinishRun, PageCloses, requestVars, Goto, Early, TypeOK
  <2> QED BY <2>1, <2>2, <2>3, OrderKept DEF AllRows
<1>2. ASSUME NEW s \in Switches, (\E g \in Agents : ReadAgent(s, g)) \/ BeginSwitch(s) \/ UpdateAgent(s) PROVE OrderInv'
  <2>1. messages' = messages /\ uncommitted' = uncommitted /\ pick' = pick /\ tagged' = tagged /\ pc' = pc
    BY <1>2 DEF ReadAgent, BeginSwitch, UpdateAgent, rowVars, writeVars, pageVars, requestVars
  <2>2. \A w \in Writers : writing'[w] = "insert" => writing[w] = "insert"
    BY <1>2, SwitchWriters DEF ReadAgent, BeginSwitch, UpdateAgent, writeVars, TypeOK
  <2> QED BY <2>1, <2>2, OrderKept DEF AllRows
<1>3. ASSUME NEW r \in Requests, CommitReply(r) PROVE OrderInv'
  <2>1. writing' = writing /\ pick' = pick /\ tagged' = tagged
    BY <1>3 DEF CommitReply, writeVars, pageVars
  <2>2. AllRows' \subseteq AllRows /\ \A u \in messages' : u.id[2] = "user" => u \in messages
    BY <1>3, RequestWriters DEF CommitReply, AllRows
  <2>3. \A q \in Requests : pc'[q] \in Early => pc[q] \in Early
    BY <1>3 DEF CommitReply, Goto, Early, TypeOK
  <2> QED BY <2>1, <2>2, <2>3, OrderKept
<1>4. ASSUME NEW r \in Requests, NEW s \in Switches, AbortReply(r, s) \/ AbortSwitch(r, s) PROVE OrderInv'
  <2>1. messages' = messages /\ uncommitted' \subseteq uncommitted /\ pick' = pick /\ tagged' = tagged
    BY <1>4 DEF AbortReply, AbortSwitch, pageVars
  <2>2. \A w \in Writers : writing'[w] = "insert" => writing[w] = "insert"
    BY <1>4, RequestWriters, SwitchWriters DEF AbortReply, AbortSwitch, TypeOK
  <2>3. \A q \in Requests : pc'[q] \in Early => pc[q] \in Early
    BY <1>4 DEF AbortReply, AbortSwitch, requestVars, Goto, Early, TypeOK
  <2> QED BY <2>1, <2>2, <2>3, OrderKept DEF AllRows
<1>5. ASSUME NEW D, DeleteRows(D) PROVE OrderInv'
  <2>1. /\ messages' \subseteq messages /\ uncommitted' = uncommitted /\ writing' = writing /\ pick' = pick
        /\ tagged' = tagged /\ pc' = pc
    BY <1>5 DEF DeleteRows, writeVars, pageVars, requestVars
  <2> QED BY <2>1, OrderKept DEF AllRows
<1>6. CASE Crash
  <2>1. messages' = messages /\ uncommitted' = {} /\ pick' = pick /\ tagged' = tagged
    BY <1>6 DEF Crash
  <2>2. \A w \in Writers : writing'[w] = "insert" => writing[w] = "insert"
    BY <1>6 DEF Crash
  <2>3. \A q \in Requests : pc'[q] \in Early => pc[q] \in Early
    BY <1>6 DEF Crash, Early
  <2> QED BY <2>1, <2>2, <2>3, OrderKept DEF AllRows
<1>7. CASE UNCHANGED vars
  <2>1. /\ messages' = messages /\ uncommitted' = uncommitted /\ writing' = writing /\ pick' = pick
        /\ tagged' = tagged /\ pc' = pc
    BY <1>7 DEF vars, rowVars, writeVars, pageVars, requestVars
  <2> QED BY <2>1, OrderKept DEF AllRows
<1>8. ASSUME NEW r \in Requests, SavePartial(r) PROVE OrderInv'
  <2>1. /\ messages' = messages /\ uncommitted' = uncommitted /\ pick' = pick /\ pc' = pc
        /\ writing' = [writing EXCEPT ![Partial(r)] = "pick"] /\ writing[Partial(r)] = "no"
        /\ \A q \in Requests : q # r => tagged'[q] = tagged[q]
    BY <1>8 DEF SavePartial, rowVars, requestVars, PlaceInv, RequestPlace, TypeOK
  <2>2. tagged'[r] \in Requests => run[tagged'[r]] = "active"
    BY <1>8, ConversationAssumption DEF SavePartial, NewestActive, TypeOK
  <2>3. tagged'[r] \in Requests => pc[tagged'[r]] \notin Early
    BY <2>2 DEF PlaceInv, RequestPlace
  <2>4. \A q \in Requests : writing'[Reply(q)] = writing[Reply(q)]
    BY <2>1, RequestWriters DEF TypeOK
  <2>5. \A q \in Requests : writing'[Partial(q)] = "insert" => q # r /\ writing[Partial(q)] = "insert"
    BY <2>1, RequestWriters DEF TypeOK
  <2>6. \A u \in messages : u.id[2] = "user" => u.id[1] \in Requests
    BY <1>0, WriterKinds, RequestWriters, SwitchWriters DEF AllRows
  <2> QED BY <2>1, <2>3, <2>4, <2>5, <2>6 DEF OrderInv, AllRows
<1>9. ASSUME NEW w \in Writers, SelectMax(w) PROVE OrderInv'
  <2>1. /\ messages' = messages /\ uncommitted' = uncommitted /\ pc' = pc /\ tagged' = tagged
        /\ pick' = [pick EXCEPT ![w] = MaxPlusOne] /\ writing' = [writing EXCEPT ![w] = "insert"]
    BY <1>9 DEF SelectMax, rowVars, requestVars, pageVars
  <2>2. MaxPlusOne \in Nat /\ \A m \in messages : m.seq < MaxPlusOne /\ m.seq \in Nat
    BY NextNumber DEF TypeOK, Rows
  <2>3. \A u \in messages : u.id[2] = "user" => u.id[1] \in Requests
    BY <1>0, WriterKinds, RequestWriters, SwitchWriters DEF AllRows
  <2> QED BY <2>1, <2>2, <2>3, RequestWriters DEF OrderInv, AllRows, TypeOK
<1>10. ASSUME NEW r \in Requests, MergePartial(r) PROVE OrderInv'
  <2>1. /\ messages' = Merged(r) /\ uncommitted' = uncommitted /\ writing' = writing /\ pick' = pick /\ tagged' = tagged
        /\ pc' = [pc EXCEPT ![r] = pc'[r]] /\ pc'[r] \notin Early /\ pc[r] = "merge"
    BY <1>10 DEF MergePartial, Goto, writeVars, pageVars, Early, TypeOK
  <2>2. \A x \in messages' : \E m \in messages : x.id = m.id /\ x.seq = m.seq /\ x.of = m.of
    <3>1. \A m \in messages : m.id = found[r] => m.of = r
      BY <2>1 DEF FoundInv
    <3>2. \A x \in messages' : \E m \in messages : MergesTo(r, m, x)
      BY <2>1, MergedRows
    <3> QED BY <3>1, <3>2 DEF MergesTo
  <2>3. \A q \in Requests : pc'[q] \in Early => pc[q] \in Early
    BY <2>1 DEF TypeOK
  <2>4. \A q \in Requests : tagged'[q] \in Requests => pc'[tagged'[q]] \notin Early
    BY <2>1, <2>3 DEF OrderInv
  <2>5. \A m \in AllRows' : m.id[2] \in {"reply", "partial"} /\ m.of \in Requests => pc'[m.of] \notin Early
    BY <2>1, <2>2, <2>3 DEF OrderInv, AllRows
  <2>6. \A u \in messages' : u.id[2] = "user" =>
         /\ \A m \in AllRows' : m.id[2] \in {"reply", "partial"} /\ m.of = u.id[1] => m.seq > u.seq
         /\ writing'[Reply(u.id[1])] = "insert" => pick'[Reply(u.id[1])] > u.seq
         /\ \A q \in Requests : writing'[Partial(q)] = "insert" /\ tagged'[q] = u.id[1] => pick'[Partial(q)] > u.seq
    BY <2>1, <2>2 DEF OrderInv, AllRows
  <2> QED BY <2>4, <2>5, <2>6 DEF OrderInv
<1>11. ASSUME NEW r \in Requests, InsertReply(r) PROVE OrderInv'
  <2> DEFINE x == Row(Reply(r), began[r])
  <2>1. x.id = Reply(r) /\ x.seq = pick[Reply(r)] /\ x.of = r
    BY ReplyRow
  <2>2. /\ messages' = messages /\ uncommitted' \subseteq uncommitted \cup {x} /\ tagged' = tagged
        /\ writing[Reply(r)] = "insert" /\ pc[r] = "insert"
    BY <1>11 DEF InsertReply, pageVars
  <2>3. \A w \in Writers : writing'[w] = "insert" => writing[w] = "insert" /\ pick'[w] = pick[w]
    BY <1>11, RequestWriters DEF InsertReply, TypeOK
  <2>4. \A q \in Requests : pc'[q] \in Early => pc[q] \in Early
    BY <1>11 DEF InsertReply, Goto, Early, TypeOK
  <2>5. /\ x.of \in Requests => pc[x.of] \notin Early
        /\ \A u \in messages : u.id[2] = "user" /\ x.of = u.id[1] => x.seq > u.seq
    BY <2>1, <2>2 DEF OrderInv, Early
  <2> HIDE DEF x
  <2> QED BY <2>1, <2>2, <2>3, <2>4, <2>5, RequestWriters, OrderKept DEF AllRows, MayAppear
<1>12. ASSUME NEW s \in Switches, InsertAnchor(s) PROVE OrderInv'
  <2> DEFINE x == Row(Anchor(s), began[s])
  <2>1. x.id = Anchor(s) /\ x.id[2] = "anchor"
    BY AnchorRow, SwitchWriters
  <2>2. messages' \subseteq messages \cup {x} /\ uncommitted' = uncommitted /\ tagged' = tagged /\ pc' = pc
    BY <1>12 DEF InsertAnchor, pageVars, requestVars
  <2>3. \A w \in Writers : writing'[w] = "insert" => writing[w] = "insert" /\ pick'[w] = pick[w]
    BY <1>12, SwitchWriters DEF InsertAnchor, TypeOK
  <2> HIDE DEF x
  <2> QED BY <2>1, <2>2, <2>3, OrderKept DEF AllRows, MayAppear
<1>13. ASSUME NEW w \in Writers, InsertPlain(w) PROVE OrderInv'
  <2> DEFINE x == Row(w, clock)
  <2>1. x.id = w /\ x.seq = pick[w]
    BY <1>13, PlainRow DEF InsertPlain
  <2>2. messages' \subseteq messages \cup {x} /\ uncommitted' = uncommitted /\ tagged' = tagged /\ pc' = pc
    BY <1>13 DEF InsertPlain, pageVars, requestVars
  <2>3. /\ writing[w] = "insert"
        /\ \A v \in Writers : writing'[v] = "insert" => writing[v] = "insert" /\ pick'[v] = pick[v]
    BY <1>13 DEF InsertPlain, TypeOK
  <2>4. CASE \E r \in Requests : w = User(r)
    <3>1. PICK r \in Requests : w = User(r)
      BY <2>4
    <3>2. pc[r] \in Early /\ x.id[2] = "user" /\ x.id[1] = r
      BY <2>1, <2>3, <3>1, RequestWriters DEF PlaceInv, RequestPlace, Pending, Early
    <3>3. writing[Reply(r)] = "no" /\ \A q \in Requests : tagged[q] # r
      BY <3>2 DEF PlaceInv, RequestPlace, OrderInv
    <3>4. \A m \in AllRows : ~(m.id[2] \in {"reply", "partial"} /\ m.of = r)
      BY <3>2 DEF OrderInv
    <3> HIDE DEF x
    <3>5. \A m \in AllRows' : m \in AllRows \/ m = x
      BY <2>2 DEF AllRows
    <3>6. /\ \A q \in Requests : tagged'[q] \in Requests => pc'[tagged'[q]] \notin Early
          /\ \A m \in AllRows' : m.id[2] \in {"reply", "partial"} /\ m.of \in Requests => pc'[m.of] \notin Early
      BY <2>2, <3>2, <3>5 DEF OrderInv
    <3>7. ASSUME NEW u \in messages', u.id[2] = "user"
          PROVE
         /\ \A m \in AllRows' : m.id[2] \in {"reply", "partial"} /\ m.of = u.id[1] => m.seq > u.seq
         /\ writing'[Reply(u.id[1])] = "insert" => pick'[Reply(u.id[1])] > u.seq
         /\ \A q \in Requests : writing'[Partial(q)] = "insert" /\ tagged'[q] = u.id[1] => pick'[Partial(q)] > u.seq
      <4>1. CASE u = x
        BY <2>2, <2>3, <3>2, <3>3, <3>4, <3>5, <4>1, RequestWriters
      <4>2. CASE u # x
        <5>1. u \in messages /\ u.id[1] \in Requests
          BY <1>0, <2>2, <3>7, <4>2, WriterKinds, RequestWriters, SwitchWriters DEF AllRows
        <5> QED BY <2>2, <2>3, <3>2, <3>5, <3>7, <5>1, RequestWriters DEF OrderInv
      <4> QED BY <4>1, <4>2
    <3> QED BY <3>6, <3>7 DEF OrderInv
  <2>5. CASE \E r \in Requests : w = Partial(r) /\ x.partial /\ x.of = tagged[r]
    <3>1. PICK r \in Requests : w = Partial(r) /\ x.of = tagged[r]
      BY <2>5
    <3>2. /\ x.id[2] # "user"
          /\ x.of \in Requests => pc[x.of] \notin Early
          /\ \A u \in messages : u.id[2] = "user" /\ x.of = u.id[1] => x.seq > u.seq
      BY <2>1, <2>3, <3>1, RequestWriters DEF OrderInv
    <3> HIDE DEF x
    <3> QED BY <2>2, <2>3, <3>2, OrderKept DEF AllRows, MayAppear
  <2> QED BY <1>13, <2>4, <2>5, PlainRow DEF InsertPlain
<1> QED BY <1>1, <1>2, <1>3, <1>4, <1>5, <1>6, <1>7, <1>8, <1>9, <1>10, <1>11, <1>12, <1>13, Deletions
        DEF Next, RequestStep, SwitchStep, Write, DeadlockDetected

-----------------------------------------------------------------------------
(* What a request has found. *)

LEMMA FoundKept ==
    ASSUME TypeOK, RowInv, FoundInv,
           \A r \in Requests : pc'[r] = "merge" => pc[r] = "merge" /\ found'[r] = found[r],
           \A w \in Writers : w[2] = "partial" /\ writing[w] = "saved" => writing'[w] = "saved",
           \A x \in messages' : x \in messages \/ writing[x.id] # "saved" \/ x.id[2] # "partial",
           truncations' # 0 \/ (truncations = 0 /\ messages \subseteq messages')
    PROVE  FoundInv'
<1> SUFFICES ASSUME NEW r \in Requests, pc'[r] = "merge"
             PROVE  /\ found'[r] \in Writers /\ found'[r][2] = "partial" /\ writing'[found'[r]] = "saved"
                    /\ \A m \in messages' : m.id = found'[r] => m.of = r /\ m.partial
                    /\ truncations' = 0 => \E m \in messages' : m.id = found'[r]
  BY DEF FoundInv
<1>1. pc[r] = "merge" /\ found'[r] = found[r]
  OBVIOUS
<1> QED BY <1>1 DEF FoundInv

LEMMA StepFound ==
    ASSUME TypeOK, PlaceInv, RowInv, FoundInv, [Next]_vars
    PROVE  FoundInv'
<1>1. ASSUME NEW r \in Requests, \/ Open(r) \/ Asked(r) \/ StartRun(r) \/ LoopFails(r)
                                \/ FinishRun(r) \/ PageCloses(r) \/ SavePartial(r)
      PROVE  FoundInv'
  <2>1. messages' = messages /\ truncations' = truncations /\ found' = found
    BY <1>1 DEF Open, Asked, StartRun, LoopFails, FinishRun, PageCloses, SavePartial, rowVars, requestVars, boundVars
  <2>2. \A w \in Writers : w[2] = "partial" /\ writing[w] = "saved" => writing'[w] = "saved"
    BY <1>1, RequestWriters
       DEF Open, Asked, StartRun, LoopFails, FinishRun, PageCloses, SavePartial, writeVars, TypeOK, PlaceInv, RequestPlace
  <2>3. \A q \in Requests : pc'[q] = "merge" => pc[q] = "merge"
    BY <1>1 DEF Open, Asked, StartRun, LoopFails, FinishRun, PageCloses, SavePartial, requestVars, Goto, TypeOK
  <2> QED BY <2>1, <2>2, <2>3, FoundKept
<1>2. ASSUME NEW s \in Switches, (\E g \in Agents : ReadAgent(s, g)) \/ BeginSwitch(s) \/ UpdateAgent(s) PROVE FoundInv'
  <2>1. messages' = messages /\ truncations' = truncations /\ found' = found /\ pc' = pc
    BY <1>2 DEF ReadAgent, BeginSwitch, UpdateAgent, rowVars, requestVars, boundVars
  <2>2. \A w \in Writers : w[2] = "partial" /\ writing[w] = "saved" => writing'[w] = "saved"
    BY <1>2, SwitchWriters DEF ReadAgent, BeginSwitch, UpdateAgent, writeVars, TypeOK
  <2> QED BY <2>1, <2>2, FoundKept
<1>3. ASSUME NEW r \in Requests, CommitReply(r) PROVE FoundInv'
  <2>1. writing' = writing /\ truncations' = truncations /\ found' = found
    BY <1>3 DEF CommitReply, writeVars, boundVars
  <2>2. messages \subseteq messages' /\ \A x \in messages' : x \in messages \/ x.id[2] # "partial"
    BY <1>3, RequestWriters DEF CommitReply
  <2>3. \A q \in Requests : pc'[q] = "merge" => pc[q] = "merge"
    BY <1>3 DEF CommitReply, Goto, TypeOK
  <2> QED BY <2>1, <2>2, <2>3, FoundKept
<1>4. ASSUME NEW r \in Requests, NEW s \in Switches, AbortReply(r, s) \/ AbortSwitch(r, s) PROVE FoundInv'
  <2>1. messages' = messages /\ truncations' = truncations /\ found' = found
    BY <1>4 DEF AbortReply, AbortSwitch, requestVars, boundVars
  <2>2. \A w \in Writers : w[2] = "partial" /\ writing[w] = "saved" => writing'[w] = "saved"
    BY <1>4, RequestWriters, SwitchWriters DEF AbortReply, AbortSwitch, TypeOK
  <2>3. \A q \in Requests : pc'[q] = "merge" => pc[q] = "merge"
    BY <1>4 DEF AbortReply, AbortSwitch, requestVars, Goto, TypeOK
  <2> QED BY <2>1, <2>2, <2>3, FoundKept
<1>5. ASSUME NEW D, DeleteRows(D) PROVE FoundInv'
  <2>1. messages' \subseteq messages /\ writing' = writing /\ found' = found /\ pc' = pc
    BY <1>5 DEF DeleteRows, writeVars, requestVars
  <2>2. truncations' # 0
    BY <1>5 DEF DeleteRows, TypeOK
  <2> QED BY <2>1, <2>2, FoundKept
<1>6. CASE Crash
  <2>1. messages' = messages /\ truncations' = truncations /\ found' = found
    BY <1>6 DEF Crash
  <2>2. \A w \in Writers : writing[w] = "saved" => writing'[w] = "saved"
    BY <1>6 DEF Crash
  <2>3. \A q \in Requests : pc'[q] # "merge"
    BY <1>6 DEF Crash
  <2> QED BY <2>1, <2>2, <2>3, FoundKept
<1>7. CASE UNCHANGED vars
  <2>1. messages' = messages /\ writing' = writing /\ truncations' = truncations /\ found' = found /\ pc' = pc
    BY <1>7 DEF vars, rowVars, writeVars, requestVars, boundVars
  <2> QED BY <2>1, FoundKept
<1>8. ASSUME NEW w \in Writers, SelectMax(w) PROVE FoundInv'
  <2>1. messages' = messages /\ truncations' = truncations /\ found' = found /\ pc' = pc
    BY <1>8 DEF SelectMax, rowVars, requestVars, boundVars
  <2>2. \A v \in Writers : writing[v] = "saved" => writing'[v] = "saved"
    BY <1>8 DEF SelectMax, TypeOK
  <2> QED BY <2>1, <2>2, FoundKept
<1>9. ASSUME NEW r \in Requests, InsertReply(r) PROVE FoundInv'
  <2>1. messages' = messages /\ truncations' = truncations /\ found' = found
    BY <1>9 DEF InsertReply, boundVars
  <2>2. \A w \in Writers : w[2] = "partial" /\ writing[w] = "saved" => writing'[w] = "saved"
    BY <1>9, RequestWriters DEF InsertReply, TypeOK
  <2>3. \A q \in Requests : pc'[q] = "merge" => pc[q] = "merge"
    BY <1>9 DEF InsertReply, Goto, TypeOK
  <2> QED BY <2>1, <2>2, <2>3, FoundKept
<1>10. ASSUME NEW s \in Switches, InsertAnchor(s) PROVE FoundInv'
  <2>1. /\ messages \subseteq messages' /\ messages' \subseteq messages \cup {Row(Anchor(s), began[s])}
        /\ truncations' = truncations /\ found' = found /\ pc' = pc
    BY <1>10 DEF InsertAnchor, requestVars, boundVars
  <2>2. \A w \in Writers : w[2] = "partial" /\ writing[w] = "saved" => writing'[w] = "saved"
    BY <1>10, SwitchWriters DEF InsertAnchor, TypeOK
  <2>3. Row(Anchor(s), began[s]).id[2] # "partial"
    BY AnchorRow, SwitchWriters
  <2> QED BY <2>1, <2>2, <2>3, FoundKept
<1>11. ASSUME NEW w \in Writers, InsertPlain(w) PROVE FoundInv'
  <2>1. /\ messages \subseteq messages' /\ messages' \subseteq messages \cup {Row(w, clock)}
        /\ truncations' = truncations /\ found' = found /\ pc' = pc /\ writing[w] # "saved"
    BY <1>11 DEF InsertPlain, requestVars, boundVars
  <2>2. \A v \in Writers : writing[v] = "saved" => writing'[v] = "saved"
    BY <1>11 DEF InsertPlain, TypeOK
  <2>3. Row(w, clock).id = w
    BY <1>11, PlainRow DEF InsertPlain
  <2> QED BY <2>1, <2>2, <2>3, FoundKept
<1>12. ASSUME NEW r \in Requests, FindPartial(r) PROVE FoundInv'
  <2>1. /\ messages' = messages /\ truncations' = truncations
        /\ \A q \in Requests : q # r => pc'[q] = pc[q] /\ found'[q] = found[q]
    BY <1>12 DEF FindPartial, Goto, boundVars, TypeOK
  <2>2. \A w \in Writers : w[2] = "partial" /\ writing[w] = "saved" => writing'[w] = "saved"
    BY <1>12, RequestWriters DEF FindPartial, TypeOK
  <2>3. ASSUME pc'[r] = "merge" PROVE \E m \in messages : m.of = r /\ m.partial /\ found'[r] = m.id
    BY <1>12, <2>3 DEF FindPartial, Goto, Partials, TypeOK
  <2>4. \A m \in messages : m.partial => m.id \in Writers /\ m.id[2] = "partial" /\ writing[m.id] = "saved"
    BY DEF RowInv, AllRows, TypeOK, Rows
  <2>5. \A m, n \in messages : m.id = n.id => m = n
    BY DEF RowInv
  <2> QED BY <2>1, <2>2, <2>3, <2>4, <2>5 DEF FoundInv
<1>13. ASSUME NEW r \in Requests, MergePartial(r) PROVE FoundInv'
  <2>1. /\ messages' = Merged(r) /\ truncations' = truncations /\ found' = found /\ writing' = writing
        /\ pc[r] = "merge" /\ pc'[r] # "merge" /\ \A q \in Requests : q # r => pc'[q] = pc[q]
    BY <1>13 DEF MergePartial, Goto, writeVars, boundVars, TypeOK
  <2>2. /\ \A x \in messages' : \E m \in messages : MergesTo(r, m, x)
        /\ \A m \in messages : \E x \in messages' : MergesTo(r, m, x)
    BY <2>1, MergedRows
  <2>3. ASSUME NEW q \in Requests, pc'[q] = "merge"
        PROVE  /\ found[q] \in Writers /\ found[q][2] = "partial" /\ writing[found[q]] = "saved"
               /\ \A x \in messages' : x.id = found[q] => x.of = q /\ x.partial
               /\ truncations = 0 => \E x \in messages' : x.id = found[q]
    <3>1. pc[q] = "merge" /\ q # r
      BY <2>1, <2>3
    <3>2. \A m \in messages : m.id = found[q] => m.id # found[r]
      BY <2>1, <3>1 DEF FoundInv
    <3> QED BY <2>2, <3>1, <3>2 DEF FoundInv, MergesTo
  <2> QED BY <2>1, <2>3 DEF FoundInv
<1> QED BY <1>1, <1>2, <1>3, <1>4, <1>5, <1>6, <1>7, <1>8, <1>9, <1>10, <1>11, <1>12, <1>13, Deletions
        DEF Next, RequestStep, SwitchStep, Write, DeadlockDetected

-----------------------------------------------------------------------------
(* Stamps. *)

LEMMA StampKept ==
    ASSUME TypeOK, StampInv, clock' \in Nat, clock' >= clock,
           \A p \in Requests : began'[p] = began[p],
           \A p \in Switches : began'[p] = began[p] \/ began'[p] < clock',
           \A x \in AllRows' : \/ x \in AllRows
                               \/ x.at < clock' /\ \A r \in Requests : x.id = Reply(r) => x.at = began[r],
           \A x \in messages' : x.partial => x \in messages \/ (x.at \in Nat /\ x.at >= clock),
           \A r \in Requests : writing'[Reply(r)] # "no" => writing[Reply(r)] # "no"
    PROVE  StampInv'
<1>1. \A m \in AllRows : m.at \in Nat
  BY DEF TypeOK, Rows, AllRows
<1>2. clock \in Nat /\ \A p \in Requests \cup Switches : began[p] \in Nat
  BY DEF TypeOK
<1>3. \A p \in Requests \cup Switches : began'[p] < clock'
  BY <1>2 DEF StampInv
<1>4. \A m \in AllRows' : m.at < clock'
  BY <1>1, <1>2 DEF StampInv
<1>5. \A r \in Requests : writing'[Reply(r)] # "no" => \A p \in Partials(r)' : p.at > began'[r]
  BY <1>1, <1>2 DEF StampInv, Partials, AllRows
<1>6. \A r \in Requests : \A m \in AllRows' : m.id = Reply(r) => m.at = began'[r]
  BY DEF StampInv
<1> QED BY <1>3, <1>4, <1>5, <1>6 DEF StampInv

LEMMA StepStamp ==
    ASSUME TypeOK, PlaceInv, RowInv, StampInv, [Next]_vars
    PROVE  StampInv'
<1>0. clock \in Nat /\ clock >= clock /\ (ClockTicks => clock' \in Nat /\ clock' > clock /\ clock' >= clock)
  BY Ticks DEF TypeOK
<1>1. ASSUME NEW r \in Requests, \/ Open(r) \/ Asked(r) \/ StartRun(r) \/ LoopFails(r)
                                \/ FinishRun(r) \/ PageCloses(r) \/ SavePartial(r)
      PROVE  StampInv'
  <2>1. messages' = messages /\ uncommitted' = uncommitted /\ began' = began /\ clock' \in Nat /\ clock' >= clock
    BY <1>0, <1>1 DEF Open, Asked, StartRun, LoopFails, FinishRun, PageCloses, SavePartial, rowVars
  <2>2. \A q \in Requests : writing'[Reply(q)] = writing[Reply(q)]
    BY <1>1, RequestWriters
       DEF Open, Asked, StartRun, LoopFails, FinishRun, PageCloses, SavePartial, writeVars, TypeOK
  <2> QED BY <2>1, <2>2, StampKept DEF AllRows
<1>2. ASSUME NEW s \in Switches, (\E g \in Agents : ReadAgent(s, g)) \/ UpdateAgent(s) PROVE StampInv'
  <2>1. messages' = messages /\ uncommitted' = uncommitted /\ began' = began /\ clock' = clock
    BY <1>2 DEF ReadAgent, UpdateAgent, rowVars
  <2>2. \A q \in Requests : writing'[Reply(q)] = writing[Reply(q)]
    BY <1>2, RequestWriters, SwitchWriters DEF ReadAgent, UpdateAgent, writeVars, TypeOK
  <2> QED BY <1>0, <2>1, <2>2, StampKept DEF AllRows
<1>3. ASSUME NEW s \in Switches, BeginSwitch(s) PROVE StampInv'
  <2>1. /\ messages' = messages /\ uncommitted' = uncommitted /\ writing' = writing /\ ClockTicks
        /\ began' = [began EXCEPT ![s] = clock]
    BY <1>3 DEF BeginSwitch, writeVars
  <2>2. /\ \A p \in Requests : began'[p] = began[p]
        /\ \A p \in Switches : began'[p] = began[p] \/ began'[p] < clock'
    BY <1>0, <2>1, KindsAreApart DEF TypeOK
  <2> QED BY <1>0, <2>1, <2>2, StampKept DEF AllRows
<1>4. ASSUME NEW r \in Requests, CommitReply(r) PROVE StampInv'
  <2>1. began' = began /\ clock' = clock /\ writing' = writing
    BY <1>4 DEF CommitReply, writeVars
  <2>2. AllRows' \subseteq AllRows /\ \A x \in messages' : x \in messages \/ ~x.partial
    BY <1>4, RequestWriters DEF CommitReply, AllRows, RowInv
  <2> QED BY <1>0, <2>1, <2>2, StampKept
<1>5. ASSUME NEW r \in Requests, NEW s \in Switches, AbortReply(r, s) \/ AbortSwitch(r, s) PROVE StampInv'
  <2>1. messages' = messages /\ uncommitted' \subseteq uncommitted /\ began' = began /\ clock' = clock
    BY <1>5 DEF AbortReply, AbortSwitch
  <2>2. \A q \in Requests : writing'[Reply(q)] # "no" => writing[Reply(q)] # "no"
    BY <1>5, RequestWriters, SwitchWriters
       DEF AbortReply, AbortSwitch, Deadlocked, TypeOK, PlaceInv, RequestPlace
  <2> QED BY <1>0, <2>1, <2>2, StampKept DEF AllRows
<1>6. ASSUME NEW D, DeleteRows(D) PROVE StampInv'
  <2>1. messages' \subseteq messages /\ uncommitted' = uncommitted /\ began' = began /\ clock' = clock /\ writing' = writing
    BY <1>6 DEF DeleteRows, writeVars
  <2> QED BY <1>0, <2>1, StampKept DEF AllRows
<1>7. CASE Crash
  <2>1. messages' = messages /\ uncommitted' = {} /\ began' = began /\ clock' = clock
    BY <1>7 DEF Crash
  <2>2. \A q \in Requests : writing'[Reply(q)] # "no" => writing[Reply(q)] # "no"
    BY <1>7, RequestWriters DEF Crash
  <2> QED BY <1>0, <2>1, <2>2, StampKept DEF AllRows
<1>8. CASE UNCHANGED vars
  <2>1. messages' = messages /\ uncommitted' = uncommitted /\ began' = began /\ clock' = clock /\ writing' = writing
    BY <1>8 DEF vars, rowVars, writeVars
  <2> QED BY <1>0, <2>1, StampKept DEF AllRows
<1>9. ASSUME NEW w \in Writers, SelectMax(w) PROVE StampInv'
  <2>1. messages' = messages /\ uncommitted' = uncommitted /\ began' = began /\ clock' = clock
    BY <1>9 DEF SelectMax, rowVars
  <2>2. \A q \in Requests : writing'[Reply(q)] # "no" => writing[Reply(q)] # "no"
    BY <1>9, RequestWriters DEF SelectMax, TypeOK
  <2> QED BY <1>0, <2>1, <2>2, StampKept DEF AllRows
<1>10. ASSUME NEW r \in Requests, InsertReply(r) PROVE StampInv'
  <2> DEFINE x == Row(Reply(r), began[r])
  <2>1. x.id = Reply(r) /\ x.at = began[r]
    BY ReplyRow
  <2>2. messages' = messages /\ uncommitted' \subseteq uncommitted \cup {x} /\ began' = began /\ clock' = clock
    BY <1>10 DEF InsertReply
  <2>3. \A q \in Requests : writing'[Reply(q)] # "no" => writing[Reply(q)] # "no"
    BY <1>10, RequestWriters DEF InsertReply, TypeOK
  <2>4. x.at < clock /\ \A q \in Requests : x.id = Reply(q) => x.at = began[q]
    BY <2>1, RequestWriters DEF StampInv
  <2> HIDE DEF x
  <2> QED BY <1>0, <2>2, <2>3, <2>4, StampKept DEF AllRows
<1>11. ASSUME NEW s \in Switches, InsertAnchor(s) PROVE StampInv'
  <2> DEFINE x == Row(Anchor(s), began[s])
  <2>1. x.id = Anchor(s) /\ x.at = began[s] /\ ~x.partial
    BY AnchorRow
  <2>2. messages' \subseteq messages \cup {x} /\ uncommitted' = uncommitted /\ began' = began /\ clock' = clock
    BY <1>11 DEF InsertAnchor
  <2>3. \A q \in Requests : writing'[Reply(q)] # "no" => writing[Reply(q)] # "no"
    BY <1>11, RequestWriters, SwitchWriters DEF InsertAnchor, TypeOK
  <2>4. x.at < clock /\ \A q \in Requests : x.id # Reply(q)
    BY <2>1, RequestWriters, SwitchWriters DEF StampInv
  <2> HIDE DEF x
  <2> QED BY <1>0, <2>1, <2>2, <2>3, <2>4, StampKept DEF AllRows
<1>12. ASSUME NEW w \in Writers, InsertPlain(w) PROVE StampInv'
  <2> DEFINE x == Row(w, clock)
  <2>1. x.id = w /\ x.at = clock
    BY <1>12, PlainRow DEF InsertPlain
  <2>2. /\ \/ messages' = messages /\ clock' = clock
           \/ messages' = messages \cup {x} /\ ClockTicks
        /\ uncommitted' = uncommitted /\ began' = began
    BY <1>12 DEF InsertPlain
  <2>3. \A q \in Requests : w # Reply(q) /\ writing'[Reply(q)] = writing[Reply(q)]
    BY <1>12, RequestWriters DEF InsertPlain, TypeOK
  <2> HIDE DEF x
  <2> QED BY <1>0, <2>1, <2>2, <2>3, StampKept DEF AllRows
<1>13. ASSUME NEW r \in Requests, MergePartial(r) PROVE StampInv'
  <2>1. /\ messages' = Merged(r) /\ uncommitted' = uncommitted /\ began' = began /\ clock' = clock /\ writing' = writing
    BY <1>13 DEF MergePartial, writeVars
  <2>2. \A x \in messages' : \E m \in messages : MergesTo(r, m, x)
    BY <2>1, MergedRows
  <2>3. \A x \in messages' : /\ x.at < clock
                             /\ \A q \in Requests : x.id = Reply(q) => x.at = began[q]
    BY <2>2 DEF StampInv, AllRows, MergesTo
  <2>4. \A x \in messages' : x.partial => x \in messages
    BY <2>2 DEF MergesTo
  <2> QED BY <1>0, <2>1, <2>3, <2>4, StampKept DEF AllRows
<1>14. ASSUME NEW r \in Requests, FindPartial(r) PROVE StampInv'
  <2>1. /\ messages' = messages /\ uncommitted' = uncommitted /\ ClockTicks /\ pc[r] = "loop"
        /\ began' = [began EXCEPT ![r] = clock]
    BY <1>14 DEF FindPartial
  <2>2. /\ \A q \in Requests : q # r => writing'[Reply(q)] = writing[Reply(q)]
        /\ Partials(r) # {} => writing' = writing
    <3>1. \/ Partials(r) # {} /\ writing' = writing
          \/ Partials(r) = {} /\ writing' = [writing EXCEPT ![Reply(r)] = "pick"]
      BY <1>14 DEF FindPartial
    <3>2. \A q \in Requests : q # r => Reply(q) # Reply(r)
      BY DEF Reply
    <3>3. CASE Partials(r) # {} /\ writing' = writing
      BY <3>3
    <3>4. CASE Partials(r) = {} /\ writing' = [writing EXCEPT ![Reply(r)] = "pick"]
      <4>1. \A q \in Requests : Reply(q) \in DOMAIN writing
        BY RequestWriters DEF TypeOK
      <4> QED BY <3>2, <3>4, <4>1
    <3> QED BY <3>1, <3>3, <3>4
  <2>3. writing[Reply(r)] = "no"
    BY <2>1 DEF PlaceInv, RequestPlace
  <2>4. \A m \in AllRows : m.id # Reply(r)
    BY <2>3 DEF RowInv
  <2>5. \A p \in Requests \cup Switches : began'[p] < clock'
    BY <1>0, <2>1 DEF StampInv, TypeOK
  <2>6. \A m \in AllRows' : m.at < clock'
    BY <1>0, <2>1 DEF StampInv, AllRows, TypeOK, Rows
  <2>7. \A q \in Requests : writing'[Reply(q)] # "no" => \A p \in Partials(q)' : p.at > began'[q]
    BY <2>1, <2>2, <2>3 DEF StampInv, Partials, TypeOK
  <2>8. \A q \in Requests : \A m \in AllRows' : m.id = Reply(q) => m.at = began'[q]
    BY <2>1, <2>4 DEF StampInv, AllRows, TypeOK
  <2> QED BY <2>5, <2>6, <2>7, <2>8 DEF StampInv
<1> QED BY <1>1, <1>2, <1>3, <1>4, <1>5, <1>6, <1>7, <1>8, <1>9, <1>10, <1>11, <1>12, <1>13, <1>14, Deletions
        DEF Next, RequestStep, SwitchStep, Write, DeadlockDetected

-----------------------------------------------------------------------------
(* Totals. *)

Finals == {m \in messages : Final(m)}

LEMMA CountKept ==
    ASSUME CountInv, IsFiniteSet(messages'), overlap => overlap', totals' = totals,
           \A r \in Requests : pc'[r] \in Unsaved => pc[r] \in Unsaved /\ snapshot'[r] = snapshot[r],
           truncations' # 0 \/ (truncations = 0 /\ Finals' = Finals)
    PROVE  CountInv'
<1>1. ~overlap' /\ truncations' = 0 => totals' = Cardinality(Finals')
  BY DEF CountInv, TotalsAddUp, Finals
<1>2. TotalsAddUp'
  BY <1>1 DEF TotalsAddUp, Finals
<1> QED BY <1>2 DEF CountInv

\* One more final reply, and the request that counts it was the only one.
LEMMA CountedOnce ==
    ASSUME TypeOK, CountInv, NEW r \in Requests, IsFiniteSet(messages'), overlap' = overlap,
           pc[r] \in Unsaved, pc'[r] \notin Unsaved,
           \A q \in Requests : q # r => pc'[q] = pc[q],
           totals' = snapshot[r] + 1,
           truncations' = truncations,
           truncations = 0 => \E x : x \notin Finals /\ Finals' = Finals \cup {x}
    PROVE  CountInv'
<1>1. ~overlap' => \A q \in Requests : pc'[q] \notin Unsaved
  BY DEF CountInv
<1>2. ASSUME ~overlap', truncations' = 0 PROVE totals' = Cardinality(Finals')
  <2>1. totals' = totals + 1 /\ totals = Cardinality(Finals) /\ totals \in Nat
    BY <1>2 DEF CountInv, TotalsAddUp, Finals, TypeOK
  <2>2. IsFiniteSet(Finals)
    <3>1. IsFiniteSet(messages) /\ Finals \subseteq messages
      BY DEF CountInv, Finals
    <3> QED BY <3>1, FS_Subset
  <2>3. PICK x : x \notin Finals /\ Finals' = Finals \cup {x}
    BY <1>2
  <2>4. Cardinality(Finals') = Cardinality(Finals) + 1
    BY <2>2, <2>3, FS_AddElement
  <2> QED BY <2>1, <2>4
<1>3. TotalsAddUp'
  BY <1>2 DEF TotalsAddUp, Finals
<1> QED BY <1>1, <1>3 DEF CountInv

LEMMA StepCount ==
    ASSUME TypeOK, PlaceInv, RowInv, FoundInv, CountInv, [Next]_vars
    PROVE  CountInv'
<1>0. IsFiniteSet(messages)
  BY DEF CountInv
<1>1. ASSUME NEW r \in Requests, Asked(r) \/ StartRun(r) \/ LoopFails(r) \/ FindPartial(r) \/ FinishRun(r)
      PROVE  CountInv'
  <2>1. /\ messages' = messages /\ overlap' = overlap /\ totals' = totals /\ truncations' = truncations
        /\ snapshot' = snapshot
    BY <1>1 DEF Asked, StartRun, LoopFails, FindPartial, FinishRun, rowVars, boundVars
  <2>2. \A q \in Requests : pc'[q] \in Unsaved => pc[q] \in Unsaved
    BY <1>1 DEF Asked, StartRun, LoopFails, FindPartial, FinishRun, Goto, Unsaved, TypeOK
  <2> QED BY <1>0, <2>1, <2>2, CountKept DEF Finals
<1>2. ASSUME NEW r \in Requests, PageCloses(r) \/ SavePartial(r) PROVE CountInv'
  <2>1. /\ messages' = messages /\ overlap' = overlap /\ totals' = totals /\ truncations' = truncations
        /\ snapshot' = snapshot /\ pc' = pc
    BY <1>2 DEF PageCloses, SavePartial, rowVars, requestVars, boundVars
  <2> QED BY <1>0, <2>1, CountKept DEF Finals
<1>3. ASSUME NEW s \in Switches, (\E g \in Agents : ReadAgent(s, g)) \/ BeginSwitch(s) \/ UpdateAgent(s) PROVE CountInv'
  <2>1. /\ messages' = messages /\ overlap' = overlap /\ totals' = totals /\ truncations' = truncations
        /\ snapshot' = snapshot /\ pc' = pc
    BY <1>3 DEF ReadAgent, BeginSwitch, UpdateAgent, rowVars, requestVars, boundVars
  <2> QED BY <1>0, <2>1, CountKept DEF Finals
<1>4. ASSUME NEW r \in Requests, NEW s \in Switches, AbortReply(r, s) \/ AbortSwitch(r, s) PROVE CountInv'
  <2>1. /\ messages' = messages /\ overlap' = overlap /\ totals' = totals /\ truncations' = truncations
        /\ snapshot' = snapshot
    BY <1>4 DEF AbortReply, AbortSwitch, requestVars, boundVars
  <2>2. \A q \in Requests : pc'[q] \in Unsaved => pc[q] \in Unsaved
    BY <1>4 DEF AbortReply, AbortSwitch, requestVars, Goto, Unsaved, TypeOK
  <2> QED BY <1>0, <2>1, <2>2, CountKept DEF Finals
<1>5. ASSUME NEW D, DeleteRows(D) PROVE CountInv'
  <2>1. messages' \subseteq messages /\ overlap' = overlap /\ totals' = totals /\ snapshot' = snapshot /\ pc' = pc
    BY <1>5 DEF DeleteRows, requestVars
  <2>2. truncations' # 0
    BY <1>5 DEF DeleteRows, TypeOK
  <2>3. IsFiniteSet(messages')
    BY <1>0, <2>1, FS_Subset
  <2> QED BY <2>1, <2>2, <2>3, CountKept
<1>6. CASE Crash
  <2>1. /\ messages' = messages /\ overlap' = overlap /\ totals' = totals /\ truncations' = truncations
        /\ snapshot' = snapshot
    BY <1>6 DEF Crash
  <2>2. \A q \in Requests : pc'[q] \notin Unsaved
    BY <1>6 DEF Crash, Unsaved
  <2> QED BY <1>0, <2>1, <2>2, CountKept DEF Finals
<1>7. CASE UNCHANGED vars
  <2>1. /\ messages' = messages /\ overlap' = overlap /\ totals' = totals /\ truncations' = truncations
        /\ snapshot' = snapshot /\ pc' = pc
    BY <1>7 DEF vars, rowVars, requestVars, boundVars
  <2> QED BY <1>0, <2>1, CountKept DEF Finals
<1>8. ASSUME NEW w \in Writers, SelectMax(w) PROVE CountInv'
  <2>1. /\ messages' = messages /\ overlap' = overlap /\ totals' = totals /\ truncations' = truncations
        /\ snapshot' = snapshot /\ pc' = pc
    BY <1>8 DEF SelectMax, rowVars, requestVars, boundVars
  <2> QED BY <1>0, <2>1, CountKept DEF Finals
<1>9. ASSUME NEW r \in Requests, InsertReply(r) PROVE CountInv'
  <2>1. /\ messages' = messages /\ overlap' = overlap /\ totals' = totals /\ truncations' = truncations
        /\ snapshot' = snapshot
    BY <1>9 DEF InsertReply, boundVars
  <2>2. \A q \in Requests : pc'[q] \in Unsaved => pc[q] \in Unsaved
    BY <1>9 DEF InsertReply, Goto, Unsaved, TypeOK
  <2> QED BY <1>0, <2>1, <2>2, CountKept DEF Finals
<1>10. ASSUME NEW s \in Switches, InsertAnchor(s) PROVE CountInv'
  <2> DEFINE x == Row(Anchor(s), began[s])
  <2>1. ~Final(x)
    BY AnchorRow, SwitchWriters DEF Final
  <2>2. /\ messages' = messages \/ messages' = messages \cup {x}
        /\ overlap' = overlap /\ totals' = totals /\ truncations' = truncations /\ snapshot' = snapshot /\ pc' = pc
    BY <1>10 DEF InsertAnchor, requestVars, boundVars
  <2> HIDE DEF x
  <2>3. IsFiniteSet(messages')
    BY <1>0, <2>2, FS_AddElement
  <2>4. Finals' = Finals
    BY <2>1, <2>2 DEF Finals
  <2> QED BY <2>2, <2>3, <2>4, CountKept
<1>11. ASSUME NEW w \in Writers, InsertPlain(w) PROVE CountInv'
  <2> DEFINE x == Row(w, clock)
  <2>1. ~Final(x)
    BY <1>11, PlainRow, RequestWriters DEF Final, InsertPlain
  <2>2. /\ messages' = messages \/ messages' = messages \cup {x}
        /\ overlap' = overlap /\ totals' = totals /\ truncations' = truncations /\ snapshot' = snapshot /\ pc' = pc
    BY <1>11 DEF InsertPlain, requestVars, boundVars
  <2> HIDE DEF x
  <2>3. IsFiniteSet(messages')
    BY <1>0, <2>2, FS_AddElement
  <2>4. Finals' = Finals
    BY <2>1, <2>2 DEF Finals
  <2> QED BY <2>2, <2>3, <2>4, CountKept
<1>12. ASSUME NEW r \in Requests, Open(r) PROVE CountInv'
  <2>1. /\ messages' = messages /\ totals' = totals /\ truncations' = truncations
        /\ snapshot' = [snapshot EXCEPT ![r] = totals]
        /\ overlap' = (overlap \/ \E q \in Requests : pc[q] \in Unsaved)
        /\ \A q \in Requests : q # r => pc'[q] = pc[q]
    BY <1>12 DEF Open, Goto, rowVars, boundVars, TypeOK
  <2>2. ~overlap' => ~overlap /\ \A q \in Requests : q # r => pc'[q] \notin Unsaved
    BY <2>1
  <2>3. snapshot'[r] = totals
    BY <2>1 DEF TypeOK
  <2>4. TotalsAddUp'
    BY <2>1, <2>2 DEF CountInv, TotalsAddUp
  <2> QED BY <1>0, <2>1, <2>2, <2>3, <2>4 DEF CountInv
<1>13. ASSUME NEW r \in Requests, CommitReply(r) PROVE CountInv'
  <2>1. /\ messages' = messages \cup {m \in uncommitted : m.id = Reply(r)} /\ pc[r] = "totals"
        /\ overlap' = overlap /\ totals' = snapshot[r] + 1 /\ truncations' = truncations
        /\ pc'[r] = "saved" /\ \A q \in Requests : q # r => pc'[q] = pc[q]
    BY <1>13 DEF CommitReply, Goto, boundVars, TypeOK
  <2>2. PICK x \in uncommitted : x.id = Reply(r)
    BY <2>1 DEF RowInv
  <2>3. messages' = messages \cup {x}
    BY <2>1, <2>2 DEF RowInv
  <2>4. x \notin messages /\ Final(x)
    BY <2>2, RequestWriters DEF RowInv, AllRows, Final
  <2>5. x \notin Finals /\ Finals' = Finals \cup {x}
    BY <2>3, <2>4 DEF Finals
  <2>6. IsFiniteSet(messages')
    BY <1>0, <2>3, FS_AddElement
  <2>7. pc[r] \in Unsaved /\ pc'[r] \notin Unsaved
    BY <2>1 DEF Unsaved
  <2> QED BY <2>1, <2>5, <2>6, <2>7, CountedOnce
<1>14. ASSUME NEW r \in Requests, MergePartial(r) PROVE CountInv'
  <2>1. /\ messages' = Merged(r) /\ pc[r] = "merge"
        /\ overlap' = overlap /\ totals' = snapshot[r] + 1 /\ truncations' = truncations
        /\ pc'[r] \notin Unsaved /\ \A q \in Requests : q # r => pc'[q] = pc[q]
    BY <1>14 DEF MergePartial, Goto, boundVars, TypeOK, Unsaved
  <2>2. /\ \A x \in messages' : \E m \in messages : MergesTo(r, m, x)
        /\ \A m \in messages : \E x \in messages' : MergesTo(r, m, x)
    BY <2>1, MergedRows
  <2>3. CASE \A m \in messages : m.id # found[r]
    <3>1. messages' = messages
      BY <2>2, <2>3 DEF MergesTo
    <3>2. truncations # 0
      BY <2>1, <2>3 DEF FoundInv
    <3>3. pc[r] \in Unsaved
      BY <2>1 DEF Unsaved
    <3> QED BY <1>0, <2>1, <3>1, <3>2, <3>3, CountedOnce
  <2>4. CASE \E m \in messages : m.id = found[r]
    <3>1. PICK m \in messages : m.id = found[r]
      BY <2>4
    <3>2. PICK x \in messages' : MergesTo(r, m, x)
      BY <2>2
    <3>3. \A n \in messages : n.id = found[r] => n = m
      BY <3>1 DEF RowInv
    <3>4. m.partial /\ found[r][2] = "partial"
      BY <2>1, <3>1 DEF FoundInv
    <3>5. x.id = found[r] /\ ~x.partial
      BY <3>1, <3>2 DEF MergesTo
    <3>6. RowInv'
      BY StepRows
    <3>7. messages' = (messages \ {m}) \cup {x}
      <4>1. \A y \in messages' : y \in (messages \ {m}) \cup {x}
        BY <2>2, <3>1, <3>3, <3>5, <3>6 DEF MergesTo, RowInv
      <4>2. \A n \in messages \ {m} : n \in messages'
        BY <2>2, <3>3 DEF MergesTo
      <4> QED BY <4>1, <4>2
    <3>8. ~Final(m) /\ Final(x)
      BY <3>4, <3>5 DEF Final
    <3>9. x \notin messages
      BY <3>3, <3>4, <3>5
    <3>10. x \notin Finals /\ Finals' = Finals \cup {x}
      BY <3>7, <3>8, <3>9 DEF Finals
    <3>11. IsFiniteSet(messages')
      <4>1. IsFiniteSet(messages \ {m})
        BY <1>0, FS_Subset
      <4> QED BY <3>7, <4>1, FS_AddElement
    <3>12. pc[r] \in Unsaved
      BY <2>1 DEF Unsaved
    <3> QED BY <2>1, <3>10, <3>11, <3>12, CountedOnce
  <2> QED BY <2>3, <2>4
<1> QED BY <1>1, <1>2, <1>3, <1>4, <1>5, <1>6, <1>7, <1>8, <1>9, <1>10, <1>11, <1>12, <1>13, <1>14, Deletions
        DEF Next, RequestStep, SwitchStep, Write, DeadlockDetected

-----------------------------------------------------------------------------
(* Numbers. *)

LEMMA BoundedKept ==
    ASSUME TypeOK, Bounded, NEW n \in Nat \ {0},
           \A x \in AllRows' : x.seq = n \/ \E m \in AllRows : x.seq = m.seq,
           \A w \in Writers : writing'[w] = "insert" => pick'[w] > 0
    PROVE  Bounded'
<1>1. \A m \in AllRows : m.seq \in Nat /\ m.seq > 0
  BY DEF TypeOK, Rows, AllRows, Bounded
<1>2. PICK b \in Nat : \A m \in AllRows : m.seq <= b
  BY DEF Bounded
<1>3. b + n \in Nat /\ \A x \in AllRows' : x.seq <= b + n
  BY <1>1, <1>2
<1> QED BY <1>1, <1>3 DEF Bounded

\* A step that adds no row and picks no number.
LEMMA NumbersKept ==
    ASSUME TypeOK, Bounded, GapInv, AnchorInv, messages' = messages, uncommitted' \subseteq uncommitted,
           \A w \in Writers : writing'[w] = "insert" => writing[w] = "insert" /\ pick'[w] = pick[w],
           truncations' = truncations, agent' = agent
    PROVE  Bounded' /\ GapInv' /\ AnchorInv'
<1>1. Bounded'
  BY BoundedKept DEF Bounded, AllRows
<1>2. GapInv'
  BY DEF GapInv, AllRows, Taken
<1>3. AnchorInv'
  BY SwitchWriters DEF AnchorInv, LastAnchorNamesTheAgent
<1> QED BY <1>1, <1>2, <1>3

\* In a gapless sequence, a number that is not taken while those before it are
\* is above all that are taken.
LEMMA AboveAll ==
    ASSUME TypeOK, Bounded, GapInv, truncations = 0, NEW n \in Nat, n > 0, ~Taken(n)
    PROVE  \A m \in messages : m.seq < n
<1> SUFFICES ASSUME NEW m \in messages, ~(m.seq < n) PROVE FALSE
  OBVIOUS
<1>1. m.seq \in Nat /\ m.seq # n
  BY DEF TypeOK, Rows, Taken
<1>2. n \in 1..m.seq - 1
  BY <1>1
<1> QED BY <1>2 DEF GapInv, AllRows

\* A row is committed: a question's stamp is the latest.
LEMMA GapCommitted ==
    ASSUME TypeOK, Bounded, GapInv, NEW x \in Rows, messages' = messages \cup {x},
           uncommitted' \subseteq uncommitted, x.seq > 0, ~Taken(x.seq),
           truncations = 0 => \A k \in 1..x.seq - 1 : Taken(k),
           \A m \in uncommitted' : m.seq # x.seq,
           x.id[2] = "user" => \A y \in messages : y.at <= x.at,
           \A w \in Writers : writing'[w] = "insert" => writing[w] = "insert" /\ pick'[w] = pick[w],
           truncations' = truncations
    PROVE  GapInv'
<1> SUFFICES ASSUME truncations = 0 PROVE GapInv'
  BY DEF GapInv
<1>1. \A n : Taken(n)' <=> Taken(n) \/ n = x.seq
  BY DEF Taken
<1>2. \A m \in AllRows' : m \in AllRows \/ m = x
  BY DEF AllRows
<1>3. x.seq \in Nat /\ x.at \in Nat /\ \A m \in messages : m.seq < x.seq
  BY AboveAll DEF Rows
<1>4. \A m \in AllRows' : \A n \in 1..m.seq - 1 : Taken(n)'
  BY <1>1, <1>2 DEF GapInv
<1>5. \A m \in uncommitted' : ~Taken(m.seq)'
  BY <1>1 DEF GapInv
<1>6. \A m, n \in uncommitted' : m.seq = n.seq => m = n
  BY DEF GapInv
<1>7. \A w \in Writers : writing'[w] = "insert" => \A n \in 1..pick'[w] - 1 : Taken(n)'
  BY <1>1 DEF GapInv
<1>8. \A u, y \in messages' : u.id[2] = "user" /\ y.at > u.at => y.seq > u.seq
  <2> SUFFICES ASSUME NEW u \in messages', NEW y \in messages', u.id[2] = "user", y.at > u.at PROVE y.seq > u.seq
    OBVIOUS
  <2>1. u.at \in Nat /\ y.at \in Nat /\ u.seq \in Nat /\ y.seq \in Nat
    BY DEF TypeOK, Rows
  <2>2. CASE u \in messages /\ y \in messages
    BY <2>2 DEF GapInv
  <2>3. CASE u \in messages /\ y = x
    BY <1>3, <2>1, <2>3
  <2>4. CASE u = x
    BY <1>3, <2>1, <2>4
  <2> QED BY <2>2, <2>3, <2>4
<1> QED BY <1>4, <1>5, <1>6, <1>7, <1>8 DEF GapInv

LEMMA StepNumbers ==
    ASSUME TypeOK, PlaceInv, RowInv, FoundInv, StampInv, Bounded, GapInv, AnchorInv, [Next]_vars
    PROVE  Bounded' /\ GapInv' /\ AnchorInv'
<1>0. \A w \in Writers : writing[w] = "insert" => pick[w] \in Nat \ {0}
  BY DEF Bounded, TypeOK
<1>1. ASSUME NEW r \in Requests, \/ Open(r) \/ Asked(r) \/ StartRun(r) \/ LoopFails(r) \/ FindPartial(r)
                                \/ FinishRun(r) \/ PageCloses(r) \/ SavePartial(r)
      PROVE  Bounded' /\ GapInv' /\ AnchorInv'
  <2>1. messages' = messages /\ uncommitted' = uncommitted /\ truncations' = truncations /\ agent' = agent /\ pick' = pick
    BY <1>1 DEF Open, Asked, StartRun, LoopFails, FindPartial, FinishRun, PageCloses, SavePartial,
                rowVars, writeVars, boundVars
  <2>2. \A w \in Writers : writing'[w] = "insert" => writing[w] = "insert"
    BY <1>1, RequestWriters
       DEF Open, Asked, StartRun, LoopFails, FindPartial, FinishRun, PageCloses, SavePartial, writeVars, TypeOK
  <2> QED BY <2>1, <2>2, NumbersKept
<1>2. ASSUME NEW s \in Switches, (\E g \in Agents : ReadAgent(s, g)) \/ BeginSwitch(s) \/ UpdateAgent(s)
      PROVE  Bounded' /\ GapInv' /\ AnchorInv'
  <2>1. messages' = messages /\ uncommitted' = uncommitted /\ truncations' = truncations /\ agent' = agent /\ pick' = pick
    BY <1>2 DEF ReadAgent, BeginSwitch, UpdateAgent, rowVars, writeVars, boundVars
  <2>2. \A w \in Writers : writing'[w] = "insert" => writing[w] = "insert"
    BY <1>2, SwitchWriters DEF ReadAgent, BeginSwitch, UpdateAgent, writeVars, TypeOK
  <2> QED BY <2>1, <2>2, NumbersKept
<1>3. ASSUME NEW r \in Requests, NEW s \in Switches, AbortReply(r, s) \/ AbortSwitch(r, s)
      PROVE  Bounded' /\ GapInv' /\ AnchorInv'
  <2>1. /\ messages' = messages /\ uncommitted' \subseteq uncommitted /\ truncations' = truncations
        /\ agent' = agent /\ pick' = pick
    BY <1>3 DEF AbortReply, AbortSwitch, boundVars
  <2>2. \A w \in Writers : writing'[w] = "insert" => writing[w] = "insert"
    BY <1>3, RequestWriters, SwitchWriters DEF AbortReply, AbortSwitch, TypeOK
  <2> QED BY <2>1, <2>2, NumbersKept
<1>4. CASE Crash
  <2>1. messages' = messages /\ uncommitted' = {} /\ truncations' = truncations /\ agent' = agent /\ pick' = pick
    BY <1>4 DEF Crash
  <2>2. \A w \in Writers : writing'[w] = "insert" => writing[w] = "insert"
    BY <1>4 DEF Crash
  <2> QED BY <2>1, <2>2, NumbersKept
<1>5. CASE UNCHANGED vars
  <2>1. /\ messages' = messages /\ uncommitted' = uncommitted /\ truncations' = truncations /\ agent' = agent
        /\ pick' = pick /\ writing' = writing
    BY <1>5 DEF vars, rowVars, writeVars, boundVars
  <2> QED BY <2>1, NumbersKept
<1>6. ASSUME NEW D, DeleteRows(D) PROVE Bounded' /\ GapInv' /\ AnchorInv'
  <2>1. /\ messages' \subseteq messages /\ uncommitted' = uncommitted /\ truncations' # 0
        /\ writing' = writing /\ pick' = pick
    BY <1>6 DEF DeleteRows, writeVars, TypeOK
  <2>2. Bounded'
    BY <2>1, BoundedKept DEF Bounded, AllRows
  <2>3. AnchorInv'
    BY <2>1 DEF AnchorInv, LastAnchorNamesTheAgent
  <2> QED BY <2>1, <2>2, <2>3 DEF GapInv
<1>7. ASSUME NEW w \in Writers, SelectMax(w) PROVE Bounded' /\ GapInv' /\ AnchorInv'
  <2>1. /\ messages' = messages /\ uncommitted' = uncommitted /\ truncations' = truncations /\ agent' = agent
        /\ pick' = [pick EXCEPT ![w] = MaxPlusOne] /\ writing' = [writing EXCEPT ![w] = "insert"]
    BY <1>7 DEF SelectMax, rowVars, boundVars
  <2>2. /\ MaxPlusOne \in Nat \ {0}
        /\ \A m \in messages : m.seq < MaxPlusOne
        /\ MaxPlusOne # 1 => \E m \in messages : m.seq + 1 = MaxPlusOne
    BY NextNumber
  <2>3. \A v \in Writers : writing'[v] = "insert" =>
            \/ v = w /\ pick'[v] = MaxPlusOne
            \/ v # w /\ writing[v] = "insert" /\ pick'[v] = pick[v]
    BY <2>1 DEF TypeOK
  <2>4. Bounded'
    BY <1>0, <2>1, <2>2, <2>3, BoundedKept DEF AllRows
  <2>5. truncations = 0 => \A n \in 1..MaxPlusOne - 1 : Taken(n)
    <3> SUFFICES ASSUME truncations = 0, NEW n \in 1..MaxPlusOne - 1 PROVE Taken(n)
      OBVIOUS
    <3>1. PICK m \in messages : m.seq + 1 = MaxPlusOne
      BY <2>2
    <3>2. m.seq \in Nat
      BY DEF TypeOK, Rows
    <3>3. n = m.seq \/ n \in 1..m.seq - 1
      BY <2>2, <3>1, <3>2
    <3> QED BY <3>3 DEF GapInv, AllRows, Taken
  <2>6. GapInv'
    BY <2>1, <2>3, <2>5 DEF GapInv, AllRows, Taken
  <2>7. AnchorInv'
    BY <2>1, <2>2, <2>3, SwitchWriters DEF AnchorInv, LastAnchorNamesTheAgent
  <2> QED BY <2>4, <2>6, <2>7
<1>8. ASSUME NEW r \in Requests, InsertReply(r) PROVE Bounded' /\ GapInv' /\ AnchorInv'
  <2> DEFINE x == Row(Reply(r), began[r])
  <2>1. x.seq = pick[Reply(r)] /\ pick[Reply(r)] \in Nat \ {0} /\ writing[Reply(r)] = "insert"
    BY <1>0, <1>8, ReplyRow, RequestWriters DEF InsertReply
  <2>2. /\ messages' = messages /\ truncations' = truncations /\ agent' = agent
        /\ \/ uncommitted' = uncommitted
           \/ uncommitted' = uncommitted \cup {x} /\ ~Taken(pick[Reply(r)]) /\ ~Held(pick[Reply(r)])
    BY <1>8 DEF InsertReply, boundVars
  <2>3. \A w \in Writers : writing'[w] = "insert" => writing[w] = "insert" /\ pick'[w] = pick[w]
    BY <1>8, RequestWriters DEF InsertReply, TypeOK
  <2> HIDE DEF x
  <2>4. CASE uncommitted' = uncommitted
    BY <2>2, <2>3, <2>4, NumbersKept
  <2>5. CASE uncommitted' = uncommitted \cup {x} /\ ~Taken(pick[Reply(r)]) /\ ~Held(pick[Reply(r)])
    <3>1. Bounded'
      BY <1>0, <2>1, <2>2, <2>3, <2>5, BoundedKept DEF AllRows
    <3>2. GapInv'
      BY <2>1, <2>2, <2>3, <2>5, RequestWriters DEF GapInv, AllRows, Taken, Held
    <3>3. AnchorInv'
      BY <2>2, <2>3, SwitchWriters DEF AnchorInv, LastAnchorNamesTheAgent
    <3> QED BY <3>1, <3>2, <3>3
  <2> QED BY <2>2, <2>4, <2>5
<1>9. ASSUME NEW w \in Writers, InsertPlain(w) PROVE Bounded' /\ GapInv' /\ AnchorInv'
  <2> DEFINE x == Row(w, clock)
  <2>1. x \in Rows /\ x.seq = pick[w] /\ x.at = clock /\ x.id[2] # "anchor"
    BY <1>9, PlainRow, RequestWriters DEF InsertPlain
  <2>2. /\ uncommitted' = uncommitted /\ truncations' = truncations /\ agent' = agent
        /\ pick[w] \in Nat \ {0} /\ writing[w] = "insert"
        /\ \/ messages' = messages
           \/ messages' = messages \cup {x} /\ ~Taken(pick[w]) /\ ~Held(pick[w])
    BY <1>0, <1>9 DEF InsertPlain, boundVars
  <2>3. \A v \in Writers : writing'[v] = "insert" => writing[v] = "insert" /\ pick'[v] = pick[v]
    BY <1>9 DEF InsertPlain, TypeOK
  <2> HIDE DEF x
  <2>4. CASE messages' = messages
    BY <2>2, <2>3, <2>4, NumbersKept
  <2>5. CASE messages' = messages \cup {x} /\ ~Taken(pick[w]) /\ ~Held(pick[w])
    <3>1. Bounded'
      BY <1>0, <2>1, <2>2, <2>3, <2>5, BoundedKept DEF AllRows
    <3>2. truncations = 0 => \A k \in 1..x.seq - 1 : Taken(k)
      BY <2>1, <2>2 DEF GapInv
    <3>3. \A y \in messages : y.at <= x.at
      BY <2>1 DEF StampInv, AllRows, TypeOK, Rows
    <3>4. GapInv'
      BY <2>1, <2>2, <2>3, <2>5, <3>2, <3>3, GapCommitted DEF Held
    <3>5. AnchorInv'
      BY <2>1, <2>2, <2>3, <2>5, SwitchWriters DEF AnchorInv, LastAnchorNamesTheAgent
    <3> QED BY <3>1, <3>4, <3>5
  <2> QED BY <2>2, <2>4, <2>5
<1>10. ASSUME NEW s \in Switches, InsertAnchor(s) PROVE Bounded' /\ GapInv' /\ AnchorInv'
  <2> DEFINE x == Row(Anchor(s), began[s])
  <2>1. x \in Rows /\ x.seq = pick[Anchor(s)] /\ x.id[2] = "anchor" /\ x.of = target[s]
    BY AnchorRow, SwitchWriters
  <2>2. /\ uncommitted' = uncommitted /\ truncations' = truncations
        /\ pick[Anchor(s)] \in Nat \ {0} /\ writing[Anchor(s)] = "insert"
        /\ \/ messages' = messages /\ agent' = agent
           \/ messages' = messages \cup {x} /\ agent' = target[s] /\ ~Taken(pick[Anchor(s)]) /\ ~Held(pick[Anchor(s)])
    BY <1>0, <1>10, SwitchWriters DEF InsertAnchor, boundVars
  <2>3. /\ \A v \in Writers : writing'[v] = "insert" => writing[v] = "insert" /\ pick'[v] = pick[v]
        /\ writing'[Anchor(s)] # "insert"
    BY <1>10, SwitchWriters DEF InsertAnchor, TypeOK
  <2> HIDE DEF x
  <2>4. CASE messages' = messages /\ agent' = agent
    BY <2>2, <2>3, <2>4, NumbersKept
  <2>5. CASE /\ messages' = messages \cup {x} /\ agent' = target[s]
             /\ ~Taken(pick[Anchor(s)]) /\ ~Held(pick[Anchor(s)])
    <3>1. Bounded'
      BY <1>0, <2>1, <2>2, <2>3, <2>5, BoundedKept DEF AllRows
    <3>2. truncations = 0 => \A k \in 1..x.seq - 1 : Taken(k)
      BY <2>1, <2>2, SwitchWriters DEF GapInv
    <3>3. GapInv'
      BY <2>1, <2>2, <2>3, <2>5, <3>2, GapCommitted DEF Held
    <3>4. \A t \in Switches : writing'[Anchor(t)] # "insert"
      <4>1. switch[s] = "insert" /\ rowLock = s
        BY <2>2 DEF PlaceInv, SwitchPlace, Pending
      <4>2. \A t \in Switches : writing[Anchor(t)] = "insert" => t = s
        BY <4>1 DEF PlaceInv, SwitchPlace, Pending
      <4> QED BY <2>3, <4>2, SwitchWriters
    <3>5. \A b \in messages : b.id[2] = "anchor" => b.seq < x.seq
      BY <2>1, <2>2 DEF AnchorInv
    <3>6. LastAnchorNamesTheAgent'
      <4> SUFFICES ASSUME NEW a \in messages', a.id[2] = "anchor",
                          \A b \in messages' : b.id[2] = "anchor" => b.seq <= a.seq
                   PROVE  a.of = agent'
        BY DEF LastAnchorNamesTheAgent
      <4>1. a = x
        BY <2>1, <2>5, <3>5 DEF TypeOK, Rows
      <4> QED BY <2>1, <2>5, <4>1
    <3> QED BY <3>1, <3>3, <3>4, <3>6 DEF AnchorInv
  <2> QED BY <2>2, <2>4, <2>5
<1>11. ASSUME NEW r \in Requests, CommitReply(r) PROVE Bounded' /\ GapInv' /\ AnchorInv'
  <2>1. /\ messages' = messages \cup {m \in uncommitted : m.id = Reply(r)} /\ pc[r] = "totals"
        /\ uncommitted' = {m \in uncommitted : m.id # Reply(r)}
        /\ truncations' = truncations /\ agent' = agent /\ writing' = writing /\ pick' = pick
    BY <1>11 DEF CommitReply, boundVars, writeVars
  <2>2. PICK x \in uncommitted : x.id = Reply(r)
    BY <2>1 DEF RowInv
  <2>3. messages' = messages \cup {x}
    BY <2>1, <2>2 DEF RowInv
  <2>4. x \in Rows /\ x.seq > 0 /\ x.id[2] = "reply"
    BY <2>2, RequestWriters DEF TypeOK, Bounded, AllRows
  <2>5. Bounded'
    <3>1. \A y \in AllRows' : \E m \in AllRows : y.seq = m.seq
      BY <2>1, <2>2, <2>3 DEF AllRows
    <3> QED BY <2>1, <3>1, BoundedKept DEF Bounded
  <2>6. AnchorInv'
    BY <2>1, <2>3, <2>4 DEF AnchorInv, LastAnchorNamesTheAgent
  <2>7. GapInv'
    <3> SUFFICES ASSUME truncations = 0 PROVE GapInv'
      BY <2>1 DEF GapInv
    <3>1. ~Taken(x.seq) /\ \A k \in 1..x.seq - 1 : Taken(k)
      BY DEF GapInv, AllRows
    <3>2. \A m \in uncommitted' : m.seq # x.seq
      BY <2>1, <2>2 DEF GapInv
    <3> QED BY <2>1, <2>3, <2>4, <3>1, <3>2, GapCommitted
  <2> QED BY <2>5, <2>6, <2>7
<1>12. ASSUME NEW r \in Requests, MergePartial(r) PROVE Bounded' /\ GapInv' /\ AnchorInv'
  <2>1. /\ messages' = Merged(r) /\ uncommitted' = uncommitted /\ pc[r] = "merge"
        /\ truncations' = truncations /\ agent' = agent /\ writing' = writing /\ pick' = pick
    BY <1>12 DEF MergePartial, boundVars, writeVars
  <2>2. /\ \A x \in messages' : \E m \in messages : MergesTo(r, m, x)
        /\ \A m \in messages : \E x \in messages' : MergesTo(r, m, x)
    BY <2>1, MergedRows
  <2>3. Bounded'
    <3>1. \A y \in AllRows' : \E m \in AllRows : y.seq = m.seq
      BY <2>1, <2>2 DEF AllRows, MergesTo
    <3> QED BY <2>1, <3>1, BoundedKept DEF Bounded
  <2>4. \A n : Taken(n)' <=> Taken(n)
    BY <2>2 DEF Taken, MergesTo
  <2>5. GapInv'
    <3> SUFFICES ASSUME truncations = 0 PROVE GapInv'
      BY <2>1 DEF GapInv
    <3>1. \A m \in AllRows' : \A n \in 1..m.seq - 1 : Taken(n)'
      BY <2>1, <2>2, <2>4 DEF GapInv, AllRows, MergesTo
    <3>2. \A u, x \in messages' : u.id[2] = "user" /\ x.at > u.at => x.seq > u.seq
      BY <2>2 DEF GapInv, MergesTo
    <3> QED BY <2>1, <2>4, <3>1, <3>2 DEF GapInv
  <2>6. /\ \A x \in messages' : x.id[2] = "anchor" => x \in messages
        /\ \A x \in messages : x.id[2] = "anchor" => x \in messages'
    <3>1. found[r][2] = "partial"
      BY <2>1 DEF FoundInv
    <3> QED BY <2>2, <3>1 DEF MergesTo
  <2>7. AnchorInv'
    BY <2>1, <2>6 DEF AnchorInv, LastAnchorNamesTheAgent
  <2> QED BY <2>3, <2>5, <2>7
<1> QED BY <1>1, <1>2, <1>3, <1>4, <1>5, <1>6, <1>7, <1>8, <1>9, <1>10, <1>11, <1>12, Deletions
        DEF Next, RequestStep, SwitchStep, Write, DeadlockDetected

-----------------------------------------------------------------------------
(* The invariant, and what follows from it. *)

Inv ==
    /\ TypeOK /\ PlaceInv /\ RowInv /\ OrderInv /\ FoundInv /\ StampInv
    /\ CountInv /\ Bounded /\ GapInv /\ AnchorInv

LEMMA InitInv == Init => Inv
<1> SUFFICES ASSUME Init PROVE Inv
  OBVIOUS
<1>1. TypeOK
  BY InitTyping
<1>2. PlaceInv
  BY RequestWriters, SwitchWriters, KindsAreApart
     DEF Init, PlaceInv, WriterPlace, RequestPlace, SwitchPlace, Pending, Early
<1>3. RowInv /\ FoundInv /\ GapInv
  BY RequestWriters DEF Init, RowInv, FoundInv, GapInv, AllRows
<1>4. OrderInv
  BY ConversationAssumption DEF Init, OrderInv, AllRows
<1>5. StampInv
  BY RequestWriters DEF Init, StampInv, AllRows
<1>6. Bounded /\ AnchorInv
  BY SwitchWriters DEF Init, Bounded, AnchorInv, LastAnchorNamesTheAgent, AllRows
<1>7. CountInv
  <2>1. Finals = {} /\ IsFiniteSet(messages) /\ totals = 0
    BY FS_EmptySet DEF Init, Finals
  <2>2. TotalsAddUp
    BY <2>1, FS_EmptySet DEF TotalsAddUp, Finals
  <2> QED BY <2>1, <2>2 DEF Init, CountInv, Unsaved
<1> QED BY <1>1, <1>2, <1>3, <1>4, <1>5, <1>6, <1>7 DEF Inv

LEMMA StepInv == Inv /\ [Next]_vars => Inv'
<1> SUFFICES ASSUME Inv, [Next]_vars PROVE Inv'
  OBVIOUS
<1> USE DEF Inv
<1>1. TypeOK'
  BY StepTyping DEF PlaceInv
<1>2. PlaceInv'
  BY StepWriterPlace, StepRequestPlace, StepSwitchPlace DEF PlaceInv
<1>3. RowInv' /\ OrderInv' /\ FoundInv' /\ StampInv'
  BY StepRows, StepOrder, StepFound, StepStamp
<1>4. CountInv' /\ Bounded' /\ GapInv' /\ AnchorInv'
  BY StepCount, StepNumbers
<1> QED BY <1>1, <1>2, <1>3, <1>4

LEMMA Invariance == Spec => []Inv
BY InitInv, StepInv, PTL DEF Spec

\* Every variable keeps its type: in particular an insert never tries more often
\* than MaxAttempts.
THEOREM ConversationTyping == Spec => []TypeOK
<1>1. Inv => TypeOK
  BY DEF Inv
<1> QED BY Invariance, <1>1, PTL

\* A turn reads as one question and its reply: whatever insertMessageWithSequence,
\* the merge of a partial and the page's own save do in whatever order.
THEOREM TurnsReadAsOne == Spec => []TurnReadsAsOne
<1>1. Inv => TurnReadsAsOne
  <2> SUFFICES ASSUME Inv PROVE ReplyFollowsQuestion /\ MergedUnlessRaced
    BY DEF TurnReadsAsOne
  <2>1. ReplyFollowsQuestion
    BY DEF Inv, OrderInv, ReplyFollowsQuestion, AllRows
  <2>2. MergedUnlessRaced
    <3> SUFFICES ASSUME NEW r \in Requests, NEW m \in messages, m.id = Reply(r), NEW p \in Partials(r)
                 PROVE  p.at > m.at
      BY DEF MergedUnlessRaced
    <3>1. writing[Reply(r)] = "saved"
      BY DEF Inv, RowInv, AllRows
    <3>2. m.at = began[r] /\ p.at > began[r]
      BY <3>1 DEF Inv, StampInv, AllRows
    <3> QED BY <3>2
  <2> QED BY <2>1, <2>2
<1> QED BY Invariance, <1>1, PTL

\* The totals written back from a request's own snapshot count each final reply once.
THEOREM TotalsAlwaysAddUp == Spec => []TotalsAddUp
<1>1. Inv => TotalsAddUp
  BY DEF Inv, CountInv
<1> QED BY Invariance, <1>1, PTL

\* The last anchor names the agent: the row lock orders the switches, and the
\* anchors' sequences with them.
THEOREM LastAnchorsNameTheAgent == Spec => []LastAnchorNamesTheAgent
<1>1. Inv => LastAnchorNamesTheAgent
  BY DEF Inv, AnchorInv
<1> QED BY Invariance, <1>1, PTL

\* Stamps between a Date and the stamp that it was cut from are of one millisecond.
LEMMA SameDate ==
    ASSUME NEW t \in Nat, NEW x \in Nat, DateOf(t) <= x, x <= t
    PROVE  DateOf(x) = DateOf(t)
<1> DEFINE q == t \div Millisecond
           p == x \div Millisecond
<1>1. /\ q \in Nat /\ q * Millisecond <= t /\ t < q * Millisecond + Millisecond
      /\ p \in Nat /\ p * Millisecond <= x /\ x < p * Millisecond + Millisecond
  BY ConversationAssumption
<1>2. q * Millisecond \in Nat /\ p * Millisecond \in Nat
  BY <1>1, ConversationAssumption
<1>3. \A i, j \in Nat : i < j => i * Millisecond + Millisecond <= j * Millisecond
  BY ConversationAssumption
<1>4. q * Millisecond <= x
  BY DEF DateOf
<1> HIDE DEF p, q
<1>5. ~(p < q) /\ ~(q < p)
  BY <1>1, <1>2, <1>3, <1>4, ConversationAssumption
<1>6. p = q
  BY <1>1, <1>5
<1> QED BY <1>6 DEF DateOf, p, q

\* What editMessage deletes by created_at is displayed after the question by
\* sequence, or is a row of the question's own millisecond.
THEOREM EditsKeepWhatCameBefore == Spec => EditKeepsWhatCameBefore
<1>1. Inv /\ [Next]_vars =>
        [\A u \in messages : u.id[2] = "user" /\ truncations = 0 /\ EditMessage(u) =>
            \A x \in messages \ messages' : x.seq > u.seq \/ DateOf(x.at) = DateOf(u.at)]_vars
  <2> SUFFICES ASSUME Inv, NEW u \in messages, u.id[2] = "user", truncations = 0, EditMessage(u),
                      NEW x \in messages \ messages'
               PROVE  x.seq > u.seq \/ DateOf(x.at) = DateOf(u.at)
    OBVIOUS
  <2>1. x.at \in Nat /\ u.at \in Nat
    BY DEF Inv, TypeOK, Rows
  <2>2. x.at > DateOf(u.at) \/ x.at = DateOf(u.at)
    BY DEF EditMessage, DeleteRows
  <2>3. CASE x.at > u.at
    BY <2>3 DEF Inv, GapInv
  <2>4. CASE ~(x.at > u.at)
    <3>1. DateOf(u.at) \in Nat
      <4>1. u.at \div Millisecond \in Nat
        BY <2>1, ConversationAssumption
      <4> QED BY <4>1, ConversationAssumption DEF DateOf
    <3>2. DateOf(u.at) <= x.at /\ x.at <= u.at
      BY <2>1, <2>2, <2>4, <3>1
    <3> QED BY <2>1, <3>2, SameDate
  <2> QED BY <2>3, <2>4
<1> QED BY Invariance, <1>1, PTL DEF Spec, EditKeepsWhatCameBefore

=============================================================================
