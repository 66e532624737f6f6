--------------------------- MODULE ChatPageProofs ---------------------------
(***************************************************************************)
(* Proofs about the chat page, for every number of tool calls, every limit *)
(* on streams, edits, reads and faults: the page shows the reply, loses no *)
(* message and never hides the question a run waits on.  First sequences:  *)
(* what FlattenSeq, SelectSeq and the sets of indexes compute.  Then what  *)
(* the page shows as the typewriter catches up, step by step, what each    *)
(* action does to the records, and last the invariant ChatInv.             *)
(***************************************************************************)
EXTENDS ChatPage, SequenceTheorems, WellFoundedInduction, TLAPS

(* Induction on numbers, for sets.                                           *)
LEMMA Induction ==
    ASSUME NEW T, 0 \in T, \A n \in Nat : n \in T => n + 1 \in T
    PROVE  \A n \in Nat : n \in T
<1> DEFINE R == OpToRel(<, Nat)
           U == {n \in Nat : n \notin T}
<1> SUFFICES ASSUME U # {} PROVE FALSE
  OBVIOUS
<1>1. IsWellFoundedOn(R, Nat)
  BY NatLessThanWellFounded
<1>2. \A x, y \in Nat : y < x => <<y, x>> \in R
  BY DEF OpToRel
<1> HIDE DEF R
<1>3. PICK x \in U : \A y \in U : ~(<<y, x>> \in R)
  BY <1>1, WFMin
<1>4. x \in Nat /\ x # 0 /\ x - 1 \in Nat /\ x - 1 < x
  BY <1>3
<1>5. x - 1 \in T
  BY <1>2, <1>3, <1>4
<1> QED BY <1>3, <1>4, <1>5

\* What FlattenSeq computes on its way to the n-th.
Step(s, F, i) == IF i = 1 THEN s[i] ELSE F[i-1] \o s[i]
Flattening(T, s, n, F) ==
    /\ F \in [1 .. n -> Seq(T)]
    /\ \A i \in 1 .. n : F[i] = Step(s, F, i)

LEMMA FlatteningExists ==
    ASSUME NEW T, NEW s \in Seq(Seq(T))
    PROVE  \E F : Flattening(T, s, Len(s), F)
<1> DEFINE A == {n \in Nat : n <= Len(s) => \E F : Flattening(T, s, n, F)}
<1>1. 0 \in A
  <2>1. Flattening(T, s, 0, [i \in 1 .. 0 |-> << >>])
    BY DEF Flattening
  <2> QED BY <2>1
<1>2. ASSUME NEW n \in Nat, n \in A PROVE n + 1 \in A
  <2> SUFFICES ASSUME n + 1 <= Len(s) PROVE \E F : Flattening(T, s, n + 1, F)
    BY <1>2
  <2>0. Len(s) \in Nat
    BY LenProperties
  <2>1. PICK F : Flattening(T, s, n, F)
    BY <1>2, <2>0
  <2> DEFINE x == IF n = 0 THEN s[1] ELSE F[n] \o s[n+1]
             G == [i \in 1 .. n + 1 |-> IF i = n + 1 THEN x ELSE F[i]]
  <2>2. x \in Seq(T)
    <3>1. s[n+1] \in Seq(T)
      BY <2>0, ElementOfSeq
    <3>2. CASE n = 0
      BY <3>1, <3>2
    <3>3. CASE n # 0
      <4>1. F[n] \in Seq(T)
        BY <2>1, <3>3 DEF Flattening
      <4> QED BY <3>1, <3>3, <4>1, ConcatProperties
    <3> QED BY <3>2, <3>3
  <2> HIDE DEF x
  <2>3. G \in [1 .. n + 1 -> Seq(T)]
    BY <2>1, <2>2 DEF Flattening
  <2>4. ASSUME NEW i \in 1 .. n + 1 PROVE G[i] = Step(s, G, i)
    <3>1. CASE i = n + 1
      <4>1. CASE n = 0
        BY <3>1, <4>1 DEF x, Step
      <4>2. CASE n # 0
        <5>1. G[i-1] = F[n] /\ i # 1
          BY <3>1, <4>2
        <5> QED BY <3>1, <4>2, <5>1 DEF x, Step
      <4> QED BY <4>1, <4>2
    <3>2. CASE i # n + 1
      <4>1. i \in 1 .. n /\ G[i] = F[i] /\ (i # 1 => i - 1 \in 1 .. n /\ G[i-1] = F[i-1])
        BY <3>2
      <4>2. F[i] = Step(s, F, i)
        BY <2>1, <4>1 DEF Flattening
      <4> QED BY <4>1, <4>2 DEF Step
    <3> QED BY <3>1, <3>2
  <2> HIDE DEF G
  <2> QED BY <2>3, <2>4 DEF Flattening
<1> HIDE DEF A
<1>3. \A n \in Nat : n \in A
  BY <1>1, <1>2, Induction
<1>4. Len(s) \in A
  BY <1>3, LenProperties
<1> QED BY <1>4 DEF A

LEMMA FlatteningIsUnique ==
    ASSUME NEW T, NEW s \in Seq(Seq(T)), NEW n \in Nat, NEW F, NEW G,
           Flattening(T, s, n, F), \A i \in 1 .. n : G[i] = Step(s, G, i)
    PROVE  \A i \in 1 .. n : G[i] = F[i]
<1> DEFINE A == {k \in Nat : k \in 1 .. n => G[k] = F[k]}
<1>1. 0 \in A
  OBVIOUS
<1>2. ASSUME NEW k \in Nat, k \in A PROVE k + 1 \in A
  <2> SUFFICES ASSUME k + 1 \in 1 .. n PROVE G[k+1] = F[k+1]
    OBVIOUS
  <2>2. G[k+1] = Step(s, G, k + 1) /\ F[k+1] = Step(s, F, k + 1)
    BY DEF Flattening
  <2>3. CASE k = 0
    BY <2>2, <2>3 DEF Step
  <2>4. CASE k # 0
    <3>1. k \in 1 .. n /\ k + 1 # 1 /\ (k + 1) - 1 = k
      BY <2>4
    <3>2. G[k] = F[k]
      BY <1>2, <3>1
    <3> QED BY <2>2, <3>1, <3>2 DEF Step
  <2> QED BY <2>3, <2>4
<1> HIDE DEF A
<1>3. \A k \in Nat : k \in A
  BY <1>1, <1>2, Induction
<1> QED BY <1>3 DEF A

LEMMA FlattenIsLast ==
    ASSUME NEW T, NEW s \in Seq(Seq(T)), NEW F, Flattening(T, s, Len(s), F)
    PROVE  FlattenSeq(s) = IF Len(s) = 0 THEN << >> ELSE F[Len(s)]
<1>0. Len(s) \in Nat
  BY LenProperties
<1>1. CASE Len(s) = 0
  <2>1. s = << >>
    BY <1>1, EmptySeq
  <2> QED BY <1>1, <2>1 DEF FlattenSeq
<1>2. CASE Len(s) # 0
  <2> DEFINE flatten[i \in 1 .. Len(s)] == IF i = 1 THEN s[i] ELSE flatten[i-1] \o s[i]
  <2>1. FlattenSeq(s) = flatten[Len(s)]
    BY <1>2 DEF FlattenSeq
  <2>2. F = [i \in 1 .. Len(s) |-> IF i = 1 THEN s[i] ELSE F[i-1] \o s[i]]
    BY DEF Flattening, Step
  <2>3. flatten = [i \in 1 .. Len(s) |-> IF i = 1 THEN s[i] ELSE flatten[i-1] \o s[i]]
    BY <2>2
  <2> HIDE DEF flatten
  <2>4. \A i \in 1 .. Len(s) : flatten[i] = Step(s, flatten, i)
    BY <2>3 DEF Step
  <2>5. \A i \in 1 .. Len(s) : flatten[i] = F[i]
    BY <1>0, <2>4, FlatteningIsUnique
  <2> QED BY <1>0, <1>2, <2>1, <2>5
<1> QED BY <1>1, <1>2

(* Flattening one sequence more appends its elements.                        *)
LEMMA FlattenAppend ==
    ASSUME NEW T, NEW s \in Seq(Seq(T)), NEW x \in Seq(T)
    PROVE  /\ FlattenSeq(Append(s, x)) = FlattenSeq(s) \o x
           /\ FlattenSeq(s) \in Seq(T) /\ FlattenSeq(Append(s, x)) \in Seq(T)
<1> DEFINE t == Append(s, x)
           n == Len(s)
<1>0. /\ t \in Seq(Seq(T)) /\ Len(t) = n + 1 /\ n \in Nat
      /\ t[n+1] = x /\ \A i \in 1 .. n : t[i] = s[i]
  BY AppendProperties, LenProperties
<1> HIDE DEF t, n
<1>1. PICK F : Flattening(T, s, n, F)
  BY FlatteningExists DEF n
<1>2. PICK G : Flattening(T, t, n + 1, G)
  BY <1>0, FlatteningExists
<1>3. FlattenSeq(s) = IF n = 0 THEN << >> ELSE F[n]
  BY <1>1, FlattenIsLast DEF n
<1>4. FlattenSeq(t) = G[n+1]
  BY <1>0, <1>2, FlattenIsLast
<1>5. ASSUME NEW i \in 1 .. n PROVE G[i] = Step(s, G, i)
  <2>1. i \in 1 .. n + 1 /\ t[i] = s[i]
    BY <1>0
  <2>2. G[i] = Step(t, G, i)
    BY <1>2, <2>1 DEF Flattening
  <2> QED BY <2>1, <2>2 DEF Step
<1>6. \A i \in 1 .. n : G[i] = F[i]
  <2>1. \A i \in 1 .. n : G[i] = Step(s, G, i)
    BY <1>5
  <2>2. s \in Seq(Seq(T)) /\ n \in Nat
    BY <1>0
  <2> QED BY <1>1, <2>1, <2>2, FlatteningIsUnique
<1>7. FlattenSeq(s) \in Seq(T) /\ FlattenSeq(t) \in Seq(T)
  BY <1>0, <1>1, <1>2, <1>3, <1>4 DEF Flattening
<1>8. G[n+1] = Step(t, G, n + 1)
  BY <1>0, <1>2 DEF Flattening
<1>9. CASE n = 0
  BY <1>0, <1>3, <1>4, <1>7, <1>8, <1>9, ConcatEmptySeq DEF Step, t
<1>10. CASE n # 0
  <2>1. G[n] = F[n] /\ n + 1 # 1 /\ (n + 1) - 1 = n
    BY <1>0, <1>6, <1>10
  <2> QED BY <1>0, <1>3, <1>4, <1>7, <1>8, <1>10, <2>1 DEF Step, t
<1> QED BY <1>9, <1>10

LEMMA FlattenNothing == FlattenSeq(<< >>) = << >>
BY DEF FlattenSeq

LEMMA FlattenType ==
    ASSUME NEW T, NEW s \in Seq(Seq(T))
    PROVE  FlattenSeq(s) \in Seq(T)
BY FlattenAppend, EmptySeq

LEMMA PrefixByIndex ==
    ASSUME NEW T, NEW s \in Seq(T), NEW t \in Seq(T), Len(s) <= Len(t), \A i \in 1 .. Len(s) : t[i] = s[i]
    PROVE  IsPrefix(s, t)
<1>1. Len(s) \in Nat /\ Len(t) \in Nat
  BY LenProperties
<1>2. SubSeq(s, 1, Len(s)) = SubSeq(t, 1, Len(s))
  BY <1>1, SubSeqProperties
<1> QED BY <1>1, <1>2 DEF IsPrefix

(* A longer prefix has one element more.                                     *)
LEMMA CountedOneMore ==
    ASSUME NEW S, NEW s \in Seq(S), NEW n \in 1 .. Len(s)
    PROVE  SubSeq(s, 1, n) = SubSeq(s, 1, n - 1) \o <<s[n]>>
<1>1. Len(s) \in Nat
  BY LenProperties
<1>2. 1 \in 1 .. Len(s) /\ n \in 1 .. Len(s)
  BY <1>1
<1> QED BY <1>2, SubSeqRecursiveSecond

(* What is flattened first comes first.                                      *)
LEMMA FlattenPrefix ==
    ASSUME NEW T, NEW s \in Seq(Seq(T)), NEW k \in 0 .. Len(s)
    PROVE  IsPrefix(FlattenSeq(SubSeq(s, 1, k)), FlattenSeq(s))
<1> DEFINE f(n) == FlattenSeq(SubSeq(s, 1, n))
           Extends(n) == Len(f(k)) <= Len(f(n)) /\ \A i \in 1 .. Len(f(k)) : f(n)[i] = f(k)[i]
           A == {j \in Nat : k + j <= Len(s) => Extends(k + j)}
<1>0. Len(s) \in Nat /\ \A n \in 0 .. Len(s) : SubSeq(s, 1, n) \in Seq(Seq(T)) /\ f(n) \in Seq(T)
  <2>1. Len(s) \in Nat
    BY LenProperties
  <2>2. ASSUME NEW n \in 0 .. Len(s) PROVE SubSeq(s, 1, n) \in Seq(Seq(T))
    BY <2>1, SubSeqProperties, ElementOfSeq
  <2> QED BY <2>1, <2>2, FlattenType
<1>1. \A n \in 0 .. Len(s) : Len(f(n)) \in Nat
  <2> HIDE DEF f
  <2> QED BY <1>0, LenProperties
<1>2. 0 \in A
  <2>1. k + 0 = k /\ k \in 0 .. Len(s)
    OBVIOUS
  <2> HIDE DEF f
  <2> QED BY <1>1, <2>1
<1>3. ASSUME NEW j \in Nat, j \in A PROVE j + 1 \in A
  <2> SUFFICES ASSUME k + (j + 1) <= Len(s) PROVE Extends(k + (j + 1))
    <3>1. j + 1 \in Nat
      OBVIOUS
    <3> HIDE DEF Extends
    <3> QED BY <3>1
  <2> DEFINE m == k + j
  <2>0. m \in 0 .. Len(s) /\ m + 1 \in 1 .. Len(s) /\ m + 1 \in 0 .. Len(s) /\ k + (j + 1) = m + 1 /\ m <= Len(s)
    BY <1>0
  <2>1. Extends(m)
    <3> HIDE DEF Extends
    <3> QED BY <1>3, <2>0
  <2> HIDE DEF m
  <2>2. s[m+1] \in Seq(T)
    BY <2>0, ElementOfSeq
  <2>3. SubSeq(s, 1, m + 1) = Append(SubSeq(s, 1, m), s[m+1])
    <3>1. SubSeq(s, 1, m + 1) = SubSeq(s, 1, (m + 1) - 1) \o <<s[m+1]>>
      <4> HIDE DEF f, Extends, A
      <4> QED BY <2>0, CountedOneMore
    <3>2. (m + 1) - 1 = m
      BY <2>0
    <3> QED BY <1>0, <2>0, <2>2, <3>1, <3>2, AppendIsConcat
  <2>4. f(m+1) = f(m) \o s[m+1]
    BY <1>0, <2>0, <2>2, <2>3, FlattenAppend
  <2>5. f(m) \in Seq(T) /\ Len(f(m)) \in Nat /\ Len(f(k)) \in Nat /\ Len(s[m+1]) \in Nat
    BY <1>0, <1>1, <2>0, <2>2, LenProperties
  <2> HIDE DEF f
  <2>6. /\ Len(f(m+1)) = Len(f(m)) + Len(s[m+1])
        /\ \A i \in 1 .. Len(f(m)) : f(m+1)[i] = f(m)[i]
    BY <2>2, <2>4, <2>5, ConcatProperties
  <2>7. Extends(m + 1)
    BY <2>1, <2>5, <2>6
  <2> QED BY <2>0, <2>7
<1> HIDE DEF A
<1>4. \A j \in Nat : j \in A
  BY <1>2, <1>3, Induction
<1>5. Len(s) - k \in A /\ k + (Len(s) - k) = Len(s) /\ Len(s) <= Len(s)
  BY <1>0, <1>4
<1>6. Extends(Len(s))
  <2> HIDE DEF Extends
  <2> QED BY <1>5 DEF A
<1>7. SubSeq(s, 1, Len(s)) = s /\ Len(s) \in 0 .. Len(s)
  BY <1>0, SubSeqFull
<1> QED BY <1>0, <1>6, <1>7, PrefixByIndex

(***************************************************************************)
(* The records, and what the operations on blocks do to them.              *)
(***************************************************************************)
EventRecs == [type : Events, id : Nat, ok : BOOLEAN, asked : BOOLEAN]
BlockRecs == [kind : Kinds, content : Seq(Nat), id : Nat, status : Status]
Drafts    == [turn : Nat, text : Seq(Nat), tools : SUBSET Nat]
Replies   == [turn : Nat, text : Seq(Nat), tools : SUBSET Nat, partial : BOOLEAN]
Rows      == [questions : Seq(Nat), replies : SUBSET Replies]
Runs  == [turn : Nat, pc : RunPc, log : Seq(EventRecs), tool : Nat, decision : {"none", "approve", "deny", "answer"}]
Pages == [pc : PagePc, question : Nat, regenerate : BOOLEAN, blocks : Seq(BlockRecs), text : Seq(Nat), think : Seq(Nat),
          from : Nat, seen : Nat, resumes : Nat, thrown : BOOLEAN, limit : Int, pending : BOOLEAN,
          error : BOOLEAN, retry : Intents, stopped : BOOLEAN, ask : Nat \X Nat, edit : {"none", "reset", "reload"},
          drafts : SUBSET Drafts, optimistic : SUBSET Nat, delivered : SUBSET Nat, shown : Rows]
Posts == [kind : {"approve", "deny", "answer"}, turn : Nat, id : Nat]

\* Everything but the blocks and what they grow to is the same.
Beside(p, q) ==
    /\ q.pc = p.pc /\ q.question = p.question /\ q.regenerate = p.regenerate /\ q.from = p.from /\ q.seen = p.seen
    /\ q.resumes = p.resumes /\ q.limit = p.limit /\ q.pending = p.pending /\ q.retry = p.retry /\ q.ask = p.ask
    /\ q.edit = p.edit /\ q.drafts = p.drafts /\ q.delivered = p.delivered /\ q.shown = p.shown

\* The blocks are the same but for what is written in them, or but for their statuses.
SameCards(b, c) == /\ Len(c) = Len(b)
                   /\ \A i \in 1 .. Len(b) : c[i].kind = b[i].kind /\ c[i].id = b[i].id /\ c[i].status = b[i].status
SameTexts(b, c) == /\ Len(c) = Len(b)
                   /\ \A i \in 1 .. Len(b) : c[i].kind = b[i].kind /\ c[i].id = b[i].id /\ c[i].content = b[i].content

Piece(x)  == IF x.kind = "text" THEN x.content ELSE << >>
Pieces(b) == [i \in DOMAIN b |-> Piece(b[i])]
Mark(e)   == IF e.type = "delta" THEN <<e.id>> ELSE << >>
Marks(l)  == [i \in DOMAIN l |-> Mark(l[i])]
TextOf(b) == FlattenSeq(Pieces(b))

LEMMA TextsAreOfBlocks == ASSUME NEW p PROVE Texts(p) = TextOf(p.blocks)
BY DEF Texts, TextOf, Pieces, Piece

LEMMA DeltasAreMarks == ASSUME NEW l PROVE Deltas(l) = FlattenSeq(Marks(l))
BY DEF Deltas, Marks, Mark

LEMMA SeqFacts ==
    ASSUME NEW T, NEW s \in Seq(T)
    PROVE  /\ Len(s) \in Nat /\ DOMAIN s = 1 .. Len(s) /\ s \in [1 .. Len(s) -> T]
           /\ \A i \in 1 .. Len(s) : s[i] \in T
           /\ s # << >> <=> Len(s) > 0
           /\ s # << >> => Last(s) = s[Len(s)] /\ Len(s) \in 1 .. Len(s)
BY LenProperties, ElementOfSeq, EmptySeq DEF Last

LEMMA SeqOfFunction == ASSUME NEW T, NEW n \in Nat, NEW f \in [1 .. n -> T] PROVE f \in Seq(T) /\ Len(f) = n
BY IsASeq, LenProperties

LEMMA PiecesType ==
    ASSUME NEW b \in Seq(BlockRecs)
    PROVE  Pieces(b) \in Seq(Seq(Nat)) /\ Len(Pieces(b)) = Len(b) /\ TextOf(b) \in Seq(Nat)
<1>1. Len(b) \in Nat /\ DOMAIN b = 1 .. Len(b) /\ \A i \in 1 .. Len(b) : b[i] \in BlockRecs
  BY SeqFacts
<1>2. \A x \in BlockRecs : Piece(x) \in Seq(Nat)
  BY DEF Piece, BlockRecs
<1>3. Pieces(b) \in [1 .. Len(b) -> Seq(Nat)]
  BY <1>1, <1>2 DEF Pieces
<1>4. Pieces(b) \in Seq(Seq(Nat)) /\ Len(Pieces(b)) = Len(b)
  BY <1>1, <1>3, SeqOfFunction
<1> QED BY <1>4, FlattenType DEF TextOf

(* Two rows of blocks that have the same texts show the same.                *)
LEMMA SameTextShown ==
    ASSUME NEW b \in Seq(BlockRecs), NEW c \in Seq(BlockRecs), Len(c) = Len(b),
           \A i \in 1 .. Len(b) : Piece(c[i]) = Piece(b[i])
    PROVE  TextOf(c) = TextOf(b)
<1>1. DOMAIN b = 1 .. Len(b) /\ DOMAIN c = 1 .. Len(b)
  BY SeqFacts
<1>2. Pieces(c) = Pieces(b)
  BY <1>1 DEF Pieces
<1> QED BY <1>2 DEF TextOf

LEMMA TextOfAppend ==
    ASSUME NEW b \in Seq(BlockRecs), NEW x \in BlockRecs
    PROVE  Append(b, x) \in Seq(BlockRecs) /\ TextOf(Append(b, x)) = TextOf(b) \o Piece(x) /\ TextOf(b) \in Seq(Nat)
<1> DEFINE c == Append(b, x)
<1>1. /\ c \in Seq(BlockRecs) /\ Len(c) = Len(b) + 1 /\ Len(b) \in Nat
      /\ c[Len(b) + 1] = x /\ \A i \in 1 .. Len(b) : c[i] = b[i]
  BY AppendProperties, LenProperties
<1>2. Piece(x) \in Seq(Nat)
  BY DEF Piece, BlockRecs
<1>3. Pieces(b) \in Seq(Seq(Nat)) /\ Len(Pieces(b)) = Len(b) /\ TextOf(b) \in Seq(Nat)
  BY PiecesType
<1>4. Pieces(c) \in Seq(Seq(Nat)) /\ Len(Pieces(c)) = Len(b) + 1
  BY <1>1, PiecesType
<1> HIDE DEF c
<1>5. Pieces(c) = Append(Pieces(b), Piece(x))
  <2> DEFINE d == Append(Pieces(b), Piece(x))
  <2>1. /\ d \in Seq(Seq(Nat)) /\ Len(d) = Len(b) + 1
        /\ d[Len(b) + 1] = Piece(x) /\ \A i \in 1 .. Len(b) : d[i] = Pieces(b)[i]
    BY <1>2, <1>3, AppendProperties
  <2> HIDE DEF d
  <2>2. \A i \in 1 .. Len(b) + 1 : Pieces(c)[i] = d[i]
    <3>1. DOMAIN c = 1 .. Len(b) + 1 /\ DOMAIN b = 1 .. Len(b)
      BY <1>1, SeqFacts
    <3>2. ASSUME NEW i \in 1 .. Len(b) PROVE Pieces(c)[i] = d[i]
      <4>1. c[i] = b[i]
        BY <1>1
      <4>2. d[i] = Pieces(b)[i]
        BY <2>1
      <4>3. i \in 1 .. Len(b) + 1
        BY <1>1
      <4> QED BY <3>1, <4>1, <4>2, <4>3 DEF Pieces
    <3>3. Pieces(c)[Len(b) + 1] = d[Len(b) + 1]
      <4>1. Len(b) + 1 \in 1 .. Len(b) + 1
        BY <1>1
      <4> QED BY <1>1, <2>1, <3>1, <4>1 DEF Pieces
    <3> QED BY <1>1, <3>2, <3>3
  <2>3. Pieces(c) = d
    BY <1>4, <2>1, <2>2, SeqEqual
  <2> QED BY <2>3 DEF d
<1>6. FlattenSeq(Append(Pieces(b), Piece(x))) = FlattenSeq(Pieces(b)) \o Piece(x)
  BY <1>2, <1>3, FlattenAppend
<1> QED BY <1>1, <1>3, <1>5, <1>6 DEF TextOf, c

(* What the blocks before the last show, and what the last adds to it.       *)
Before(b) == TextOf(SubSeq(b, 1, Len(b) - 1))

LEMMA TextOfLast ==
    ASSUME NEW b \in Seq(BlockRecs), b # << >>, NEW c \in Seq(BlockRecs), Len(c) = Len(b),
           \A i \in 1 .. Len(b) : i # Len(b) => Piece(c[i]) = Piece(b[i])
    PROVE  TextOf(c) = Before(b) \o Piece(c[Len(b)]) /\ Before(b) \in Seq(Nat)
<1> DEFINE n == Len(b)
           f == SubSeq(b, 1, n - 1)
           g == SubSeq(c, 1, n - 1)
<1>1. n \in Nat /\ n > 0 /\ (\A i \in 1 .. n : b[i] \in BlockRecs /\ c[i] \in BlockRecs) /\ Len(c) = n
  BY SeqFacts
<1>2. f \in Seq(BlockRecs) /\ Len(f) = n - 1 /\ \A i \in 1 .. n - 1 : f[i] = b[i]
  BY <1>1, SubSeqProperties
<1>3. g \in Seq(BlockRecs) /\ Len(g) = n - 1 /\ \A i \in 1 .. n - 1 : g[i] = c[i]
  BY <1>1, SubSeqProperties
<1>4. c = Append(g, c[n])
  <2>1. /\ Append(g, c[n]) \in Seq(BlockRecs) /\ Len(Append(g, c[n])) = (n - 1) + 1
        /\ Append(g, c[n])[(n - 1) + 1] = c[n] /\ \A i \in 1 .. n - 1 : Append(g, c[n])[i] = g[i]
    BY <1>1, <1>3, AppendProperties
  <2> HIDE DEF n, f, g
  <2>2. (n - 1) + 1 = n /\ \A i \in 1 .. n : i = n \/ i \in 1 .. n - 1
    BY <1>1
  <2>3. \A i \in 1 .. n : Append(g, c[n])[i] = c[i]
    BY <1>3, <2>1, <2>2
  <2>4. Len(Append(g, c[n])) = Len(c)
    BY <1>1, <2>1, <2>2
  <2> QED BY <1>1, <2>1, <2>3, <2>4, SeqEqual
<1>5. \A i \in 1 .. n - 1 : Piece(g[i]) = Piece(f[i])
  BY <1>1, <1>2, <1>3
<1> HIDE DEF f, g
<1>6. TextOf(g) = TextOf(f)
  BY <1>2, <1>3, <1>5, SameTextShown
<1>7. n \in 1 .. n /\ c[n] \in BlockRecs
  BY <1>1
<1>8. TextOf(Append(g, c[n])) = TextOf(g) \o Piece(c[n]) /\ TextOf(g) \in Seq(Nat)
  BY <1>3, <1>7, TextOfAppend
<1> QED BY <1>4, <1>6, <1>8 DEF Before, f

Shown(p) == Texts([p EXCEPT !.blocks = Target(p)])
Growing(p) == p.text # << >> => LastIs(p, "text")

LEMMA BlocksOfPage ==
    ASSUME NEW p \in Pages
    PROVE  /\ p.blocks \in Seq(BlockRecs) /\ p.text \in Seq(Nat) /\ p.think \in Seq(Nat)
           /\ Len(p.blocks) \in Nat /\ DOMAIN p.blocks = 1 .. Len(p.blocks)
           /\ \A i \in 1 .. Len(p.blocks) : p.blocks[i] \in BlockRecs
           /\ p.blocks # << >> <=> Len(p.blocks) > 0
           /\ \A kind : LastIs(p, kind) <=> Len(p.blocks) > 0 /\ p.blocks[Len(p.blocks)].kind = kind
<1>1. p.blocks \in Seq(BlockRecs) /\ p.text \in Seq(Nat) /\ p.think \in Seq(Nat)
  BY DEF Pages
<1> QED BY <1>1, SeqFacts DEF LastIs

Written(b, i, x) == [b EXCEPT ![i].content = x]

LEMMA WriteOne ==
    ASSUME NEW b \in Seq(BlockRecs), NEW i \in 1 .. Len(b), NEW x \in Seq(Nat)
    PROVE  /\ Written(b, i, x) \in Seq(BlockRecs) /\ SameCards(b, Written(b, i, x))
           /\ Written(b, i, x)[i].content = x
           /\ \A j \in 1 .. Len(b) : j # i => Written(b, i, x)[j] = b[j]
<1> DEFINE c == Written(b, i, x)
<1>1. /\ Len(b) \in Nat /\ DOMAIN b = 1 .. Len(b) /\ b \in [1 .. Len(b) -> BlockRecs]
      /\ \A j \in 1 .. Len(b) : b[j] \in BlockRecs
  BY SeqFacts
<1>2. c = [j \in 1 .. Len(b) |-> IF j = i THEN [b[i] EXCEPT !.content = x] ELSE b[j]]
  BY <1>1 DEF Written
<1>3. [b[i] EXCEPT !.content = x] \in BlockRecs
  BY <1>1 DEF BlockRecs
<1>4. c \in [1 .. Len(b) -> BlockRecs]
  BY <1>1, <1>2, <1>3
<1>5. c \in Seq(BlockRecs) /\ Len(c) = Len(b)
  BY <1>1, <1>4, SeqOfFunction
<1>6. \A j \in 1 .. Len(b) : j # i => c[j] = b[j]
  BY <1>2
<1>7. c[i] = [b[i] EXCEPT !.content = x]
  BY <1>2
<1> HIDE DEF c
<1>8. c[i].kind = b[i].kind /\ c[i].id = b[i].id /\ c[i].status = b[i].status /\ c[i].content = x
  BY <1>1, <1>7 DEF BlockRecs
<1>9. SameCards(b, c)
  BY <1>5, <1>6, <1>8 DEF SameCards
<1> QED BY <1>5, <1>6, <1>8, <1>9 DEF c

LEMMA LastOfKind ==
    ASSUME NEW p \in Pages, NEW kind
    PROVE  /\ LastOf(p, kind) \in 0 .. Len(p.blocks)
           /\ LastOf(p, kind) # 0 => p.blocks[LastOf(p, kind)].kind = kind
           /\ LastIs(p, kind) => LastOf(p, kind) = Len(p.blocks)
<1> DEFINE at == {i \in DOMAIN p.blocks : p.blocks[i].kind = kind}
           n == Len(p.blocks)
<1>1. n \in Nat /\ DOMAIN p.blocks = 1 .. n /\ (LastIs(p, kind) <=> n > 0 /\ p.blocks[n].kind = kind)
  BY BlocksOfPage
<1>2. at \subseteq 1 .. n
  BY <1>1
<1>3. CASE at = {}
  <2>1. ~LastIs(p, kind)
    BY <1>1, <1>3
  <2> QED BY <1>1, <1>3, <2>1 DEF LastOf
<1>4. CASE at # {}
  <2> HIDE DEF at, n
  <2>1. \E i \in at : \A j \in at : j <= i
    <3> DEFINE S == {n - i : i \in at}
    <3>1. S \subseteq Nat /\ S # {}
      <4>1. \A i \in at : n - i \in Nat
        BY <1>1, <1>2
      <4>2. PICK i \in at : TRUE
        BY <1>4
      <4> QED BY <4>1, <4>2
    <3>2. PICK m \in S : \A k \in S : m <= k
      <4> DEFINE R == OpToRel(<, Nat)
      <4>1. IsWellFoundedOn(R, Nat)
        BY NatLessThanWellFounded
      <4>2. \A k, m \in Nat : k < m => <<k, m>> \in R
        BY DEF OpToRel
      <4> HIDE DEF S, R
      <4>3. PICK m \in S : \A k \in S : ~(<<k, m>> \in R)
        BY <3>1, <4>1, WFMin
      <4>4. ASSUME NEW k \in S PROVE m <= k
        <5>1. k \in Nat /\ m \in Nat /\ ~(<<k, m>> \in R)
          BY <3>1, <4>3
        <5>2. ~(k < m)
          BY <4>2, <5>1
        <5> QED BY <5>1, <5>2
      <4> QED BY <4>4
    <3>3. PICK i \in at : m = n - i
      BY <3>2
    <3>4. ASSUME NEW j \in at PROVE j <= i
      <4>1. m <= n - j
        BY <3>2
      <4> QED BY <1>1, <1>2, <3>3, <4>1
    <3> QED BY <3>4
  <2>2. LastOf(p, kind) \in at /\ \A j \in at : j <= LastOf(p, kind)
    <3>1. LastOf(p, kind) = CHOOSE i \in at : \A j \in at : j <= i
      BY <1>4 DEF LastOf, at
    <3> QED BY <2>1, <3>1
  <2> QED BY <1>1, <1>2, <2>2 DEF at, n
<1> QED BY <1>3, <1>4

LEMMA ShownOfStill == ASSUME NEW p \in Pages, p.text = << >> PROVE Shown(p) = TextOf(p.blocks)
<1>1. Target(p) = p.blocks
  BY DEF Target
<1>2. [p EXCEPT !.blocks = p.blocks].blocks = p.blocks
  BY DEF Pages
<1> QED BY <1>1, <1>2, TextsAreOfBlocks DEF Shown

LEMMA ShownOfGrowing ==
    ASSUME NEW p \in Pages, p.text # << >>, LastIs(p, "text")
    PROVE  Shown(p) = Before(p.blocks) \o p.text /\ Before(p.blocks) \in Seq(Nat)
<1> DEFINE n == Len(p.blocks)
           c == Written(p.blocks, n, p.text)
<1>0. /\ p.blocks \in Seq(BlockRecs) /\ p.text \in Seq(Nat) /\ n \in Nat /\ n > 0 /\ p.blocks[n].kind = "text"
      /\ p.blocks # << >>
  BY BlocksOfPage
<1>1. Target(p) = c
  BY LastOfKind DEF Target, Written
<1>2. Shown(p) = TextOf(c)
  <2>1. [p EXCEPT !.blocks = c].blocks = c
    BY DEF Pages
  <2> QED BY <1>1, <2>1, TextsAreOfBlocks DEF Shown
<1>3. c \in Seq(BlockRecs) /\ SameCards(p.blocks, c) /\ c[n].content = p.text /\ \A j \in 1 .. n : j # n => c[j] = p.blocks[j]
  <2>1. n \in 1 .. Len(p.blocks)
    BY <1>0
  <2> HIDE DEF n
  <2> QED BY <1>0, <2>1, WriteOne DEF n
<1> HIDE DEF c
<1>4. Len(c) = n /\ c[n].kind = "text" /\ n \in 1 .. n
  BY <1>0, <1>3 DEF SameCards
<1>5. Piece(c[n]) = p.text
  BY <1>3, <1>4 DEF Piece
<1>6. TextOf(c) = Before(p.blocks) \o Piece(c[n]) /\ Before(p.blocks) \in Seq(Nat)
  BY <1>0, <1>3, <1>4, TextOfLast
<1> QED BY <1>2, <1>5, <1>6

(* Writing into the last block of its kind what its target holds.            *)
LEMMA FinalizeTextEffect ==
    ASSUME NEW p \in Pages
    PROVE  LET q == FinalizeText(p) IN
           /\ q \in Pages /\ Beside(p, q) /\ q.think = p.think /\ q.text = << >> /\ SameCards(p.blocks, q.blocks)
           /\ Growing(p) => TextOf(q.blocks) = Shown(p)
<1> DEFINE q == FinalizeText(p)
           n == Len(p.blocks)
           c == Written(p.blocks, n, p.text)
<1>0. /\ p.blocks \in Seq(BlockRecs) /\ p.text \in Seq(Nat) /\ n \in Nat
      /\ p.blocks # << >> <=> n > 0
      /\ LastIs(p, "text") <=> n > 0 /\ p.blocks[n].kind = "text"
  BY BlocksOfPage
<1>1. CASE p.text # << >> /\ LastIs(p, "text")
  <2>1. n \in 1 .. n /\ p.blocks # << >>
    BY <1>0, <1>1
  <2>2. c \in Seq(BlockRecs) /\ SameCards(p.blocks, c) /\ c[n].content = p.text /\ \A j \in 1 .. n : j # n => c[j] = p.blocks[j]
    BY <1>0, <2>1, WriteOne
  <2>3. q = [p EXCEPT !.blocks = c, !.text = << >>]
    BY <1>1 DEF FinalizeText, WriteLast, Written
  <2> HIDE DEF q, c
  <2>4. q \in Pages
    BY <2>2, <2>3, EmptySeq DEF Pages
  <2>5. q.blocks = c /\ Beside(p, q) /\ q.think = p.think /\ q.text = << >>
    BY <2>3 DEF Pages, Beside
  <2>6. Len(c) = n /\ c[n].kind = "text"
    BY <1>0, <1>1, <2>1, <2>2 DEF SameCards
  <2>7. Piece(c[n]) = p.text
    BY <2>2, <2>6 DEF Piece
  <2>8. TextOf(c) = Before(p.blocks) \o Piece(c[n])
    BY <1>0, <2>1, <2>2, <2>6, TextOfLast
  <2>9. Shown(p) = Before(p.blocks) \o p.text
    BY <1>1, ShownOfGrowing
  <2> QED BY <2>2, <2>4, <2>5, <2>7, <2>8, <2>9 DEF q
<1>2. CASE ~(p.text # << >> /\ LastIs(p, "text"))
  <2>1. q = [p EXCEPT !.text = << >>]
    <3>1. q = [p EXCEPT !.blocks = p.blocks, !.text = << >>]
      BY <1>2 DEF FinalizeText
    <3> QED BY <3>1 DEF Pages
  <2> HIDE DEF q
  <2>2. << >> \in Seq(Nat)
    BY EmptySeq
  <2>3. q \in Pages
    BY <2>1, <2>2 DEF Pages
  <2>4. q.blocks = p.blocks /\ Beside(p, q) /\ q.think = p.think /\ q.text = << >>
    BY <2>1 DEF Pages, Beside
  <2>5. SameCards(p.blocks, q.blocks)
    BY <2>4 DEF SameCards
  <2>6. Growing(p) => TextOf(q.blocks) = Shown(p)
    BY <1>2, <2>4, ShownOfStill DEF Growing
  <2> QED BY <2>3, <2>4, <2>5, <2>6 DEF q
<1> QED BY <1>1, <1>2

SamePieces(b, c) == Len(c) = Len(b) /\ \A i \in 1 .. Len(b) : c[i].kind = b[i].kind /\ Piece(c[i]) = Piece(b[i])

LEMMA BeforeSame ==
    ASSUME NEW b \in Seq(BlockRecs), NEW c \in Seq(BlockRecs), Len(c) = Len(b), b # << >>,
           \A i \in 1 .. Len(b) : i # Len(b) => Piece(c[i]) = Piece(b[i])
    PROVE  Before(c) = Before(b)
<1> DEFINE n == Len(b)
           f == SubSeq(b, 1, n - 1)
           g == SubSeq(c, 1, n - 1)
<1>1. n \in Nat /\ n > 0 /\ (\A i \in 1 .. n : b[i] \in BlockRecs /\ c[i] \in BlockRecs) /\ Len(c) = n
  BY SeqFacts
<1>2. f \in Seq(BlockRecs) /\ Len(f) = n - 1 /\ \A i \in 1 .. n - 1 : f[i] = b[i]
  BY <1>1, SubSeqProperties
<1>3. g \in Seq(BlockRecs) /\ Len(g) = n - 1 /\ \A i \in 1 .. n - 1 : g[i] = c[i]
  BY <1>1, SubSeqProperties
<1>4. \A i \in 1 .. n - 1 : Piece(g[i]) = Piece(f[i])
  BY <1>1, <1>2, <1>3
<1>5. Before(b) = TextOf(f) /\ Before(c) = TextOf(g)
  BY <1>1 DEF Before
<1> HIDE DEF f, g, n
<1> QED BY <1>1, <1>2, <1>3, <1>4, <1>5, SameTextShown

(* A page whose texts are left alone shows the same text.                    *)
LEMMA ShownSame ==
    ASSUME NEW p \in Pages, NEW q \in Pages, q.text = p.text, SamePieces(p.blocks, q.blocks), Growing(p)
    PROVE  Growing(q) /\ Shown(q) = Shown(p)
<1>1. \A kind : LastIs(q, kind) <=> LastIs(p, kind)
  BY BlocksOfPage DEF SamePieces
<1>2. p.blocks \in Seq(BlockRecs) /\ q.blocks \in Seq(BlockRecs)
  BY BlocksOfPage
<1>3. CASE p.text = << >>
  <2>1. TextOf(q.blocks) = TextOf(p.blocks)
    BY <1>2, SameTextShown DEF SamePieces
  <2> QED BY <1>3, <2>1, ShownOfStill DEF Growing
<1>4. CASE p.text # << >>
  <2>1. LastIs(p, "text") /\ LastIs(q, "text") /\ p.blocks # << >>
    BY <1>1, <1>4, BlocksOfPage DEF Growing
  <2>2. Before(q.blocks) = Before(p.blocks)
    BY <1>2, <2>1, BeforeSame DEF SamePieces
  <2> QED BY <1>4, <2>1, <2>2, ShownOfGrowing DEF Growing
<1> QED BY <1>3, <1>4

LEMMA SamePiecesLast ==
    ASSUME NEW p \in Pages, NEW q \in Pages, SamePieces(p.blocks, q.blocks)
    PROVE  \A kind : LastIs(q, kind) <=> LastIs(p, kind)
<1>1. /\ Len(p.blocks) \in Nat /\ Len(q.blocks) = Len(p.blocks)
      /\ \A i \in 1 .. Len(p.blocks) : q.blocks[i].kind = p.blocks[i].kind
  BY BlocksOfPage DEF SamePieces
<1>2. ASSUME Len(p.blocks) > 0 PROVE q.blocks[Len(q.blocks)].kind = p.blocks[Len(p.blocks)].kind
  <2>1. Len(p.blocks) \in 1 .. Len(p.blocks)
    BY <1>1, <1>2
  <2> QED BY <1>1, <2>1
<1>3. \A kind : LastIs(p, kind) <=> Len(p.blocks) > 0 /\ p.blocks[Len(p.blocks)].kind = kind
  BY BlocksOfPage
<1>4. \A kind : LastIs(q, kind) <=> Len(q.blocks) > 0 /\ q.blocks[Len(q.blocks)].kind = kind
  BY BlocksOfPage
<1> QED BY <1>1, <1>2, <1>3, <1>4

LEMMA CardsAndPieces ==
    ASSUME NEW b, NEW c
    PROVE  /\ SameTexts(b, c) => SamePieces(b, c)
           /\ SameCards(b, c) /\ (\A i \in 1 .. Len(b) : b[i].kind = "text" => c[i] = b[i]) => SamePieces(b, c)
BY DEF SameTexts, SameCards, SamePieces, Piece

LEMMA FinalizeThinkingEffect ==
    ASSUME NEW p \in Pages
    PROVE  LET q == FinalizeThinking(p) IN
           /\ q \in Pages /\ Beside(p, q) /\ q.text = p.text /\ SameCards(p.blocks, q.blocks)
           /\ q.think = << >> /\ SamePieces(p.blocks, q.blocks)
<1> DEFINE q == FinalizeThinking(p)
           n == Len(p.blocks)
           c == Written(p.blocks, n, p.think)
<1>0. /\ p.blocks \in Seq(BlockRecs) /\ p.think \in Seq(Nat) /\ n \in Nat
      /\ LastIs(p, "thinking") <=> n > 0 /\ p.blocks[n].kind = "thinking"
  BY BlocksOfPage
<1>1. CASE p.think # << >> /\ LastIs(p, "thinking")
  <2>1. n \in 1 .. n
    BY <1>0, <1>1
  <2>2. c \in Seq(BlockRecs) /\ SameCards(p.blocks, c) /\ \A j \in 1 .. n : j # n => c[j] = p.blocks[j]
    BY <1>0, <2>1, WriteOne
  <2>3. q = [p EXCEPT !.blocks = c, !.think = << >>]
    BY <1>1 DEF FinalizeThinking, WriteLast, Written
  <2> HIDE DEF q, c
  <2>4. q \in Pages
    BY <2>2, <2>3, EmptySeq DEF Pages
  <2>5. q.blocks = c /\ Beside(p, q) /\ q.think = << >> /\ q.text = p.text
    BY <2>3 DEF Pages, Beside
  <2>6. \A i \in 1 .. n : p.blocks[i].kind = "text" => c[i] = p.blocks[i]
    BY <1>0, <1>1, <2>2
  <2>7. SamePieces(p.blocks, c)
    BY <2>2, <2>6, CardsAndPieces
  <2> QED BY <2>2, <2>4, <2>5, <2>7 DEF q
<1>2. CASE ~(p.think # << >> /\ LastIs(p, "thinking"))
  <2>1. q = [p EXCEPT !.think = << >>]
    <3>1. q = [p EXCEPT !.blocks = p.blocks, !.think = << >>]
      BY <1>2 DEF FinalizeThinking
    <3> QED BY <3>1 DEF Pages
  <2> HIDE DEF q
  <2>2. << >> \in Seq(Nat)
    BY EmptySeq
  <2>3. q \in Pages
    BY <2>1, <2>2 DEF Pages
  <2>4. q.blocks = p.blocks /\ Beside(p, q) /\ q.think = << >> /\ q.text = p.text
    BY <2>1 DEF Pages, Beside
  <2>5. SameCards(p.blocks, q.blocks) /\ SamePieces(p.blocks, q.blocks)
    BY <2>4 DEF SameCards, SamePieces
  <2> QED BY <2>3, <2>4, <2>5 DEF q
<1> QED BY <1>1, <1>2

LEMMA BesideMoves ==
    ASSUME NEW p, NEW q, NEW r, Beside(p, q), Beside(q, r)
    PROVE  Beside(p, r)
BY DEF Beside

LEMMA FinalizeBothEffect ==
    ASSUME NEW p \in Pages
    PROVE  LET q == FinalizeBoth(p) IN
           /\ q \in Pages /\ Beside(p, q) /\ q.text = << >> /\ q.think = << >> /\ SameCards(p.blocks, q.blocks)
           /\ Growing(p) => TextOf(q.blocks) = Shown(p)
<1> DEFINE r == FinalizeThinking(p)
           q == FinalizeBoth(p)
<1>1. q = FinalizeText(r)
  BY DEF FinalizeBoth
<1>2. /\ r \in Pages /\ Beside(p, r) /\ r.text = p.text /\ SameCards(p.blocks, r.blocks)
      /\ r.think = << >> /\ SamePieces(p.blocks, r.blocks)
  BY FinalizeThinkingEffect
<1> HIDE DEF q, r
<1>3. /\ q \in Pages /\ Beside(r, q) /\ q.think = r.think /\ q.text = << >> /\ SameCards(r.blocks, q.blocks)
      /\ Growing(r) => TextOf(q.blocks) = Shown(r)
  BY <1>1, <1>2, FinalizeTextEffect
<1>4. SameCards(p.blocks, q.blocks)
  BY <1>2, <1>3 DEF SameCards
<1>5. Growing(p) => TextOf(q.blocks) = Shown(p)
  BY <1>2, <1>3, ShownSame
<1> QED BY <1>2, <1>3, <1>4, <1>5, BesideMoves DEF q

LEMMA AddToolEffect ==
    ASSUME NEW p \in Pages, NEW id \in Nat, NEW status \in Status
    PROVE  LET q == AddTool(p, id, status) IN
           /\ q \in Pages /\ Beside(p, q) /\ q.text = p.text /\ q.think = p.think
           /\ q.blocks = Append(p.blocks, Block("tool", << >>, id, status))
           /\ Block("tool", << >>, id, status) \in BlockRecs
<1> DEFINE q == AddTool(p, id, status)
           x == Block("tool", << >>, id, status)
<1>1. x \in BlockRecs
  BY EmptySeq DEF Block, BlockRecs, Kinds
<1>2. q = [p EXCEPT !.blocks = Append(p.blocks, x)]
  BY DEF AddTool
<1> HIDE DEF q, x
<1>3. Append(p.blocks, x) \in Seq(BlockRecs)
  BY <1>1, BlocksOfPage, AppendProperties
<1>4. q \in Pages
  BY <1>2, <1>3 DEF Pages
<1>5. q.blocks = Append(p.blocks, x) /\ Beside(p, q) /\ q.text = p.text /\ q.think = p.think
  BY <1>2 DEF Pages, Beside
<1> QED BY <1>1, <1>4, <1>5 DEF q, x

NewStatus(x, id, status) == IF x.kind = "tool" /\ x.id = id THEN status ELSE x.status

LEMMA SetStatusEffect ==
    ASSUME NEW p \in Pages, NEW id \in Nat, NEW status \in Status
    PROVE  LET q == SetStatus(p, id, status) IN
           /\ q \in Pages /\ Beside(p, q) /\ q.text = p.text /\ q.think = p.think
           /\ SameTexts(p.blocks, q.blocks)
           /\ \A i \in 1 .. Len(p.blocks) :
                q.blocks[i].status = NewStatus(p.blocks[i], id, status)
<1> DEFINE q == SetStatus(p, id, status)
           n == Len(p.blocks)
           c == [i \in 1 .. n |->
                   IF p.blocks[i].kind = "tool" /\ p.blocks[i].id = id THEN [p.blocks[i] EXCEPT !.status = status]
                   ELSE p.blocks[i]]
<1>0. n \in Nat /\ DOMAIN p.blocks = 1 .. n /\ \A i \in 1 .. n : p.blocks[i] \in BlockRecs
  BY BlocksOfPage
<1>1. q = [p EXCEPT !.blocks = c]
  BY <1>0 DEF SetStatus
<1>2. \A x \in BlockRecs : LET y == [x EXCEPT !.status = status] IN
        y \in BlockRecs /\ y.kind = x.kind /\ y.id = x.id /\ y.content = x.content /\ y.status = status
  BY DEF BlockRecs
<1>3. ASSUME NEW i \in 1 .. n
      PROVE  /\ c[i] \in BlockRecs /\ c[i].kind = p.blocks[i].kind /\ c[i].id = p.blocks[i].id /\ c[i].content = p.blocks[i].content
             /\ c[i].status = NewStatus(p.blocks[i], id, status)
  BY <1>0, <1>2 DEF NewStatus
<1>4. c \in [1 .. n -> BlockRecs]
  BY <1>3
<1>5. c \in Seq(BlockRecs) /\ Len(c) = n
  <2> HIDE DEF c, n
  <2> QED BY <1>0, <1>4, SeqOfFunction
<1> HIDE DEF q, c
<1>6. q \in Pages
  BY <1>1, <1>5 DEF Pages
<1>7. q.blocks = c /\ Beside(p, q) /\ q.text = p.text /\ q.think = p.think
  BY <1>1 DEF Pages, Beside
<1>8. SameTexts(p.blocks, c)
  BY <1>3, <1>5 DEF SameTexts
<1> QED BY <1>3, <1>6, <1>7, <1>8 DEF q

LEMMA CatchUpEffect ==
    ASSUME NEW p \in Pages, NEW kind, NEW target \in Seq(Nat)
    PROVE  LET q == CatchUp(p, kind, target) IN
           /\ q \in Pages /\ Beside(p, q) /\ q.text = p.text /\ q.think = p.think /\ SameCards(p.blocks, q.blocks)
           /\ kind # "text" => SamePieces(p.blocks, q.blocks)
           /\ kind = "text" /\ target = p.text /\ Growing(p) => Growing(q) /\ Shown(q) = Shown(p)
<1> DEFINE q == CatchUp(p, kind, target)
           i == LastOf(p, kind)
           n == Len(p.blocks)
           c == Written(p.blocks, i, target)
<1>0. /\ p.blocks \in Seq(BlockRecs) /\ p.text \in Seq(Nat) /\ n \in Nat
      /\ (p.blocks # << >> <=> n > 0) /\ \A j \in 1 .. n : p.blocks[j] \in BlockRecs
      /\ \A k : LastIs(p, k) <=> n > 0 /\ p.blocks[n].kind = k
  BY BlocksOfPage
<1>1. i \in 0 .. n /\ (i # 0 => p.blocks[i].kind = kind) /\ (LastIs(p, kind) => i = n)
  BY LastOfKind
<1>2. CASE i = 0 \/ Len(p.blocks[i].content) >= Len(target)
  <2>1. q = p
    BY <1>2 DEF CatchUp
  <2> HIDE DEF q
  <2> QED BY <2>1 DEF Beside, SameCards, SamePieces, q
<1>3. CASE ~(i = 0 \/ Len(p.blocks[i].content) >= Len(target))
  <2>1. i \in 1 .. n
    BY <1>0, <1>1, <1>3
  <2>2. q = [p EXCEPT !.blocks = c]
    BY <1>3 DEF CatchUp, Written
  <2>3. c \in Seq(BlockRecs) /\ SameCards(p.blocks, c) /\ c[i].content = target /\ \A j \in 1 .. n : j # i => c[j] = p.blocks[j]
    BY <1>0, <2>1, WriteOne
  <2> HIDE DEF q, c
  <2>4. q \in Pages
    BY <2>2, <2>3 DEF Pages
  <2>5. q.blocks = c /\ Beside(p, q) /\ q.text = p.text /\ q.think = p.think
    BY <2>2 DEF Pages, Beside
  <2>6. ASSUME kind # "text" PROVE SamePieces(p.blocks, c)
    <3>1. p.blocks[i].kind = kind
      BY <1>1, <2>1
    <3>2. \A j \in 1 .. n : p.blocks[j].kind = "text" => c[j] = p.blocks[j]
      BY <2>3, <2>6, <3>1
    <3> QED BY <2>3, <3>2, CardsAndPieces
  <2>7. ASSUME kind = "text", target = p.text, Growing(p) PROVE Growing(q) /\ Shown(q) = Shown(p)
    <3>1. p.text # << >>
      <4>1. Len(p.blocks[i].content) \in Nat
        BY <1>0, <2>1, LenProperties DEF BlockRecs
      <4>2. Len(p.text) # 0
        BY <1>0, <1>3, <2>7, <4>1, LenProperties
      <4> QED BY <1>0, <4>2, SeqFacts
    <3>2. LastIs(p, "text") /\ i = n
      BY <1>1, <2>7, <3>1 DEF Growing
    <3>3. LastIs(q, "text")
      <4>1. LastIs(q, "text") <=> Len(q.blocks) > 0 /\ q.blocks[Len(q.blocks)].kind = "text"
        BY <2>4, BlocksOfPage
      <4>2. n > 0 /\ p.blocks[n].kind = "text" /\ n \in 1 .. n
        BY <1>0, <3>2
      <4>3. Len(c) = n /\ c[n].kind = p.blocks[n].kind
        BY <2>3, <4>2 DEF SameCards
      <4> QED BY <2>5, <4>1, <4>2, <4>3
    <3>4. Len(c) = n /\ \A j \in 1 .. n : j # n => Piece(c[j]) = Piece(p.blocks[j])
      BY <2>3, <3>2 DEF SameCards
    <3>5. Before(c) = Before(p.blocks)
      BY <1>0, <2>3, <3>2, <3>4, BeforeSame
    <3> QED BY <2>4, <2>5, <3>1, <3>2, <3>3, <3>5, ShownOfGrowing DEF Growing
  <2> QED BY <2>3, <2>4, <2>5, <2>6, <2>7 DEF q
<1> QED BY <1>2, <1>3

(* One frame of the typewriter changes nothing that is known of the page.    *)
LEMMA AnimateEffect ==
    ASSUME NEW p \in Pages
    PROVE  LET q == CatchUp(CatchUp(p, "text", p.text), "thinking", p.think) IN
           /\ q \in Pages /\ Beside(p, q) /\ q.text = p.text /\ SameCards(p.blocks, q.blocks)
           /\ Growing(p) => Growing(q) /\ Shown(q) = Shown(p)
<1> DEFINE r == CatchUp(p, "text", p.text)
           q == CatchUp(r, "thinking", p.think)
<1>0. p.text \in Seq(Nat) /\ p.think \in Seq(Nat)
  BY BlocksOfPage
<1>1. /\ r \in Pages /\ Beside(p, r) /\ r.text = p.text /\ r.think = p.think /\ SameCards(p.blocks, r.blocks)
      /\ Growing(p) => Growing(r) /\ Shown(r) = Shown(p)
  BY <1>0, CatchUpEffect
<1> HIDE DEF r
<1>2. /\ q \in Pages /\ Beside(r, q) /\ q.text = r.text /\ SameCards(r.blocks, q.blocks)
      /\ SamePieces(r.blocks, q.blocks)
  BY <1>0, <1>1, CatchUpEffect
<1> HIDE DEF q
<1>3. SameCards(p.blocks, q.blocks)
  BY <1>1, <1>2 DEF SameCards
<1>4. Growing(p) => Growing(q) /\ Shown(q) = Shown(p)
  BY <1>1, <1>2, ShownSame
<1> QED BY <1>1, <1>2, <1>3, <1>4, BesideMoves DEF q, r

(***************************************************************************)
(* Cards.                                                                  *)
(***************************************************************************)
Card(b, i) == b[i].kind = "tool"
\* The tool calls that have a card, and those that have a closed one.
CardIds(b) == {b[i].id : i \in {j \in DOMAIN b : Card(b, j)}}
ClosedIds(b) == {b[i].id : i \in {j \in DOMAIN b : Card(b, j) /\ b[j].status \in Closed}}

LEMMA CardsOfPage ==
    ASSUME NEW p
    PROVE  ClosedTools(p) = ClosedIds(p.blocks) /\ \A id : HasTool(p, id) <=> id \in CardIds(p.blocks)
BY DEF ClosedTools, ClosedIds, HasTool, CardIds, Card

\* A card for each call, and nothing else has the id of one.
OneCardEach(b) ==
    /\ \A i \in 1 .. Len(b) : Card(b, i) => b[i].id > 0
    /\ \A i \in 1 .. Len(b) : ~Card(b, i) => b[i].id = None
    /\ \A i, j \in 1 .. Len(b) : i # j /\ Card(b, i) => b[i].id # b[j].id

LEMMA SameCardsAre ==
    ASSUME NEW b \in Seq(BlockRecs), NEW c \in Seq(BlockRecs), SameCards(b, c)
    PROVE  CardIds(c) = CardIds(b) /\ ClosedIds(c) = ClosedIds(b) /\ (OneCardEach(b) => OneCardEach(c))
<1>1. DOMAIN b = 1 .. Len(b) /\ DOMAIN c = 1 .. Len(b)
  BY SeqFacts DEF SameCards
<1>2. CardIds(c) = CardIds(b)
  BY <1>1 DEF CardIds, Card, SameCards
<1>3. ClosedIds(c) = ClosedIds(b)
  BY <1>1 DEF ClosedIds, Card, SameCards
<1>4. OneCardEach(b) => OneCardEach(c)
  BY DEF OneCardEach, Card, SameCards
<1> QED BY <1>2, <1>3, <1>4

LEMMA AppendBlock ==
    ASSUME NEW b \in Seq(BlockRecs), NEW x \in BlockRecs
    PROVE  LET c == Append(b, x) IN
           /\ c \in Seq(BlockRecs) /\ Len(c) = Len(b) + 1 /\ c[Len(c)] = x /\ \A i \in 1 .. Len(b) : c[i] = b[i]
           /\ x.kind = "tool" => CardIds(c) = CardIds(b) \cup {x.id}
           /\ x.kind # "tool" => CardIds(c) = CardIds(b)
           /\ x.kind = "tool" /\ x.status \in Closed => ClosedIds(c) = ClosedIds(b) \cup {x.id}
           /\ ~(x.kind = "tool" /\ x.status \in Closed) => ClosedIds(c) = ClosedIds(b)
           /\ OneCardEach(b) /\ x.kind = "tool" /\ x.id > 0 /\ x.id \notin CardIds(b) => OneCardEach(c)
           /\ OneCardEach(b) /\ x.kind # "tool" /\ x.id = None => OneCardEach(c)
<1> DEFINE c == Append(b, x)
           n == Len(b)
<1>1. /\ c \in Seq(BlockRecs) /\ Len(c) = n + 1 /\ n \in Nat /\ c[n + 1] = x /\ \A i \in 1 .. n : c[i] = b[i]
  BY AppendProperties, LenProperties
<1>2. DOMAIN b = 1 .. n /\ DOMAIN c = 1 .. n + 1
  BY <1>1, SeqFacts
<1> HIDE DEF c, n
<1>3. \A i \in 1 .. n + 1 : i \in 1 .. n \/ i = n + 1
  BY <1>1
<1>4. 1 .. n \subseteq 1 .. n + 1 /\ n + 1 \in 1 .. n + 1 /\ n + 1 \notin 1 .. n
  BY <1>1
<1>5. /\ x.kind = "tool" => CardIds(c) = CardIds(b) \cup {x.id}
      /\ x.kind # "tool" => CardIds(c) = CardIds(b)
  BY <1>1, <1>2, <1>3, <1>4 DEF CardIds, Card
<1>6. /\ x.kind = "tool" /\ x.status \in Closed => ClosedIds(c) = ClosedIds(b) \cup {x.id}
      /\ ~(x.kind = "tool" /\ x.status \in Closed) => ClosedIds(c) = ClosedIds(b)
  BY <1>1, <1>2, <1>3, <1>4 DEF ClosedIds, Card
<1>7. ASSUME OneCardEach(b), x.kind = "tool" => x.id > 0 /\ x.id \notin CardIds(b), x.kind # "tool" => x.id = None
      PROVE  OneCardEach(c)
  <2>1. \A i \in 1 .. n : Card(b, i) => b[i].id \in CardIds(b)
    BY <1>2 DEF CardIds
  <2>2. \A i \in 1 .. n : (Card(b, i) => b[i].id > 0) /\ (~Card(b, i) => b[i].id = None)
    BY <1>7 DEF OneCardEach, n
  <2>3. \A i, j \in 1 .. n : i # j /\ Card(b, i) => b[i].id # b[j].id
    BY <1>7 DEF OneCardEach, n
  <2>4. ASSUME NEW i \in 1 .. n + 1, NEW j \in 1 .. n + 1, i # j, Card(c, i) PROVE c[i].id # c[j].id
    <3>1. CASE i = n + 1
      <4>1. j \in 1 .. n /\ c[j] = b[j] /\ c[i] = x
        BY <1>1, <1>3, <2>4, <3>1
      <4> QED BY <1>7, <2>1, <2>2, <2>4, <4>1 DEF Card, None
    <3>2. CASE i # n + 1 /\ j = n + 1
      <4>1. i \in 1 .. n /\ c[i] = b[i] /\ c[j] = x
        BY <1>1, <1>3, <3>2
      <4> QED BY <1>7, <2>1, <2>2, <2>4, <4>1 DEF Card, None
    <3>3. CASE i # n + 1 /\ j # n + 1
      <4>1. i \in 1 .. n /\ c[i] = b[i] /\ j \in 1 .. n /\ c[j] = b[j]
        BY <1>1, <1>3, <3>3
      <4> QED BY <2>3, <2>4, <4>1 DEF Card
    <3> QED BY <3>1, <3>2, <3>3
  <2>5. \A i \in 1 .. n + 1 : (Card(c, i) => c[i].id > 0) /\ (~Card(c, i) => c[i].id = None)
    BY <1>1, <1>3, <1>7, <2>2 DEF Card
  <2>6. Len(c) = n + 1
    BY <1>1
  <2> QED BY <2>4, <2>5, <2>6 DEF OneCardEach
<1>8. c[Len(c)] = x /\ Len(c) = Len(b) + 1
  BY <1>1 DEF n
<1>9. \A i \in 1 .. Len(b) : c[i] = b[i]
  BY <1>1 DEF n
<1> QED BY <1>1, <1>5, <1>6, <1>7, <1>8, <1>9 DEF c

LEMMA StatusSet ==
    ASSUME NEW b \in Seq(BlockRecs), NEW c \in Seq(BlockRecs), SameTexts(b, c), NEW id \in Nat, NEW status \in Status,
           \A i \in 1 .. Len(b) : c[i].status = NewStatus(b[i], id, status)
    PROVE  /\ CardIds(c) = CardIds(b) /\ (OneCardEach(b) => OneCardEach(c))
           /\ ClosedIds(b) \ {id} \subseteq ClosedIds(c) /\ ClosedIds(c) \subseteq CardIds(b)
           /\ status \in Closed => ClosedIds(b) \subseteq ClosedIds(c)
           /\ status \in Closed /\ id \in CardIds(b) => id \in ClosedIds(c)
<1>1. DOMAIN b = 1 .. Len(b) /\ DOMAIN c = 1 .. Len(b)
  BY SeqFacts DEF SameTexts
<1>2. CardIds(c) = CardIds(b)
  BY <1>1 DEF CardIds, Card, SameTexts
<1>3. OneCardEach(b) => OneCardEach(c)
  BY DEF OneCardEach, Card, SameTexts
<1>4. ClosedIds(b) \ {id} \subseteq ClosedIds(c) /\ ClosedIds(c) \subseteq CardIds(b)
  BY <1>1 DEF ClosedIds, CardIds, Card, SameTexts, NewStatus
<1>5. status \in Closed => ClosedIds(b) \subseteq ClosedIds(c)
  BY <1>1 DEF ClosedIds, Card, SameTexts, NewStatus
<1>6. status \in Closed /\ id \in CardIds(b) => id \in ClosedIds(c)
  BY <1>1 DEF ClosedIds, CardIds, Card, SameTexts, NewStatus
<1> QED BY <1>2, <1>3, <1>4, <1>5, <1>6

(***************************************************************************)
(* What reading an event does to the page.                                 *)
(***************************************************************************)
Fits(p) == LastIs(p, "text") <=> p.text # << >>
\* The last block is no text, nothing is growing, and the page shows what it has shown.
Rests(p, q) == Fits(q) /\ q.text = << >> /\ Shown(q) = Shown(p)
SameClosed(b, c) == ClosedIds(c) = ClosedIds(b)
OneMore(b, c, id) == CardIds(c) = CardIds(b) \cup {id} /\ (OneCardEach(b) /\ id > 0 /\ id \notin CardIds(b) => OneCardEach(c))
SameIds(b, c) == CardIds(c) = CardIds(b) /\ (OneCardEach(b) => OneCardEach(c))

LEMMA AppendedShown ==
    ASSUME NEW p \in Pages, NEW q \in Pages, NEW x \in BlockRecs,
           q.blocks = Append(p.blocks, x), q.text = << >>, x.kind # "text"
    PROVE  Fits(q) /\ ~LastIs(q, "text") /\ Shown(q) = TextOf(p.blocks)
<1>1. p.blocks \in Seq(BlockRecs) /\ q.blocks \in Seq(BlockRecs)
  BY BlocksOfPage
<1>2. /\ Len(q.blocks) = Len(p.blocks) + 1 /\ q.blocks[Len(q.blocks)] = x
  BY <1>1, AppendBlock
<1>3. ~LastIs(q, "text")
  BY <1>2, BlocksOfPage
<1>4. Piece(x) = << >> /\ TextOf(p.blocks) \in Seq(Nat) /\ TextOf(q.blocks) = TextOf(p.blocks) \o Piece(x)
  BY <1>1, TextOfAppend DEF Piece
<1>5. TextOf(q.blocks) = TextOf(p.blocks)
  BY <1>4, ConcatEmptySeq
<1>6. Shown(q) = TextOf(q.blocks)
  BY ShownOfStill
<1> QED BY <1>3, <1>5, <1>6 DEF Fits

LEMMA OnReasoningEffect ==
    ASSUME NEW p \in Pages, NEW e \in EventRecs
    PROVE  LET q == OnReasoning(p, e) IN
           /\ q \in Pages /\ Beside(p, q)
           /\ SameIds(p.blocks, q.blocks) /\ SameClosed(p.blocks, q.blocks)
           /\ Fits(p) /\ p.text = << >> => Rests(p, q)
<1> DEFINE q == OnReasoning(p, e)
           x == Block("thinking", << >>, None, "none")
<1>0. p.think \in Seq(Nat) /\ p.blocks \in Seq(BlockRecs) /\ e.id \in Nat
  BY BlocksOfPage DEF EventRecs
<1>1. CASE LastIs(p, "thinking")
  <2>1. q = [p EXCEPT !.think = Append(p.think, e.id)]
    BY <1>1 DEF OnReasoning
  <2> HIDE DEF q
  <2>2. Append(p.think, e.id) \in Seq(Nat)
    BY <1>0, AppendProperties
  <2>3. q \in Pages
    BY <2>1, <2>2 DEF Pages
  <2>4. q.blocks = p.blocks /\ Beside(p, q) /\ q.text = p.text
    BY <2>1 DEF Pages, Beside
  <2>5. SameIds(p.blocks, q.blocks) /\ SameClosed(p.blocks, q.blocks)
    BY <2>4 DEF SameIds, SameClosed
  <2>6. p.text = << >> => Shown(q) = Shown(p)
    BY <2>3, <2>4, ShownOfStill
  <2>7. Fits(p) => Fits(q)
    BY <2>4 DEF Fits, LastIs
  <2> QED BY <2>3, <2>4, <2>5, <2>6, <2>7 DEF Rests, q
<1>2. CASE ~LastIs(p, "thinking")
  <2>1. q = [p EXCEPT !.blocks = Append(p.blocks, x), !.think = <<e.id>>]
    BY <1>2 DEF OnReasoning
  <2> HIDE DEF q
  <2>2. x \in BlockRecs /\ x.kind = "thinking" /\ x.id = None /\ <<e.id>> \in Seq(Nat)
    BY <1>0, EmptySeq DEF Block, BlockRecs, Kinds, Status, None
  <2> HIDE DEF x
  <2>3. Append(p.blocks, x) \in Seq(BlockRecs)
    BY <1>0, <2>2, AppendProperties
  <2>4. q \in Pages
    BY <2>1, <2>2, <2>3 DEF Pages
  <2>5. q.blocks = Append(p.blocks, x) /\ Beside(p, q) /\ q.text = p.text
    BY <2>1 DEF Pages, Beside
  <2>6. SameIds(p.blocks, q.blocks) /\ SameClosed(p.blocks, q.blocks)
    <3>1. x.kind # "tool"
      BY <2>2
    <3>2. /\ CardIds(q.blocks) = CardIds(p.blocks) /\ ClosedIds(q.blocks) = ClosedIds(p.blocks)
          /\ OneCardEach(p.blocks) => OneCardEach(q.blocks)
      BY <1>0, <2>2, <2>5, <3>1, AppendBlock
    <3> QED BY <3>2 DEF SameIds, SameClosed
  <2>7. p.text = << >> => Rests(p, q)
    BY <2>2, <2>4, <2>5, AppendedShown, ShownOfStill DEF Rests
  <2> QED BY <2>4, <2>5, <2>6, <2>7 DEF q
<1> QED BY <1>1, <1>2

LEMMA AppendAfter ==
    ASSUME NEW s \in Seq(Nat), NEW t \in Seq(Nat), NEW x \in Nat
    PROVE  Append(s \o t, x) = s \o Append(t, x)
<1> DEFINE a == Append(s \o t, x)
           b == s \o Append(t, x)
<1>1. /\ Len(s) \in Nat /\ Len(t) \in Nat
      /\ s \o t \in Seq(Nat) /\ Len(s \o t) = Len(s) + Len(t)
      /\ \A i \in 1 .. Len(s) : (s \o t)[i] = s[i]
      /\ \A i \in 1 .. Len(t) : (s \o t)[Len(s) + i] = t[i]
  BY LenProperties, ConcatProperties
<1>2. /\ Append(t, x) \in Seq(Nat) /\ Len(Append(t, x)) = Len(t) + 1 /\ Append(t, x)[Len(t) + 1] = x
      /\ \A i \in 1 .. Len(t) : Append(t, x)[i] = t[i]
  BY AppendProperties
<1>3. /\ a \in Seq(Nat) /\ Len(a) = Len(s) + Len(t) + 1 /\ a[Len(s) + Len(t) + 1] = x
      /\ \A i \in 1 .. Len(s) + Len(t) : a[i] = (s \o t)[i]
  BY <1>1, AppendProperties
<1>4. /\ b \in Seq(Nat) /\ Len(b) = Len(s) + (Len(t) + 1)
      /\ \A i \in 1 .. Len(s) : b[i] = s[i]
      /\ \A i \in 1 .. Len(t) + 1 : b[Len(s) + i] = Append(t, x)[i]
  BY <1>1, <1>2, ConcatProperties
<1> HIDE DEF a, b
<1>5. ASSUME NEW i \in 1 .. Len(s) + Len(t) + 1 PROVE a[i] = b[i]
  <2>1. CASE i \in 1 .. Len(s)
    <3>1. i \in 1 .. Len(s) + Len(t)
      BY <1>1, <2>1
    <3> QED BY <1>1, <1>3, <1>4, <2>1, <3>1
  <2>2. CASE i = Len(s) + Len(t) + 1
    <3>1. Len(t) + 1 \in 1 .. Len(t) + 1 /\ i = Len(s) + (Len(t) + 1)
      BY <1>1, <2>2
    <3>2. b[Len(s) + (Len(t) + 1)] = Append(t, x)[Len(t) + 1]
      BY <1>4, <3>1
    <3> QED BY <1>2, <1>3, <2>2, <3>1, <3>2
  <2>3. CASE i > Len(s) /\ i < Len(s) + Len(t) + 1
    <3>1. PICK j \in 1 .. Len(t) : i = Len(s) + j
      <4>1. i - Len(s) \in 1 .. Len(t) /\ i = Len(s) + (i - Len(s))
        BY <1>1, <2>3
      <4> QED BY <4>1
    <3>2. i \in 1 .. Len(s) + Len(t) /\ j \in 1 .. Len(t) + 1
      BY <1>1, <2>3
    <3>3. a[i] = t[j]
      BY <1>1, <1>3, <3>1, <3>2
    <3>4. b[i] = t[j]
      BY <1>2, <1>4, <3>1, <3>2
    <3> QED BY <3>3, <3>4
  <2> QED BY <1>1, <2>1, <2>2, <2>3
<1>6. Len(a) = Len(b)
  BY <1>1, <1>3, <1>4
<1>7. a = b
  BY <1>3, <1>4, <1>5, <1>6, SeqEqual
<1> QED BY <1>7 DEF a, b

\* Beside, but for the question on the page.
Around(p, q) ==
    /\ q.pc = p.pc /\ q.question = p.question /\ q.regenerate = p.regenerate /\ q.from = p.from /\ q.seen = p.seen
    /\ q.resumes = p.resumes /\ q.limit = p.limit /\ q.pending = p.pending /\ q.retry = p.retry
    /\ q.edit = p.edit /\ q.drafts = p.drafts /\ q.delivered = p.delivered /\ q.shown = p.shown

LEMMA AskSet ==
    ASSUME NEW p \in Pages, NEW ask \in Nat \X Nat
    PROVE  LET q == [p EXCEPT !.ask = ask] IN
           /\ q \in Pages /\ Around(p, q) /\ q.ask = ask /\ q.blocks = p.blocks /\ q.text = p.text
BY DEF Pages, Around

LEMMA BesideIsAround == ASSUME NEW p, NEW q, Beside(p, q) PROVE Around(p, q) /\ q.ask = p.ask
BY DEF Beside, Around

LEMMA FitsGrows == ASSUME NEW p, Fits(p) PROVE Growing(p)
BY DEF Fits, Growing

LEMMA OnDeltaEffect ==
    ASSUME NEW p \in Pages, NEW e \in EventRecs
    PROVE  LET q == OnDelta(p, e) IN
           /\ q \in Pages /\ Beside(p, q)
           /\ SameIds(p.blocks, q.blocks) /\ SameClosed(p.blocks, q.blocks)
           /\ Fits(p) => Fits(q) /\ q.text # << >> /\ Shown(q) = Append(Shown(p), e.id)
<1> DEFINE r == FinalizeThinking(p)
           q == OnDelta(p, e)
           x == Block("text", << >>, None, "none")
           t == Append(r.text, e.id)
<1>1. /\ r \in Pages /\ Beside(p, r) /\ r.text = p.text /\ SameCards(p.blocks, r.blocks)
      /\ SamePieces(p.blocks, r.blocks)
  BY FinalizeThinkingEffect
<1>2. q = [r EXCEPT !.blocks = IF LastIs(r, "text") THEN r.blocks ELSE Append(r.blocks, x), !.text = t]
  BY DEF OnDelta
<1> HIDE DEF r, q
<1>3. /\ r.blocks \in Seq(BlockRecs) /\ p.blocks \in Seq(BlockRecs) /\ r.text \in Seq(Nat) /\ e.id \in Nat
      /\ (LastIs(r, "text") <=> LastIs(p, "text"))
  BY <1>1, BlocksOfPage, SamePiecesLast DEF EventRecs
<1>4. SameIds(p.blocks, r.blocks) /\ SameClosed(p.blocks, r.blocks)
  BY <1>1, <1>3, SameCardsAre DEF SameIds, SameClosed
<1>5. Fits(p) => Fits(r) /\ Shown(r) = Shown(p)
  BY <1>1, <1>3, FitsGrows, ShownSame DEF Fits
<1>6. t \in Seq(Nat) /\ t # << >>
  <2>1. t \in Seq(Nat) /\ Len(t) = Len(r.text) + 1 /\ Len(r.text) \in Nat
    BY <1>3, AppendProperties, LenProperties
  <2> HIDE DEF t
  <2> QED BY <2>1, SeqFacts
<1>7. x \in BlockRecs /\ x.kind = "text" /\ x.id = None /\ Piece(x) = << >>
  BY EmptySeq DEF Block, BlockRecs, Kinds, Status, None, Piece
<1> HIDE DEF x
<1>8. CASE LastIs(r, "text")
  <2> HIDE DEF t
  <2>1. q = [r EXCEPT !.blocks = r.blocks, !.text = t]
    BY <1>2, <1>8
  <2>2. q \in Pages
    BY <1>1, <1>3, <1>6, <2>1 DEF Pages
  <2>3. q.blocks = r.blocks /\ q.text = t /\ Beside(r, q)
    BY <1>1, <2>1 DEF Pages, Beside
  <2>4. Fits(q) /\ LastIs(q, "text")
    BY <1>6, <1>8, <2>3 DEF Fits, LastIs
  <2>5. ASSUME Fits(p) PROVE Shown(q) = Append(Shown(p), e.id)
    <3>1. r.text # << >>
      BY <1>5, <1>8, <2>5 DEF Fits
    <3>2. Shown(r) = Before(r.blocks) \o r.text /\ Before(r.blocks) \in Seq(Nat)
      BY <1>1, <1>8, <3>1, ShownOfGrowing
    <3>3. Shown(q) = Before(r.blocks) \o t
      BY <1>6, <2>2, <2>3, <2>4, ShownOfGrowing
    <3>4. Append(Before(r.blocks) \o r.text, e.id) = Before(r.blocks) \o Append(r.text, e.id)
      BY <1>3, <3>2, AppendAfter
    <3> QED BY <1>5, <2>5, <3>2, <3>3, <3>4 DEF t
  <2> QED BY <1>1, <1>4, <1>6, <2>2, <2>3, <2>4, <2>5, BesideMoves DEF q
<1>9. CASE ~LastIs(r, "text")
  <2> HIDE DEF t
  <2>1. q = [r EXCEPT !.blocks = Append(r.blocks, x), !.text = t]
    BY <1>2, <1>9
  <2>2. Append(r.blocks, x) \in Seq(BlockRecs)
    BY <1>3, <1>7, AppendProperties
  <2>3. q \in Pages
    BY <1>1, <1>6, <2>1, <2>2 DEF Pages
  <2>4. q.blocks = Append(r.blocks, x) /\ q.text = t /\ Beside(r, q)
    BY <1>1, <2>1 DEF Pages, Beside
  <2>5. /\ Len(q.blocks) = Len(r.blocks) + 1 /\ q.blocks[Len(q.blocks)] = x
        /\ CardIds(q.blocks) = CardIds(r.blocks) /\ ClosedIds(q.blocks) = ClosedIds(r.blocks)
        /\ OneCardEach(r.blocks) => OneCardEach(q.blocks)
        /\ \A i \in 1 .. Len(r.blocks) : q.blocks[i] = r.blocks[i]
    <3>1. x.kind # "tool"
      BY <1>7
    <3> QED BY <1>3, <1>7, <2>4, <3>1, AppendBlock
  <2>6. SameIds(p.blocks, q.blocks) /\ SameClosed(p.blocks, q.blocks)
    BY <1>4, <2>5 DEF SameIds, SameClosed
  <2>7. LastIs(q, "text")
    BY <1>3, <1>7, <2>3, <2>5, BlocksOfPage
  <2>8. ASSUME Fits(p) PROVE Shown(q) = Append(Shown(p), e.id)
    <3>1. r.text = << >>
      BY <1>5, <1>9, <2>8 DEF Fits
    <3>2. Shown(r) = TextOf(r.blocks)
      BY <1>1, <3>1, ShownOfStill
    <3>3. Shown(q) = Before(q.blocks) \o t
      BY <1>6, <2>3, <2>4, <2>7, ShownOfGrowing
    <3>4. Before(q.blocks) = TextOf(r.blocks)
      <4>1. Len(q.blocks) - 1 = Len(r.blocks) /\ Len(r.blocks) \in Nat
        BY <1>3, <2>5, LenProperties
      <4>2. SubSeq(q.blocks, 1, Len(r.blocks)) = r.blocks
        <5>1. /\ SubSeq(q.blocks, 1, Len(r.blocks)) \in Seq(BlockRecs)
              /\ Len(SubSeq(q.blocks, 1, Len(r.blocks))) = Len(r.blocks)
              /\ \A i \in 1 .. Len(r.blocks) : SubSeq(q.blocks, 1, Len(r.blocks))[i] = q.blocks[i]
          BY <2>2, <2>4, <2>5, <4>1, SubSeqProperties
        <5> QED BY <1>3, <2>5, <5>1, SeqEqual
      <4> QED BY <4>1, <4>2 DEF Before
    <3>5. TextOf(r.blocks) \in Seq(Nat)
      BY <1>3, PiecesType
    <3>6. t = <<e.id>>
      BY <1>3, <3>1 DEF t
    <3>7. Append(TextOf(r.blocks), e.id) = TextOf(r.blocks) \o <<e.id>>
      BY <1>3, <3>5, AppendIsConcat
    <3> QED BY <1>5, <2>8, <3>2, <3>3, <3>4, <3>6, <3>7
  <2>9. Fits(q)
    BY <1>6, <2>4, <2>7 DEF Fits
  <2> QED BY <1>1, <1>6, <2>3, <2>4, <2>6, <2>8, <2>9, BesideMoves DEF q
<1> QED BY <1>8, <1>9

LEMMA NewCardEffect ==
    ASSUME NEW p \in Pages, NEW id \in Nat, NEW status \in Status \ Closed
    PROVE  LET q == AddTool(FinalizeBoth(p), id, status) IN
           /\ q \in Pages /\ Beside(p, q) /\ q.text = << >>
           /\ OneMore(p.blocks, q.blocks, id) /\ SameClosed(p.blocks, q.blocks)
           /\ Fits(p) => Rests(p, q)
<1> DEFINE r == FinalizeBoth(p)
           q == AddTool(r, id, status)
           x == Block("tool", << >>, id, status)
<1>1. /\ r \in Pages /\ Beside(p, r) /\ r.text = << >> /\ SameCards(p.blocks, r.blocks)
      /\ Growing(p) => TextOf(r.blocks) = Shown(p)
  BY FinalizeBothEffect
<1> HIDE DEF r
<1>2. /\ q \in Pages /\ Beside(r, q) /\ q.text = r.text /\ q.blocks = Append(r.blocks, x) /\ x \in BlockRecs
  BY <1>1, AddToolEffect
<1>3. x.kind = "tool" /\ x.id = id /\ x.status \notin Closed
  BY DEF Block
<1> HIDE DEF q, x
<1>4. p.blocks \in Seq(BlockRecs) /\ r.blocks \in Seq(BlockRecs)
  BY <1>1, BlocksOfPage
<1>5. CardIds(r.blocks) = CardIds(p.blocks) /\ ClosedIds(r.blocks) = ClosedIds(p.blocks) /\ (OneCardEach(p.blocks) => OneCardEach(r.blocks))
  BY <1>1, <1>4, SameCardsAre
<1>6. /\ CardIds(q.blocks) = CardIds(r.blocks) \cup {id} /\ ClosedIds(q.blocks) = ClosedIds(r.blocks)
      /\ OneCardEach(r.blocks) /\ id > 0 /\ id \notin CardIds(r.blocks) => OneCardEach(q.blocks)
  BY <1>2, <1>3, <1>4, AppendBlock
<1>7. OneMore(p.blocks, q.blocks, id) /\ SameClosed(p.blocks, q.blocks)
  BY <1>5, <1>6 DEF OneMore, SameClosed
<1>8. Fits(p) => Rests(p, q)
  <2>1. Fits(q) /\ Shown(q) = TextOf(r.blocks)
    BY <1>1, <1>2, <1>3, AppendedShown
  <2> QED BY <1>1, <1>2, <2>1, FitsGrows DEF Rests
<1> QED BY <1>1, <1>2, <1>7, <1>8, BesideMoves DEF q, r

\* A status that is overwritten.
LEMMA OldCardEffect ==
    ASSUME NEW p \in Pages, NEW id \in Nat, NEW status \in Status
    PROVE  LET q == SetStatus(p, id, status) IN
           /\ q \in Pages /\ Beside(p, q) /\ q.text = p.text /\ SameIds(p.blocks, q.blocks)
           /\ ClosedIds(p.blocks) \ {id} \subseteq ClosedIds(q.blocks)
           /\ status \in Closed => ClosedIds(p.blocks) \subseteq ClosedIds(q.blocks)
           /\ status \in Closed /\ id \in CardIds(p.blocks) => id \in ClosedIds(q.blocks)
           /\ Growing(p) => Growing(q) /\ Shown(q) = Shown(p)
           /\ Fits(p) => Fits(q)
           /\ p.blocks = << >> => q.blocks = << >>
<1> DEFINE q == SetStatus(p, id, status)
<1>1. /\ q \in Pages /\ Beside(p, q) /\ q.text = p.text /\ SameTexts(p.blocks, q.blocks)
      /\ \A i \in 1 .. Len(p.blocks) :
           q.blocks[i].status = NewStatus(p.blocks[i], id, status)
  BY SetStatusEffect
<1> HIDE DEF q
<1>2. p.blocks \in Seq(BlockRecs) /\ q.blocks \in Seq(BlockRecs)
  BY <1>1, BlocksOfPage
<1>3. /\ CardIds(q.blocks) = CardIds(p.blocks) /\ (OneCardEach(p.blocks) => OneCardEach(q.blocks))
      /\ ClosedIds(p.blocks) \ {id} \subseteq ClosedIds(q.blocks)
      /\ status \in Closed => ClosedIds(p.blocks) \subseteq ClosedIds(q.blocks)
      /\ status \in Closed /\ id \in CardIds(p.blocks) => id \in ClosedIds(q.blocks)
  <2> DEFINE b == p.blocks
             c == q.blocks
  <2>1. /\ b \in Seq(BlockRecs) /\ c \in Seq(BlockRecs) /\ SameTexts(b, c)
        /\ \A i \in 1 .. Len(b) : c[i].status = NewStatus(b[i], id, status)
    BY <1>1, <1>2
  <2> HIDE DEF b, c
  <2>2. /\ CardIds(c) = CardIds(b) /\ (OneCardEach(b) => OneCardEach(c))
        /\ ClosedIds(b) \ {id} \subseteq ClosedIds(c)
        /\ status \in Closed => ClosedIds(b) \subseteq ClosedIds(c)
        /\ status \in Closed /\ id \in CardIds(b) => id \in ClosedIds(c)
    BY <2>1, StatusSet
  <2> QED BY <2>2 DEF b, c
<1>4. SamePieces(p.blocks, q.blocks)
  BY <1>1, CardsAndPieces
<1>5. Growing(p) => Growing(q) /\ Shown(q) = Shown(p)
  BY <1>1, <1>4, ShownSame
<1>6. Fits(p) => Fits(q)
  BY <1>1, <1>4, SamePiecesLast DEF Fits
<1>7. p.blocks = << >> => q.blocks = << >>
  BY <1>1, <1>2, SeqFacts DEF SameTexts
<1> QED BY <1>1, <1>3, <1>5, <1>6, <1>7 DEF q, SameIds

LEMMA AroundMoves ==
    ASSUME NEW p, NEW q, NEW r, Around(p, q), Around(q, r)
    PROVE  Around(p, r)
BY DEF Around

LEMMA IdsAreNumbers ==
    ASSUME NEW p \in Pages
    PROVE  CardIds(p.blocks) \subseteq Nat /\ ClosedIds(p.blocks) \subseteq CardIds(p.blocks)
<1>1. DOMAIN p.blocks = 1 .. Len(p.blocks) /\ \A i \in 1 .. Len(p.blocks) : p.blocks[i].id \in Nat
  BY BlocksOfPage DEF BlockRecs
<1> QED BY <1>1 DEF CardIds, ClosedIds

LEMMA OnPendingEffect ==
    ASSUME NEW p \in Pages, NEW e \in EventRecs
    PROVE  LET q == OnPending(p, e) IN
           /\ q \in Pages /\ Beside(p, q) /\ q.text = << >>
           /\ OneMore(p.blocks, q.blocks, e.id) /\ SameClosed(p.blocks, q.blocks)
           /\ Fits(p) => Rests(p, q)
<1>1. e.id \in Nat /\ "pending" \in Status \ Closed
  BY DEF EventRecs, Status, Closed
<1> QED BY <1>1, NewCardEffect DEF OnPending

LEMMA OnAskEffect ==
    ASSUME NEW p \in Pages, NEW e \in EventRecs, run.turn \in Nat
    PROVE  LET q == OnAsk(p, e) IN
           /\ q \in Pages /\ Around(p, q) /\ q.text = << >> /\ q.ask = <<run.turn, e.id>>
           /\ OneMore(p.blocks, q.blocks, e.id) /\ SameClosed(p.blocks, q.blocks)
           /\ Fits(p) => Rests(p, q)
<1> DEFINE r == AddTool(FinalizeBoth(p), e.id, "executing")
           q == OnAsk(p, e)
<1>1. e.id \in Nat /\ "executing" \in Status \ Closed /\ <<run.turn, e.id>> \in Nat \X Nat
  BY DEF EventRecs, Status, Closed
<1>2. /\ r \in Pages /\ Beside(p, r) /\ r.text = << >>
      /\ OneMore(p.blocks, r.blocks, e.id) /\ SameClosed(p.blocks, r.blocks)
      /\ Fits(p) => Rests(p, r)
  BY <1>1, NewCardEffect
<1>3. q = [r EXCEPT !.ask = <<run.turn, e.id>>]
  BY DEF OnAsk
<1> HIDE DEF q, r
<1>4. q \in Pages /\ Around(r, q) /\ q.ask = <<run.turn, e.id>> /\ q.blocks = r.blocks /\ q.text = r.text
  BY <1>1, <1>2, <1>3, AskSet
<1>5. Around(p, q)
  BY <1>2, <1>4, BesideIsAround, AroundMoves
<1>6. Fits(p) => Rests(p, q)
  <2>1. Shown(q) = Shown(r)
    BY <1>2, <1>4, ShownOfStill
  <2>2. Fits(r) => Fits(q)
    BY <1>4 DEF Fits, LastIs
  <2> QED BY <1>2, <1>4, <2>1, <2>2 DEF Rests
<1> QED BY <1>2, <1>4, <1>5, <1>6 DEF q

LEMMA OnCallEffect ==
    ASSUME NEW p \in Pages, NEW e \in EventRecs
    PROVE  LET q == OnCall(p, e) IN
           /\ q \in Pages /\ Beside(p, q)
           /\ CardIds(q.blocks) = CardIds(p.blocks) \cup {e.id}
           /\ OneCardEach(p.blocks) /\ e.id > 0 => OneCardEach(q.blocks)
           /\ ClosedIds(p.blocks) \ {e.id} \subseteq ClosedIds(q.blocks)
           /\ Fits(p) => Fits(q) /\ Shown(q) = Shown(p)
           /\ p.text = << >> \/ e.id \notin CardIds(p.blocks) => q.text = << >>
<1>1. e.id \in Nat /\ "executing" \in Status \ Closed
  BY DEF EventRecs, Status, Closed
<1>2. HasTool(p, e.id) <=> e.id \in CardIds(p.blocks)
  BY CardsOfPage
<1>3. CASE HasTool(p, e.id)
  <2>1. OnCall(p, e) = SetStatus(p, e.id, "executing")
    BY <1>3 DEF OnCall
  <2> DEFINE q == SetStatus(p, e.id, "executing")
  <2>2. /\ q \in Pages /\ Beside(p, q) /\ q.text = p.text /\ SameIds(p.blocks, q.blocks)
        /\ ClosedIds(p.blocks) \ {e.id} \subseteq ClosedIds(q.blocks)
        /\ Growing(p) => Growing(q) /\ Shown(q) = Shown(p)
        /\ Fits(p) => Fits(q)
    BY <1>1, OldCardEffect
  <2> HIDE DEF q
  <2>3. CardIds(q.blocks) = CardIds(p.blocks) \cup {e.id} /\ (OneCardEach(p.blocks) => OneCardEach(q.blocks))
    BY <1>2, <1>3, <2>2 DEF SameIds
  <2> QED BY <1>2, <1>3, <2>1, <2>2, <2>3, FitsGrows DEF q
<1>4. CASE ~HasTool(p, e.id)
  <2>1. OnCall(p, e) = AddTool(FinalizeBoth(p), e.id, "executing")
    BY <1>4 DEF OnCall
  <2> DEFINE q == AddTool(FinalizeBoth(p), e.id, "executing")
  <2>2. /\ q \in Pages /\ Beside(p, q) /\ q.text = << >>
        /\ OneMore(p.blocks, q.blocks, e.id) /\ SameClosed(p.blocks, q.blocks)
        /\ Fits(p) => Rests(p, q)
    BY <1>1, NewCardEffect
  <2> HIDE DEF q
  <2>3. CardIds(q.blocks) = CardIds(p.blocks) \cup {e.id} /\ (OneCardEach(p.blocks) /\ e.id > 0 => OneCardEach(q.blocks))
    BY <1>2, <1>4, <2>2 DEF OneMore
  <2>4. ClosedIds(q.blocks) = ClosedIds(p.blocks) /\ (Fits(p) => Fits(q) /\ Shown(q) = Shown(p))
    BY <2>2 DEF SameClosed, Rests
  <2> QED BY <2>1, <2>2, <2>3, <2>4 DEF q
<1> QED BY <1>3, <1>4

LEMMA OnResultEffect ==
    ASSUME NEW p \in Pages, NEW e \in EventRecs
    PROVE  LET q == OnResult(p, e) IN
           /\ q \in Pages /\ Around(p, q) /\ q.ask = IF e.asked THEN NoAsk ELSE p.ask
           /\ CardIds(q.blocks) = CardIds(p.blocks) \cup {e.id}
           /\ OneCardEach(p.blocks) /\ e.id > 0 => OneCardEach(q.blocks)
           /\ ClosedIds(p.blocks) \cup {e.id} \subseteq ClosedIds(q.blocks)
           /\ Fits(p) /\ p.text = << >> => Rests(p, q)
<1> DEFINE r == IF e.asked THEN [p EXCEPT !.ask = NoAsk] ELSE p
           status == IF e.ok THEN "completed" ELSE "failed"
           q == OnResult(p, e)
<1>1. e.id \in Nat /\ status \in Status /\ status \in Closed /\ e.asked \in BOOLEAN /\ NoAsk \in Nat \X Nat
  BY DEF EventRecs, Status, Closed, NoAsk
<1>2. r \in Pages /\ Around(p, r) /\ r.blocks = p.blocks /\ r.text = p.text /\ r.ask = IF e.asked THEN NoAsk ELSE p.ask
  <2>1. CASE e.asked
    BY <1>1, <2>1, AskSet
  <2>2. CASE ~e.asked
    BY <2>2 DEF Around
  <2> QED BY <2>1, <2>2
<1>3. q = IF HasTool(r, e.id) THEN SetStatus(r, e.id, status) ELSE AddTool(r, e.id, status)
  BY DEF OnResult
<1> HIDE DEF q, r, status
<1>4. HasTool(r, e.id) <=> e.id \in CardIds(p.blocks)
  BY <1>2, CardsOfPage
<1>5. p.text = << >> => Shown(r) = Shown(p)
  BY <1>2, ShownOfStill
<1>6. Fits(p) <=> Fits(r)
  BY <1>2 DEF Fits, LastIs
<1>7. CASE HasTool(r, e.id)
  <2>1. /\ q \in Pages /\ Beside(r, q) /\ q.text = r.text /\ SameIds(r.blocks, q.blocks)
        /\ ClosedIds(r.blocks) \subseteq ClosedIds(q.blocks)
        /\ e.id \in CardIds(r.blocks) => e.id \in ClosedIds(q.blocks)
        /\ Growing(r) => Growing(q) /\ Shown(q) = Shown(r)
        /\ Fits(r) => Fits(q)
    BY <1>1, <1>2, <1>3, <1>7, OldCardEffect
  <2>2. Around(p, q) /\ q.ask = r.ask
    BY <1>2, <2>1, BesideIsAround, AroundMoves
  <2>3. Fits(p) /\ p.text = << >> => Rests(p, q)
    BY <1>2, <1>5, <1>6, <2>1, FitsGrows DEF Rests
  <2> QED BY <1>2, <1>4, <1>7, <2>1, <2>2, <2>3 DEF SameIds, q
<1>8. CASE ~HasTool(r, e.id)
  <2> DEFINE x == Block("tool", << >>, e.id, status)
  <2>1. q \in Pages /\ Beside(r, q) /\ q.text = r.text /\ q.blocks = Append(r.blocks, x) /\ x \in BlockRecs
    BY <1>1, <1>2, <1>3, <1>8, AddToolEffect
  <2>2. x.kind = "tool" /\ x.id = e.id /\ x.status \in Closed
    BY <1>1 DEF Block
  <2> HIDE DEF x
  <2>3. Around(p, q) /\ q.ask = r.ask
    BY <1>2, <2>1, BesideIsAround, AroundMoves
  <2>4. p.blocks \in Seq(BlockRecs)
    BY BlocksOfPage
  <2>5. /\ CardIds(q.blocks) = CardIds(p.blocks) \cup {e.id} /\ ClosedIds(q.blocks) = ClosedIds(p.blocks) \cup {e.id}
        /\ OneCardEach(p.blocks) /\ e.id > 0 /\ e.id \notin CardIds(p.blocks) => OneCardEach(q.blocks)
    BY <1>2, <2>1, <2>2, <2>4, AppendBlock
  <2>6. p.text = << >> => Rests(p, q)
    <3> SUFFICES ASSUME p.text = << >> PROVE Rests(p, q)
      OBVIOUS
    <3>1. Fits(q) /\ Shown(q) = TextOf(r.blocks)
      BY <1>2, <2>1, <2>2, AppendedShown
    <3> QED BY <1>2, <2>1, <3>1, ShownOfStill DEF Rests
  <2> QED BY <1>2, <1>4, <1>8, <2>1, <2>3, <2>5, <2>6 DEF q
<1> QED BY <1>7, <1>8

LEMMA OnDeniedEffect ==
    ASSUME NEW p \in Pages, NEW e \in EventRecs
    PROVE  LET q == SetStatus(p, e.id, "denied") IN
           /\ q \in Pages /\ Beside(p, q) /\ q.text = p.text /\ SameIds(p.blocks, q.blocks)
           /\ ClosedIds(p.blocks) \subseteq ClosedIds(q.blocks)
           /\ e.id \in CardIds(p.blocks) => e.id \in ClosedIds(q.blocks)
           /\ Fits(p) => Fits(q) /\ Shown(q) = Shown(p)
<1>1. e.id \in Nat /\ "denied" \in Status /\ "denied" \in Closed
  BY DEF EventRecs, Status, Closed
<1> QED BY <1>1, OldCardEffect, FitsGrows

\* Around, but for what the end of a turn sets.
Behind(p, q) ==
    /\ q.question = p.question /\ q.regenerate = p.regenerate /\ q.from = p.from /\ q.seen = p.seen
    /\ q.resumes = p.resumes /\ q.limit = p.limit /\ q.ask = p.ask /\ q.edit = p.edit /\ q.shown = p.shown

LEMMA OnDoneEffect ==
    ASSUME NEW p \in Pages, NEW e, run.turn \in Nat
    PROVE  LET q == OnDone(p, e) IN
           /\ q \in Pages /\ Behind(p, q) /\ q.pc = "saving" /\ q.pending = TRUE /\ q.retry = "none" /\ q.text = << >>
           /\ SameIds(p.blocks, q.blocks) /\ SameClosed(p.blocks, q.blocks)
           /\ Growing(p) => Shown(q) = Shown(p)
           /\ \/ q.drafts = p.drafts /\ q.delivered = p.delivered
              \/ /\ q.delivered = p.delivered \cup {run.turn}
                 /\ \E d \in Drafts : /\ q.drafts = {c \in p.drafts : c.turn # run.turn} \cup {d}
                                      /\ d.turn = run.turn /\ d.tools = ClosedIds(p.blocks)
                                      /\ Growing(p) => d.text = Shown(p)
<1> DEFINE r == FinalizeBoth(p)
           worth == ~AskedInTurn(r) /\ (Texts(r) # << >> \/ ClosedTools(r) # {})
           d == [turn |-> run.turn, text |-> Texts(r), tools |-> ClosedTools(r)]
           drafts == IF worth THEN {c \in r.drafts : c.turn # run.turn} \cup {d} ELSE r.drafts
           delivered == IF worth THEN r.delivered \cup {run.turn} ELSE r.delivered
           q == OnDone(p, e)
<1>1. /\ r \in Pages /\ Beside(p, r) /\ r.text = << >> /\ SameCards(p.blocks, r.blocks)
      /\ Growing(p) => TextOf(r.blocks) = Shown(p)
  BY FinalizeBothEffect
<1>2. q = [r EXCEPT !.pc = "saving", !.pending = TRUE, !.error = FALSE, !.retry = "none",
                    !.drafts = drafts, !.delivered = delivered]
  BY DEF OnDone
<1> HIDE DEF q, r
<1>3. p.blocks \in Seq(BlockRecs) /\ r.blocks \in Seq(BlockRecs)
  BY <1>1, BlocksOfPage
<1>4. CardIds(r.blocks) = CardIds(p.blocks) /\ ClosedIds(r.blocks) = ClosedIds(p.blocks) /\ (OneCardEach(p.blocks) => OneCardEach(r.blocks))
  BY <1>1, <1>3, SameCardsAre
<1>5. d \in Drafts /\ d.turn = run.turn /\ d.tools = ClosedIds(p.blocks) /\ d.text = TextOf(r.blocks)
  <2>1. Texts(r) = TextOf(r.blocks) /\ ClosedTools(r) = ClosedIds(r.blocks)
    BY TextsAreOfBlocks, CardsOfPage
  <2>2. TextOf(r.blocks) \in Seq(Nat) /\ ClosedIds(r.blocks) \subseteq Nat
    BY <1>1, <1>3, PiecesType, IdsAreNumbers
  <2> QED BY <1>4, <2>1, <2>2 DEF Drafts
<1>6. r.drafts = p.drafts /\ r.delivered = p.delivered /\ p.drafts \subseteq Drafts /\ p.delivered \subseteq Nat
  BY <1>1 DEF Beside, Pages
<1> HIDE DEF d, worth
<1>7. drafts \subseteq Drafts /\ delivered \subseteq Nat
  BY <1>5, <1>6
<1>8. \/ drafts = p.drafts /\ delivered = p.delivered
      \/ drafts = {c \in p.drafts : c.turn # run.turn} \cup {d} /\ delivered = p.delivered \cup {run.turn}
  BY <1>6
<1> HIDE DEF drafts, delivered
<1>9. q \in Pages
  BY <1>1, <1>2, <1>7 DEF Pages, PagePc, Intents
<1>10. /\ q.pc = "saving" /\ q.pending = TRUE /\ q.retry = "none" /\ q.text = r.text /\ q.blocks = r.blocks
       /\ q.drafts = drafts /\ q.delivered = delivered /\ Behind(r, q)
  BY <1>1, <1>2 DEF Pages, Behind
<1>11. Behind(p, q)
  BY <1>1, <1>10 DEF Behind, Beside
<1>12. SameIds(p.blocks, q.blocks) /\ SameClosed(p.blocks, q.blocks)
  BY <1>4, <1>10 DEF SameIds, SameClosed
<1>13. Growing(p) => Shown(q) = Shown(p)
  BY <1>1, <1>9, <1>10, ShownOfStill
<1>14. \/ q.drafts = p.drafts /\ q.delivered = p.delivered
       \/ /\ q.delivered = p.delivered \cup {run.turn}
          /\ \E x \in Drafts : /\ q.drafts = {c \in p.drafts : c.turn # run.turn} \cup {x}
                               /\ x.turn = run.turn /\ x.tools = ClosedIds(p.blocks)
                               /\ Growing(p) => x.text = Shown(p)
  BY <1>1, <1>5, <1>8, <1>10
<1> QED BY <1>1, <1>9, <1>10, <1>11, <1>12, <1>13, <1>14 DEF q

LEMMA OnErrorEffect ==
    ASSUME NEW p \in Pages, NEW e
    PROVE  LET q == OnError(p, e) IN
           /\ q \in Pages /\ Behind(p, q) /\ q.pc = "saving" /\ q.pending = p.pending /\ q.retry = "regenerate"
           /\ q.text = p.text /\ q.blocks = p.blocks /\ q.drafts = p.drafts /\ q.delivered = p.delivered
<1>1. OnError(p, e) = [[p EXCEPT !.error = TRUE, !.retry = "regenerate"] EXCEPT !.pc = "saving"]
  BY DEF OnError, Failed
<1> QED BY <1>1 DEF Pages, Behind, PagePc, Intents

(***************************************************************************)
(* The log and what has arrived of it.                                     *)
(***************************************************************************)
LEMMA MarksAppend ==
    ASSUME NEW l \in Seq(EventRecs), NEW e \in EventRecs
    PROVE  /\ Append(l, e) \in Seq(EventRecs) /\ Len(Append(l, e)) = Len(l) + 1 /\ Len(l) \in Nat
           /\ Append(l, e)[Len(l) + 1] = e /\ \A i \in 1 .. Len(l) : Append(l, e)[i] = l[i]
           /\ Deltas(l) \in Seq(Nat)
           /\ e.type = "delta" => Deltas(Append(l, e)) = Append(Deltas(l), e.id)
           /\ e.type # "delta" => Deltas(Append(l, e)) = Deltas(l)
<1> DEFINE m == Append(l, e)
           n == Len(l)
<1>1. /\ m \in Seq(EventRecs) /\ Len(m) = n + 1 /\ n \in Nat /\ m[n + 1] = e /\ \A i \in 1 .. n : m[i] = l[i]
  BY AppendProperties, LenProperties
<1>2. \A x \in EventRecs : Mark(x) \in Seq(Nat)
  <2> SUFFICES ASSUME NEW x \in EventRecs PROVE Mark(x) \in Seq(Nat)
    OBVIOUS
  <2>1. x.id \in Nat /\ << >> \in Seq(Nat)
    BY EmptySeq DEF EventRecs
  <2> QED BY <2>1 DEF Mark
<1>3. DOMAIN l = 1 .. n /\ DOMAIN m = 1 .. n + 1 /\ \A i \in 1 .. n : l[i] \in EventRecs
  BY <1>1, SeqFacts
<1> HIDE DEF m
<1>4. Marks(l) \in Seq(Seq(Nat)) /\ Len(Marks(l)) = n
  <2>1. Marks(l) \in [1 .. n -> Seq(Nat)]
    BY <1>2, <1>3 DEF Marks
  <2> QED BY <1>1, <2>1, SeqOfFunction
<1>5. Marks(m) \in Seq(Seq(Nat)) /\ Len(Marks(m)) = n + 1
  <2>1. \A i \in 1 .. n + 1 : m[i] \in EventRecs
    BY <1>1, SeqFacts
  <2>2. Marks(m) \in [1 .. n + 1 -> Seq(Nat)]
    BY <1>2, <1>3, <2>1 DEF Marks
  <2>3. n + 1 \in Nat
    BY <1>1
  <2> HIDE DEF n
  <2> QED BY <2>2, <2>3, SeqOfFunction
<1>6. Marks(m) = Append(Marks(l), Mark(e))
  <2> DEFINE d == Append(Marks(l), Mark(e))
  <2>1. /\ d \in Seq(Seq(Nat)) /\ Len(d) = n + 1 /\ d[n + 1] = Mark(e) /\ \A i \in 1 .. n : d[i] = Marks(l)[i]
    BY <1>2, <1>4, AppendProperties
  <2> HIDE DEF d, n
  <2>2. ASSUME NEW i \in 1 .. n PROVE Marks(m)[i] = d[i]
    <3>1. i \in 1 .. n + 1 /\ m[i] = l[i] /\ d[i] = Marks(l)[i]
      BY <1>1, <2>1
    <3> QED BY <1>3, <3>1 DEF Marks
  <2>3. Marks(m)[n + 1] = d[n + 1]
    <3>1. n + 1 \in 1 .. n + 1
      BY <1>1
    <3> QED BY <1>1, <1>3, <2>1, <3>1 DEF Marks
  <2>4. \A i \in 1 .. n + 1 : Marks(m)[i] = d[i]
    BY <1>1, <2>2, <2>3
  <2>5. Marks(m) = d
    BY <1>5, <2>1, <2>4, SeqEqual
  <2> QED BY <2>5 DEF d
<1>7. Deltas(m) = Deltas(l) \o Mark(e) /\ Deltas(l) \in Seq(Nat)
  BY <1>2, <1>4, <1>6, FlattenAppend, DeltasAreMarks
<1>8. e.id \in Nat
  BY DEF EventRecs
<1>9. e.type = "delta" => Deltas(m) = Append(Deltas(l), e.id)
  BY <1>7, <1>8, AppendIsConcat DEF Mark
<1>10. e.type # "delta" => Deltas(m) = Deltas(l)
  BY <1>7, ConcatEmptySeq DEF Mark
<1> QED BY <1>1, <1>7, <1>9, <1>10 DEF m

LEMMA NothingSaid == Deltas(<< >>) = << >>
<1>1. Marks(<< >>) = << >>
  BY DEF Marks
<1> QED BY <1>1, FlattenNothing, DeltasAreMarks

LEMMA DeltasType == ASSUME NEW l \in Seq(EventRecs) PROVE Deltas(l) \in Seq(Nat)
<1>1. [type |-> "done", id |-> 0, ok |-> TRUE, asked |-> TRUE] \in EventRecs
  BY DEF EventRecs, Events
<1> QED BY <1>1, MarksAppend

(* What was said first is a prefix of all that was said.                     *)
LEMMA SaidFirst ==
    ASSUME NEW l \in Seq(EventRecs), NEW k \in 0 .. Len(l)
    PROVE  IsPrefix(Deltas(SubSeq(l, 1, k)), Deltas(l))
<1> DEFINE n == Len(l)
           f == SubSeq(l, 1, k)
<1>1. n \in Nat /\ DOMAIN l = 1 .. n /\ (\A i \in 1 .. n : l[i] \in EventRecs) /\ k \in Nat /\ k <= n
  BY SeqFacts
<1>2. \A x \in EventRecs : Mark(x) \in Seq(Nat)
  <2> SUFFICES ASSUME NEW x \in EventRecs PROVE Mark(x) \in Seq(Nat)
    OBVIOUS
  <2>1. x.id \in Nat /\ << >> \in Seq(Nat)
    BY EmptySeq DEF EventRecs
  <2> QED BY <2>1 DEF Mark
<1>3. Marks(l) \in Seq(Seq(Nat)) /\ Len(Marks(l)) = n
  <2>1. Marks(l) \in [1 .. n -> Seq(Nat)]
    BY <1>1, <1>2 DEF Marks
  <2> QED BY <1>1, <2>1, SeqOfFunction
<1>4. f \in Seq(EventRecs) /\ Len(f) = k /\ \A i \in 1 .. k : f[i] = l[i]
  BY <1>1, SubSeqProperties
<1> HIDE DEF f
<1>5. Marks(f) \in Seq(Seq(Nat)) /\ Len(Marks(f)) = k /\ DOMAIN f = 1 .. k
  <2>1. DOMAIN f = 1 .. k /\ \A i \in 1 .. k : f[i] \in EventRecs
    BY <1>4, SeqFacts
  <2>2. Marks(f) \in [1 .. k -> Seq(Nat)]
    BY <1>2, <2>1 DEF Marks
  <2> QED BY <1>1, <2>1, <2>2, SeqOfFunction
<1>6. /\ SubSeq(Marks(l), 1, k) \in Seq(Seq(Nat)) /\ Len(SubSeq(Marks(l), 1, k)) = k
      /\ \A i \in 1 .. k : SubSeq(Marks(l), 1, k)[i] = Marks(l)[i]
  <2>1. \A i \in 1 .. n : Marks(l)[i] \in Seq(Nat)
    BY <1>3, ElementOfSeq
  <2> QED BY <1>1, <1>3, <2>1, SubSeqProperties
<1>7. \A i \in 1 .. k : Marks(f)[i] = SubSeq(Marks(l), 1, k)[i]
  BY <1>1, <1>4, <1>5, <1>6 DEF Marks
<1>8. Marks(f) = SubSeq(Marks(l), 1, k)
  BY <1>5, <1>6, <1>7, SeqEqual
<1>9. k \in 0 .. Len(Marks(l))
  BY <1>1, <1>3
<1> QED BY <1>3, <1>8, <1>9, FlattenPrefix, DeltasAreMarks DEF f

LEMMA ArrivedMore ==
    ASSUME NEW l \in Seq(EventRecs), NEW from \in Nat, NEW seen \in Nat, from <= seen, seen < Len(l)
    PROVE  /\ SubSeq(l, from + 1, seen) \in Seq(EventRecs)
           /\ SubSeq(l, from + 1, seen + 1) = Append(SubSeq(l, from + 1, seen), l[seen + 1])
           /\ from < seen => /\ SubSeq(l, from + 1, seen) # << >>
                             /\ Last(SubSeq(l, from + 1, seen)) = l[seen]
           /\ from = seen => SubSeq(l, from + 1, seen) = << >>
<1> DEFINE a == SubSeq(l, from + 1, seen)
<1>1. Len(l) \in Nat /\ \A i \in 1 .. Len(l) : l[i] \in EventRecs
  BY SeqFacts
<1>2. \A i \in from + 1 .. seen : i \in 1 .. Len(l)
  BY <1>1
<1>3. /\ a \in Seq(EventRecs) /\ Len(a) = (IF from + 1 <= seen THEN seen - (from + 1) + 1 ELSE 0)
      /\ \A i \in 1 .. seen - (from + 1) + 1 : a[i] = l[from + 1 + i - 1]
  BY <1>1, <1>2, SubSeqProperties
<1> HIDE DEF a
<1>4. Len(a) = seen - from
  BY <1>3
<1>5. SubSeq(l, from + 1, seen + 1) = Append(a, l[seen + 1])
  <2>1. seen + 1 \in 1 .. Len(l) /\ l[seen + 1] \in EventRecs
    BY <1>1
  <2>2. SubSeq(l, from + 1, seen + 1) = SubSeq(l, from + 1, (seen + 1) - 1) \o <<l[seen + 1]>>
    <3>1. from + 1 \in Int /\ seen + 1 \in Int /\ from + 1 <= seen + 1 /\ \A i \in from + 1 .. seen + 1 : i \in 1 .. Len(l)
      BY <1>1
    <3> QED BY <1>1, <3>1, SubSeqRecursiveSecond
  <2>3. (seen + 1) - 1 = seen
    OBVIOUS
  <2> QED BY <1>3, <2>1, <2>2, <2>3, AppendIsConcat DEF a
<1>6. ASSUME from < seen PROVE a # << >> /\ Last(a) = l[seen]
  <2>1. Len(a) > 0 /\ Len(a) \in 1 .. seen - (from + 1) + 1 /\ from + 1 + Len(a) - 1 = seen
    BY <1>4, <1>6
  <2> QED BY <1>3, <2>1, SeqFacts
<1>7. from = seen => a = << >>
  BY <1>3, <1>4, SeqFacts
<1> QED BY <1>3, <1>5, <1>6, <1>7 DEF a

LEMMA ArrivedKept ==
    ASSUME NEW l \in Seq(EventRecs), NEW e \in EventRecs, NEW from \in Nat, NEW seen \in Nat, seen <= Len(l)
    PROVE  SubSeq(Append(l, e), from + 1, seen) = SubSeq(l, from + 1, seen)
<1> DEFINE m == Append(l, e)
           a == SubSeq(l, from + 1, seen)
           b == SubSeq(m, from + 1, seen)
<1>1. Len(l) \in Nat /\ (\A i \in 1 .. Len(l) : l[i] \in EventRecs /\ m[i] = l[i]) /\ m \in Seq(EventRecs) /\ Len(m) = Len(l) + 1
  BY SeqFacts, AppendProperties
<1> HIDE DEF m
<1>2. \A i \in from + 1 .. seen : i \in 1 .. Len(l) /\ i \in 1 .. Len(m) /\ m[i] = l[i] /\ m[i] \in EventRecs
  BY <1>1
<1>3. /\ a \in Seq(EventRecs) /\ Len(a) = (IF from + 1 <= seen THEN seen - (from + 1) + 1 ELSE 0)
      /\ \A i \in 1 .. seen - (from + 1) + 1 : a[i] = l[from + 1 + i - 1]
  BY <1>1, <1>2, SubSeqProperties
<1>4. /\ b \in Seq(EventRecs) /\ Len(b) = (IF from + 1 <= seen THEN seen - (from + 1) + 1 ELSE 0)
      /\ \A i \in 1 .. seen - (from + 1) + 1 : b[i] = m[from + 1 + i - 1]
  BY <1>1, <1>2, SubSeqProperties
<1> HIDE DEF a, b
<1>5. \A i \in 1 .. Len(a) : a[i] = b[i]
  <2> SUFFICES ASSUME NEW i \in 1 .. Len(a) PROVE a[i] = b[i]
    OBVIOUS
  <2>1. i \in 1 .. seen - (from + 1) + 1 /\ from + 1 + i - 1 \in from + 1 .. seen
    BY <1>3
  <2> QED BY <1>2, <1>3, <1>4, <2>1
<1>6. a = b
  BY <1>3, <1>4, <1>5, SeqEqual
<1> QED BY <1>6 DEF a, b, m

LEMMA InterleavedMore ==
    ASSUME NEW s \in Seq(EventRecs), NEW e \in EventRecs, ~Interleaved(Append(s, e))
    PROVE  /\ ~Interleaved(s)
           /\ s # << >> /\ Last(s).type = "delta" => e.type \notin {"reasoning", "result"}
<1> DEFINE t == Append(s, e)
           n == Len(s)
<1>1. Len(t) = n + 1 /\ n \in Nat /\ t[n + 1] = e /\ \A i \in 1 .. n : t[i] = s[i]
  BY AppendProperties, LenProperties
<1>2. \A i \in 1 .. Len(t) - 1 : ~(t[i].type = "delta" /\ t[i + 1].type \in {"reasoning", "result"})
  BY DEF Interleaved
<1> HIDE DEF t
<1>3. ~Interleaved(s)
  <2> SUFFICES ASSUME NEW i \in 1 .. n - 1, s[i].type = "delta", s[i + 1].type \in {"reasoning", "result"} PROVE FALSE
    BY DEF Interleaved
  <2>1. i \in 1 .. Len(t) - 1 /\ t[i] = s[i] /\ t[i + 1] = s[i + 1]
    BY <1>1
  <2> QED BY <1>2, <2>1
<1>4. ASSUME s # << >>, Last(s).type = "delta" PROVE e.type \notin {"reasoning", "result"}
  <2>1. n \in 1 .. n /\ Last(s) = s[n]
    BY <1>4, SeqFacts
  <2>2. n \in 1 .. Len(t) - 1 /\ t[n] = s[n] /\ t[n + 1] = e
    BY <1>1, <2>1
  <2> QED BY <1>2, <1>4, <2>1, <2>2
<1> QED BY <1>3, <1>4

(***************************************************************************)
(* The inductive invariant.                                                *)
(***************************************************************************)
Pasts == [late : BOOLEAN, refused : BOOLEAN, cut : Nat, unsaved : Nat]
Records ==
    /\ run \in Runs /\ run.turn <= MaxTurns
    /\ page \in Pages
    /\ posts \subseteq Posts
    /\ db \in Rows
    /\ hist \in Pasts
    /\ spent \in [faults : 0 .. MaxFaults, edits : 0 .. MaxEdits]

Ends(e)   == e.type \in {"done", "error"}
Opens(e)  == e.type \in {"pending", "call", "ask"}
Shuts(e)  == e.type \in {"result", "denied"}
OfTool(e) == Opens(e) \/ Shuts(e)
Waiting   == run.pc \in {"approval", "tool", "question"}
Over(pc)  == pc \in {"idle", "over"}
WaitsWith(pc) == IF pc = "approval" THEN "pending" ELSE IF pc = "tool" THEN "call" ELSE "ask"

\* An event of its own has its place in the log as its id, an answer to a tool call that call's.
IdsInv(log) ==
    /\ \A i \in 1 .. Len(log) : log[i].id <= i /\ (~Ends(log[i]) => log[i].id > 0)
    /\ \A i \in 1 .. Len(log) : log[i].type \in {"pending", "ask"} => log[i].id = i
    /\ \A i \in 1 .. Len(log) : log[i].type = "denied" =>
         i > 1 /\ log[i-1].type = "pending" /\ log[i-1].id = log[i].id
    /\ \A i \in 1 .. Len(log) : log[i].type = "call" => log[i].id = i \/ (i > 1 /\ log[i-1].type = "pending")
    /\ \A i, k \in 1 .. Len(log) : i < k /\ Shuts(log[i]) => log[k].id # log[i].id

\* A run that waits has said so last, and leaves no call behind; nothing follows the end of a turn.
EndsInv ==
    /\ \A i \in 1 .. Len(run.log) : Ends(run.log[i]) => i = Len(run.log) /\ run.pc = "over"
    /\ run.pc = "over" => Len(run.log) > 0 /\ Ends(run.log[Len(run.log)])
    /\ run.pc = "idle" => Len(run.log) = 0
    /\ Waiting => /\ Len(run.log) > 0 /\ run.log[Len(run.log)].id = run.tool
                  /\ run.log[Len(run.log)].type = WaitsWith(run.pc)
    /\ \A i \in 1 .. Len(run.log) : Opens(run.log[i]) =>
         \/ run.log[i].id \in Calls(run.log)
         \/ Waiting /\ run.log[i].id = run.tool
         \/ run.pc = "over" /\ run.log[Len(run.log)].type = "error"

\* The page reads the log in order, from where the last edit has left it.
CursorInv ==
    /\ page.from <= page.seen /\ page.seen <= Len(run.log) /\ page.resumes <= MaxResumes
    /\ hist.cut <= run.turn /\ (hist.cut # run.turn => page.from = 0)
    /\ page.pc = "opening" => page.seen = 0 /\ page.from = 0 /\ Over(run.pc) /\ run.turn < MaxTurns
    /\ page.pc \in {"idle", "opening"} => page.blocks = << >> /\ page.text = << >>

\* What is shown is what has arrived; a text block is the last one exactly as long as it is growing.
TextInv ==
    ~Interleaved(Arrived) =>
      /\ page.pc \in {"open", "broken", "saving"} => Growing(page) /\ Shown(page) = Deltas(Arrived)
      /\ page.pc \in {"open", "broken"} =>
           Fits(page) /\ (page.text # << >> => Arrived # << >> /\ Last(Arrived).type = "delta")

\* Every card is of one call that has arrived, every call that has arrived has one, and a closed one when answered.
CardInv ==
    /\ OneCardEach(page.blocks)
    /\ \A id \in CardIds(page.blocks) : \E i \in 1 .. page.seen : run.log[i].id = id /\ OfTool(run.log[i])
    /\ page.from = 0 /\ page.pc \in {"open", "broken"} =>
         \A i \in 1 .. page.seen :
           /\ OfTool(run.log[i]) => run.log[i].id \in CardIds(page.blocks)
           /\ Shuts(run.log[i]) /\ ~hist.late => run.log[i].id \in ClosedIds(page.blocks)

\* The replies and drafts of the turn have what the log has.
ReplyInv ==
    /\ \A r \in db.replies : r.turn <= run.turn
    /\ \A r \in db.replies : r.turn = run.turn /\ ~r.partial =>
         run.pc \in {"closing", "over"} /\ r.text = Deltas(run.log) /\ r.tools = Calls(run.log)
    /\ \A d \in page.drafts : d.turn <= run.turn
    /\ \A d \in page.drafts : d.turn = run.turn /\ hist.cut < run.turn =>
         /\ run.pc = "over"
         /\ Interleaved(run.log) \/ d.text = Deltas(run.log)
         /\ hist.late \/ d.tools = Calls(run.log)

Finished == run.pc = "closing" \/ (run.pc = "over" /\ run.log[Len(run.log)].type = "done")
FinalReply == \E r \in db.replies : r.turn = run.turn /\ ~r.partial

\* A run that has come to its end has its reply stored, before the page can know.
DoneInv ==
    /\ Finished /\ page.edit # "reset" /\ hist.cut # run.turn => FinalReply
    /\ page.pending => Finished /\ page.pc \in {"saving", "refreshing", "idle"}

\* A reply that has been on the page is on it still, or in the database as well.
KeptInv ==
    page.edit # "reset" => \A t \in page.delivered :
      t \in Turns(page.drafts) \/ (t \in Turns(page.shown.replies) /\ t \in Turns(db.replies))

\* The question at hand is offered for sending again only if the request that stores it has failed.
QuestionInv ==
    /\ ~hist.refused =>
         /\ \A i, j \in 1 .. Len(db.questions) : db.questions[i] = db.questions[j] => i = j
         /\ \A i \in 1 .. Len(db.questions) : db.questions[i] <= page.question
         /\ page.retry = "send" \/ (page.pc = "opening" /\ ~page.regenerate) =>
              \A i \in 1 .. Len(db.questions) : db.questions[i] # page.question
    /\ page.pc \in {"opening", "open", "broken"} => page.retry # "send"
    /\ page.edit = "none" /\ page.shown.questions # << >> =>
         db.questions # << >> /\ db.questions[1] = page.shown.questions[1]

\* Answers under way are of calls that were made, and a question that waits is on the page.
AskInv ==
    /\ \A post \in posts : post.turn <= run.turn /\ (post.turn = run.turn => post.id <= Len(run.log))
    /\ page.ask # NoAsk => page.ask[1] <= run.turn /\ (page.ask[1] = run.turn => page.ask[2] <= Len(run.log))
    /\ run.pc = "question" /\ run.decision = "none" => Post("answer", run.turn, run.tool) \notin posts
    /\ run.pc = "question" /\ run.decision = "none" /\ page.pc \in {"open", "broken"}
         /\ page.seen = Len(run.log) /\ ~hist.late => page.ask = <<run.turn, run.tool>>

\* A turn that ended without its reply has left its text if it could be saved; an edit that has not reset the page
\* yet has deleted it.
SavedInv ==
    page.pc = "refreshing" /\ page.edit # "reset" /\ run.turn \notin {hist.cut, hist.unsaved}
      /\ ~Interleaved(Arrived) /\ Deltas(Arrived) # << >>
      => \E r \in db.replies : r.turn = run.turn /\ IsPrefix(Deltas(Arrived), r.text)

ChatInv ==
    /\ Records /\ IdsInv(run.log) /\ EndsInv /\ CursorInv /\ TextInv /\ CardInv /\ ReplyInv /\ DoneInv
    /\ SavedInv /\ KeptInv /\ QuestionInv /\ AskInv

-----------------------------------------------------------------------------
(* Steps of the run. *)

LEMMA CallsAppend ==
    ASSUME NEW l \in Seq(EventRecs), NEW e \in EventRecs
    PROVE  /\ Shuts(e) => Calls(Append(l, e)) = Calls(l) \cup {e.id}
           /\ ~Shuts(e) => Calls(Append(l, e)) = Calls(l)
<1> DEFINE m == Append(l, e)
           n == Len(l)
<1>1. /\ m \in Seq(EventRecs) /\ Len(m) = n + 1 /\ n \in Nat /\ m[n + 1] = e /\ \A i \in 1 .. n : m[i] = l[i]
  BY AppendProperties, LenProperties
<1>2. DOMAIN l = 1 .. n /\ DOMAIN m = 1 .. n + 1
  BY <1>1, SeqFacts
<1> HIDE DEF m, n
<1>3. 1 .. n \subseteq 1 .. n + 1 /\ n + 1 \in 1 .. n + 1 /\ \A i \in 1 .. n + 1 : i \in 1 .. n \/ i = n + 1
  BY <1>1
<1>4. Shuts(e) => Calls(m) = Calls(l) \cup {e.id}
  BY <1>1, <1>2, <1>3 DEF Calls, Shuts
<1>5. ~Shuts(e) => Calls(m) = Calls(l)
  BY <1>1, <1>2, <1>3 DEF Calls, Shuts
<1> QED BY <1>4, <1>5 DEF m

LEMMA InCalls ==
    ASSUME NEW l \in Seq(EventRecs), NEW i \in 1 .. Len(l), Shuts(l[i])
    PROVE  l[i].id \in Calls(l)
BY SeqFacts DEF Calls, Shuts

\* The log after one more event.
Logged(l, e) ==
    /\ Append(l, e) \in Seq(EventRecs) /\ Len(Append(l, e)) = Len(l) + 1 /\ Len(l) \in Nat
    /\ Append(l, e)[Len(l) + 1] = e /\ \A i \in 1 .. Len(l) : Append(l, e)[i] = l[i]
    /\ \A i \in 1 .. Len(l) + 1 : i \in 1 .. Len(l) \/ i = Len(l) + 1

LEMMA LoggedEvent == ASSUME NEW l \in Seq(EventRecs), NEW e \in EventRecs PROVE Logged(l, e)
<1>1. Len(l) \in Nat
  BY LenProperties
<1> QED BY <1>1, MarksAppend DEF Logged

(* An event that fits on the log keeps the ids in order.                     *)
LEMMA FittingId ==
    ASSUME NEW l \in Seq(EventRecs), NEW e \in EventRecs, IdsInv(l),
           e.id <= Len(l) + 1, ~Ends(e) => e.id > 0,
           e.type \in {"pending", "ask"} => e.id = Len(l) + 1,
           e.type = "denied" => Len(l) > 0 /\ l[Len(l)].type = "pending" /\ l[Len(l)].id = e.id,
           e.type = "call" => e.id = Len(l) + 1 \/ (Len(l) > 0 /\ l[Len(l)].type = "pending"),
           \A i \in 1 .. Len(l) : Shuts(l[i]) => e.id # l[i].id
    PROVE  IdsInv(Append(l, e))
<1> DEFINE m == Append(l, e)
           n == Len(l)
<1>1. /\ Len(m) = n + 1 /\ n \in Nat /\ m[n + 1] = e /\ (\A i \in 1 .. n : m[i] = l[i])
      /\ \A i \in 1 .. n + 1 : i \in 1 .. n \/ i = n + 1
  BY LoggedEvent DEF Logged
<1>2. \A i \in 1 .. n + 1 : i > 1 => i - 1 \in 1 .. n /\ m[i-1] = l[i-1]
  BY <1>1
<1> HIDE DEF m
<1>3. \A i \in 1 .. n + 1 : m[i].id <= i /\ (~Ends(m[i]) => m[i].id > 0)
  BY <1>1 DEF IdsInv
<1>4. \A i \in 1 .. n + 1 : m[i].type \in {"pending", "ask"} => m[i].id = i
  BY <1>1 DEF IdsInv
<1>5. ASSUME NEW i \in 1 .. n + 1, m[i].type = "denied"
      PROVE  i > 1 /\ m[i-1].type = "pending" /\ m[i-1].id = m[i].id
  <2>1. CASE i = n + 1
    <3>1. i > 1 /\ i - 1 = n /\ m[i] = e
      BY <1>1, <1>5, <2>1
    <3> QED BY <1>2, <1>5, <3>1
  <2>2. CASE i # n + 1
    <3>1. i \in 1 .. n /\ l[i].type = "denied" /\ m[i] = l[i]
      BY <1>1, <1>5, <2>2
    <3>2. i > 1 /\ l[i-1].type = "pending" /\ l[i-1].id = l[i].id
      BY <3>1 DEF IdsInv
    <3> QED BY <1>2, <3>1, <3>2
  <2> QED BY <2>1, <2>2
<1>6. ASSUME NEW i \in 1 .. n + 1, m[i].type = "call"
      PROVE  m[i].id = i \/ (i > 1 /\ m[i-1].type = "pending")
  <2>1. CASE i = n + 1
    <3>1. m[i] = e /\ (n > 0 => i > 1 /\ i - 1 = n)
      BY <1>1, <2>1
    <3> QED BY <1>2, <1>6, <2>1, <3>1
  <2>2. CASE i # n + 1
    <3>1. i \in 1 .. n /\ m[i] = l[i]
      BY <1>1, <2>2
    <3>2. l[i].id = i \/ (i > 1 /\ l[i-1].type = "pending")
      BY <1>6, <3>1 DEF IdsInv
    <3> QED BY <1>2, <3>1, <3>2
  <2> QED BY <2>1, <2>2
<1>7. ASSUME NEW i \in 1 .. n + 1, NEW k \in 1 .. n + 1, i < k, Shuts(m[i]) PROVE m[k].id # m[i].id
  <2>1. i \in 1 .. n /\ m[i] = l[i]
    BY <1>1, <1>7
  <2>2. CASE k = n + 1
    BY <1>1, <1>7, <2>1, <2>2
  <2>3. CASE k # n + 1
    BY <1>1, <1>7, <2>1, <2>3 DEF IdsInv
  <2> QED BY <2>2, <2>3
<1>8. Len(m) = n + 1
  BY <1>1
<1> HIDE DEF n
<1> QED BY <1>3, <1>4, <1>5, <1>6, <1>7, <1>8 DEF IdsInv, m

LEMMA OwnId ==
    ASSUME NEW l \in Seq(EventRecs), NEW e \in EventRecs, IdsInv(l), e.id = Len(l) + 1, e.type # "denied"
    PROVE  IdsInv(Append(l, e))
<1>1. Len(l) \in Nat
  BY LenProperties
<1>2. \A i \in 1 .. Len(l) : l[i].id <= i /\ l[i].id \in Nat
  <2>1. \A i \in 1 .. Len(l) : l[i] \in EventRecs
    BY SeqFacts
  <2>2. \A x \in EventRecs : x.id \in Nat
    BY DEF EventRecs
  <2> QED BY <2>1, <2>2 DEF IdsInv
<1>3. \A i \in 1 .. Len(l) : e.id # l[i].id
  BY <1>1, <1>2
<1> QED BY <1>1, <1>3, FittingId

\* So does the answer to the call the run waits for, and the end of a turn.
LEMMA AnswersId ==
    ASSUME NEW l \in Seq(EventRecs), NEW e \in EventRecs, IdsInv(l), Len(l) > 0,
           Opens(l[Len(l)]), e.id = l[Len(l)].id, e.type \in {"call", "result", "denied"},
           e.type \in {"call", "denied"} => l[Len(l)].type = "pending"
    PROVE  IdsInv(Append(l, e))
<1>1. Len(l) \in Nat /\ Len(l) \in 1 .. Len(l)
  BY LenProperties
<1>2. l[Len(l)] \in EventRecs /\ ~Ends(l[Len(l)]) /\ ~Shuts(l[Len(l)])
  BY <1>1, SeqFacts DEF Opens, Ends, Shuts
<1>3. e.id <= Len(l) + 1 /\ e.id > 0
  BY <1>1, <1>2 DEF IdsInv, EventRecs
<1>4. \A i \in 1 .. Len(l) : Shuts(l[i]) => e.id # l[i].id
  <2> SUFFICES ASSUME NEW i \in 1 .. Len(l), Shuts(l[i]) PROVE e.id # l[i].id
    OBVIOUS
  <2>1. i < Len(l)
    BY <1>1, <1>2
  <2> QED BY <1>1, <2>1 DEF IdsInv
<1> QED BY <1>3, <1>4, FittingId

LEMMA EndsId ==
    ASSUME NEW l \in Seq(EventRecs), NEW e \in EventRecs, IdsInv(l), Ends(e), e.id = 0
    PROVE  IdsInv(Append(l, e))
<1>1. Len(l) \in Nat /\ e.type \notin {"pending", "ask", "denied", "call"}
  BY LenProperties DEF Ends
<1>2. \A i \in 1 .. Len(l) : Shuts(l[i]) => l[i].id > 0
  BY DEF IdsInv, Shuts, Ends
<1>3. \A i \in 1 .. Len(l) : Shuts(l[i]) => e.id # l[i].id
  BY <1>2
<1>4. e.id <= Len(l) + 1
  BY <1>1
<1> QED BY <1>1, <1>3, <1>4, FittingId

LEMMA EmitEffect ==
    ASSUME Records, NEW type \in Events, NEW id \in Nat, NEW ok \in BOOLEAN, NEW asked \in BOOLEAN,
           NEW pc \in RunPc, NEW tool \in Nat, Emit(type, id, ok, asked, pc, tool)
    PROVE  /\ run' \in Runs /\ run'.turn = run.turn /\ run'.pc = pc /\ run'.tool = tool /\ run'.decision = "none"
           /\ \E e \in EventRecs : /\ run'.log = Append(run.log, e)
                                   /\ e.type = type /\ e.id = id /\ e.ok = ok /\ e.asked = asked
<1> DEFINE e == Event(type, id, ok, asked)
<1>1. e \in EventRecs /\ e.type = type /\ e.id = id /\ e.ok = ok /\ e.asked = asked
  BY DEF Event, EventRecs
<1> HIDE DEF e
<1>2. run \in Runs /\ run.log \in Seq(EventRecs)
  BY DEF Records, Runs
<1>3. Append(run.log, e) \in Seq(EventRecs)
  BY <1>1, <1>2, AppendProperties
<1>4. run' = [run EXCEPT !.log = Append(run.log, e), !.pc = pc, !.tool = tool, !.decision = "none"]
  BY DEF Emit, e
<1>5. run' \in Runs
  BY <1>2, <1>3, <1>4 DEF Runs
<1>6. /\ run'.turn = run.turn /\ run'.pc = pc /\ run'.tool = tool /\ run'.decision = "none"
      /\ run'.log = Append(run.log, e)
  BY <1>2, <1>4 DEF Runs
<1> QED BY <1>1, <1>5, <1>6

LEMMA PageFields ==
    ASSUME Records
    PROVE  /\ run.log \in Seq(EventRecs) /\ run.turn \in Nat /\ run.pc \in RunPc /\ run.tool \in Nat /\ Len(run.log) \in Nat
           /\ page.from \in Nat /\ page.seen \in Nat /\ page.blocks \in Seq(BlockRecs) /\ page.text \in Seq(Nat)
           /\ page.question \in Nat /\ page.pc \in PagePc /\ page.drafts \subseteq Drafts /\ page.delivered \subseteq Nat
           /\ page.shown \in Rows /\ page.ask \in Nat \X Nat /\ page.pending \in BOOLEAN /\ page.regenerate \in BOOLEAN
           /\ page.resumes \in Nat /\ page.retry \in Intents
           /\ db.questions \in Seq(Nat) /\ db.replies \subseteq Replies
           /\ hist.late \in BOOLEAN /\ hist.refused \in BOOLEAN /\ hist.cut \in Nat
           /\ \A post \in posts : post.turn \in Nat /\ post.id \in Nat /\ post.kind \in {"approve", "deny", "answer"}
BY LenProperties DEF Records, Runs, Pages, Rows, Posts, Pasts

(* What an event more leaves alone: the page has not read it.                *)
LEMMA EmitRest ==
    ASSUME ChatInv, NEW e \in EventRecs, run' \in Runs, run'.log = Append(run.log, e), run'.turn = run.turn,
           run'.decision = "none", UNCHANGED <<page, posts, db, hist>>,
           spent' \in [faults : 0 .. MaxFaults, edits : 0 .. MaxEdits],
           ~Over(run.pc), IdsInv(run'.log), EndsInv',
           run.pc = "closing" => run'.pc = "over" /\ e.type = "done",
           run.pc # "closing" => run'.pc # "closing" /\ e.type # "done",
           run'.pc = "question" => run'.tool = Len(run.log) + 1
    PROVE  ChatInv'
<1> DEFINE n == Len(run.log)
<1>1. Records /\ CursorInv /\ TextInv /\ CardInv /\ ReplyInv /\ DoneInv /\ SavedInv /\ KeptInv /\ QuestionInv /\ AskInv
  BY DEF ChatInv
<1>2. /\ run.log \in Seq(EventRecs) /\ n \in Nat /\ page.from \in Nat /\ page.seen \in Nat
      /\ page.from <= page.seen /\ page.seen <= n
  BY <1>1, PageFields DEF CursorInv
<1>3. /\ Len(run'.log) = n + 1 /\ run'.log[n + 1] = e /\ \A i \in 1 .. n : run'.log[i] = run.log[i]
  BY <1>2, LoggedEvent DEF Logged
<1>4. Arrived' = Arrived
  <2>1. SubSeq(Append(run.log, e), page.from + 1, page.seen) = SubSeq(run.log, page.from + 1, page.seen)
    BY <1>2, ArrivedKept
  <2> QED BY <2>1 DEF Arrived
<1>5. page.pc # "opening"
  BY <1>1 DEF CursorInv
<1>6. Records'
  BY <1>1 DEF Records
<1>7. CursorInv'
  BY <1>1, <1>2, <1>3, <1>5 DEF CursorInv
<1>8. TextInv'
  BY <1>1, <1>4 DEF TextInv
<1>9. CardInv'
  <2>1. \A i \in 1 .. page.seen : run'.log[i] = run.log[i]
    BY <1>2, <1>3
  <2> QED BY <1>1, <2>1 DEF CardInv
<1>10. ASSUME run.pc = "closing"
       PROVE  run'.pc = "over" /\ Deltas(run'.log) = Deltas(run.log) /\ Calls(run'.log) = Calls(run.log)
  <2>1. run'.pc = "over" /\ e.type # "delta" /\ ~Shuts(e)
    BY <1>10 DEF Shuts
  <2>2. Deltas(Append(run.log, e)) = Deltas(run.log)
    BY <1>2, <2>1, MarksAppend
  <2>3. Calls(Append(run.log, e)) = Calls(run.log)
    BY <1>2, <2>1, CallsAppend
  <2> QED BY <2>1, <2>2, <2>3
<1>11. ReplyInv'
  <2>1. \A r \in db.replies : r.turn = run.turn /\ ~r.partial => run.pc = "closing"
    BY <1>1 DEF ReplyInv, Over
  <2>2. \A d \in page.drafts : ~(d.turn = run.turn /\ hist.cut < run.turn)
    BY <1>1 DEF ReplyInv, Over
  <2> QED BY <1>1, <1>10, <2>1, <2>2 DEF ReplyInv
<1>12. DoneInv'
  <2>1. Finished' <=> run.pc = "closing"
    BY <1>2, <1>3 DEF Finished
  <2>2. Finished <=> run.pc = "closing"
    BY DEF Finished, Over
  <2> QED BY <1>1, <2>1, <2>2 DEF DoneInv, FinalReply
<1>13. SavedInv' /\ KeptInv' /\ QuestionInv'
  <2>1. SavedInv'
    BY <1>1, <1>4 DEF SavedInv
  <2>2. KeptInv'
    BY <1>1 DEF KeptInv
  <2>3. QuestionInv'
    BY <1>1 DEF QuestionInv
  <2> QED BY <2>1, <2>2, <2>3
<1>14. AskInv'
  <2>1. \A post \in posts : post.turn \in Nat /\ post.id \in Nat
    BY <1>1, PageFields
  <2>2. page.ask \in Nat \X Nat
    BY <1>1, PageFields
  <2>3. \A post \in posts' : post.turn <= run'.turn /\ (post.turn = run'.turn => post.id <= Len(run'.log))
    BY <1>1, <1>2, <1>3, <2>1 DEF AskInv
  <2>4. page'.ask # NoAsk => page'.ask[1] <= run'.turn /\ (page'.ask[1] = run'.turn => page'.ask[2] <= Len(run'.log))
    BY <1>1, <1>2, <1>3, <2>2 DEF AskInv
  <2>5. run'.pc = "question" => Post("answer", run'.turn, run'.tool) \notin posts'
    <3> SUFFICES ASSUME run'.pc = "question", Post("answer", run'.turn, run'.tool) \in posts PROVE FALSE
      OBVIOUS
    <3>1. Post("answer", run.turn, n + 1).turn = run.turn /\ Post("answer", run.turn, n + 1).id = n + 1
      BY DEF Post
    <3> QED BY <1>1, <1>2, <3>1 DEF AskInv
  <2>6. page'.seen # Len(run'.log)
    BY <1>2, <1>3
  <2> QED BY <2>3, <2>4, <2>5, <2>6 DEF AskInv
<1> QED BY <1>6, <1>7, <1>8, <1>9, <1>11, <1>12, <1>13, <1>14 DEF ChatInv

LEMMA EndsMore ==
    ASSUME NEW e \in EventRecs, run.log \in Seq(EventRecs), run'.log = Append(run.log, e), EndsInv, ~Over(run.pc),
           Ends(e) <=> run'.pc = "over", run'.pc # "idle",
           Waiting' => e.id = run'.tool /\ e.type = WaitsWith(run'.pc),
           Opens(e) => Waiting' /\ e.id = run'.tool,
           Waiting => \/ Shuts(e) /\ e.id = run.tool
                      \/ Waiting' /\ run'.tool = run.tool
                      \/ e.type = "error"
    PROVE  EndsInv'
<1> DEFINE n == Len(run.log)
           m == run'.log
<1>1. /\ Len(m) = n + 1 /\ n \in Nat /\ m[n + 1] = e /\ (\A i \in 1 .. n : m[i] = run.log[i])
      /\ \A i \in 1 .. n + 1 : i \in 1 .. n \/ i = n + 1
  BY LoggedEvent DEF Logged
<1> HIDE DEF m
<1>2. \A i \in 1 .. n + 1 : Ends(m[i]) => i = n + 1 /\ run'.pc = "over"
  <2>1. \A i \in 1 .. n : ~Ends(run.log[i])
    BY DEF EndsInv, Over
  <2> QED BY <1>1, <2>1
<1>3. /\ run'.pc = "over" => n + 1 > 0 /\ Ends(m[n + 1])
      /\ Waiting' => n + 1 > 0 /\ m[n + 1].id = run'.tool /\ m[n + 1].type = WaitsWith(run'.pc)
  BY <1>1
<1>4. ASSUME NEW i \in 1 .. n + 1, Opens(m[i])
      PROVE  \/ m[i].id \in Calls(m)
             \/ Waiting' /\ m[i].id = run'.tool
             \/ run'.pc = "over" /\ m[n + 1].type = "error"
  <2>1. CASE i = n + 1
    BY <1>1, <1>4, <2>1
  <2>2. CASE i # n + 1
    <3>1. i \in 1 .. n /\ m[i] = run.log[i]
      BY <1>1, <2>2
    <3>2. run.log[i].id \in Calls(run.log) \/ (Waiting /\ run.log[i].id = run.tool)
      BY <1>4, <3>1 DEF EndsInv, Over
    <3>3. Calls(run.log) \subseteq Calls(m) /\ (Shuts(e) => e.id \in Calls(m))
      BY CallsAppend DEF m
    <3>4. e.type = "error" => run'.pc = "over"
      BY DEF Ends
    <3> QED BY <1>1, <3>1, <3>2, <3>3, <3>4
  <2> QED BY <2>1, <2>2
<1> HIDE DEF n
<1>5. Len(m) = n + 1
  BY <1>1
<1> QED BY <1>2, <1>3, <1>4, <1>5 DEF EndsInv, m

\* The parts of the invariant a step of the run needs.
LEMMA RunParts ==
    ASSUME ChatInv
    PROVE  Records /\ IdsInv(run.log) /\ EndsInv /\ run.log \in Seq(EventRecs) /\ Len(run.log) \in Nat /\ run.tool \in Nat
           /\ spent \in [faults : 0 .. MaxFaults, edits : 0 .. MaxEdits]
           /\ None = 0 /\ Next_Id = Len(run.log) + 1 /\ Next_Id \in Nat
BY PageFields DEF ChatInv, Records, None, Next_Id

LEMMA FaultCounts ==
    ASSUME spent \in [faults : 0 .. MaxFaults, edits : 0 .. MaxEdits], Fault
    PROVE  spent' \in [faults : 0 .. MaxFaults, edits : 0 .. MaxEdits]
<1>1. MaxFaults \in Nat
  BY ChatPageAssumption
<1> QED BY <1>1 DEF Fault

(* The model thinks, writes, or makes a call.                                *)
LEMMA ModelStep ==
    ASSUME ChatInv, run.pc = "model", UNCHANGED <<page, posts, db, hist, spent>>,
           NEW type \in Events, NEW ok \in BOOLEAN, NEW asked \in BOOLEAN, NEW pc \in RunPc, NEW tool \in Nat,
           Emit(type, Next_Id, ok, asked, pc, tool),
           \/ type \in {"reasoning", "delta", "result"} /\ pc = "model"
           \/ tool = Next_Id /\ pc \in {"approval", "tool", "question"} /\ type = WaitsWith(pc)
    PROVE  ChatInv'
<1>1. /\ Records /\ IdsInv(run.log) /\ EndsInv /\ run.log \in Seq(EventRecs) /\ Len(run.log) \in Nat
      /\ Next_Id = Len(run.log) + 1 /\ Next_Id \in Nat
      /\ spent \in [faults : 0 .. MaxFaults, edits : 0 .. MaxEdits]
  BY RunParts
<1>2. /\ run' \in Runs /\ run'.turn = run.turn /\ run'.pc = pc /\ run'.tool = tool /\ run'.decision = "none"
      /\ \E e \in EventRecs : run'.log = Append(run.log, e) /\ e.type = type /\ e.id = Next_Id
  BY <1>1, EmitEffect
<1>3. PICK e \in EventRecs : run'.log = Append(run.log, e) /\ e.type = type /\ e.id = Next_Id
  BY <1>2
<1>4. type \in {"reasoning", "delta", "result", "pending", "call", "ask"}
  BY DEF WaitsWith
<1>5. IdsInv(run'.log)
  BY <1>1, <1>3, <1>4, OwnId
<1>6. EndsInv'
  <2>1. ~Waiting /\ ~Over(run.pc) /\ run'.pc \notin {"over", "idle"} /\ ~Ends(e)
    BY <1>2, <1>3, <1>4 DEF Waiting, Over, Ends
  <2>2. Waiting' => e.id = run'.tool /\ e.type = WaitsWith(run'.pc)
    BY <1>2, <1>3 DEF Waiting
  <2>3. Opens(e) => Waiting' /\ e.id = run'.tool
    BY <1>2, <1>3 DEF Waiting, Opens
  <2> QED BY <1>1, <1>3, <2>1, <2>2, <2>3, EndsMore
<1>7. run'.pc # "closing" /\ e.type # "done" /\ (run'.pc = "question" => run'.tool = Len(run.log) + 1)
  BY <1>1, <1>2, <1>3, <1>4
<1> QED BY <1>1, <1>2, <1>3, <1>5, <1>6, <1>7, EmitRest DEF Over

(* The call the run waits for is answered, or goes on to run.                *)
LEMMA AnswerStep ==
    ASSUME ChatInv, Waiting, UNCHANGED <<page, posts, db, hist, spent>>,
           NEW type \in Events, NEW ok \in BOOLEAN, NEW asked \in BOOLEAN, NEW pc \in RunPc, NEW tool \in Nat,
           Emit(type, run.tool, ok, asked, pc, tool),
           \/ type = "result" /\ pc = "model"
           \/ type = "denied" /\ pc = "model" /\ run.pc = "approval"
           \/ type = "call" /\ pc = "tool" /\ run.pc = "approval" /\ tool = run.tool
    PROVE  ChatInv'
<1>1. /\ Records /\ IdsInv(run.log) /\ EndsInv /\ run.log \in Seq(EventRecs) /\ Len(run.log) \in Nat
      /\ spent \in [faults : 0 .. MaxFaults, edits : 0 .. MaxEdits] /\ run.tool \in Nat
  BY RunParts
<1>2. /\ run' \in Runs /\ run'.turn = run.turn /\ run'.pc = pc /\ run'.tool = tool /\ run'.decision = "none"
      /\ \E e \in EventRecs : run'.log = Append(run.log, e) /\ e.type = type /\ e.id = run.tool
  BY <1>1, EmitEffect
<1>3. PICK e \in EventRecs : run'.log = Append(run.log, e) /\ e.type = type /\ e.id = run.tool
  BY <1>2
<1>4. /\ Len(run.log) > 0 /\ run.log[Len(run.log)].id = run.tool
      /\ run.log[Len(run.log)].type = WaitsWith(run.pc)
  BY <1>1 DEF EndsInv
<1>5. IdsInv(run'.log)
  <2>1. Opens(run.log[Len(run.log)])
    BY <1>4 DEF WaitsWith, Opens
  <2>2. e.type \in {"call", "denied"} => run.log[Len(run.log)].type = "pending"
    BY <1>3, <1>4 DEF WaitsWith
  <2> QED BY <1>1, <1>3, <1>4, <2>1, <2>2, AnswersId
<1>6. EndsInv'
  <2>1. ~Over(run.pc) /\ run'.pc \notin {"over", "idle"} /\ ~Ends(e)
    BY <1>2, <1>3 DEF Waiting, Over, Ends
  <2>2. Waiting' => e.id = run'.tool /\ e.type = WaitsWith(run'.pc)
    BY <1>2, <1>3 DEF Waiting, WaitsWith
  <2>3. Opens(e) => Waiting' /\ e.id = run'.tool
    BY <1>2, <1>3 DEF Waiting, Opens
  <2>4. \/ Shuts(e) /\ e.id = run.tool
        \/ Waiting' /\ run'.tool = run.tool
    BY <1>2, <1>3 DEF Waiting, Shuts
  <2> QED BY <1>1, <1>3, <2>1, <2>2, <2>3, <2>4, EndsMore
<1>7. run.pc # "closing" /\ ~Over(run.pc) /\ run'.pc # "closing" /\ e.type # "done" /\ run'.pc # "question"
  BY <1>2, <1>3 DEF Waiting, Over
<1> QED BY <1>1, <1>2, <1>3, <1>5, <1>6, <1>7, EmitRest

(* The turn ends.                                                            *)
LEMMA EndStep ==
    ASSUME ChatInv, UNCHANGED <<page, posts, db, hist>>,
           spent' \in [faults : 0 .. MaxFaults, edits : 0 .. MaxEdits],
           NEW type \in Events, NEW ok \in BOOLEAN, NEW asked \in BOOLEAN, Emit(type, None, ok, asked, "over", None),
           \/ type = "done" /\ run.pc = "closing"
           \/ type = "error" /\ run.pc \in {"model", "tool", "approval", "question"}
    PROVE  ChatInv'
<1>1. /\ Records /\ IdsInv(run.log) /\ EndsInv /\ run.log \in Seq(EventRecs) /\ Len(run.log) \in Nat /\ None = 0
  BY RunParts
<1>2. /\ run' \in Runs /\ run'.turn = run.turn /\ run'.pc = "over" /\ run'.decision = "none"
      /\ \E e \in EventRecs : run'.log = Append(run.log, e) /\ e.type = type /\ e.id = 0
  <2>1. None \in Nat /\ "over" \in RunPc
    BY <1>1 DEF RunPc
  <2>2. /\ run' \in Runs /\ run'.turn = run.turn /\ run'.pc = "over" /\ run'.decision = "none"
        /\ \E e \in EventRecs : run'.log = Append(run.log, e) /\ e.type = type /\ e.id = None
    <3>1. Records
      BY <1>1
    <3> HIDE DEF Records
    <3> QED BY <2>1, <3>1, EmitEffect
  <2>3. None = 0
    BY <1>1
  <2> QED BY <2>2, <2>3
<1>3. PICK e \in EventRecs : run'.log = Append(run.log, e) /\ e.type = type /\ e.id = 0
  BY <1>2
<1>4. Ends(e) /\ ~Over(run.pc) /\ ~Waiting' /\ ~Opens(e) /\ (Waiting => e.type = "error")
  BY <1>2, <1>3 DEF Ends, Over, Waiting, Opens
<1>5. IdsInv(run'.log)
  BY <1>1, <1>3, <1>4, EndsId
<1>6. EndsInv'
  BY <1>1, <1>2, <1>3, <1>4, EndsMore
<1> QED BY <1>2, <1>3, <1>4, <1>5, <1>6, EmitRest

LEMMA CallsType ==
    ASSUME NEW l \in Seq(EventRecs)
    PROVE  Calls(l) \subseteq Nat
<1>1. DOMAIN l = 1 .. Len(l) /\ \A i \in 1 .. Len(l) : l[i] \in EventRecs
  BY SeqFacts
<1>2. \A x \in EventRecs : x.id \in Nat
  BY DEF EventRecs
<1> QED BY <1>1, <1>2 DEF Calls

\* The turn as far as it has been read, when no edit has come between.
LEMMA ArrivedFromStart ==
    ASSUME Records, CursorInv, hist.cut # run.turn
    PROVE  page.from = 0 /\ Arrived = SubSeq(run.log, 1, page.seen) /\ page.seen \in 0 .. Len(run.log)
<1>1. page.from = 0 /\ page.seen \in Nat /\ page.seen <= Len(run.log) /\ Len(run.log) \in Nat
  BY PageFields DEF CursorInv
<1> QED BY <1>1 DEF Arrived

(* The reply is stored before the run says it is done.                       *)
LEMMA CommitStep == ChatInv /\ Commit => ChatInv'
<1> SUFFICES ASSUME ChatInv, Commit PROVE ChatInv'
  OBVIOUS
<1> DEFINE new == Reply(run.turn, Deltas(run.log), Calls(run.log), FALSE)
<1>1. /\ Records /\ IdsInv(run.log) /\ EndsInv /\ CursorInv /\ TextInv /\ CardInv /\ ReplyInv /\ DoneInv
      /\ SavedInv /\ KeptInv /\ QuestionInv /\ AskInv
  BY DEF ChatInv
<1>2. /\ run.pc = "model" /\ UNCHANGED <<page, posts, hist, spent>>
      /\ run' = [run EXCEPT !.pc = "closing"]
      /\ db' = [db EXCEPT !.replies = {r \in db.replies : ~(r.turn = run.turn /\ r.partial)} \cup {new}]
  BY DEF Commit
<1>3. /\ run.log \in Seq(EventRecs) /\ run.turn \in Nat /\ run \in Runs /\ db \in Rows /\ db.replies \subseteq Replies
      /\ Deltas(run.log) \in Seq(Nat) /\ Calls(run.log) \subseteq Nat
  BY <1>1, PageFields, CallsType, DeltasType DEF Records
<1>4. /\ new \in Replies /\ new.turn = run.turn /\ new.text = Deltas(run.log) /\ new.tools = Calls(run.log)
      /\ ~new.partial
  BY <1>3 DEF Reply, Replies
<1> HIDE DEF new
<1>5. /\ run' \in Runs /\ run'.pc = "closing" /\ run'.log = run.log /\ run'.turn = run.turn /\ run'.tool = run.tool
      /\ run'.decision = run.decision
  BY <1>2, <1>3 DEF Runs, RunPc
<1>6. /\ db' \in Rows /\ db'.questions = db.questions
      /\ db'.replies = {r \in db.replies : ~(r.turn = run.turn /\ r.partial)} \cup {new}
  BY <1>2, <1>3, <1>4 DEF Rows
<1>7. Records'
  BY <1>1, <1>2, <1>5, <1>6 DEF Records
<1>8. EndsInv'
  <2>1. ~Waiting /\ ~Waiting'
    BY <1>2, <1>5 DEF Waiting
  <2> QED BY <1>1, <1>2, <1>5, <2>1 DEF EndsInv
<1>9. CursorInv'
  BY <1>1, <1>2, <1>5 DEF CursorInv, Over
<1>10. Arrived' = Arrived
  BY <1>2, <1>5 DEF Arrived
<1>11. TextInv'
  BY <1>1, <1>2, <1>10 DEF TextInv
<1>12. CardInv'
  BY <1>1, <1>2, <1>5 DEF CardInv
<1>13. ReplyInv'
  <2>1. \A r \in db.replies : ~(r.turn = run.turn /\ ~r.partial)
    BY <1>1, <1>2 DEF ReplyInv
  <2>2. \A d \in page.drafts : ~(d.turn = run.turn /\ hist.cut < run.turn)
    BY <1>1, <1>2 DEF ReplyInv
  <2> QED BY <1>1, <1>2, <1>3, <1>4, <1>5, <1>6, <2>1, <2>2 DEF ReplyInv
<1>14. DoneInv'
  <2>1. FinalReply'
    BY <1>4, <1>5, <1>6 DEF FinalReply
  <2>2. Finished' /\ ~Finished
    BY <1>2, <1>5 DEF Finished
  <2> QED BY <1>1, <1>2, <2>1, <2>2 DEF DoneInv
<1>15. SavedInv'
  <2> SUFFICES ASSUME hist.cut # run.turn
               PROVE  \E r \in db'.replies : r.turn = run'.turn /\ IsPrefix(Deltas(Arrived'), r.text)
    BY <1>2, <1>5 DEF SavedInv
  <2>1. IsPrefix(Deltas(Arrived), Deltas(run.log))
    BY <1>1, <1>3, ArrivedFromStart, SaidFirst
  <2> QED BY <1>4, <1>5, <1>6, <1>10, <2>1
<1>16. KeptInv'
  <2>1. Turns(db.replies) \subseteq Turns(db'.replies)
    BY <1>4, <1>6 DEF Turns
  <2> QED BY <1>1, <1>2, <2>1 DEF KeptInv
<1>17. QuestionInv'
  BY <1>1, <1>2, <1>6 DEF QuestionInv
<1>18. AskInv'
  BY <1>1, <1>2, <1>5 DEF AskInv
<1>19. IdsInv(run.log)'
  BY <1>1, <1>5
<1> QED BY <1>7, <1>8, <1>9, <1>11, <1>12, <1>13, <1>14, <1>15, <1>16, <1>17, <1>18, <1>19 DEF ChatInv

LEMMA RunSteps == ChatInv /\ RunStep => ChatInv'
<1> SUFFICES ASSUME ChatInv, RunStep PROVE ChatInv'
  OBVIOUS
<1>0. /\ Records /\ run.tool \in Nat /\ Next_Id \in Nat /\ None \in Nat
      /\ spent \in [faults : 0 .. MaxFaults, edits : 0 .. MaxEdits] /\ TRUE \in BOOLEAN /\ FALSE \in BOOLEAN
  BY RunParts
<1>1. CASE ModelThinks
  <2>1. PICK ok \in BOOLEAN, asked \in BOOLEAN : Emit("reasoning", Next_Id, ok, asked, "model", None)
    BY <1>0, <1>1, Zenon DEF ModelThinks
  <2>2. run.pc = "model" /\ UNCHANGED <<page, posts, db, hist, spent>> /\ "reasoning" \in Events /\ "model" \in RunPc
    BY <1>1 DEF ModelThinks, More, Events, RunPc
  <2> QED BY <1>0, <2>1, <2>2, ModelStep
<1>2. CASE ModelWrites
  <2>1. PICK ok \in BOOLEAN, asked \in BOOLEAN : Emit("delta", Next_Id, ok, asked, "model", None)
    BY <1>0, <1>2, Zenon DEF ModelWrites
  <2>2. run.pc = "model" /\ UNCHANGED <<page, posts, db, hist, spent>> /\ "delta" \in Events /\ "model" \in RunPc
    BY <1>2 DEF ModelWrites, More, Events, RunPc
  <2> QED BY <1>0, <2>1, <2>2, ModelStep
<1>3. CASE CallTool
  <2>1. /\ run.pc = "model" /\ UNCHANGED <<page, posts, db, hist, spent>>
        /\ {"call", "pending", "ask", "result"} \subseteq Events /\ {"tool", "approval", "question", "model"} \subseteq RunPc
    BY <1>3 DEF CallTool, More, Events, RunPc
  <2>2. CASE \E ok, asked \in BOOLEAN : Emit("call", Next_Id, ok, asked, "tool", Next_Id)
    <3>1. WaitsWith("tool") = "call"
      BY DEF WaitsWith
    <3> QED BY <1>0, <2>1, <2>2, <3>1, ModelStep
  <2>3. CASE \E ok, asked \in BOOLEAN : Emit("pending", Next_Id, ok, asked, "approval", Next_Id)
    <3>1. WaitsWith("approval") = "pending"
      BY DEF WaitsWith
    <3> QED BY <1>0, <2>1, <2>3, <3>1, ModelStep
  <2>4. CASE \E ok, asked \in BOOLEAN : Emit("ask", Next_Id, ok, asked, "question", Next_Id)
    <3>1. WaitsWith("question") = "ask"
      BY DEF WaitsWith
    <3> QED BY <1>0, <2>1, <2>4, <3>1, ModelStep
  <2>5. CASE \E ok, asked \in BOOLEAN : Emit("result", Next_Id, ok, asked, "model", None)
    BY <1>0, <2>1, <2>5, ModelStep
  <2>6. \/ Emit("call", Next_Id, TRUE, FALSE, "tool", Next_Id)
        \/ Emit("pending", Next_Id, TRUE, FALSE, "approval", Next_Id)
        \/ Emit("ask", Next_Id, TRUE, TRUE, "question", Next_Id)
        \/ Emit("result", Next_Id, FALSE, TRUE, "model", None)
    BY <1>3 DEF CallTool
  <2> QED BY <1>0, <2>2, <2>3, <2>4, <2>5, <2>6, Zenon
<1>4. CASE ToolEnds
  <2>1. PICK ok \in BOOLEAN, asked \in BOOLEAN : Emit("result", run.tool, ok, asked, "model", None)
    BY <1>0, <1>4, Zenon DEF ToolEnds
  <2>2. Waiting /\ UNCHANGED <<page, posts, db, hist, spent>> /\ "result" \in Events /\ "model" \in RunPc
    BY <1>4 DEF ToolEnds, Waiting, Events, RunPc
  <2> QED BY <1>0, <2>1, <2>2, AnswerStep
<1>5. CASE ApprovalEnds
  <2>1. /\ Waiting /\ run.pc = "approval" /\ UNCHANGED <<page, posts, db, hist, spent>>
        /\ {"call", "denied"} \subseteq Events /\ {"tool", "model"} \subseteq RunPc
    BY <1>5 DEF ApprovalEnds, Waiting, Events, RunPc
  <2>2. CASE \E ok, asked \in BOOLEAN : Emit("call", run.tool, ok, asked, "tool", run.tool)
    BY <1>0, <2>1, <2>2, AnswerStep
  <2>3. CASE \E ok, asked \in BOOLEAN : Emit("denied", run.tool, ok, asked, "model", None)
    BY <1>0, <2>1, <2>3, AnswerStep
  <2>4. \/ Emit("call", run.tool, TRUE, FALSE, "tool", run.tool)
        \/ Emit("denied", run.tool, FALSE, FALSE, "model", None)
    BY <1>5 DEF ApprovalEnds
  <2> QED BY <1>0, <2>2, <2>3, <2>4, Zenon
<1>6. CASE QuestionEnds
  <2>1. PICK ok \in BOOLEAN, asked \in BOOLEAN : Emit("result", run.tool, ok, asked, "model", None)
    <3>1. (run.decision = "answer") \in BOOLEAN
      OBVIOUS
    <3> QED BY <1>0, <1>6, <3>1, Zenon DEF QuestionEnds
  <2>2. Waiting /\ UNCHANGED <<page, posts, db, hist, spent>> /\ "result" \in Events /\ "model" \in RunPc
    BY <1>6 DEF QuestionEnds, Waiting, Events, RunPc
  <2> QED BY <1>0, <2>1, <2>2, AnswerStep
<1>7. CASE Commit
  BY <1>7, CommitStep
<1>8. CASE EmitDone
  <2>1. PICK ok \in BOOLEAN, asked \in BOOLEAN : Emit("done", None, ok, asked, "over", None)
    BY <1>0, <1>8, Zenon DEF EmitDone
  <2>2. run.pc = "closing" /\ UNCHANGED <<page, posts, db, hist, spent>> /\ "done" \in Events
    BY <1>8 DEF EmitDone, Events
  <2> QED BY <1>0, <2>1, <2>2, EndStep
<1>9. CASE RunFails
  <2>1. PICK ok \in BOOLEAN, asked \in BOOLEAN : Emit("error", None, ok, asked, "over", None)
    BY <1>0, <1>9, Zenon DEF RunFails
  <2>2. run.pc \in {"model", "tool", "approval", "question"} /\ UNCHANGED <<page, posts, db, hist>> /\ "error" \in Events
    BY <1>9 DEF RunFails, Events
  <2>3. spent' \in [faults : 0 .. MaxFaults, edits : 0 .. MaxEdits]
    BY <1>0, <1>9, FaultCounts DEF RunFails
  <2> QED BY <1>0, <2>1, <2>2, <2>3, EndStep
<1> QED BY <1>1, <1>2, <1>3, <1>4, <1>5, <1>6, <1>7, <1>8, <1>9 DEF RunStep

-----------------------------------------------------------------------------
(* Steps of the page in which it neither reads nor stores anything. *)

\* What such a step leaves of the page, and what it may do to the rest.
SamePlace(p, q) ==
    /\ q.question = p.question /\ q.regenerate = p.regenerate /\ q.from = p.from /\ q.seen = p.seen
    /\ q.pending = p.pending /\ q.edit = p.edit /\ q.drafts = p.drafts /\ q.delivered = p.delivered /\ q.shown = p.shown
Moves(p, q) ==
    /\ q.pc = p.pc \/ (p.pc \in {"open", "broken"} /\ q.pc \in {"open", "broken", "saving"})
    /\ q.resumes <= MaxResumes
    /\ q.retry = p.retry \/ q.retry # "send"
    /\ q.ask = p.ask \/ q.ask = NoAsk
\* The blocks have the cards they had and show the text they have shown.
Redrawn(p, q) ==
    /\ SameIds(p.blocks, q.blocks)
    /\ Growing(p) => Growing(q) /\ Shown(q) = Shown(p)
    /\ q.pc \in {"open", "broken"} => q.text = p.text /\ (Fits(p) => Fits(q))
    /\ q.pc \in {"idle", "opening"} => q.text = p.text /\ (p.blocks = << >> => q.blocks = << >>)

LEMMA PageRest ==
    ASSUME ChatInv, UNCHANGED <<run, db>>, Records', posts' \subseteq posts,
           hist'.cut = hist.cut, hist'.refused = hist.refused, hist'.unsaved = hist.unsaved, hist.late => hist'.late,
           SamePlace(page, page'), Moves(page, page'), Redrawn(page, page'),
           page'.pc \in {"open", "broken"} /\ ~hist'.late =>
             \A i \in 1 .. page.seen : Shuts(run.log[i]) /\ run.log[i].id \in ClosedIds(page.blocks)
                                         => run.log[i].id \in ClosedIds(page'.blocks),
           run.pc = "question" /\ run.decision = "none" /\ page.pc \in {"open", "broken"}
             /\ page.seen = Len(run.log) /\ ~hist'.late => page'.ask = page.ask
    PROVE  ChatInv'
<1>1. /\ Records /\ IdsInv(run.log) /\ EndsInv /\ CursorInv /\ TextInv /\ CardInv /\ ReplyInv /\ DoneInv
      /\ SavedInv /\ KeptInv /\ QuestionInv /\ AskInv
  BY DEF ChatInv
<1>2. Arrived' = Arrived
  BY DEF Arrived, SamePlace
<1>3. IdsInv(run.log)' /\ EndsInv'
  BY <1>1 DEF EndsInv, Waiting
<1>4. CursorInv'
  BY <1>1 DEF CursorInv, SamePlace, Moves, Redrawn
<1>5. TextInv'
  <2> SUFFICES ASSUME ~Interleaved(Arrived)
               PROVE  /\ page'.pc \in {"open", "broken", "saving"} => Growing(page') /\ Shown(page') = Deltas(Arrived)
                      /\ page'.pc \in {"open", "broken"} =>
                           Fits(page') /\ (page'.text # << >> => Arrived # << >> /\ Last(Arrived).type = "delta")
    BY <1>2 DEF TextInv
  <2>1. page'.pc \in {"open", "broken", "saving"} =>
          page.pc \in {"open", "broken", "saving"} /\ Growing(page) /\ Shown(page) = Deltas(Arrived)
    BY <1>1 DEF TextInv, Moves
  <2>2. page'.pc \in {"open", "broken"} =>
          Fits(page) /\ (page.text # << >> => Arrived # << >> /\ Last(Arrived).type = "delta")
    BY <1>1 DEF TextInv, Moves
  <2> QED BY <2>1, <2>2 DEF Redrawn
<1>6. CardInv'
  <2>1. OneCardEach(page'.blocks) /\ CardIds(page'.blocks) = CardIds(page.blocks)
    BY <1>1 DEF CardInv, Redrawn, SameIds
  <2>2. page'.from = 0 /\ page'.pc \in {"open", "broken"} => page.from = 0 /\ page.pc \in {"open", "broken"}
    BY DEF SamePlace, Moves
  <2>3. page'.from = 0 /\ page'.pc \in {"open", "broken"} =>
          \A i \in 1 .. page.seen : /\ OfTool(run.log[i]) => run.log[i].id \in CardIds(page'.blocks)
                                    /\ Shuts(run.log[i]) /\ ~hist'.late => run.log[i].id \in ClosedIds(page'.blocks)
    BY <1>1, <2>1, <2>2 DEF CardInv
  <2>4. page'.seen = page.seen
    BY DEF SamePlace
  <2> QED BY <1>1, <2>1, <2>3, <2>4 DEF CardInv
<1>7. ReplyInv'
  BY <1>1 DEF ReplyInv, SamePlace
<1>8. DoneInv'
  <2>1. Finished' = Finished /\ FinalReply' = FinalReply
    BY DEF Finished, FinalReply
  <2> QED BY <1>1, <2>1 DEF DoneInv, SamePlace, Moves
<1>9. SavedInv'
  BY <1>1, <1>2 DEF SavedInv, SamePlace, Moves
<1>10. KeptInv'
  BY <1>1 DEF KeptInv, SamePlace
<1>11. QuestionInv'
  BY <1>1 DEF QuestionInv, SamePlace, Moves
<1>12. AskInv'
  <2>1. page'.pc \in {"open", "broken"} => page.pc \in {"open", "broken"}
    BY DEF Moves
  <2> QED BY <1>1, <2>1 DEF AskInv, SamePlace, Moves
<1> QED BY <1>3, <1>4, <1>5, <1>6, <1>7, <1>8, <1>9, <1>10, <1>11, <1>12 DEF ChatInv

\* A page that shows the same blocks.
LEMMA RedrawnSame ==
    ASSUME NEW p \in Pages, NEW q \in Pages, q.blocks = p.blocks, q.text = p.text
    PROVE  Redrawn(p, q)
<1>1. SamePieces(p.blocks, q.blocks)
  BY DEF SamePieces
<1>2. Growing(p) => Growing(q) /\ Shown(q) = Shown(p)
  BY <1>1, ShownSame
<1> QED BY <1>2 DEF Redrawn, SameIds, Fits, LastIs

(* The line ends, breaks, is resumed or given up.                            *)
LEMMA LineSteps ==
    ASSUME ChatInv, ReadTerminal \/ LineBreaks \/ Resume \/ GiveUp PROVE ChatInv'
<1>1. Records /\ CursorInv
  BY DEF ChatInv
<1>2. /\ page \in Pages /\ spent \in [faults : 0 .. MaxFaults, edits : 0 .. MaxEdits] /\ page.resumes \in Nat
      /\ page.resumes <= MaxResumes /\ MaxResumes \in Nat /\ Len(run.log) \in Nat
  BY <1>1, PageFields, ChatPageAssumption DEF Records, CursorInv
<1>3. UNCHANGED <<run, posts, db, hist>> /\ page.pc \in {"open", "broken"}
  BY DEF ReadTerminal, LineBreaks, Resume, GiveUp
<1>4. spent' \in [faults : 0 .. MaxFaults, edits : 0 .. MaxEdits]
  BY <1>2, FaultCounts DEF ReadTerminal, LineBreaks, Resume, GiveUp
<1>5. /\ page' \in Pages /\ page'.pc \in {"open", "broken", "saving"} /\ SamePlace(page, page')
      /\ page'.blocks = page.blocks /\ page'.text = page.text /\ page'.ask = page.ask
      /\ page'.resumes <= MaxResumes /\ (page'.retry = page.retry \/ page'.retry # "send")
  <2>1. CASE ReadTerminal
    <3>1. page' = [page EXCEPT !.pc = "saving"]
      BY <2>1 DEF ReadTerminal
    <3> QED BY <1>2, <3>1 DEF Pages, PagePc, SamePlace
  <2>2. CASE LineBreaks
    <3>1. PICK thrown \in BOOLEAN : page' = [page EXCEPT !.pc = "broken", !.thrown = thrown]
      BY <2>2 DEF LineBreaks
    <3> QED BY <1>2, <3>1 DEF Pages, PagePc, SamePlace
  <2>3. CASE Resume
    <3> DEFINE limit == IF run.pc = "closing" THEN Len(run.log) ELSE NoLimit
    <3>1. page' = [page EXCEPT !.pc = "open", !.resumes = page.resumes + 1, !.limit = limit] /\ page.resumes < MaxResumes
      BY <2>3 DEF Resume
    <3>2. limit \in Int
      BY <1>2 DEF NoLimit
    <3> HIDE DEF limit
    <3>3. page.resumes + 1 \in Nat /\ page.resumes + 1 <= MaxResumes
      BY <1>2, <3>1
    <3>4. page' \in Pages
      BY <1>2, <3>1, <3>2, <3>3 DEF Pages, PagePc
    <3>5. /\ page'.pc = "open" /\ page'.resumes = page.resumes + 1 /\ page'.retry = page.retry /\ page'.ask = page.ask
          /\ page'.blocks = page.blocks /\ page'.text = page.text /\ SamePlace(page, page')
      BY <1>2, <3>1 DEF Pages, SamePlace
    <3> QED BY <3>3, <3>4, <3>5
  <2>4. CASE GiveUp
    <3>1. \/ page' = [page EXCEPT !.pc = "saving"]
          \/ page' = [[page EXCEPT !.error = TRUE, !.retry = "regenerate"] EXCEPT !.pc = "saving"]
      BY <2>4 DEF GiveUp, Failed
    <3>2. CASE page' = [page EXCEPT !.pc = "saving"]
      BY <1>2, <3>2 DEF Pages, PagePc, SamePlace
    <3>3. CASE page' = [[page EXCEPT !.error = TRUE, !.retry = "regenerate"] EXCEPT !.pc = "saving"]
      <4>1. page' \in Pages
        BY <1>2, <3>3 DEF Pages, PagePc, Intents
      <4>2. /\ page'.pc = "saving" /\ page'.resumes = page.resumes /\ page'.retry = "regenerate" /\ page'.ask = page.ask
            /\ page'.blocks = page.blocks /\ page'.text = page.text /\ SamePlace(page, page')
        BY <1>2, <3>3 DEF Pages, SamePlace
      <4> QED BY <1>2, <4>1, <4>2
    <3> QED BY <3>1, <3>2, <3>3
  <2> QED BY <2>1, <2>2, <2>3, <2>4
<1>6. Redrawn(page, page')
  BY <1>2, <1>5, RedrawnSame
<1>7. Records'
  BY <1>1, <1>3, <1>4, <1>5 DEF Records
<1>8. Moves(page, page')
  BY <1>3, <1>5 DEF Moves
<1> QED BY <1>3, <1>5, <1>6, <1>7, <1>8, PageRest

LEMMA AnimateStep == ASSUME ChatInv, Animate PROVE ChatInv'
<1>1. Records /\ CursorInv
  BY DEF ChatInv
<1>2. /\ UNCHANGED <<run, posts, db, hist, spent>> /\ page.pc \in {"open", "broken"}
      /\ page' = CatchUp(CatchUp(page, "text", page.text), "thinking", page.think)
  BY DEF Animate
<1>3. page \in Pages /\ page.blocks \in Seq(BlockRecs)
  BY <1>1, PageFields DEF Records
<1>4. /\ page' \in Pages /\ Beside(page, page') /\ page'.text = page.text /\ SameCards(page.blocks, page'.blocks)
      /\ Growing(page) => Growing(page') /\ Shown(page') = Shown(page)
  BY <1>2, <1>3, AnimateEffect
<1>5. page'.blocks \in Seq(BlockRecs)
  BY <1>4, BlocksOfPage
<1>6. SameIds(page.blocks, page'.blocks) /\ SameClosed(page.blocks, page'.blocks)
  BY <1>3, <1>4, <1>5, SameCardsAre DEF SameIds, SameClosed
<1>7. Fits(page) => Fits(page')
  <2> SUFFICES ASSUME Fits(page) PROVE Fits(page')
    OBVIOUS
  <2>1. Len(page'.blocks) = Len(page.blocks)
    BY <1>4 DEF SameCards
  <2>2. Len(page.blocks) > 0 => page'.blocks[Len(page.blocks)].kind = page.blocks[Len(page.blocks)].kind
    <3>1. Len(page.blocks) \in Nat
      BY <1>3, LenProperties
    <3>2. Len(page.blocks) > 0 => Len(page.blocks) \in 1 .. Len(page.blocks)
      BY <3>1
    <3> QED BY <1>4, <3>2 DEF SameCards
  <2>3. LastIs(page, "text") <=> Len(page.blocks) > 0 /\ page.blocks[Len(page.blocks)].kind = "text"
    BY <1>3, BlocksOfPage
  <2>4. LastIs(page', "text") <=> Len(page'.blocks) > 0 /\ page'.blocks[Len(page'.blocks)].kind = "text"
    BY <1>4, BlocksOfPage
  <2> QED BY <1>4, <2>1, <2>2, <2>3, <2>4 DEF Fits
<1>8. Redrawn(page, page')
  BY <1>2, <1>4, <1>6, <1>7 DEF Redrawn, Beside
<1>9. SamePlace(page, page') /\ Moves(page, page') /\ page'.ask = page.ask
  BY <1>1, <1>4 DEF SamePlace, Moves, Beside, CursorInv
<1>10. Records'
  BY <1>1, <1>2, <1>4 DEF Records
<1> QED BY <1>2, <1>6, <1>8, <1>9, <1>10, PageRest DEF SameClosed

(* The user stops the turn: what is growing is finalized.                    *)
LEMMA StopStep == ASSUME ChatInv, Stop PROVE ChatInv'
<1> DEFINE r == FinalizeBoth(page)
<1>1. Records /\ CursorInv
  BY DEF ChatInv
<1>2. /\ UNCHANGED <<run, posts, db, hist, spent>> /\ page.pc \in {"open", "broken"}
      /\ page' = [r EXCEPT !.pc = "saving", !.stopped = TRUE]
  BY DEF Stop
<1>3. page \in Pages /\ page.blocks \in Seq(BlockRecs)
  BY <1>1, PageFields DEF Records
<1>4. /\ r \in Pages /\ Beside(page, r) /\ r.text = << >> /\ SameCards(page.blocks, r.blocks)
      /\ Growing(page) => TextOf(r.blocks) = Shown(page)
  BY <1>3, FinalizeBothEffect
<1> HIDE DEF r
<1>5. page' \in Pages /\ page'.pc = "saving" /\ page'.text = << >> /\ page'.blocks = r.blocks
  BY <1>2, <1>4 DEF Pages, PagePc
<1>6. SamePlace(page, page') /\ page'.ask = page.ask /\ page'.resumes = page.resumes /\ page'.retry = page.retry
  BY <1>2, <1>4 DEF Pages, Beside, SamePlace
<1>7. r.blocks \in Seq(BlockRecs)
  BY <1>4, BlocksOfPage
<1>8. SameIds(page.blocks, page'.blocks)
  BY <1>3, <1>4, <1>5, <1>7, SameCardsAre DEF SameIds
<1>9. Growing(page) => Growing(page') /\ Shown(page') = Shown(page)
  BY <1>4, <1>5, ShownOfStill DEF Growing
<1>10. Redrawn(page, page') /\ Moves(page, page')
  BY <1>1, <1>2, <1>5, <1>6, <1>8, <1>9 DEF Redrawn, Moves, CursorInv
<1>11. Records'
  BY <1>1, <1>2, <1>5 DEF Records
<1> QED BY <1>2, <1>5, <1>6, <1>10, <1>11, PageRest

-----------------------------------------------------------------------------
(* Decisions and answers. *)

LEMMA PostFields ==
    ASSUME NEW kind, NEW turn, NEW id
    PROVE  Post(kind, turn, id).kind = kind /\ Post(kind, turn, id).turn = turn /\ Post(kind, turn, id).id = id
BY DEF Post

\* All a decision or an answer changes of the run is whether it has come.
LEMMA DecisionRest ==
    ASSUME ChatInv, UNCHANGED <<page, db, hist, spent>>, Records',
           run'.log = run.log, run'.pc = run.pc, run'.turn = run.turn, run'.tool = run.tool, AskInv'
    PROVE  ChatInv'
<1>1. /\ Records /\ IdsInv(run.log) /\ EndsInv /\ CursorInv /\ TextInv /\ CardInv /\ ReplyInv /\ DoneInv
      /\ SavedInv /\ KeptInv /\ QuestionInv
  BY DEF ChatInv
<1>2. Arrived' = Arrived
  BY DEF Arrived
<1>3. IdsInv(run.log)' /\ EndsInv'
  BY <1>1 DEF EndsInv, Waiting
<1>4. CursorInv'
  BY <1>1 DEF CursorInv
<1>5. TextInv'
  BY <1>1, <1>2 DEF TextInv
<1>6. CardInv'
  BY <1>1 DEF CardInv
<1>7. ReplyInv'
  BY <1>1 DEF ReplyInv
<1>8. DoneInv'
  <2>1. Finished' = Finished /\ FinalReply' = FinalReply
    BY DEF Finished, FinalReply
  <2> QED BY <1>1, <2>1 DEF DoneInv
<1>9. SavedInv'
  BY <1>1, <1>2 DEF SavedInv
<1>10. KeptInv' /\ QuestionInv'
  BY <1>1 DEF KeptInv, QuestionInv
<1> QED BY <1>3, <1>4, <1>5, <1>6, <1>7, <1>8, <1>9, <1>10 DEF ChatInv

LEMMA DecideStep ==
    ASSUME ChatInv, NEW kind \in {"approve", "deny"}, Decide(kind)
    PROVE  ChatInv'
<1>1. Records /\ IdsInv(run.log) /\ CursorInv /\ CardInv /\ AskInv
  BY DEF ChatInv
<1>2. PICK i \in DOMAIN page.blocks :
        /\ page.blocks[i].kind = "tool"
        /\ posts' = posts \cup {Post(kind, run.turn, page.blocks[i].id)}
        /\ run' = IF run.pc = "approval" /\ run.tool = page.blocks[i].id /\ run.decision = "none"
                  THEN [run EXCEPT !.decision = kind] ELSE run
        /\ UNCHANGED <<page, db, hist, spent>>
  BY DEF Decide
<1> DEFINE id == page.blocks[i].id
           post == Post(kind, run.turn, id)
<1>3. post.kind = kind /\ post.turn = run.turn /\ post.id = id
  BY PostFields
<1>4. id \in CardIds(page.blocks)
  BY <1>2 DEF CardIds, Card
<1>5. PICK k \in 1 .. page.seen : run.log[k].id = id
  BY <1>1, <1>4 DEF CardInv
<1>6. id \in Nat /\ id <= Len(run.log)
  <2>1. page.seen \in Nat /\ Len(run.log) \in Nat /\ page.seen <= Len(run.log) /\ run.log \in Seq(EventRecs)
    BY <1>1, PageFields DEF CursorInv
  <2>2. k \in 1 .. Len(run.log)
    BY <2>1
  <2>3. run.log[k] \in EventRecs
    BY <2>1, <2>2, SeqFacts
  <2>4. run.log[k].id \in Nat /\ run.log[k].id <= k
    BY <1>1, <2>2, <2>3 DEF IdsInv, EventRecs
  <2> QED BY <1>5, <2>1, <2>2, <2>4
<1>7. run.turn \in Nat /\ run \in Runs /\ Post(kind, run.turn, id) \in Posts
  BY <1>1, <1>6, PageFields DEF Records, Post, Posts
<1> HIDE DEF id, post
<1>8. /\ run' \in Runs /\ run'.log = run.log /\ run'.pc = run.pc /\ run'.turn = run.turn /\ run'.tool = run.tool
      /\ run'.decision = "none" => run.decision = "none"
  <2>1. CASE run' = run
    BY <1>7, <2>1
  <2>2. CASE run' = [run EXCEPT !.decision = kind]
    BY <1>7, <2>2 DEF Runs
  <2> QED BY <1>2, <2>1, <2>2
<1>9. posts' = posts \cup {post}
  BY <1>2 DEF id, post
<1>10. Records'
  BY <1>1, <1>2, <1>7, <1>8, <1>9 DEF Records, post
<1>11. AskInv'
  <2>1. \A x \in posts' : x.turn <= run.turn /\ (x.turn = run.turn => x.id <= Len(run.log))
    BY <1>1, <1>3, <1>6, <1>7, <1>9 DEF AskInv
  <2>2. post # Post("answer", run.turn, run.tool)
    BY <1>3, PostFields
  <2> QED BY <1>1, <1>2, <1>8, <1>9, <2>1, <2>2 DEF AskInv
<1> QED BY <1>2, <1>8, <1>10, <1>11, DecisionRest

LEMMA AnswerPost == ASSUME ChatInv, Answer PROVE ChatInv'
<1>1. Records /\ AskInv
  BY DEF ChatInv
<1> DEFINE post == Post("answer", page.ask[1], page.ask[2])
<1>2. /\ page.ask # NoAsk /\ posts' = posts \cup {post}
      /\ run' = IF run.pc = "question" /\ page.ask = <<run.turn, run.tool>> /\ run.decision = "none"
                THEN [run EXCEPT !.decision = "answer"] ELSE run
      /\ UNCHANGED <<page, db, hist, spent>>
  BY DEF Answer
<1>3. page.ask \in Nat \X Nat /\ run \in Runs /\ post \in Posts
  BY <1>1, PageFields DEF Records, Post, Posts
<1>4. post.turn = page.ask[1] /\ post.id = page.ask[2]
  BY PostFields
<1>5. /\ run' \in Runs /\ run'.log = run.log /\ run'.pc = run.pc /\ run'.turn = run.turn /\ run'.tool = run.tool
      /\ run'.decision = "none" => run.decision = "none"
  <2>1. CASE run' = run
    BY <1>3, <2>1
  <2>2. CASE run' = [run EXCEPT !.decision = "answer"]
    BY <1>3, <2>2 DEF Runs
  <2> QED BY <1>2, <2>1, <2>2
<1>6. ASSUME run.pc = "question", run'.decision = "none" PROVE post # Post("answer", run.turn, run.tool)
  <2>1. page.ask # <<run.turn, run.tool>>
    <3>1. [run EXCEPT !.decision = "answer"].decision = "answer"
      BY <1>3 DEF Runs
    <3> QED BY <1>2, <1>5, <1>6, <3>1
  <2>2. page.ask = <<page.ask[1], page.ask[2]>>
    BY <1>3
  <2> QED BY <1>4, <2>1, <2>2, PostFields
<1> HIDE DEF post
<1>7. Records'
  BY <1>1, <1>2, <1>3, <1>5 DEF Records
<1>8. AskInv'
  <2>1. \A x \in posts' : x.turn <= run.turn /\ (x.turn = run.turn => x.id <= Len(run.log))
    BY <1>1, <1>2, <1>4 DEF AskInv
  <2> QED BY <1>1, <1>2, <1>5, <1>6, <2>1 DEF AskInv
<1> QED BY <1>2, <1>5, <1>7, <1>8, DecisionRest

(* A response that comes late overwrites what has happened since; one that does not finds what it was sent for. *)
LEMMA ReturnStep == ASSUME ChatInv, PostReturns PROVE ChatInv'
<1>1. Records /\ CursorInv /\ CardInv /\ AskInv
  BY DEF ChatInv
<1>2. PICK post \in posts :
        /\ posts' = posts \ {post}
        /\ page' = [IF post.kind = "answer" THEN [page EXCEPT !.ask = NoAsk]
                    ELSE IF post.turn = run.turn THEN SetStatus(page, post.id, StatusAfter(post.kind)) ELSE page
                    EXCEPT !.error = FALSE, !.retry = "none"]
        /\ hist' = [hist EXCEPT !.late = hist.late \/ Overtaken(post)]
        /\ UNCHANGED <<run, db, spent>>
  BY DEF PostReturns
<1> DEFINE s == SetStatus(page, post.id, StatusAfter(post.kind))
           q == IF post.kind = "answer" THEN [page EXCEPT !.ask = NoAsk]
                ELSE IF post.turn = run.turn THEN s ELSE page
<1>3. /\ page \in Pages /\ post \in Posts /\ post.id \in Nat /\ post.turn \in Nat /\ post.kind \in {"approve", "deny", "answer"}
      /\ hist \in Pasts
      /\ page.resumes <= MaxResumes
  BY <1>1, PageFields DEF Records, CursorInv
<1>4. StatusAfter(post.kind) \in Status /\ (post.kind = "deny" => StatusAfter(post.kind) \in Closed)
  BY DEF StatusAfter, Status, Closed
<1>5. /\ s \in Pages /\ Beside(page, s) /\ s.text = page.text /\ SameIds(page.blocks, s.blocks)
      /\ ClosedIds(page.blocks) \ {post.id} \subseteq ClosedIds(s.blocks)
      /\ StatusAfter(post.kind) \in Closed => ClosedIds(page.blocks) \subseteq ClosedIds(s.blocks)
      /\ Growing(page) => Growing(s) /\ Shown(s) = Shown(page)
      /\ Fits(page) => Fits(s)
      /\ page.blocks = << >> => s.blocks = << >>
  BY <1>3, <1>4, OldCardEffect
<1>6. page' = [q EXCEPT !.error = FALSE, !.retry = "none"]
  BY <1>2
<1> HIDE DEF s
<1>7. /\ q \in Pages /\ Around(page, q) /\ q.text = page.text
      /\ q.ask = IF post.kind = "answer" THEN NoAsk ELSE page.ask
      /\ q.blocks = IF post.kind # "answer" /\ post.turn = run.turn THEN s.blocks ELSE page.blocks
  <2>1. CASE post.kind = "answer"
    <3>1. NoAsk \in Nat \X Nat
      BY DEF NoAsk
    <3> QED BY <1>3, <2>1, <3>1, AskSet
  <2>2. CASE post.kind # "answer" /\ post.turn = run.turn
    BY <1>5, <2>2, BesideIsAround
  <2>3. CASE post.kind # "answer" /\ post.turn # run.turn
    BY <1>3, <2>3 DEF Around
  <2> QED BY <2>1, <2>2, <2>3
<1> HIDE DEF q
<1>8. /\ page' \in Pages /\ page'.blocks = q.blocks /\ page'.text = q.text /\ page'.ask = q.ask
      /\ page'.retry = "none" /\ page'.pc = q.pc /\ page'.resumes = q.resumes /\ SamePlace(q, page')
  BY <1>6, <1>7 DEF Pages, Intents, SamePlace
<1>9. SamePlace(page, page') /\ page'.pc = page.pc /\ page'.resumes = page.resumes
  BY <1>7, <1>8 DEF SamePlace, Around
<1>10. Moves(page, page')
  BY <1>3, <1>7, <1>8, <1>9 DEF Moves
<1>11. Redrawn(page, page')
  <2>1. CASE page'.blocks = page.blocks
    BY <1>3, <1>7, <1>8, <2>1, RedrawnSame
  <2>2. CASE page'.blocks = s.blocks
    <3>1. Redrawn(page, s) /\ s.pc = page.pc
      BY <1>5 DEF Redrawn, Beside
    <3>2. Redrawn(s, page')
      BY <1>5, <1>7, <1>8, <2>2, RedrawnSame
    <3> QED BY <1>7, <1>8, <1>9, <3>1, <3>2 DEF Redrawn, SameIds
  <2> QED BY <1>7, <1>8, <2>1, <2>2
<1>12. hist' \in Pasts /\ hist'.cut = hist.cut /\ hist'.refused = hist.refused /\ hist'.unsaved = hist.unsaved
       /\ (hist'.late <=> hist.late \/ Overtaken(post))
  <2> DEFINE o == hist.late \/ Overtaken(post)
  <2>1. o \in BOOLEAN /\ hist' = [hist EXCEPT !.late = o]
    BY <1>2
  <2> HIDE DEF o
  <2>2. /\ hist' \in Pasts /\ hist'.cut = hist.cut /\ hist'.refused = hist.refused /\ hist'.unsaved = hist.unsaved
        /\ hist'.late = o
    BY <1>3, <2>1 DEF Pasts
  <2> QED BY <2>2 DEF o
<1>13. Records'
  BY <1>1, <1>2, <1>8, <1>12 DEF Records
<1>14. ASSUME ~hist'.late, NEW i \in 1 .. page.seen, Shuts(run.log[i]), run.log[i].id \in ClosedIds(page.blocks)
       PROVE  run.log[i].id \in ClosedIds(page'.blocks)
  <2>1. CASE page'.blocks = page.blocks
    BY <1>14, <2>1
  <2>2. CASE page'.blocks = s.blocks /\ post.kind # "answer" /\ post.turn = run.turn
    <3>1. ~Overtaken(post)
      BY <1>12, <1>14
    <3>2. run.log[i].id # post.id
      BY <1>14, <2>2, <3>1 DEF Overtaken, Shuts
    <3> QED BY <1>5, <1>14, <2>2, <3>2
  <2> QED BY <1>7, <1>8, <2>1, <2>2
<1>15. ASSUME run.pc = "question", run.decision = "none", page.pc \in {"open", "broken"},
              page.seen = Len(run.log), ~hist'.late
       PROVE  page'.ask = page.ask
  <2> SUFFICES ASSUME post.kind = "answer" PROVE FALSE
    BY <1>7, <1>8
  <2>1. ~hist.late /\ ~Overtaken(post)
    BY <1>12, <1>15
  <2>2. page.ask = <<post.turn, post.id>>
    BY <2>1 DEF Overtaken
  <2>3. page.ask = <<run.turn, run.tool>> /\ Post("answer", run.turn, run.tool) \notin posts
    BY <1>1, <1>15, <2>1 DEF AskInv
  <2>4. post = Post("answer", post.turn, post.id)
    BY <1>3 DEF Post, Posts
  <2> QED BY <2>2, <2>3, <2>4
<1> QED BY <1>2, <1>9, <1>10, <1>11, <1>12, <1>13, <1>14, <1>15, PageRest

LEMMA PostFailsStep == ASSUME ChatInv, PostFails PROVE ChatInv'
<1>1. Records /\ CursorInv
  BY DEF ChatInv
<1>2. /\ posts' \subseteq posts /\ page' = [page EXCEPT !.error = TRUE, !.retry = "post"] /\ UNCHANGED <<run, db, hist>>
  BY DEF PostFails
<1>3. page \in Pages /\ spent \in [faults : 0 .. MaxFaults, edits : 0 .. MaxEdits]
  BY <1>1 DEF Records
<1>4. page' \in Pages
  BY <1>2, <1>3 DEF Pages, Intents
<1>5. /\ page'.blocks = page.blocks /\ page'.text = page.text /\ page'.pc = page.pc /\ page'.resumes = page.resumes
      /\ page'.retry = "post" /\ page'.ask = page.ask /\ SamePlace(page, page')
  BY <1>2, <1>3 DEF Pages, SamePlace
<1>6. spent' \in [faults : 0 .. MaxFaults, edits : 0 .. MaxEdits]
  BY <1>3, FaultCounts DEF PostFails
<1>7. Records'
  BY <1>1, <1>2, <1>4, <1>6 DEF Records
<1>8. Moves(page, page')
  BY <1>1, <1>5 DEF Moves, CursorInv
<1>9. Redrawn(page, page')
  BY <1>3, <1>4, <1>5, RedrawnSame
<1> QED BY <1>2, <1>5, <1>7, <1>8, <1>9, PageRest

-----------------------------------------------------------------------------
(* A turn begins: the composer, a retry, or the question asked again. *)

Begun(p, q, question, regenerate) ==
    /\ q \in Pages /\ q.pc = "opening" /\ q.question = question /\ q.regenerate = regenerate
    /\ q.blocks = << >> /\ q.text = << >> /\ q.from = 0 /\ q.seen = 0 /\ q.resumes = 0
    /\ q.pending = FALSE /\ q.retry = "none"
    /\ q.ask = p.ask /\ q.edit = p.edit /\ q.drafts = p.drafts /\ q.delivered = p.delivered /\ q.shown = p.shown

LEMMA BeginEffect ==
    ASSUME NEW p \in Pages, NEW question \in Nat, NEW regenerate \in BOOLEAN
    PROVE  Begun(p, Begin(p, question, regenerate), question, regenerate)
<1> DEFINE q == Begin(p, question, regenerate)
           optimistic == IF regenerate THEN p.optimistic ELSE p.optimistic \cup {question}
<1>1. q = [p EXCEPT !.pc = "opening", !.question = question, !.regenerate = regenerate,
                    !.blocks = << >>, !.text = << >>, !.think = << >>, !.from = 0, !.seen = 0,
                    !.resumes = 0, !.limit = NoLimit, !.thrown = FALSE, !.pending = FALSE,
                    !.error = FALSE, !.retry = "none", !.stopped = FALSE, !.optimistic = optimistic]
  BY DEF Begin
<1>2. optimistic \in SUBSET Nat /\ NoLimit \in Int /\ << >> \in Seq(BlockRecs) /\ << >> \in Seq(Nat)
  BY EmptySeq DEF Pages, NoLimit
<1>3. /\ "opening" \in PagePc /\ "none" \in Intents /\ 0 \in Nat /\ FALSE \in BOOLEAN
  BY DEF PagePc, Intents
<1> HIDE DEF q, optimistic
<1>4. PICK r : r = [p EXCEPT !.pc = "opening", !.question = question, !.regenerate = regenerate,
                             !.blocks = << >>, !.text = << >>, !.think = << >>, !.optimistic = optimistic]
  OBVIOUS
<1>5. r \in Pages
  BY <1>2, <1>3, <1>4 DEF Pages
<1>6. PICK s : s = [r EXCEPT !.from = 0, !.seen = 0, !.resumes = 0, !.limit = NoLimit]
  OBVIOUS
<1>7. s \in Pages
  BY <1>2, <1>3, <1>5, <1>6 DEF Pages
<1>8. q = [s EXCEPT !.thrown = FALSE, !.pending = FALSE, !.error = FALSE, !.retry = "none", !.stopped = FALSE]
  BY <1>1, <1>4, <1>6 DEF Pages
<1>9. q \in Pages
  BY <1>3, <1>7, <1>8 DEF Pages
<1>10. /\ q.pc = "opening" /\ q.question = question /\ q.regenerate = regenerate
       /\ q.blocks = << >> /\ q.text = << >> /\ q.from = 0 /\ q.seen = 0 /\ q.resumes = 0
       /\ q.pending = FALSE /\ q.retry = "none"
       /\ q.ask = p.ask /\ q.edit = p.edit /\ q.drafts = p.drafts /\ q.delivered = p.delivered /\ q.shown = p.shown
  BY <1>1 DEF Pages
<1> QED BY <1>9, <1>10 DEF q, Begun

LEMMA NoCards == CardIds(<< >>) = {} /\ ClosedIds(<< >>) = {} /\ OneCardEach(<< >>)
<1>1. DOMAIN << >> = {} /\ Len(<< >>) = 0
  BY EmptySeq
<1> QED BY <1>1 DEF CardIds, ClosedIds, OneCardEach

LEMMA BeginRest ==
    ASSUME ChatInv, Over(run.pc), run.turn < MaxTurns, UNCHANGED <<run, posts, db, hist, spent>>,
           page.edit # "reset", page' \in Pages, page'.pc = "opening", page'.edit = "none",
           page'.blocks = << >>, page'.text = << >>, page'.from = 0, page'.seen = 0, page'.resumes = 0,
           page'.pending = FALSE, page'.retry = "none",
           page'.ask \in {page.ask, NoAsk}, page'.drafts \subseteq page.drafts,
           page.question <= page'.question,
           ~hist.refused /\ ~page'.regenerate => \A i \in 1 .. Len(db.questions) : db.questions[i] # page'.question,
           KeptInv',
           page'.shown.questions # << >> => db.questions # << >> /\ db.questions[1] = page'.shown.questions[1]
    PROVE  ChatInv'
<1>1. /\ Records /\ IdsInv(run.log) /\ EndsInv /\ CursorInv /\ ReplyInv /\ DoneInv /\ QuestionInv /\ AskInv
  BY DEF ChatInv
<1>2. Records'
  BY <1>1 DEF Records
<1>3. IdsInv(run.log)' /\ EndsInv'
  BY <1>1 DEF EndsInv, Waiting
<1>4. Len(run.log) \in Nat /\ MaxResumes \in Nat /\ run.pc # "question"
  BY <1>1, PageFields, ChatPageAssumption DEF Over
<1>5. CursorInv'
  BY <1>1, <1>4 DEF CursorInv
<1>6. TextInv' /\ SavedInv'
  BY DEF TextInv, SavedInv
<1>7. CardInv'
  BY NoCards DEF CardInv
<1>8. ReplyInv'
  BY <1>1 DEF ReplyInv
<1>9. DoneInv'
  <2>1. Finished' = Finished /\ FinalReply' = FinalReply
    BY DEF Finished, FinalReply
  <2> QED BY <1>1, <2>1 DEF DoneInv
<1>10. QuestionInv'
  <2>1. page.question \in Nat /\ page'.question \in Nat /\ \A i \in 1 .. Len(db.questions) : db.questions[i] \in Nat
    BY <1>1, <1>2, PageFields, SeqFacts DEF Pages, Records
  <2>2. ~hist.refused => \A i \in 1 .. Len(db.questions) : db.questions[i] <= page'.question
    BY <1>1, <2>1 DEF QuestionInv
  <2> QED BY <1>1, <2>2 DEF QuestionInv
<1>11. AskInv'
  BY <1>1, <1>4 DEF AskInv
<1> QED BY <1>2, <1>3, <1>5, <1>6, <1>7, <1>8, <1>9, <1>10, <1>11 DEF ChatInv

LEMMA BeginStep == ASSUME ChatInv, Send \/ Retry PROVE ChatInv'
<1>1. Records /\ KeptInv /\ QuestionInv
  BY DEF ChatInv
<1>2. /\ page \in Pages /\ page.question \in Nat /\ db.questions \in Seq(Nat)
  BY <1>1, PageFields DEF Records
<1>3. UNCHANGED <<run, posts, db, hist, spent>> /\ page.pc = "idle" /\ page.edit = "none" /\ Over(run.pc) /\ run.turn < MaxTurns
  BY DEF Send, Retry, MayStart, Over
<1>4. \E question \in Nat, regenerate \in BOOLEAN :
        /\ page' = Begin(page, question, regenerate) /\ page.question <= question
        /\ ~hist.refused /\ ~regenerate => \A i \in 1 .. Len(db.questions) : db.questions[i] # question
  <2>1. CASE Send
    <3>1. page' = Begin(page, page.question + 1, FALSE) /\ page.question + 1 \in Nat /\ page.question <= page.question + 1
      BY <1>2, <2>1 DEF Send
    <3>2. \A i \in 1 .. Len(db.questions) : db.questions[i] \in Nat
      BY <1>2, SeqFacts
    <3>3. ~hist.refused => \A i \in 1 .. Len(db.questions) : db.questions[i] # page.question + 1
      BY <1>1, <1>2, <3>2 DEF QuestionInv
    <3>4. FALSE \in BOOLEAN
      OBVIOUS
    <3> QED BY <3>1, <3>3, <3>4, Zenon
  <2>2. CASE Retry
    <3> DEFINE regenerate == page.retry = "regenerate"
    <3>1. page' = Begin(page, page.question, regenerate) /\ page.retry \in {"send", "regenerate"} /\ page.question <= page.question
      BY <1>2, <2>2 DEF Retry
    <3>2. ~hist.refused /\ ~regenerate => \A i \in 1 .. Len(db.questions) : db.questions[i] # page.question
      BY <1>1, <3>1 DEF QuestionInv
    <3>3. regenerate \in BOOLEAN
      OBVIOUS
    <3> HIDE DEF regenerate
    <3> QED BY <1>2, <3>1, <3>2, <3>3, Zenon
  <2> QED BY <2>1, <2>2
<1>5. PICK question \in Nat, regenerate \in BOOLEAN :
        /\ page' = Begin(page, question, regenerate) /\ page.question <= question
        /\ ~hist.refused /\ ~regenerate => \A i \in 1 .. Len(db.questions) : db.questions[i] # question
  BY <1>4
<1>6. /\ page' \in Pages /\ page'.pc = "opening" /\ page'.question = question /\ page'.regenerate = regenerate
      /\ page'.blocks = << >> /\ page'.text = << >> /\ page'.from = 0 /\ page'.seen = 0 /\ page'.resumes = 0
      /\ page'.pending = FALSE /\ page'.retry = "none"
      /\ page'.ask = page.ask /\ page'.edit = page.edit /\ page'.drafts = page.drafts /\ page'.delivered = page.delivered
      /\ page'.shown = page.shown
  <2>1. Begun(page, page', question, regenerate)
    BY <1>2, <1>5, BeginEffect, Zenon
  <2> QED BY <2>1 DEF Begun
<1>7. KeptInv'
  BY <1>1, <1>3, <1>6 DEF KeptInv
<1>8. page'.shown.questions # << >> => db.questions # << >> /\ db.questions[1] = page'.shown.questions[1]
  BY <1>1, <1>3, <1>6 DEF QuestionInv
<1> QED BY <1>3, <1>5, <1>6, <1>7, <1>8, BeginRest

-----------------------------------------------------------------------------
(* The page reloads the conversation. *)

LEMMA ReloadEffect ==
    ASSUME Records
    PROVE  LET q == Reload(page) IN
           /\ q \in Pages /\ q.pc = page.pc /\ q.question = page.question /\ q.regenerate = page.regenerate
           /\ q.blocks = page.blocks /\ q.text = page.text /\ q.from = page.from /\ q.seen = page.seen /\ q.resumes = page.resumes
           /\ q.pending = page.pending /\ q.retry = page.retry /\ q.edit = page.edit /\ q.delivered = page.delivered
           /\ q.shown = db /\ q.drafts = {d \in page.drafts : d.turn \notin Turns(db.replies)}
           /\ Streaming => q.ask = page.ask
           /\ ~Streaming /\ run.pc # "question" => q.ask = NoAsk
<1> DEFINE q == Reload(page)
           drafts == {d \in page.drafts : d.turn \notin Turns(db.replies)}
           optimistic == page.optimistic \ Range(db.questions)
           ask == IF Streaming THEN page.ask
                  ELSE IF run.pc = "question" /\ run.decision = "none" THEN <<run.turn, run.tool>> ELSE NoAsk
<1>1. q = [page EXCEPT !.shown = db, !.drafts = drafts, !.optimistic = optimistic, !.ask = ask]
  BY DEF Reload
<1>2. page \in Pages /\ db \in Rows /\ drafts \subseteq Drafts /\ optimistic \subseteq Nat
  BY DEF Records, Pages
<1>3. ask \in Nat \X Nat /\ (Streaming => ask = page.ask) /\ (~Streaming /\ run.pc # "question" => ask = NoAsk)
  <2>1. page.ask \in Nat \X Nat /\ run.turn \in Nat /\ run.tool \in Nat
    BY PageFields
  <2>2. NoAsk \in Nat \X Nat
    BY DEF NoAsk
  <2> QED BY <2>1, <2>2
<1> HIDE DEF q, drafts, optimistic, ask
<1>4. q \in Pages
  BY <1>1, <1>2, <1>3 DEF Pages
<1>5. /\ q.pc = page.pc /\ q.question = page.question /\ q.regenerate = page.regenerate
      /\ q.blocks = page.blocks /\ q.text = page.text /\ q.from = page.from /\ q.seen = page.seen /\ q.resumes = page.resumes
      /\ q.pending = page.pending /\ q.retry = page.retry /\ q.edit = page.edit /\ q.delivered = page.delivered
      /\ q.shown = db /\ q.drafts = drafts /\ q.ask = ask
  BY <1>1, <1>2 DEF Pages
<1> QED BY <1>3, <1>4, <1>5 DEF q, drafts

\* What the reload takes from the drafts is in the database.
LEMMA ReloadKeeps ==
    ASSUME KeptInv, page.edit # "reset", page'.drafts = {d \in page.drafts : d.turn \notin Turns(db.replies)},
           page'.delivered = page.delivered, page'.shown = db, UNCHANGED db
    PROVE  KeptInv'
<1> SUFFICES ASSUME NEW t \in page'.delivered, t \notin Turns(db.replies)
             PROVE  t \in Turns(page'.drafts)
  BY DEF KeptInv
<1>1. t \in Turns(page.drafts)
  BY DEF KeptInv
<1> QED BY <1>1 DEF Turns

LEMMA AskAgainStep == ASSUME ChatInv, EditAsksAgain, ~Streaming PROVE ChatInv'
<1> DEFINE r == Reload(page)
           p == [r EXCEPT !.edit = "none"]
<1>1. Records /\ KeptInv /\ QuestionInv
  BY DEF ChatInv
<1>2. /\ page.edit = "reload" /\ Over(run.pc) /\ run.turn < MaxTurns /\ UNCHANGED <<run, posts, db, hist, spent>>
      /\ page' = Begin(p, page.question, TRUE)
  BY DEF EditAsksAgain, Over
<1>3. run.pc # "question" /\ page.question \in Nat
  BY <1>1, <1>2, PageFields DEF Over
<1>4. /\ r \in Pages /\ r.question = page.question /\ r.delivered = page.delivered
      /\ r.shown = db /\ r.drafts = {d \in page.drafts : d.turn \notin Turns(db.replies)} /\ r.ask = NoAsk
  BY <1>1, <1>3, ReloadEffect
<1> HIDE DEF r
<1>5. /\ p \in Pages /\ p.edit = "none" /\ p.question = page.question /\ p.delivered = page.delivered
      /\ p.shown = db /\ p.drafts = r.drafts /\ p.ask = NoAsk
  BY <1>4 DEF Pages
<1> HIDE DEF p
<1>6. \E regenerate \in BOOLEAN : page' = Begin(p, page.question, regenerate) /\ regenerate = TRUE
  <2>1. TRUE \in BOOLEAN
    OBVIOUS
  <2> QED BY <1>2, <2>1, Zenon
<1>7. /\ page' \in Pages /\ page'.pc = "opening" /\ page'.question = page.question /\ page'.regenerate
      /\ page'.blocks = << >> /\ page'.text = << >> /\ page'.from = 0 /\ page'.seen = 0 /\ page'.resumes = 0
      /\ page'.pending = FALSE /\ page'.retry = "none" /\ page'.edit = "none"
      /\ page'.ask = NoAsk /\ page'.drafts = p.drafts /\ page'.delivered = p.delivered /\ page'.shown = db
  <2>1. PICK regenerate \in BOOLEAN : page' = Begin(p, page.question, regenerate) /\ regenerate = TRUE
    BY <1>6
  <2>2. Begun(p, page', page.question, regenerate)
    BY <1>3, <1>5, <2>1, BeginEffect, Zenon
  <2> QED BY <1>5, <2>1, <2>2 DEF Begun
<1>8. KeptInv'
  BY <1>1, <1>2, <1>4, <1>5, <1>7, ReloadKeeps
<1>9. page'.drafts \subseteq page.drafts /\ page.question <= page'.question
  BY <1>3, <1>4, <1>5, <1>7
<1> QED BY <1>2, <1>7, <1>8, <1>9, BeginRest

-----------------------------------------------------------------------------
(* The request that stores the question and opens the stream. *)

LEMMA NothingShown == ASSUME NEW p \in Pages, p.blocks = << >>, p.text = << >> PROVE Shown(p) = << >> /\ Growing(p) /\ Fits(p)
<1>1. Pieces(<< >>) = << >>
  BY DEF Pieces
<1>2. Shown(p) = << >>
  BY <1>1, ShownOfStill, FlattenNothing DEF TextOf
<1> QED BY <1>2 DEF Growing, Fits, LastIs

LEMMA StoreEffect ==
    ASSUME Records
    PROVE  /\ Store \in Rows /\ Store.replies = db.replies
           /\ page.regenerate => Store.questions = db.questions
           /\ ~page.regenerate =>
                /\ Len(Store.questions) = Len(db.questions) + 1 /\ Store.questions[Len(db.questions) + 1] = page.question
                /\ \A i \in 1 .. Len(db.questions) : Store.questions[i] = db.questions[i]
           /\ db.questions # << >> => Store.questions # << >> /\ Store.questions[1] = db.questions[1]
<1>1. db \in Rows /\ db.questions \in Seq(Nat) /\ page.question \in Nat
  BY PageFields DEF Records
<1>2. CASE page.regenerate
  BY <1>1, <1>2 DEF Store
<1>3. CASE ~page.regenerate
  <2> DEFINE new == Append(db.questions, page.question)
  <2>1. /\ new \in Seq(Nat) /\ Len(new) = Len(db.questions) + 1 /\ new[Len(db.questions) + 1] = page.question
        /\ \A i \in 1 .. Len(db.questions) : new[i] = db.questions[i]
    BY <1>1, AppendProperties
  <2>2. Store = [db EXCEPT !.questions = new]
    BY <1>3 DEF Store
  <2> HIDE DEF new
  <2>3. Store \in Rows /\ Store.replies = db.replies /\ Store.questions = new
    BY <1>1, <2>1, <2>2 DEF Rows
  <2>4. Len(db.questions) \in Nat /\ (db.questions # << >> => Len(db.questions) > 0)
    BY <1>1, SeqFacts
  <2>5. db.questions # << >> => new # << >> /\ 1 \in 1 .. Len(db.questions)
    BY <2>1, <2>4, SeqFacts
  <2> QED BY <1>3, <2>1, <2>3, <2>5
<1> QED BY <1>2, <1>3

LEMMA OpenStep == ASSUME ChatInv, Open PROVE ChatInv'
<1>1. /\ Records /\ CursorInv /\ ReplyInv /\ DoneInv /\ KeptInv /\ QuestionInv /\ AskInv
  BY DEF ChatInv
<1>2. /\ page.pc = "opening" /\ db' = Store /\ page' = [page EXCEPT !.pc = "open"] /\ UNCHANGED <<posts, hist, spent>>
      /\ run' = [turn |-> run.turn + 1, pc |-> "model", log |-> << >>, tool |-> None, decision |-> "none"]
  BY DEF Open
<1>3. /\ run.turn \in Nat /\ page \in Pages /\ page.from = 0 /\ page.seen = 0 /\ run.turn < MaxTurns
      /\ page.blocks = << >> /\ page.text = << >> /\ MaxTurns \in Nat /\ hist.cut \in Nat /\ hist.cut <= run.turn
      /\ page.resumes <= MaxResumes /\ ~page.pending
  BY <1>1, <1>2, PageFields, ChatPageAssumption DEF Records, CursorInv, DoneInv
<1>4. /\ run'.turn = run.turn + 1 /\ run'.pc = "model" /\ run'.log = << >> /\ run'.tool = 0 /\ run'.decision = "none"
      /\ Len(run'.log) = 0
  BY <1>2, EmptySeq DEF None
<1>5. run' \in Runs /\ run'.turn <= MaxTurns
  <2>1. << >> \in Seq(EventRecs) /\ run.turn + 1 \in Nat
    BY <1>3, EmptySeq
  <2> QED BY <1>2, <1>3, <1>4, <2>1 DEF Runs, RunPc, None
<1>6. page' \in Pages
  BY <1>2, <1>3 DEF Pages, PagePc
<1>7. /\ page'.pc = "open" /\ page'.from = 0 /\ page'.seen = 0 /\ page'.blocks = << >> /\ page'.text = << >>
      /\ page'.resumes = page.resumes /\ page'.pending = page.pending /\ page'.retry = page.retry /\ page'.edit = page.edit
      /\ page'.ask = page.ask /\ page'.question = page.question /\ page'.drafts = page.drafts
      /\ page'.delivered = page.delivered /\ page'.shown = page.shown
  BY <1>2, <1>3 DEF Pages
<1>8. /\ db' \in Rows /\ db'.replies = db.replies
      /\ db.questions # << >> => db'.questions # << >> /\ db'.questions[1] = db.questions[1]
  BY <1>1, <1>2, StoreEffect
<1>9. Records'
  BY <1>1, <1>2, <1>5, <1>6, <1>8 DEF Records
<1>10. IdsInv(run.log)' /\ EndsInv'
  BY <1>4 DEF IdsInv, EndsInv, Waiting
<1>11. CursorInv'
  BY <1>2, <1>3, <1>4, <1>7 DEF CursorInv
<1>12. TextInv'
  <2>1. Arrived' = << >>
    <3>1. page'.seen < page'.from + 1
      BY <1>7
    <3> QED BY <1>4, <1>7, <3>1, EmptySeq DEF Arrived
  <2>2. Shown(page') = << >> /\ Growing(page') /\ Fits(page')
    BY <1>6, <1>7, NothingShown
  <2> QED BY <1>7, <2>1, <2>2, NothingSaid DEF TextInv
<1>13. CardInv'
  BY <1>7, NoCards DEF CardInv
<1>14. ReplyInv'
  <2>1. /\ \A r \in db.replies : r.turn \in Nat
        /\ \A d \in page.drafts : d.turn \in Nat
    BY <1>1, PageFields DEF Replies, Drafts
  <2>2. \A r \in db.replies : r.turn <= run'.turn /\ r.turn # run'.turn
    BY <1>1, <1>3, <1>4, <2>1 DEF ReplyInv
  <2>3. \A d \in page.drafts : d.turn <= run'.turn /\ d.turn # run'.turn
    BY <1>1, <1>3, <1>4, <2>1 DEF ReplyInv
  <2> QED BY <1>7, <1>8, <2>2, <2>3 DEF ReplyInv
<1>15. DoneInv' /\ SavedInv'
  BY <1>3, <1>4, <1>7 DEF DoneInv, SavedInv, Finished
<1>16. KeptInv'
  BY <1>1, <1>7, <1>8 DEF KeptInv
<1>17. QuestionInv'
  <2>1. page.retry # "send"
    BY <1>1, <1>2 DEF QuestionInv
  <2>2. CASE page.regenerate
    <3>1. db'.questions = db.questions
      BY <1>1, <1>2, <2>2, StoreEffect
    <3> QED BY <1>1, <1>2, <1>7, <2>1, <3>1 DEF QuestionInv
  <2>3. CASE ~page.regenerate
    <3> DEFINE n == Len(db.questions)
    <3>1. /\ Len(db'.questions) = n + 1 /\ db'.questions[n + 1] = page.question
          /\ \A i \in 1 .. n : db'.questions[i] = db.questions[i]
      BY <1>1, <1>2, <2>3, StoreEffect
    <3>2. n \in Nat /\ page.question \in Nat
      BY <1>1, PageFields, LenProperties
    <3> HIDE DEF n
    <3>3. \A i \in 1 .. n + 1 : i \in 1 .. n \/ i = n + 1
      BY <3>2
    <3>4. ~hist.refused => \A i \in 1 .. n : db.questions[i] # page.question /\ db.questions[i] <= page.question
      BY <1>1, <1>2, <2>3 DEF QuestionInv, n
    <3>5. ~hist.refused => \A i, j \in 1 .. n : db.questions[i] = db.questions[j] => i = j
      BY <1>1 DEF QuestionInv, n
    <3>6. ~hist.refused =>
            /\ \A i, j \in 1 .. Len(db'.questions) : db'.questions[i] = db'.questions[j] => i = j
            /\ \A i \in 1 .. Len(db'.questions) : db'.questions[i] <= page.question
      BY <3>1, <3>2, <3>3, <3>4, <3>5
    <3> QED BY <1>1, <1>2, <1>7, <1>8, <2>1, <3>6 DEF QuestionInv
  <2> QED BY <2>2, <2>3
<1>18. AskInv'
  <2>1. \A post \in posts : post.turn \in Nat
    BY <1>1, PageFields
  <2>2. page.ask \in Nat \X Nat
    BY <1>1, PageFields
  <2>3. \A post \in posts : post.turn <= run'.turn /\ post.turn # run'.turn
    BY <1>1, <1>3, <1>4, <2>1 DEF AskInv
  <2>4. page.ask # NoAsk => page.ask[1] <= run'.turn /\ page.ask[1] # run'.turn
    BY <1>1, <1>3, <1>4, <2>2 DEF AskInv
  <2> QED BY <1>2, <1>4, <1>7, <2>3, <2>4 DEF AskInv
<1> QED BY <1>9, <1>10, <1>11, <1>12, <1>13, <1>14, <1>15, <1>16, <1>17, <1>18 DEF ChatInv

(* The request fails, before or after the question is stored.                *)
LEMMA RefusedStep == ASSUME ChatInv, OpenRefused PROVE ChatInv'
<1>1. /\ Records /\ IdsInv(run.log) /\ EndsInv /\ CursorInv /\ ReplyInv /\ DoneInv /\ KeptInv /\ QuestionInv /\ AskInv
  BY DEF ChatInv
<1>2. PICK stored \in BOOLEAN : /\ db' = IF stored THEN Store ELSE db
                                /\ hist' = [hist EXCEPT !.refused = hist.refused \/ (stored /\ ~page.regenerate)]
  BY DEF OpenRefused
<1> DEFINE retry == IF page.regenerate THEN "regenerate" ELSE "send"
           refused == hist.refused \/ (stored /\ ~page.regenerate)
<1>3. /\ page.pc = "opening" /\ UNCHANGED <<run, posts>> /\ Fault
      /\ page' = [page EXCEPT !.pc = "saving", !.error = TRUE, !.retry = retry]
  BY DEF OpenRefused
<1>4. /\ run.turn \in Nat /\ page \in Pages /\ page.from = 0 /\ page.seen = 0
      /\ page.blocks = << >> /\ page.text = << >> /\ run.log \in Seq(EventRecs) /\ Len(run.log) \in Nat
      /\ page.resumes <= MaxResumes /\ ~page.pending
      /\ hist \in Pasts
      /\ spent \in [faults : 0 .. MaxFaults, edits : 0 .. MaxEdits]
      /\ Over(run.pc)
  BY <1>1, <1>3, PageFields DEF Records, CursorInv, DoneInv
<1>5. retry \in Intents /\ (retry = "send" <=> ~page.regenerate) /\ refused \in BOOLEAN
  BY DEF Intents
<1>6. hist' = [hist EXCEPT !.refused = refused]
  BY <1>2
<1> HIDE DEF retry, refused
<1>7. page' \in Pages
  BY <1>3, <1>4, <1>5 DEF Pages, PagePc
<1>8. /\ page'.pc = "saving" /\ page'.from = 0 /\ page'.seen = 0 /\ page'.blocks = << >> /\ page'.text = << >>
      /\ page'.resumes = page.resumes /\ page'.pending = page.pending /\ page'.retry = retry /\ page'.edit = page.edit
      /\ page'.ask = page.ask /\ page'.question = page.question /\ page'.drafts = page.drafts
      /\ page'.delivered = page.delivered /\ page'.shown = page.shown
  BY <1>3, <1>4 DEF Pages
<1>9. /\ hist' \in Pasts
      /\ hist'.cut = hist.cut /\ hist'.late = hist.late /\ hist'.refused = refused
  BY <1>4, <1>5, <1>6 DEF Pasts
<1>10. /\ db' \in Rows /\ db'.replies = db.replies
       /\ db.questions # << >> => db'.questions # << >> /\ db'.questions[1] = db.questions[1]
       /\ ~refused => db'.questions = db.questions /\ ~hist.refused
  <2>1. CASE stored
    BY <1>1, <1>2, <2>1, StoreEffect DEF refused
  <2>2. CASE ~stored
    BY <1>1, <1>2, <2>2 DEF Records, refused
  <2> QED BY <2>1, <2>2
<1>11. Records'
  <2>1. spent' \in [faults : 0 .. MaxFaults, edits : 0 .. MaxEdits]
    BY <1>3, <1>4, FaultCounts
  <2> QED BY <1>1, <1>3, <1>7, <1>9, <1>10, <2>1 DEF Records
<1>12. IdsInv(run.log)' /\ EndsInv'
  BY <1>1, <1>3 DEF EndsInv, Waiting
<1>13. CursorInv'
  BY <1>1, <1>3, <1>4, <1>8, <1>9 DEF CursorInv
<1>14. TextInv'
  <2>1. Arrived' = << >>
    <3>1. page'.seen < page'.from + 1
      BY <1>8
    <3> QED BY <1>3, <1>4, <1>8, <3>1, SubSeqProperties, EmptySeq DEF Arrived
  <2>2. Shown(page') = << >> /\ Growing(page') /\ Fits(page')
    BY <1>7, <1>8, NothingShown
  <2> QED BY <1>8, <2>1, <2>2, NothingSaid DEF TextInv
<1>15. CardInv'
  BY <1>8, NoCards DEF CardInv
<1>16. ReplyInv'
  BY <1>1, <1>3, <1>8, <1>9, <1>10 DEF ReplyInv
<1>17. DoneInv' /\ SavedInv'
  <2>1. Finished' = Finished /\ FinalReply' = FinalReply
    BY <1>3, <1>10 DEF Finished, FinalReply
  <2>2. DoneInv'
    BY <1>1, <1>3, <1>4, <1>8, <1>9, <2>1 DEF DoneInv
  <2> QED BY <1>8, <2>2 DEF SavedInv
<1>18. KeptInv'
  BY <1>1, <1>8, <1>10 DEF KeptInv
<1>19. QuestionInv'
  <2>1. ~refused /\ retry = "send" => \A i \in 1 .. Len(db.questions) : db.questions[i] # page.question
    BY <1>1, <1>3, <1>5, <1>10 DEF QuestionInv
  <2>2. ~refused => /\ \A i, j \in 1 .. Len(db'.questions) : db'.questions[i] = db'.questions[j] => i = j
                    /\ \A i \in 1 .. Len(db'.questions) : db'.questions[i] <= page.question
    BY <1>1, <1>10 DEF QuestionInv
  <2> QED BY <1>1, <1>8, <1>9, <1>10, <2>1, <2>2 DEF QuestionInv
<1>20. AskInv'
  BY <1>1, <1>3, <1>4, <1>8 DEF AskInv, Over
<1> QED BY <1>11, <1>12, <1>13, <1>14, <1>15, <1>16, <1>17, <1>18, <1>19, <1>20 DEF ChatInv

-----------------------------------------------------------------------------
(* The end of a turn: the partial row, and the reload. *)

LEMMA PrefixOfItself == ASSUME NEW s \in Seq(Nat) PROVE IsPrefix(s, s)
BY PrefixByIndex, LenProperties

LEMMA SaveStep == ASSUME ChatInv, SavePartial PROVE ChatInv'
<1> DEFINE p == FinalizeBoth(page)
           row == Reply(run.turn, Texts(p), ClosedTools(p), TRUE)
           stores == ToSave(p)
           q == IF page.pending THEN page ELSE p
<1>1. /\ Records /\ IdsInv(run.log) /\ EndsInv /\ CursorInv /\ TextInv /\ CardInv /\ ReplyInv /\ DoneInv
      /\ KeptInv /\ QuestionInv /\ AskInv
  BY DEF ChatInv
<1>2. /\ page.pc = "saving" /\ UNCHANGED <<run, posts>> /\ page' = [q EXCEPT !.pc = "refreshing"]
      /\ \/ db' = (IF stores THEN [db EXCEPT !.replies = db.replies \cup {row}] ELSE db) /\ UNCHANGED <<hist, spent>>
         \/ Fault /\ hist' = [hist EXCEPT !.unsaved = run.turn] /\ UNCHANGED db
  BY DEF SavePartial
<1>3. /\ page \in Pages /\ db \in Rows /\ run.turn \in Nat /\ run.log \in Seq(EventRecs) /\ db.replies \subseteq Replies
      /\ page.blocks \in Seq(BlockRecs)
  BY <1>1, PageFields DEF Records
<1>4. /\ p \in Pages /\ Beside(page, p) /\ p.text = << >> /\ SameCards(page.blocks, p.blocks)
      /\ Growing(page) => TextOf(p.blocks) = Shown(page)
  BY <1>3, FinalizeBothEffect
<1>5. /\ Texts(p) = TextOf(p.blocks) /\ TextOf(p.blocks) \in Seq(Nat) /\ ClosedTools(p) \subseteq Nat /\ p.blocks \in Seq(BlockRecs)
  <2>1. p.blocks \in Seq(BlockRecs)
    BY <1>4, BlocksOfPage
  <2>2. ClosedTools(p) \subseteq Nat
    BY <1>4, IdsAreNumbers, CardsOfPage
  <2> QED BY <2>1, <2>2, PiecesType, TextsAreOfBlocks
<1>6. row \in Replies /\ row.turn = run.turn /\ row.text = TextOf(p.blocks) /\ row.partial
  <2>1. TRUE \in BOOLEAN
    OBVIOUS
  <2> QED BY <1>3, <1>5, <2>1 DEF Reply, Replies
<1>7. page.pending \in BOOLEAN /\ (~page.pending /\ Texts(p) # << >> => stores)
  BY <1>1, PageFields DEF ToSave
<1>25. /\ hist' \in Pasts /\ hist'.cut = hist.cut /\ hist'.late = hist.late /\ hist'.refused = hist.refused
       /\ hist'.unsaved = run.turn \/ hist' = hist
       /\ spent' \in [faults : 0 .. MaxFaults, edits : 0 .. MaxEdits]
  <2>1. /\ hist \in Pasts /\ spent \in [faults : 0 .. MaxFaults, edits : 0 .. MaxEdits]
        /\ MaxFaults \in Nat
    BY <1>1, ChatPageAssumption DEF Records
  <2>2. CASE UNCHANGED <<hist, spent>>
    BY <2>1, <2>2
  <2>3. CASE Fault /\ hist' = [hist EXCEPT !.unsaved = run.turn]
    BY <1>3, <2>1, <2>3 DEF Fault, Pasts
  <2> QED BY <1>2, <2>2, <2>3
<1> HIDE DEF p, row, stores
<1>8. q \in Pages /\ Beside(page, q) /\ SameIds(page.blocks, q.blocks)
  <2>1. SameIds(page.blocks, p.blocks)
    BY <1>3, <1>4, <1>5, SameCardsAre DEF SameIds
  <2>2. SameIds(page.blocks, page.blocks) /\ Beside(page, page)
    BY DEF SameIds, Beside
  <2> QED BY <1>3, <1>4, <2>1, <2>2
<1> HIDE DEF q
<1>9. page' \in Pages
  BY <1>2, <1>8 DEF Pages, PagePc
<1>10. /\ page'.pc = "refreshing" /\ page'.blocks = q.blocks /\ SamePlace(page, page')
       /\ page'.resumes = page.resumes /\ page'.retry = page.retry /\ page'.ask = page.ask
  BY <1>2, <1>8 DEF Pages, Beside, SamePlace
<1>11. /\ db' \in Rows /\ db'.questions = db.questions /\ db.replies \subseteq db'.replies
       /\ \A r \in db'.replies : r \in db.replies \/ r = row
       /\ stores => row \in db'.replies \/ hist'.unsaved = run.turn
  <2>1. CASE db' = [db EXCEPT !.replies = db.replies \cup {row}]
    BY <1>3, <1>6, <2>1 DEF Rows
  <2>2. CASE db' = db /\ (stores => hist' = [hist EXCEPT !.unsaved = run.turn])
    <3>1. hist' = [hist EXCEPT !.unsaved = run.turn] => hist'.unsaved = run.turn
      BY <1>1 DEF Records, Pasts
    <3> QED BY <1>3, <2>2, <3>1
  <2> QED BY <1>2, <2>1, <2>2
<1>12. Arrived' = Arrived
  BY <1>2, <1>10 DEF Arrived, SamePlace
<1>13. Records' /\ IdsInv(run.log)' /\ EndsInv'
  <2>1. Records'
    BY <1>1, <1>2, <1>9, <1>11, <1>25 DEF Records
  <2> QED BY <1>1, <1>2, <2>1 DEF EndsInv, Waiting
<1>14. CursorInv' /\ TextInv'
  BY <1>1, <1>2, <1>10, <1>12, <1>25 DEF CursorInv, TextInv, SamePlace
<1>15. CardInv'
  BY <1>1, <1>2, <1>8, <1>10, <1>25 DEF CardInv, SamePlace, SameIds
<1>16. ReplyInv'
  <2>1. \A r \in db'.replies : r.turn <= run.turn
    BY <1>1, <1>3, <1>6, <1>11 DEF ReplyInv
  <2>2. \A r \in db'.replies : ~r.partial => r \in db.replies
    BY <1>6, <1>11
  <2> QED BY <1>1, <1>2, <1>10, <1>25, <2>1, <2>2 DEF ReplyInv, SamePlace
<1>17. DoneInv'
  <2>1. Finished' = Finished /\ (FinalReply => FinalReply')
    BY <1>2, <1>11 DEF Finished, FinalReply
  <2> QED BY <1>1, <1>2, <1>10, <1>25, <2>1 DEF DoneInv, SamePlace
<1>18. SavedInv'
  <2> SUFFICES ASSUME page.edit # "reset", hist.cut # run.turn, hist'.unsaved # run.turn, ~Interleaved(Arrived),
                      Deltas(Arrived) # << >>
               PROVE  \E r \in db'.replies : r.turn = run.turn /\ IsPrefix(Deltas(Arrived), r.text)
    BY <1>2, <1>10, <1>12, <1>25 DEF SavedInv, SamePlace
  <2>1. CASE page.pending
    <3>1. FinalReply
      BY <1>1, <2>1 DEF DoneInv
    <3>2. PICK r \in db.replies : r.turn = run.turn /\ r.text = Deltas(run.log)
      BY <1>1, <3>1 DEF FinalReply, ReplyInv
    <3>3. IsPrefix(Deltas(Arrived), Deltas(run.log))
      BY <1>1, <1>3, ArrivedFromStart, SaidFirst
    <3> QED BY <1>11, <3>2, <3>3
  <2>2. CASE ~page.pending
    <3>1. Growing(page) /\ Shown(page) = Deltas(Arrived)
      BY <1>1, <1>2 DEF TextInv
    <3>2. stores /\ row.text = Deltas(Arrived)
      BY <1>4, <1>5, <1>6, <1>7, <2>2, <3>1
    <3>3. IsPrefix(row.text, row.text)
      BY <1>5, <1>6, PrefixOfItself
    <3> QED BY <1>6, <1>11, <3>2, <3>3
  <2> QED BY <2>1, <2>2
<1>19. KeptInv'
  <2>1. Turns(db.replies) \subseteq Turns(db'.replies)
    BY <1>11 DEF Turns
  <2> QED BY <1>1, <1>10, <2>1 DEF KeptInv, SamePlace
<1>20. QuestionInv' /\ AskInv'
  <2>1. QuestionInv'
    BY <1>1, <1>2, <1>10, <1>11, <1>25 DEF QuestionInv, SamePlace
  <2>2. AskInv'
    BY <1>1, <1>2, <1>10, <1>25 DEF AskInv
  <2> QED BY <2>1, <2>2
<1> QED BY <1>13, <1>14, <1>15, <1>16, <1>17, <1>18, <1>19, <1>20 DEF ChatInv

LEMMA RefreshStep == ASSUME ChatInv, Refresh PROVE ChatInv'
<1>1. /\ Records /\ IdsInv(run.log) /\ EndsInv /\ CursorInv /\ ReplyInv /\ DoneInv /\ KeptInv /\ QuestionInv /\ AskInv
  BY DEF ChatInv
<1>2. page.pc = "refreshing" /\ UNCHANGED <<run, posts, db, hist>>
  BY DEF Refresh
<1> DEFINE r == [Reload(page) EXCEPT !.pending = FALSE]
<1>3. \/ page' = Clear(r) /\ UNCHANGED spent
      \/ page' = Clear(page) /\ Fault
  BY DEF Refresh
<1>4. page \in Pages /\ spent \in [faults : 0 .. MaxFaults, edits : 0 .. MaxEdits]
  BY <1>1 DEF Records
<1>5. /\ r \in Pages /\ r.question = page.question /\ r.regenerate = page.regenerate
      /\ r.from = page.from /\ r.seen = page.seen /\ r.resumes = page.resumes
      /\ r.pending = FALSE /\ r.retry = page.retry /\ r.edit = page.edit /\ r.delivered = page.delivered
      /\ r.shown = db /\ r.drafts = {d \in page.drafts : d.turn \notin Turns(db.replies)} /\ r.ask = page.ask
  <2> DEFINE s == Reload(page)
  <2>1. Streaming
    BY <1>2 DEF Streaming
  <2>2. /\ s \in Pages /\ s.question = page.question /\ s.regenerate = page.regenerate
        /\ s.from = page.from /\ s.seen = page.seen /\ s.resumes = page.resumes
        /\ s.retry = page.retry /\ s.edit = page.edit /\ s.delivered = page.delivered
        /\ s.shown = db /\ s.drafts = {d \in page.drafts : d.turn \notin Turns(db.replies)} /\ s.ask = page.ask
    BY <1>1, <2>1, ReloadEffect
  <2> HIDE DEF s
  <2>3. r = [s EXCEPT !.pending = FALSE]
    BY DEF s
  <2> HIDE DEF r
  <2> QED BY <2>2, <2>3 DEF Pages
<1> HIDE DEF r
<1>6. PICK s \in {r, page} : page' = Clear(s)
  BY <1>3
<1>7. /\ s \in Pages /\ s.question = page.question /\ s.regenerate = page.regenerate
      /\ s.from = page.from /\ s.seen = page.seen /\ s.resumes = page.resumes
      /\ s.retry = page.retry /\ s.edit = page.edit /\ s.delivered = page.delivered /\ s.ask = page.ask
      /\ s.drafts \subseteq page.drafts /\ (s.pending => page.pending)
      /\ \/ s.shown = db /\ s.drafts = {d \in page.drafts : d.turn \notin Turns(db.replies)}
         \/ s.shown = page.shown /\ s.drafts = page.drafts
  BY <1>4, <1>5, <1>6
<1>8. /\ page' \in Pages /\ page'.pc = "idle" /\ page'.blocks = << >> /\ page'.text = << >>
      /\ page'.question = s.question /\ page'.regenerate = s.regenerate
      /\ page'.from = s.from /\ page'.seen = s.seen /\ page'.resumes = s.resumes /\ page'.pending = s.pending
      /\ page'.retry = s.retry /\ page'.edit = s.edit /\ page'.delivered = s.delivered /\ page'.ask = s.ask
      /\ page'.drafts = s.drafts /\ page'.shown = s.shown
  <2>1. page' = [s EXCEPT !.pc = "idle", !.blocks = << >>, !.text = << >>, !.think = << >>, !.stopped = FALSE]
    BY <1>6 DEF Clear
  <2>2. << >> \in Seq(BlockRecs) /\ << >> \in Seq(Nat)
    BY EmptySeq
  <2>3. page' \in Pages
    BY <1>7, <2>1, <2>2 DEF Pages, PagePc
  <2> QED BY <1>7, <2>1, <2>3 DEF Pages
<1>9. Records'
  <2>1. spent' \in [faults : 0 .. MaxFaults, edits : 0 .. MaxEdits]
    BY <1>3, <1>4, FaultCounts
  <2> QED BY <1>1, <1>2, <1>8, <2>1 DEF Records
<1>10. IdsInv(run.log)' /\ EndsInv'
  BY <1>1, <1>2 DEF EndsInv, Waiting
<1>11. CursorInv' /\ TextInv' /\ SavedInv'
  <2>1. CursorInv'
    BY <1>1, <1>2, <1>7, <1>8 DEF CursorInv
  <2> QED BY <1>8, <2>1 DEF TextInv, SavedInv
<1>12. CardInv'
  BY <1>8, NoCards DEF CardInv
<1>13. ReplyInv'
  BY <1>1, <1>2, <1>7, <1>8 DEF ReplyInv
<1>14. DoneInv'
  <2>1. Finished' = Finished /\ FinalReply' = FinalReply
    BY <1>2 DEF Finished, FinalReply
  <2> QED BY <1>1, <1>2, <1>7, <1>8, <2>1 DEF DoneInv
<1>15. KeptInv'
  <2>1. CASE s.shown = page.shown /\ s.drafts = page.drafts
    BY <1>1, <1>2, <1>7, <1>8, <2>1 DEF KeptInv
  <2>2. CASE s.shown = db /\ s.drafts = {d \in page.drafts : d.turn \notin Turns(db.replies)}
    <3>1. CASE page.edit = "reset"
      BY <1>7, <1>8, <3>1 DEF KeptInv
    <3>2. CASE page.edit # "reset"
      BY <1>1, <1>2, <1>7, <1>8, <2>2, <3>2, ReloadKeeps
    <3> QED BY <3>1, <3>2
  <2> QED BY <1>7, <2>1, <2>2
<1>16. QuestionInv' /\ AskInv'
  <2>1. QuestionInv'
    BY <1>1, <1>2, <1>7, <1>8 DEF QuestionInv
  <2>2. AskInv'
    BY <1>1, <1>2, <1>7, <1>8 DEF AskInv
  <2> QED BY <2>1, <2>2
<1> QED BY <1>9, <1>10, <1>11, <1>12, <1>13, <1>14, <1>15, <1>16 DEF ChatInv

-----------------------------------------------------------------------------
(* Editing the question. *)

LEMMA EditStep == ASSUME ChatInv, Edit PROVE ChatInv'
<1>1. /\ Records /\ IdsInv(run.log) /\ EndsInv /\ CursorInv /\ TextInv /\ CardInv /\ ReplyInv /\ DoneInv /\ QuestionInv /\ AskInv
  BY DEF ChatInv
<1>2. /\ page.edit = "none" /\ page.shown.questions # << >> /\ spent.edits < MaxEdits
      /\ spent' = [spent EXCEPT !.edits = spent.edits + 1]
      /\ \E kept \in {0, 1} : db' = [questions |-> SubSeq(page.shown.questions, 1, kept), replies |-> {}]
      /\ page' = [page EXCEPT !.edit = "reset"]
      /\ UNCHANGED <<run, posts, hist>>
  BY DEF Edit
<1>3. /\ page \in Pages /\ page.shown.questions \in Seq(Nat) /\ spent \in [faults : 0 .. MaxFaults, edits : 0 .. MaxEdits]
      /\ MaxEdits \in Nat
  BY <1>1, PageFields, ChatPageAssumption DEF Records, Rows
<1>4. page' \in Pages
  BY <1>2, <1>3 DEF Pages
<1>5. /\ page'.edit = "reset" /\ page'.pc = page.pc /\ page'.blocks = page.blocks /\ page'.text = page.text
      /\ page'.from = page.from /\ page'.seen = page.seen /\ page'.resumes = page.resumes
      /\ page'.question = page.question /\ page'.regenerate = page.regenerate
      /\ page'.pending = page.pending /\ page'.retry = page.retry /\ page'.ask = page.ask /\ page'.drafts = page.drafts
  BY <1>2, <1>3 DEF Pages
<1>6. /\ db'.replies = {} /\ db'.questions \in Seq(Nat) /\ db' = [questions |-> db'.questions, replies |-> {}]
      /\ \A i \in 1 .. Len(db'.questions) : i = 1 /\ db'.questions[i] = page.shown.questions[1]
  <2> DEFINE s == page.shown.questions
  <2>1. Len(s) \in Nat /\ Len(s) > 0 /\ \A i \in 1 .. Len(s) : s[i] \in Nat
    BY <1>2, <1>3, SeqFacts
  <2>2. PICK kept \in {0, 1} : db' = [questions |-> SubSeq(s, 1, kept), replies |-> {}]
    BY <1>2
  <2>3. \A i \in 1 .. kept : s[i] \in Nat
    BY <2>1, <2>2
  <2>4. /\ SubSeq(s, 1, kept) \in Seq(Nat) /\ Len(SubSeq(s, 1, kept)) = kept
        /\ \A i \in 1 .. kept : SubSeq(s, 1, kept)[i] = s[i]
    <3> HIDE DEF s
    <3>1. /\ SubSeq(s, 1, kept) \in Seq(Nat) /\ Len(SubSeq(s, 1, kept)) = (IF 1 <= kept THEN kept - 1 + 1 ELSE 0)
          /\ \A i \in 1 .. kept - 1 + 1 : SubSeq(s, 1, kept)[i] = s[1 + i - 1]
      BY <1>3, <2>2, <2>3, SubSeqProperties DEF s
    <3> QED BY <2>2, <3>1
  <2> QED BY <2>2, <2>4
<1>7. Records'
  <2>1. spent' \in [faults : 0 .. MaxFaults, edits : 0 .. MaxEdits]
    BY <1>2, <1>3
  <2>2. db' \in Rows
    BY <1>6 DEF Rows
  <2> QED BY <1>1, <1>2, <1>4, <2>1, <2>2 DEF Records
<1>8. IdsInv(run.log)' /\ EndsInv'
  BY <1>1, <1>2 DEF EndsInv, Waiting
<1>9. Arrived' = Arrived
  BY <1>2, <1>5 DEF Arrived
<1>10. CursorInv'
  BY <1>1, <1>2, <1>5 DEF CursorInv
<1>11. TextInv'
  <2>1. Growing(page') = Growing(page) /\ Fits(page') = Fits(page)
    BY <1>5 DEF Growing, Fits, LastIs
  <2>2. Growing(page) => Shown(page') = Shown(page)
    <3>1. SamePieces(page.blocks, page'.blocks)
      BY <1>5 DEF SamePieces
    <3> QED BY <1>3, <1>4, <1>5, <3>1, ShownSame
  <2> QED BY <1>1, <1>5, <1>9, <2>1, <2>2 DEF TextInv
<1>12. CardInv'
  BY <1>1, <1>2, <1>5 DEF CardInv
<1>13. ReplyInv' /\ KeptInv' /\ SavedInv'
  BY <1>1, <1>2, <1>5, <1>6 DEF ReplyInv, KeptInv, SavedInv
<1>14. DoneInv'
  <2>1. Finished' = Finished
    BY <1>2 DEF Finished
  <2> QED BY <1>1, <1>2, <1>5, <2>1 DEF DoneInv
<1>15. QuestionInv'
  <2>1. db.questions # << >> /\ db.questions[1] = page.shown.questions[1]
    BY <1>1, <1>2 DEF QuestionInv
  <2>2. 1 \in 1 .. Len(db.questions)
    <3>1. db.questions \in Seq(Nat)
      BY <1>1, PageFields
    <3> QED BY <2>1, <3>1, SeqFacts
  <2>3. \A i \in 1 .. Len(db'.questions) : i = 1 /\ db'.questions[i] = db.questions[1]
    BY <1>6, <2>1
  <2>4. \A i, j \in 1 .. Len(db'.questions) : i = j
    BY <2>3
  <2>5. hist'.refused = hist.refused
    BY <1>2
  <2>6. ~hist.refused => db.questions[1] <= page.question
    BY <1>1, <2>2 DEF QuestionInv
  <2>7. ~hist.refused /\ (page.retry = "send" \/ (page.pc = "opening" /\ ~page.regenerate)) => db.questions[1] # page.question
    BY <1>1, <2>2 DEF QuestionInv
  <2>8. page.pc \in {"opening", "open", "broken"} => page.retry # "send"
    BY <1>1 DEF QuestionInv
  <2> QED BY <1>5, <2>3, <2>4, <2>5, <2>6, <2>7, <2>8 DEF QuestionInv
<1>16. AskInv'
  BY <1>1, <1>2, <1>5 DEF AskInv
<1> QED BY <1>7, <1>8, <1>10, <1>11, <1>12, <1>13, <1>14, <1>15, <1>16 DEF ChatInv

LEMMA ResetStep == ASSUME ChatInv, EditResets PROVE ChatInv'
<1>1. /\ Records /\ IdsInv(run.log) /\ EndsInv /\ CursorInv /\ ReplyInv /\ DoneInv /\ QuestionInv /\ AskInv
  BY DEF ChatInv
<1>2. /\ hist' = [hist EXCEPT !.cut = run.turn] /\ UNCHANGED <<run, posts, db, spent>>
      /\ page' = [page EXCEPT !.edit = "reload", !.error = FALSE, !.retry = "none", !.drafts = {}, !.optimistic = {},
                              !.pending = FALSE, !.blocks = << >>, !.text = << >>, !.think = << >>,
                              !.from = page.seen, !.delivered = {}]
  BY DEF EditResets
<1>3. /\ page \in Pages /\ page.seen \in Nat /\ run.turn \in Nat /\ run.log \in Seq(EventRecs)
      /\ hist \in Pasts
  BY <1>1, PageFields DEF Records
<1>4. page' \in Pages
  <2>1. << >> \in Seq(BlockRecs) /\ << >> \in Seq(Nat) /\ {} \in SUBSET Drafts /\ {} \in SUBSET Nat
    BY EmptySeq
  <2>2. PICK r : r = [page EXCEPT !.edit = "reload", !.blocks = << >>, !.text = << >>, !.think = << >>, !.from = page.seen]
    OBVIOUS
  <2>3. r \in Pages
    BY <1>3, <2>1, <2>2 DEF Pages
  <2>4. page' = [r EXCEPT !.error = FALSE, !.retry = "none", !.drafts = {}, !.optimistic = {}, !.pending = FALSE,
                          !.delivered = {}]
    BY <1>2, <2>2 DEF Pages
  <2> QED BY <2>1, <2>3, <2>4 DEF Pages, Intents
<1>5. /\ page'.edit = "reload" /\ page'.pc = page.pc /\ page'.blocks = << >> /\ page'.text = << >>
      /\ page'.from = page.seen /\ page'.seen = page.seen /\ page'.resumes = page.resumes
      /\ page'.question = page.question /\ page'.regenerate = page.regenerate
      /\ page'.pending = FALSE /\ page'.retry = "none" /\ page'.ask = page.ask /\ page'.drafts = {} /\ page'.delivered = {}
  BY <1>2, <1>3 DEF Pages
<1>6. /\ hist' \in Pasts
      /\ hist'.cut = run.turn /\ hist'.late = hist.late /\ hist'.refused = hist.refused
  BY <1>2, <1>3 DEF Pasts
<1>7. Records' /\ IdsInv(run.log)' /\ EndsInv'
  <2>1. Records'
    BY <1>1, <1>2, <1>4, <1>6 DEF Records
  <2> QED BY <1>1, <1>2, <2>1 DEF EndsInv, Waiting
<1>8. CursorInv'
  BY <1>1, <1>2, <1>3, <1>5, <1>6 DEF CursorInv
<1>9. TextInv'
  <2>1. Arrived' = << >>
    <3>1. page'.seen < page'.from + 1 /\ page'.from + 1 \in Nat /\ page'.seen \in Nat
      BY <1>3, <1>5
    <3>2. SubSeq(run.log, page'.from + 1, page'.seen) = << >>
      BY <1>3, <3>1, SubSeqProperties, EmptySeq
    <3> QED BY <1>2, <3>2 DEF Arrived
  <2>2. Shown(page') = << >> /\ Growing(page') /\ Fits(page')
    BY <1>4, <1>5, NothingShown
  <2> QED BY <1>5, <2>1, <2>2, NothingSaid DEF TextInv
<1>10. CardInv'
  BY <1>3, <1>5, NoCards DEF CardInv
<1>11. ReplyInv' /\ KeptInv' /\ SavedInv' /\ DoneInv'
  <2>1. ReplyInv'
    BY <1>1, <1>2, <1>5 DEF ReplyInv
  <2>2. KeptInv' /\ SavedInv' /\ DoneInv'
    BY <1>2, <1>5, <1>6 DEF KeptInv, SavedInv, DoneInv
  <2> QED BY <2>1, <2>2
<1>12. QuestionInv' /\ AskInv'
  <2>1. QuestionInv'
    BY <1>1, <1>2, <1>5, <1>6 DEF QuestionInv
  <2>2. AskInv'
    BY <1>1, <1>2, <1>5, <1>6 DEF AskInv
  <2> QED BY <2>1, <2>2
<1> QED BY <1>7, <1>8, <1>9, <1>10, <1>11, <1>12 DEF ChatInv

LEMMA ReloadStep == ASSUME ChatInv, EditAsksAgain, Streaming PROVE ChatInv'
<1>1. /\ Records /\ IdsInv(run.log) /\ EndsInv /\ CursorInv /\ TextInv /\ CardInv /\ ReplyInv /\ DoneInv
      /\ SavedInv /\ KeptInv /\ QuestionInv /\ AskInv
  BY DEF ChatInv
<1> DEFINE r == Reload(page)
<1>2. page.edit = "reload" /\ page' = [r EXCEPT !.edit = "none"] /\ UNCHANGED <<run, posts, db, hist, spent>>
  BY DEF EditAsksAgain
<1>3. /\ r \in Pages /\ r.pc = page.pc /\ r.question = page.question /\ r.regenerate = page.regenerate
      /\ r.blocks = page.blocks /\ r.text = page.text /\ r.from = page.from /\ r.seen = page.seen /\ r.resumes = page.resumes
      /\ r.pending = page.pending /\ r.retry = page.retry /\ r.delivered = page.delivered
      /\ r.shown = db /\ r.drafts = {d \in page.drafts : d.turn \notin Turns(db.replies)} /\ r.ask = page.ask
  BY <1>1, ReloadEffect
<1> HIDE DEF r
<1>4. page' \in Pages
  BY <1>2, <1>3 DEF Pages
<1>5. /\ page'.edit = "none" /\ page'.pc = page.pc /\ page'.question = page.question /\ page'.regenerate = page.regenerate
      /\ page'.blocks = page.blocks /\ page'.text = page.text /\ page'.from = page.from /\ page'.seen = page.seen
      /\ page'.resumes = page.resumes /\ page'.pending = page.pending /\ page'.retry = page.retry
      /\ page'.delivered = page.delivered /\ page'.shown = db /\ page'.ask = page.ask
      /\ page'.drafts = {d \in page.drafts : d.turn \notin Turns(db.replies)}
  BY <1>2, <1>3 DEF Pages
<1>6. Records' /\ IdsInv(run.log)' /\ EndsInv'
  <2>1. Records'
    BY <1>1, <1>2, <1>4 DEF Records
  <2> QED BY <1>1, <1>2, <2>1 DEF EndsInv, Waiting
<1>7. CursorInv'
  BY <1>1, <1>2, <1>5 DEF CursorInv
<1>8. Arrived' = Arrived
  BY <1>2, <1>5 DEF Arrived
<1>9. TextInv'
  <2>1. Growing(page') = Growing(page) /\ Fits(page') = Fits(page)
    BY <1>5 DEF Growing, Fits, LastIs
  <2>2. Growing(page) => Shown(page') = Shown(page)
    <3>1. SamePieces(page.blocks, page'.blocks) /\ page \in Pages
      BY <1>1, <1>5 DEF SamePieces, Records
    <3> QED BY <1>4, <1>5, <3>1, ShownSame
  <2> QED BY <1>1, <1>5, <1>8, <2>1, <2>2 DEF TextInv
<1>10. CardInv'
  BY <1>1, <1>2, <1>5 DEF CardInv
<1>11. ReplyInv'
  BY <1>1, <1>2, <1>5 DEF ReplyInv
<1>12. DoneInv'
  <2>1. Finished' = Finished /\ FinalReply' = FinalReply
    BY <1>2 DEF Finished, FinalReply
  <2> QED BY <1>1, <1>2, <1>5, <2>1 DEF DoneInv
<1>13. SavedInv'
  BY <1>1, <1>2, <1>5, <1>8 DEF SavedInv
<1>14. KeptInv'
  BY <1>1, <1>2, <1>5, ReloadKeeps
<1>15. QuestionInv' /\ AskInv'
  <2>1. QuestionInv'
    BY <1>1, <1>2, <1>5 DEF QuestionInv
  <2>2. AskInv'
    BY <1>1, <1>2, <1>5 DEF AskInv
  <2> QED BY <2>1, <2>2
<1> QED BY <1>6, <1>7, <1>9, <1>10, <1>11, <1>12, <1>13, <1>14, <1>15 DEF ChatInv

-----------------------------------------------------------------------------
(* The page reads an event. *)

Coming == run.log[page.seen + 1]
Held   == Append(Arrived, Coming)

\* What the log says of the event that comes next.
LEMMA ComingId ==
    ASSUME ChatInv, page.seen < Len(run.log)
    PROVE  /\ Coming \in EventRecs /\ Coming.id <= page.seen + 1 /\ (~Ends(Coming) => Coming.id > 0)
           /\ page.seen + 1 \in 1 .. Len(run.log)
           /\ Coming.type \in {"pending", "ask"} => Coming.id = page.seen + 1
           /\ Coming.type = "denied" =>
                page.seen \in 1 .. Len(run.log) /\ run.log[page.seen].type = "pending" /\ run.log[page.seen].id = Coming.id
           /\ Coming.type = "call" =>
                Coming.id = page.seen + 1 \/ (page.seen \in 1 .. Len(run.log) /\ run.log[page.seen].type = "pending")
           /\ \A i \in 1 .. page.seen : i \in 1 .. Len(run.log) /\ (Shuts(run.log[i]) => run.log[i].id # Coming.id)
           /\ \A id \in CardIds(page.blocks) : id \in Nat /\ id <= page.seen
<1>1. Records /\ IdsInv(run.log) /\ CursorInv /\ CardInv
  BY DEF ChatInv
<1>2. run.log \in Seq(EventRecs) /\ Len(run.log) \in Nat /\ page.seen \in Nat /\ page.seen <= Len(run.log)
  BY <1>1, PageFields DEF CursorInv
<1> DEFINE i == page.seen + 1
<1>3. i \in 1 .. Len(run.log) /\ i - 1 = page.seen /\ (i > 1 => page.seen \in 1 .. Len(run.log))
  BY <1>2
<1>4. \A k \in 1 .. Len(run.log) : run.log[k] \in EventRecs
  BY <1>2, SeqFacts
<1>5. \A k \in 1 .. page.seen : k \in 1 .. Len(run.log) /\ k < i
  BY <1>2
<1>6. \A x \in EventRecs : x.id \in Nat
  BY DEF EventRecs
<1>7. \A id \in CardIds(page.blocks) : id \in Nat /\ id <= page.seen
  <2> SUFFICES ASSUME NEW id \in CardIds(page.blocks) PROVE id \in Nat /\ id <= page.seen
    OBVIOUS
  <2>1. PICK k \in 1 .. page.seen : run.log[k].id = id
    BY <1>1 DEF CardInv
  <2>2. id \in Nat /\ id <= k
    BY <1>1, <1>4, <1>5, <1>6, <2>1 DEF IdsInv
  <2> QED BY <1>2, <2>2
<1> HIDE DEF i
<1>8. /\ run.log[i].id <= i /\ (~Ends(run.log[i]) => run.log[i].id > 0)
      /\ run.log[i].type \in {"pending", "ask"} => run.log[i].id = i
      /\ run.log[i].type = "denied" => i > 1 /\ run.log[i-1].type = "pending" /\ run.log[i-1].id = run.log[i].id
      /\ run.log[i].type = "call" => run.log[i].id = i \/ (i > 1 /\ run.log[i-1].type = "pending")
  BY <1>1, <1>3 DEF IdsInv
<1>9. \A k \in 1 .. page.seen : k \in 1 .. Len(run.log) /\ (Shuts(run.log[k]) => run.log[k].id # run.log[i].id)
  BY <1>1, <1>3, <1>5 DEF IdsInv
<1>10. run.log[i] \in EventRecs
  BY <1>3, <1>4
<1> QED BY <1>3, <1>7, <1>8, <1>9, <1>10 DEF Coming, i

\* What it says of what is shown.
LEMMA ComingText ==
    ASSUME ChatInv, page.pc = "open", page.seen < Len(run.log)
    PROVE  /\ SubSeq(run.log, page.from + 1, page.seen + 1) = Held /\ Held # << >> /\ Last(Held) = Coming
           /\ Coming.type = "delta" => Deltas(Held) = Append(Deltas(Arrived), Coming.id)
           /\ Coming.type # "delta" => Deltas(Held) = Deltas(Arrived)
           /\ ~Interleaved(Held) =>
                /\ Fits(page) /\ Growing(page) /\ Shown(page) = Deltas(Arrived)
                /\ Coming.type \in {"reasoning", "result", "denied"} => page.text = << >>
                /\ Coming.type = "call" => page.text = << >> \/ Coming.id \notin CardIds(page.blocks)
<1>1. Records /\ CursorInv /\ TextInv
  BY DEF ChatInv
<1>2. /\ run.log \in Seq(EventRecs) /\ Len(run.log) \in Nat /\ page.seen \in Nat /\ page.from \in Nat
      /\ page.from <= page.seen /\ page.seen <= Len(run.log)
  BY <1>1, PageFields DEF CursorInv
<1>3. /\ Arrived \in Seq(EventRecs) /\ SubSeq(run.log, page.from + 1, page.seen + 1) = Held
      /\ page.from < page.seen => Arrived # << >> /\ Last(Arrived) = run.log[page.seen]
      /\ page.from = page.seen => Arrived = << >>
  <2> DEFINE a == SubSeq(run.log, page.from + 1, page.seen)
  <2>1. /\ a \in Seq(EventRecs)
        /\ SubSeq(run.log, page.from + 1, page.seen + 1) = Append(a, run.log[page.seen + 1])
        /\ page.from < page.seen => a # << >> /\ Last(a) = run.log[page.seen]
        /\ page.from = page.seen => a = << >>
    BY <1>2, ArrivedMore
  <2> QED BY <2>1 DEF Arrived, Held, Coming
<1>4. Coming \in EventRecs
  BY ComingId
<1>5. /\ Held \in Seq(EventRecs) /\ Len(Held) = Len(Arrived) + 1 /\ Len(Arrived) \in Nat /\ Held[Len(Arrived) + 1] = Coming
      /\ Coming.type = "delta" => Deltas(Held) = Append(Deltas(Arrived), Coming.id)
      /\ Coming.type # "delta" => Deltas(Held) = Deltas(Arrived)
  BY <1>3, <1>4, MarksAppend DEF Held
<1>6. Held # << >> /\ Last(Held) = Coming
  BY <1>5, SeqFacts
<1>7. ASSUME ~Interleaved(Held)
      PROVE  /\ Fits(page) /\ Growing(page) /\ Shown(page) = Deltas(Arrived)
             /\ Coming.type \in {"reasoning", "result", "denied"} => page.text = << >>
             /\ Coming.type = "call" => page.text = << >> \/ Coming.id \notin CardIds(page.blocks)
  <2>1. ~Interleaved(Arrived) /\ (Arrived # << >> /\ Last(Arrived).type = "delta" => Coming.type \notin {"reasoning", "result"})
    BY <1>3, <1>4, <1>7, InterleavedMore DEF Held
  <2>2. /\ Fits(page) /\ Growing(page) /\ Shown(page) = Deltas(Arrived)
        /\ page.text # << >> => Arrived # << >> /\ Last(Arrived).type = "delta"
    BY <1>1, <2>1 DEF TextInv
  <2>3. page.text # << >> => run.log[page.seen].type = "delta"
    BY <1>2, <1>3, <2>2
  <2>4. Coming.type = "denied" => page.text = << >>
    BY <2>3, ComingId
  <2>5. Coming.type = "call" => page.text = << >> \/ Coming.id = page.seen + 1
    BY <2>3, ComingId
  <2>6. Coming.id = page.seen + 1 => Coming.id \notin CardIds(page.blocks)
    <3>1. \A id \in CardIds(page.blocks) : id \in Nat /\ id <= page.seen
      BY ComingId
    <3> QED BY <1>2, <3>1
  <2> QED BY <2>1, <2>2, <2>4, <2>5, <2>6
<1> QED BY <1>3, <1>5, <1>6, <1>7

\* What the page has to have made of the event, for what it shows and for its cards.
ShowsIt(q) ==
    ~Interleaved(Held) =>
      /\ Growing(q) /\ Shown(q) = Deltas(Held)
      /\ q.pc = "open" => Fits(q) /\ (q.text # << >> => Coming.type = "delta")
HasCard(q) ==
    /\ OneCardEach(q.blocks)
    /\ CardIds(page.blocks) \subseteq CardIds(q.blocks)
    /\ CardIds(q.blocks) \subseteq CardIds(page.blocks) \cup (IF OfTool(Coming) THEN {Coming.id} ELSE {})
    /\ q.pc = "open" /\ page.from = 0 /\ OfTool(Coming) => Coming.id \in CardIds(q.blocks)
    /\ q.pc = "open" /\ page.from = 0 /\ Shuts(Coming) => Coming.id \in ClosedIds(q.blocks)
    /\ q.pc = "open" => ClosedIds(page.blocks) \ {Coming.id} \subseteq ClosedIds(q.blocks)
Asks(q) ==
    /\ q.ask \in {page.ask, NoAsk, <<run.turn, Coming.id>>}
    /\ Coming.type = "ask" => q.ask = <<run.turn, Coming.id>>
\* Nothing else has changed, but at the end of the turn.
Follows(q) ==
    /\ q.question = page.question /\ q.regenerate = page.regenerate /\ q.from = page.from /\ q.resumes = page.resumes
    /\ q.edit = page.edit /\ q.shown = page.shown
    /\ q.pc \in {"open", "saving"} /\ (q.retry = page.retry \/ q.retry # "send")

LEMMA ReadRest ==
    ASSUME ChatInv, page.pc = "open", page.seen < Len(run.log), UNCHANGED <<run, posts, db, hist, spent>>,
           NEW q \in Pages, ShowsIt(q), HasCard(q), Asks(q), Follows(q),
           page' = [q EXCEPT !.seen = page.seen + 1],
           ReplyInv', DoneInv', KeptInv'
    PROVE  ChatInv'
<1>1. /\ Records /\ IdsInv(run.log) /\ EndsInv /\ CursorInv /\ TextInv /\ CardInv /\ QuestionInv /\ AskInv
  BY DEF ChatInv
<1>2. /\ page.seen \in Nat /\ page.from \in Nat /\ page.from <= page.seen /\ Len(run.log) \in Nat /\ page.resumes <= MaxResumes
      /\ run.turn \in Nat /\ page.ask \in Nat \X Nat
  BY <1>1, PageFields DEF CursorInv
<1> DEFINE n == page.seen + 1
<1>3. page' \in Pages
  <2>1. n \in Nat
    BY <1>2
  <2> HIDE DEF n
  <2>2. page' = [q EXCEPT !.seen = n]
    BY DEF n
  <2> QED BY <2>1, <2>2 DEF Pages
<1>4. /\ page'.seen = n /\ page'.blocks = q.blocks /\ page'.text = q.text /\ page'.pc = q.pc
      /\ page'.question = q.question /\ page'.regenerate = q.regenerate /\ page'.from = q.from /\ page'.resumes = q.resumes
      /\ page'.edit = q.edit /\ page'.shown = q.shown /\ page'.retry = q.retry /\ page'.ask = q.ask
  BY DEF Pages
<1>5. Records' /\ IdsInv(run.log)' /\ EndsInv'
  <2>1. Records'
    BY <1>1, <1>3 DEF Records
  <2> QED BY <1>1, <2>1 DEF EndsInv, Waiting
<1>6. CursorInv'
  BY <1>1, <1>2, <1>4 DEF CursorInv, Follows
<1>7. Arrived' = Held
  <2>1. SubSeq(run.log, page.from + 1, page.seen + 1) = Held
    BY ComingText
  <2> QED BY <1>4, <2>1 DEF Arrived, Follows
<1>8. TextInv'
  <2>1. Growing(page') = Growing(q) /\ Fits(page') = Fits(q)
    BY <1>4 DEF Growing, Fits, LastIs
  <2>2. Growing(q) => Shown(page') = Shown(q)
    <3>1. SamePieces(q.blocks, page'.blocks)
      BY <1>4 DEF SamePieces
    <3> QED BY <1>3, <1>4, <3>1, ShownSame
  <2>3. Held # << >> /\ Last(Held) = Coming
    BY ComingText
  <2> QED BY <1>4, <1>7, <2>1, <2>2, <2>3 DEF TextInv, ShowsIt, Follows
<1>9. CardInv'
  <2>1. \A i \in 1 .. n : i \in 1 .. page.seen \/ (i = n /\ run.log[i] = Coming)
    BY <1>2 DEF Coming
  <2>2. \A i \in 1 .. page.seen : i \in 1 .. n /\ (Shuts(run.log[i]) => run.log[i].id # Coming.id)
    BY <1>2, ComingId
  <2>3. n \in 1 .. n /\ run.log[n] = Coming
    BY <1>2 DEF Coming
  <2> HIDE DEF n
  <2>4. ASSUME NEW id \in CardIds(q.blocks) PROVE \E i \in 1 .. n : run.log[i].id = id /\ OfTool(run.log[i])
    <3>1. CASE id \in CardIds(page.blocks)
      BY <1>1, <2>2, <3>1 DEF CardInv
    <3>2. CASE id \notin CardIds(page.blocks)
      BY <2>3, <2>4, <3>2 DEF HasCard
    <3> QED BY <3>1, <3>2
  <2>5. ASSUME page.from = 0, q.pc = "open", NEW i \in 1 .. n
        PROVE  /\ OfTool(run.log[i]) => run.log[i].id \in CardIds(q.blocks)
               /\ Shuts(run.log[i]) /\ ~hist.late => run.log[i].id \in ClosedIds(q.blocks)
    <3>1. CASE i \in 1 .. page.seen
      BY <1>1, <2>2, <2>5, <3>1 DEF CardInv, HasCard
    <3>2. CASE run.log[i] = Coming
      BY <2>5, <3>2 DEF HasCard
    <3> QED BY <2>1, <3>1, <3>2
  <2> QED BY <1>4, <2>4, <2>5 DEF CardInv, HasCard, Follows
<1>10. QuestionInv'
  BY <1>1, <1>4 DEF QuestionInv, Follows
<1>11. SavedInv'
  BY <1>4 DEF SavedInv, Follows
<1>12. AskInv'
  <2>1. Coming \in EventRecs /\ Coming.id <= n
    BY ComingId
  <2>2. Coming.id \in Nat /\ Coming.id <= Len(run.log)
    BY <1>2, <2>1 DEF EventRecs
  <2>3. page'.ask # NoAsk => page'.ask[1] <= run.turn /\ (page'.ask[1] = run.turn => page'.ask[2] <= Len(run.log))
    BY <1>1, <1>2, <1>4, <2>2 DEF AskInv, Asks
  <2>4. ASSUME run.pc = "question", n = Len(run.log) PROVE page'.ask = <<run.turn, run.tool>>
    <3>1. run.log[n].id = run.tool /\ run.log[n].type = "ask"
      BY <1>1, <2>4 DEF EndsInv, Waiting, WaitsWith
    <3> QED BY <1>4, <3>1 DEF Coming, Asks
  <2> QED BY <1>1, <1>4, <2>3, <2>4 DEF AskInv
<1> QED BY <1>5, <1>6, <1>8, <1>9, <1>10, <1>11, <1>12 DEF ChatInv

\* An event in the middle of a turn.
LEMMA ReadOn ==
    ASSUME ChatInv, page.pc = "open", page.seen < Len(run.log), UNCHANGED <<run, posts, db, hist, spent>>,
           NEW q \in Pages, Around(page, q), ShowsIt(q), HasCard(q), Asks(q),
           page' = [q EXCEPT !.seen = page.seen + 1]
    PROVE  ChatInv'
<1>1. ReplyInv /\ DoneInv /\ KeptInv
  BY DEF ChatInv
<1>2. /\ page'.pc = page.pc /\ page'.pending = page.pending /\ page'.drafts = page.drafts
      /\ page'.delivered = page.delivered /\ page'.shown = page.shown /\ page'.edit = page.edit
  BY DEF Around, Pages
<1>3. Follows(q)
  BY DEF Around, Follows
<1>4. ReplyInv' /\ KeptInv'
  BY <1>1, <1>2 DEF ReplyInv, KeptInv
<1>5. DoneInv'
  <2>1. Finished' = Finished /\ FinalReply' = FinalReply
    BY DEF Finished, FinalReply
  <2> QED BY <1>1, <1>2, <2>1 DEF DoneInv
<1> QED BY <1>3, <1>4, <1>5, ReadRest

LEMMA EventOn ==
    ASSUME ChatInv, page.pc = "open", page.seen < Len(run.log), ~Ends(Coming)
    PROVE  LET q == Apply(page, Coming) IN q \in Pages /\ Around(page, q) /\ ShowsIt(q) /\ HasCard(q) /\ Asks(q)
<1> DEFINE e == Coming
           q == Apply(page, Coming)
<1>1. Records /\ CardInv
  BY DEF ChatInv
<1>2. page \in Pages /\ run.turn \in Nat /\ OneCardEach(page.blocks) /\ page.seen \in Nat
  BY <1>1, PageFields DEF Records, CardInv
<1>3. /\ e \in EventRecs /\ e.id > 0 /\ e.type \in Events \ {"done", "error"}
      /\ e.type \in {"pending", "ask"} => e.id = page.seen + 1
      /\ \A id \in CardIds(page.blocks) : id \in Nat /\ id <= page.seen
  BY ComingId DEF Ends, EventRecs
<1>4. e.id = page.seen + 1 => e.id \notin CardIds(page.blocks)
  BY <1>2, <1>3
<1>5. /\ e.type = "delta" => Deltas(Held) = Append(Deltas(Arrived), e.id)
      /\ e.type # "delta" => Deltas(Held) = Deltas(Arrived)
      /\ ~Interleaved(Held) =>
           /\ Fits(page) /\ Growing(page) /\ Shown(page) = Deltas(Arrived)
           /\ e.type \in {"reasoning", "result", "denied"} => page.text = << >>
           /\ e.type = "call" => page.text = << >> \/ e.id \notin CardIds(page.blocks)
  BY ComingText
<1>6. \A p : Fits(p) => Growing(p)
  BY DEF Fits, Growing
<1>8. CASE e.type = "reasoning"
  <2>1. q = OnReasoning(page, e)
    BY <1>8 DEF Apply
  <2> HIDE DEF q, e
  <2>2. /\ q \in Pages /\ Beside(page, q)
        /\ SameIds(page.blocks, q.blocks) /\ SameClosed(page.blocks, q.blocks)
        /\ Fits(page) /\ page.text = << >> => Rests(page, q)
    BY <1>2, <1>3, <2>1, OnReasoningEffect
  <2>3. ShowsIt(q)
    BY <1>5, <1>6, <1>8, <2>2 DEF ShowsIt, Rests
  <2>4. HasCard(q)
    BY <1>2, <1>8, <2>2 DEF HasCard, SameIds, SameClosed, OfTool, Opens, Shuts, e
  <2>5. Asks(q)
    BY <1>8, <2>2 DEF Asks, Beside, e
  <2> QED BY <2>2, <2>3, <2>4, <2>5, BesideIsAround DEF q, e
<1>9. CASE e.type = "delta"
  <2>1. q = OnDelta(page, e)
    BY <1>9 DEF Apply
  <2> HIDE DEF q, e
  <2>2. /\ q \in Pages /\ Beside(page, q)
        /\ SameIds(page.blocks, q.blocks) /\ SameClosed(page.blocks, q.blocks)
        /\ Fits(page) => Fits(q) /\ q.text # << >> /\ Shown(q) = Append(Shown(page), e.id)
    BY <1>2, <1>3, <2>1, OnDeltaEffect
  <2>3. ShowsIt(q)
    BY <1>5, <1>6, <1>9, <2>2 DEF ShowsIt, e
  <2>4. HasCard(q)
    BY <1>2, <1>9, <2>2 DEF HasCard, SameIds, SameClosed, OfTool, Opens, Shuts, e
  <2>5. Asks(q)
    BY <1>9, <2>2 DEF Asks, Beside, e
  <2> QED BY <2>2, <2>3, <2>4, <2>5, BesideIsAround DEF q, e
<1>10. CASE e.type = "pending"
  <2>1. q = OnPending(page, e)
    BY <1>10 DEF Apply
  <2> HIDE DEF q, e
  <2>2. /\ q \in Pages /\ Beside(page, q)
        /\ OneMore(page.blocks, q.blocks, e.id) /\ SameClosed(page.blocks, q.blocks)
        /\ Fits(page) => Rests(page, q)
    BY <1>2, <1>3, <2>1, OnPendingEffect
  <2>3. ShowsIt(q)
    BY <1>5, <1>6, <1>10, <2>2 DEF ShowsIt, Rests
  <2>4. HasCard(q)
    BY <1>2, <1>3, <1>4, <1>10, <2>2 DEF HasCard, OneMore, SameClosed, OfTool, Opens, Shuts, e
  <2>5. Asks(q)
    BY <1>10, <2>2 DEF Asks, Beside, e
  <2> QED BY <2>2, <2>3, <2>4, <2>5, BesideIsAround DEF q, e
<1>11. CASE e.type = "ask"
  <2>1. q = OnAsk(page, e)
    BY <1>11 DEF Apply
  <2> HIDE DEF q, e
  <2>2. /\ q \in Pages /\ Around(page, q) /\ q.ask = <<run.turn, e.id>>
        /\ OneMore(page.blocks, q.blocks, e.id) /\ SameClosed(page.blocks, q.blocks)
        /\ Fits(page) => Rests(page, q)
    BY <1>2, <1>3, <2>1, OnAskEffect
  <2>3. ShowsIt(q)
    BY <1>5, <1>6, <1>11, <2>2 DEF ShowsIt, Rests
  <2>4. HasCard(q)
    BY <1>2, <1>3, <1>4, <1>11, <2>2 DEF HasCard, OneMore, SameClosed, OfTool, Opens, Shuts, e
  <2>5. Asks(q)
    BY <2>2 DEF Asks, e
  <2> QED BY <2>2, <2>3, <2>4, <2>5 DEF q, e
<1>12. CASE e.type = "call"
  <2>1. q = OnCall(page, e)
    BY <1>12 DEF Apply
  <2> HIDE DEF q, e
  <2>2. /\ q \in Pages /\ Beside(page, q)
        /\ CardIds(q.blocks) = CardIds(page.blocks) \cup {e.id}
        /\ OneCardEach(page.blocks) /\ e.id > 0 => OneCardEach(q.blocks)
        /\ ClosedIds(page.blocks) \ {e.id} \subseteq ClosedIds(q.blocks)
        /\ Fits(page) => Fits(q) /\ Shown(q) = Shown(page)
        /\ page.text = << >> \/ e.id \notin CardIds(page.blocks) => q.text = << >>
    BY <1>2, <1>3, <2>1, OnCallEffect
  <2>3. ShowsIt(q)
    BY <1>5, <1>6, <1>12, <2>2 DEF ShowsIt
  <2>4. HasCard(q)
    BY <1>2, <1>3, <1>12, <2>2 DEF HasCard, OfTool, Opens, Shuts, e
  <2>5. Asks(q)
    BY <1>12, <2>2 DEF Asks, Beside, e
  <2> QED BY <2>2, <2>3, <2>4, <2>5, BesideIsAround DEF q, e
<1>13. CASE e.type = "result"
  <2>1. q = OnResult(page, e)
    BY <1>13 DEF Apply
  <2> HIDE DEF q, e
  <2>2. /\ q \in Pages /\ Around(page, q) /\ q.ask = IF e.asked THEN NoAsk ELSE page.ask
        /\ CardIds(q.blocks) = CardIds(page.blocks) \cup {e.id}
        /\ OneCardEach(page.blocks) /\ e.id > 0 => OneCardEach(q.blocks)
        /\ ClosedIds(page.blocks) \cup {e.id} \subseteq ClosedIds(q.blocks)
        /\ Fits(page) /\ page.text = << >> => Rests(page, q)
    BY <1>2, <1>3, <2>1, OnResultEffect
  <2>3. ShowsIt(q)
    BY <1>5, <1>6, <1>13, <2>2 DEF ShowsIt, Rests
  <2>4. HasCard(q)
    BY <1>2, <1>3, <1>13, <2>2 DEF HasCard, OfTool, Opens, Shuts, e
  <2>5. Asks(q)
    BY <1>13, <2>2 DEF Asks, e
  <2> QED BY <2>2, <2>3, <2>4, <2>5 DEF q, e
<1>14. CASE e.type = "denied"
  <2>1. q = SetStatus(page, e.id, "denied")
    BY <1>14 DEF Apply
  <2>2. page.from = 0 => e.id \in CardIds(page.blocks)
    <3>1. page.seen \in 1 .. Len(run.log) /\ run.log[page.seen].type = "pending" /\ run.log[page.seen].id = e.id
      BY <1>14, ComingId
    <3>2. page.seen \in 1 .. page.seen
      BY <1>2, <3>1
    <3> QED BY <1>1, <3>1, <3>2 DEF CardInv, OfTool, Opens
  <2> HIDE DEF q, e
  <2>3. /\ q \in Pages /\ Beside(page, q) /\ q.text = page.text /\ SameIds(page.blocks, q.blocks)
        /\ ClosedIds(page.blocks) \subseteq ClosedIds(q.blocks)
        /\ e.id \in CardIds(page.blocks) => e.id \in ClosedIds(q.blocks)
        /\ Fits(page) => Fits(q) /\ Shown(q) = Shown(page)
    BY <1>2, <1>3, <2>1, OnDeniedEffect
  <2>4. ShowsIt(q)
    BY <1>5, <1>6, <1>14, <2>3 DEF ShowsIt
  <2>5. HasCard(q)
    BY <1>2, <1>3, <1>14, <2>2, <2>3 DEF HasCard, SameIds, OfTool, Opens, Shuts, e
  <2>6. Asks(q)
    BY <1>14, <2>3 DEF Asks, Beside, e
  <2> QED BY <2>3, <2>4, <2>5, <2>6, BesideIsAround DEF q, e
<1> QED BY <1>3, <1>8, <1>9, <1>10, <1>11, <1>12, <1>13, <1>14 DEF Events

(* done: the draft the page keeps has what the log has.                      *)
LEMMA ReadDone ==
    ASSUME ChatInv, page.pc = "open", page.seen < Len(run.log), Coming.type = "done",
           UNCHANGED <<run, posts, db, hist, spent>>,
           page' = [OnDone(page, Coming) EXCEPT !.seen = page.seen + 1]
    PROVE  ChatInv'
<1> DEFINE q == OnDone(page, Coming)
<1>1. /\ Records /\ EndsInv /\ CursorInv /\ TextInv /\ CardInv /\ ReplyInv /\ DoneInv /\ KeptInv
  BY DEF ChatInv
<1>2. /\ page \in Pages /\ run.turn \in Nat /\ OneCardEach(page.blocks) /\ page.seen \in Nat
      /\ run.log \in Seq(EventRecs) /\ Len(run.log) \in Nat /\ page.drafts \subseteq Drafts
      /\ hist.cut \in Nat /\ hist.cut <= run.turn
  BY <1>1, PageFields DEF Records, CardInv, CursorInv
<1>3. /\ q \in Pages /\ Behind(page, q) /\ q.pc = "saving" /\ q.pending = TRUE /\ q.retry = "none" /\ q.text = << >>
      /\ SameIds(page.blocks, q.blocks) /\ SameClosed(page.blocks, q.blocks)
      /\ Growing(page) => Shown(q) = Shown(page)
      /\ \/ q.drafts = page.drafts /\ q.delivered = page.delivered
         \/ /\ q.delivered = page.delivered \cup {run.turn}
            /\ \E d \in Drafts : /\ q.drafts = {c \in page.drafts : c.turn # run.turn} \cup {d}
                                 /\ d.turn = run.turn /\ d.tools = ClosedIds(page.blocks)
                                 /\ Growing(page) => d.text = Shown(page)
  BY <1>2, OnDoneEffect
<1>4. page' = [q EXCEPT !.seen = page.seen + 1]
  OBVIOUS
<1> HIDE DEF q
<1>5. /\ page'.pc = "saving" /\ page'.pending = TRUE /\ page'.drafts = q.drafts /\ page'.delivered = q.delivered
      /\ page'.shown = page.shown /\ page'.edit = page.edit
  BY <1>3, <1>4 DEF Pages, Behind
<1>6. /\ Deltas(Held) = Deltas(Arrived) /\ SubSeq(run.log, page.from + 1, page.seen + 1) = Held
      /\ ~Interleaved(Held) => Growing(page) /\ Shown(page) = Deltas(Arrived)
  BY ComingText
<1>7. ShowsIt(q)
  BY <1>3, <1>6 DEF ShowsIt, Growing
<1>8. HasCard(q) /\ Asks(q) /\ Follows(q)
  BY <1>2, <1>3 DEF HasCard, Asks, Follows, Behind, SameIds
\* It is the last event of the log.
<1>9. page.seen + 1 = Len(run.log) /\ run.pc = "over" /\ run.log[Len(run.log)].type = "done"
  <2>1. page.seen + 1 \in 1 .. Len(run.log)
    BY <1>2
  <2> QED BY <1>1, <2>1 DEF EndsInv, Coming, Ends
<1>10. ASSUME hist.cut < run.turn
       PROVE  /\ Held = run.log /\ page.from = 0
              /\ ~hist.late => ClosedIds(page.blocks) = Calls(run.log)
  <2>1. page.from = 0
    BY <1>1, <1>2, <1>10 DEF CursorInv
  <2>2. Held = run.log
    <3>1. SubSeq(run.log, 1, Len(run.log)) = run.log
      BY <1>2, SubSeqFull
    <3>2. page.from + 1 = 1
      BY <2>1
    <3> QED BY <1>6, <1>9, <3>1, <3>2
  <2>3. ASSUME ~hist.late, NEW id \in Calls(run.log) PROVE id \in ClosedIds(page.blocks)
    <3>1. PICK i \in 1 .. Len(run.log) : run.log[i].id = id /\ Shuts(run.log[i])
      <4>1. DOMAIN run.log = 1 .. Len(run.log)
        BY <1>2, SeqFacts
      <4> QED BY <4>1 DEF Calls, Shuts
    <3>2. i # Len(run.log)
      BY <1>9, <3>1 DEF Shuts
    <3>3. i \in 1 .. page.seen
      BY <1>2, <1>9, <3>1, <3>2
    <3> QED BY <1>1, <2>1, <2>3, <3>1, <3>3 DEF CardInv
  <2>4. ASSUME NEW id \in ClosedIds(page.blocks) PROVE id \in Calls(run.log)
    <3>1. id \in CardIds(page.blocks)
      BY <1>2, IdsAreNumbers
    <3>2. PICK i \in 1 .. page.seen : run.log[i].id = id /\ OfTool(run.log[i])
      BY <1>1, <3>1 DEF CardInv
    <3>3. i \in 1 .. Len(run.log)
      BY <1>2, <1>9
    <3>4. CASE Shuts(run.log[i])
      BY <1>2, <3>2, <3>3, <3>4, InCalls
    <3>5. CASE Opens(run.log[i])
      BY <1>1, <1>9, <3>2, <3>3, <3>5 DEF EndsInv, Waiting
    <3> QED BY <3>2, <3>4, <3>5 DEF OfTool
  <2> QED BY <2>1, <2>2, <2>3, <2>4
<1>11. ReplyInv'
  <2>1. ASSUME NEW d \in page'.drafts
        PROVE  /\ d.turn <= run.turn
               /\ d.turn = run.turn /\ hist.cut < run.turn =>
                    /\ Interleaved(run.log) \/ d.text = Deltas(run.log)
                    /\ hist.late \/ d.tools = Calls(run.log)
    <3>1. CASE d \in page.drafts
      BY <1>1, <1>9, <3>1 DEF ReplyInv
    <3>2. CASE d \notin page.drafts
      <4>1. d.turn = run.turn /\ d.tools = ClosedIds(page.blocks) /\ (Growing(page) => d.text = Shown(page))
        BY <1>3, <1>5, <2>1, <3>2
      <4>2. hist.cut < run.turn => Interleaved(run.log) \/ d.text = Deltas(run.log)
        BY <1>6, <1>10, <4>1
      <4>3. hist.cut < run.turn => hist.late \/ d.tools = Calls(run.log)
        BY <1>10, <4>1
      <4> QED BY <1>2, <4>1, <4>2, <4>3
    <3> QED BY <3>1, <3>2
  <2> QED BY <1>1, <1>9, <2>1 DEF ReplyInv
<1>12. DoneInv'
  <2>1. Finished' = Finished /\ FinalReply' = FinalReply /\ Finished
    BY <1>9 DEF Finished, FinalReply
  <2> QED BY <1>1, <1>5, <2>1 DEF DoneInv
<1>13. KeptInv'
  <2> SUFFICES ASSUME page.edit # "reset", NEW t \in page'.delivered
               PROVE  t \in Turns(page'.drafts) \/ (t \in Turns(page.shown.replies) /\ t \in Turns(db.replies))
    BY <1>5 DEF KeptInv
  <2>1. CASE t \in page.delivered /\ t # run.turn
    <3>1. t \in Turns(page.drafts) \/ (t \in Turns(page.shown.replies) /\ t \in Turns(db.replies))
      BY <1>1, <2>1 DEF KeptInv
    <3>2. ASSUME NEW c \in page.drafts, c.turn # run.turn PROVE c \in page'.drafts
      BY <1>3, <1>5, <3>2
    <3> QED BY <2>1, <3>1, <3>2 DEF Turns
  <2>2. CASE q.drafts = page.drafts /\ q.delivered = page.delivered
    BY <1>1, <1>5, <2>2 DEF KeptInv
  <2>3. CASE t = run.turn /\ \E d \in Drafts : d \in q.drafts /\ d.turn = run.turn
    BY <1>5, <2>3 DEF Turns
  <2> QED BY <1>3, <1>5, <2>1, <2>2, <2>3
<1> QED BY <1>3, <1>4, <1>7, <1>8, <1>11, <1>12, <1>13, ReadRest

LEMMA ReadError ==
    ASSUME ChatInv, page.pc = "open", page.seen < Len(run.log), Coming.type = "error",
           UNCHANGED <<run, posts, db, hist, spent>>,
           page' = [OnError(page, Coming) EXCEPT !.seen = page.seen + 1]
    PROVE  ChatInv'
<1> DEFINE q == OnError(page, Coming)
<1>1. /\ Records /\ CardInv /\ ReplyInv /\ DoneInv /\ KeptInv
  BY DEF ChatInv
<1>2. page \in Pages /\ OneCardEach(page.blocks)
  BY <1>1 DEF Records, CardInv
<1>3. /\ q \in Pages /\ Behind(page, q) /\ q.pc = "saving" /\ q.pending = page.pending /\ q.retry = "regenerate"
      /\ q.text = page.text /\ q.blocks = page.blocks /\ q.drafts = page.drafts /\ q.delivered = page.delivered
  BY <1>2, OnErrorEffect
<1>4. page' = [q EXCEPT !.seen = page.seen + 1]
  OBVIOUS
<1> HIDE DEF q
<1>5. /\ page'.pc = "saving" /\ page'.pending = page.pending /\ page'.drafts = page.drafts /\ page'.delivered = page.delivered
      /\ page'.shown = page.shown /\ page'.edit = page.edit
  BY <1>3, <1>4 DEF Pages, Behind
<1>6. ShowsIt(q)
  <2>1. Deltas(Held) = Deltas(Arrived) /\ (~Interleaved(Held) => Growing(page) /\ Shown(page) = Deltas(Arrived))
    BY ComingText
  <2>2. SamePieces(page.blocks, q.blocks)
    BY <1>3 DEF SamePieces
  <2>3. Growing(page) => Growing(q) /\ Shown(q) = Shown(page)
    BY <1>2, <1>3, <2>2, ShownSame
  <2> QED BY <1>3, <2>1, <2>3 DEF ShowsIt
<1>7. HasCard(q) /\ Asks(q) /\ Follows(q)
  BY <1>2, <1>3 DEF HasCard, Asks, Follows, Behind
<1>8. ReplyInv' /\ KeptInv'
  BY <1>1, <1>5 DEF ReplyInv, KeptInv
<1>9. DoneInv'
  <2>1. Finished' = Finished /\ FinalReply' = FinalReply
    BY DEF Finished, FinalReply
  <2> QED BY <1>1, <1>5, <2>1 DEF DoneInv
<1> QED BY <1>3, <1>4, <1>6, <1>7, <1>8, <1>9, ReadRest

LEMMA ReadStep == ASSUME ChatInv, Read PROVE ChatInv'
<1>1. /\ page.pc = "open" /\ page.seen < Len(run.log) /\ UNCHANGED <<run, posts, db, hist, spent>>
      /\ page' = [Apply(page, Coming) EXCEPT !.seen = page.seen + 1]
  BY DEF Read, Coming
<1>2. CASE Coming.type = "done"
  <2>1. Apply(page, Coming) = OnDone(page, Coming)
    BY <1>2 DEF Apply
  <2> QED BY <1>1, <1>2, <2>1, ReadDone
<1>3. CASE Coming.type = "error"
  <2>1. Apply(page, Coming) = OnError(page, Coming)
    BY <1>3 DEF Apply
  <2> QED BY <1>1, <1>3, <2>1, ReadError
<1>4. CASE ~Ends(Coming)
  BY <1>1, <1>4, EventOn, ReadOn
<1> QED BY <1>2, <1>3, <1>4 DEF Ends

-----------------------------------------------------------------------------
(* The invariant. *)

LEMMA ChatInit == Init => ChatInv
<1> SUFFICES ASSUME Init PROVE ChatInv
  OBVIOUS
<1>1. /\ run = [turn |-> 0, pc |-> "idle", log |-> << >>, tool |-> None, decision |-> "none"]
      /\ page = Fresh /\ posts = {} /\ db = [questions |-> << >>, replies |-> {}]
      /\ hist = [late |-> FALSE, refused |-> FALSE, cut |-> 0, unsaved |-> 0] /\ spent = [faults |-> 0, edits |-> 0]
  BY DEF Init
<1>2. /\ << >> \in Seq(EventRecs) /\ << >> \in Seq(BlockRecs) /\ << >> \in Seq(Nat) /\ Len(<< >>) = 0
      /\ {MaxTurns, MaxEvents, MaxResumes, MaxFaults, MaxEdits} \subseteq Nat
  BY EmptySeq, ChatPageAssumption
<1>3. db \in Rows /\ db.questions = << >> /\ db.replies = {}
  BY <1>1, <1>2 DEF Rows
<1>4. /\ page.pc = "idle" /\ page.question = 0 /\ page.blocks = << >> /\ page.text = << >> /\ page.from = 0 /\ page.seen = 0
      /\ page.resumes = 0 /\ page.pending = FALSE /\ page.retry = "none" /\ page.ask = NoAsk /\ page.edit = "none"
      /\ page.drafts = {} /\ page.delivered = {} /\ page.shown = [questions |-> << >>, replies |-> {}]
      /\ page.shown = db
  BY <1>1 DEF Fresh
<1>5. page \in Pages
  <2>1. [questions |-> << >>, replies |-> {}] \in Rows /\ NoAsk \in Nat \X Nat /\ NoLimit \in Int
    BY <1>2 DEF Rows, NoAsk, NoLimit
  <2>2. {} \in SUBSET Drafts /\ {} \in SUBSET Nat
    OBVIOUS
  <2> QED BY <1>1, <1>2, <2>1, <2>2 DEF Fresh, Pages, PagePc, Intents
<1>6. run \in Runs /\ run.turn = 0 /\ run.pc = "idle" /\ run.log = << >> /\ run.decision = "none"
  BY <1>1, <1>2 DEF Runs, RunPc, None
<1>7. Records
  <2>1. 0 \in 0 .. MaxFaults /\ 0 \in 0 .. MaxEdits /\ 0 <= MaxTurns
    BY <1>2
  <2>2. spent \in [faults : 0 .. MaxFaults, edits : 0 .. MaxEdits]
    BY <1>1, <2>1
  <2>3. hist \in Pasts
    BY <1>1 DEF Pasts
  <2> QED BY <1>1, <1>3, <1>5, <1>6, <2>1, <2>2, <2>3 DEF Records
<1>8. IdsInv(run.log) /\ EndsInv
  BY <1>2, <1>6 DEF IdsInv, EndsInv, Waiting
<1>9. hist.cut = 0 /\ Len(run.log) = 0 /\ Len(db.questions) = 0
  BY <1>1, <1>2, <1>3, <1>6
<1>10. CursorInv
  BY <1>2, <1>4, <1>6, <1>9 DEF CursorInv, Over
<1>11. TextInv /\ SavedInv
  BY <1>4 DEF TextInv, SavedInv
<1>12. CardInv
  BY <1>4, NoCards DEF CardInv
<1>13. ReplyInv /\ DoneInv /\ KeptInv
  BY <1>3, <1>4, <1>6 DEF ReplyInv, DoneInv, KeptInv, Finished
<1>14. QuestionInv /\ AskInv
  BY <1>1, <1>3, <1>4, <1>6, <1>9 DEF QuestionInv, AskInv
<1> QED BY <1>7, <1>8, <1>10, <1>11, <1>12, <1>13, <1>14 DEF ChatInv

LEMMA ChatStill == ASSUME ChatInv, UNCHANGED vars PROVE ChatInv'
<1>1. UNCHANGED <<page, db, hist, spent>> /\ run' = run /\ posts' = posts
  BY DEF vars
<1>2. Records' /\ AskInv'
  BY <1>1 DEF ChatInv, Records, AskInv
<1> QED BY <1>1, <1>2, DecisionRest

LEMMA ChatNext == ChatInv /\ [Next]_vars => ChatInv'
<1> SUFFICES ASSUME ChatInv, [Next]_vars PROVE ChatInv'
  OBVIOUS
<1>1. CASE RunStep
  BY <1>1, RunSteps
<1>2. CASE PageStep
  BY <1>2, OpenStep, ReadStep, LineSteps, SaveStep, RefreshStep, ResetStep, ReloadStep, AskAgainStep DEF PageStep
<1>3. CASE PostReturns \/ PostFails
  BY <1>3, ReturnStep, PostFailsStep
<1>4. CASE Send \/ Retry \/ OpenRefused
  BY <1>4, BeginStep, RefusedStep
<1>5. CASE Animate \/ LineBreaks \/ Stop
  BY <1>5, AnimateStep, LineSteps, StopStep
<1>6. CASE Decide("approve") \/ Decide("deny")
  BY <1>6, DecideStep
<1>7. CASE Answer \/ Edit
  BY <1>7, AnswerPost, EditStep
<1>8. CASE UNCHANGED vars
  BY <1>8, ChatStill
<1> QED BY <1>1, <1>2, <1>3, <1>4, <1>5, <1>6, <1>7, <1>8 DEF Next

LEMMA ChatInvariance == Spec => []ChatInv
BY ChatInit, ChatNext, PTL DEF Spec

-----------------------------------------------------------------------------
(* What follows from it. *)

LEMMA TypesFollow == ChatInv => TypeOK
<1> SUFFICES ASSUME ChatInv PROVE TypeOK
  OBVIOUS
<1>1. Records /\ IdsInv(run.log) /\ CursorInv /\ CardInv
  BY DEF ChatInv
<1>2. /\ run \in Runs /\ page \in Pages /\ run.turn <= MaxTurns /\ MaxTurns \in Nat /\ MaxResumes \in Nat
      /\ spent \in [faults : 0 .. MaxFaults, edits : 0 .. MaxEdits] /\ run.log \in Seq(EventRecs) /\ Len(run.log) \in Nat
      /\ page.from \in Nat /\ page.seen \in Nat /\ page.resumes \in Nat
  BY <1>1, PageFields, ChatPageAssumption DEF Records
<1>3. run.pc \in RunPc /\ run.turn \in 0..MaxTurns /\ run.decision \in {"none", "approve", "deny", "answer"}
  BY <1>2 DEF Runs
<1>4. \A i \in DOMAIN run.log : run.log[i].type \in Events /\ run.log[i].id \in 0..Len(run.log)
  <2> SUFFICES ASSUME NEW i \in DOMAIN run.log PROVE run.log[i].type \in Events /\ run.log[i].id \in 0..Len(run.log)
    OBVIOUS
  <2>1. i \in 1 .. Len(run.log) /\ run.log[i] \in EventRecs
    BY <1>2, SeqFacts
  <2>2. run.log[i].id <= i
    BY <1>1, <2>1 DEF IdsInv
  <2> QED BY <1>2, <2>1, <2>2 DEF EventRecs
<1>5. page.pc \in PagePc /\ page.retry \in Intents /\ page.edit \in {"none", "reset", "reload"}
  BY <1>2 DEF Pages
<1>6. page.seen \in 0..Len(run.log) /\ page.from \in 0..Len(run.log) /\ page.resumes \in 0..MaxResumes
  BY <1>1, <1>2 DEF CursorInv
<1>7. \A i \in DOMAIN page.blocks : page.blocks[i].kind \in Kinds /\ page.blocks[i].status \in Status
  BY <1>2, BlocksOfPage DEF BlockRecs
<1>8. \A i, j \in DOMAIN page.blocks : i # j /\ page.blocks[i].kind = "tool" => page.blocks[i].id # page.blocks[j].id
  <2>1. DOMAIN page.blocks = 1 .. Len(page.blocks)
    BY <1>2, BlocksOfPage
  <2> QED BY <1>1, <2>1 DEF CardInv, OneCardEach, Card
<1>9. spent.faults \in 0..MaxFaults /\ spent.edits \in 0..MaxEdits
  BY <1>2
<1> QED BY <1>3, <1>4, <1>5, <1>6, <1>7, <1>8, <1>9 DEF TypeOK

LEMMA RepliesFollow == ChatInv => PageShowsTheReply
<1> SUFFICES ASSUME ChatInv PROVE ShownIsWhatArrived /\ DraftMatchesReply
  BY DEF PageShowsTheReply
<1>1. ShownIsWhatArrived
  BY TypesFollow DEF ShownIsWhatArrived, ChatInv, TextInv, Shown
<1>2. DraftMatchesReply
  BY DEF DraftMatchesReply, ChatInv, ReplyInv
<1> QED BY <1>1, <1>2

LEMMA TalkFollows == ChatInv => TalkIsKept
<1> SUFFICES ASSUME ChatInv PROVE ReplyStaysVisible /\ PartialIsSaved /\ QuestionStoredOnce
  BY DEF TalkIsKept
<1>1. ReplyStaysVisible
  <2> SUFFICES ASSUME page.edit = "none", NEW t \in page.delivered
               PROVE  t \in Turns(page.shown.replies) \cup Turns(page.drafts)
    BY DEF ReplyStaysVisible
  <2> QED BY DEF ChatInv, KeptInv
<1>2. PartialIsSaved
  BY DEF PartialIsSaved, ChatInv, SavedInv
<1>3. QuestionStoredOnce
  <2>1. DOMAIN db.questions = 1 .. Len(db.questions)
    BY PageFields, SeqFacts DEF ChatInv
  <2> QED BY <2>1 DEF QuestionStoredOnce, ChatInv, QuestionInv
<1> QED BY <1>1, <1>2, <1>3

-----------------------------------------------------------------------------

\* The page shows the reply the server made: its text blocks are the text events that have arrived, each once and
\* in order, whatever approvals, questions, stops, broken lines and typewriter frames come between; a call has one
\* card; and a draft that stands in for the row (OnDone) has the row's text and tool calls.
THEOREM PageAlwaysShowsTheReply == Spec => []PageShowsTheReply
BY ChatInvariance, RepliesFollow, PTL

\* What was said is kept: a reply that was on the page stays there through failed reloads, a turn that ends without
\* its reply leaves what arrived of it in the database, and a retry does not store the question again.
THEOREM TalkIsAlwaysKept == Spec => []TalkIsKept
BY ChatInvariance, TalkFollows, PTL

\* A question the run waits on, once read, can be answered from the page, unless an earlier answer's response came
\* late and cleared it.
THEOREM QuestionsStayAnswerable == Spec => []QuestionAnswerable
<1>1. ChatInv => QuestionAnswerable
  BY DEF ChatInv, AskInv, QuestionAnswerable
<1> QED BY ChatInvariance, <1>1, PTL
=============================================================================
