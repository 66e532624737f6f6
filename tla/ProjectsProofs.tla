--------------------------- MODULE ProjectsProofs ---------------------------
(***************************************************************************)
(* Proofs about projects, for every set of projects, remotes, deletions,   *)
(* calls and names.  First the artifact store alone: its histories are     *)
(* gapless with the pointer at their end, and the answers of its calls are *)
(* borne out by them.  Then the files: directories and sidecar rows follow *)
(* the rows of projects.  Last, projects implement the store they hold, so *)
(* what was shown of the store alone holds while they come and go.         *)
(***************************************************************************)
EXTENDS Projects, TLAPS

-----------------------------------------------------------------------------
(* The artifact store alone. *)

\* An artifact has the name of the call that made it, and that call is over: the name
\* is never given again, so an edit that has found its artifact works on this one or
\* on none.
NamesAreUsedOnce ==
    /\ \A a \in Calls : Store!Exists(a) => at[a] = "saved" /\ asked[a] \in Store!Creates
    /\ \A c \in Calls : asked[c] \in Store!Edits =>
         at[asked[c].on] = "saved" /\ asked[asked[c].on] \in Store!Creates
    /\ \A v \in versions : Store!Exists(v.of) /\ at[v.by] = "saved"
    /\ \A c \in Calls : at[c] \in {"idle"} \cup Store!Creating => asked[c] \notin Store!Edits

\* The history of an artifact, as CurrentIsNewest has it, with its keys unique.
HistoryIsGapless ==
    /\ Store!CurrentIsNewest
    /\ \A v, w \in versions : v.of = w.of /\ v.seq = w.seq => v = w

\* A call that is about to append has read a number that was in the history then, and
\* is there as long as the artifact is.
NextIsAtMostNew ==
    \A c \in Calls : at[c] = "append" /\ Store!Exists(asked[c].on) =>
        asked[c].seq > 1 /\ asked[c].seq - 1 \in Store!SeqsOf(asked[c].on)

\* What a call writes is its own text or the one it was sent back to.
TextIsGiven ==
    \A c \in Calls : asked[c] \in Store!Edits =>
        /\ asked[c].back = 0 => asked[c].text = c
        /\ asked[c].back > 0 /\ at[c] \in {"max", "append", "saved"} /\ Store!Exists(asked[c].on) =>
             \E t \in versions : t.of = asked[c].on /\ t.seq = asked[c].back /\ t.text = asked[c].text

\* What was saved is there as long as the artifact is.
SavedIsThere ==
    \A c \in Calls : at[c] = "saved" =>
        /\ asked[c] \in Store!Creates /\ Store!Exists(c) =>
             [of |-> c, seq |-> 1, text |-> c, by |-> c] \in versions
        /\ asked[c] \in Store!Edits /\ Store!Exists(asked[c].on) =>
             [of |-> asked[c].on, seq |-> asked[c].seq, text |-> asked[c].text, by |-> c] \in versions

StoreInv ==
    Store!TypeOK /\ NamesAreUsedOnce /\ HistoryIsGapless /\ NextIsAtMostNew /\ TextIsGiven /\ SavedIsThere

(* A request to make an artifact and one to edit it are told apart. *)
LEMMA RequestsDiffer ==
    /\ \A x \in Store!Creates : x \notin Store!Edits
    /\ Store!NoRow \notin Store!Creates /\ Store!NoRow \notin Store!Edits /\ Store!NoRow \notin Store!Rows
<1>1. ASSUME NEW x \in Store!Creates, x \in Store!Edits PROVE FALSE
  <2>1. DOMAIN x = {"scope", "slug"}
    BY <1>1 DEF Store!Creates
  <2>2. DOMAIN x = {"on", "back", "seq", "text"}
    BY <1>1 DEF Store!Edits
  <2> QED BY <2>1, <2>2
<1>2. Store!NoRow \notin Store!Creates
  BY DEF Store!Creates, Store!NoRow
<1>3. Store!NoRow \notin Store!Edits
  BY DEF Store!Edits, Store!NoRow
<1>4. Store!NoRow \notin Store!Rows
  BY DEF Store!Rows, Store!NoRow
<1> QED BY <1>1, <1>2, <1>3, <1>4

(* max(seq) + 1 is the first number after a gapless history.                *)
LEMMA NextFollows ==
    ASSUME NEW a, NEW n \in Nat, Store!SeqsOf(a) = 1..n
    PROVE  Store!NextSeq(a) = n + 1
<1>1. \A k \in Nat : Store!Max({0} \cup 1..k) = k
  BY DEF Store!Max
<1> QED BY <1>1 DEF Store!NextSeq

(* The numbers of an artifact are 1..n, and none once it is gone.           *)
LEMMA HistoryLength ==
    ASSUME StoreInv, NEW a \in Calls
    PROVE  \E n \in Nat : Store!SeqsOf(a) = 1..n /\ Store!NextSeq(a) = n + 1 /\ (Store!Exists(a) <=> n > 0)
<1>1. CASE Store!Exists(a)
  <2>1. PICK v \in versions : v.of = a /\ Store!SeqsOf(a) = 1..v.seq
    BY <1>1 DEF StoreInv, HistoryIsGapless, Store!CurrentIsNewest
  <2>2. v.seq \in Nat /\ v.seq \in Store!SeqsOf(a)
    BY <2>1 DEF StoreInv, Store!TypeOK, Store!Versions, Store!SeqsOf
  <2> QED BY <1>1, <2>1, <2>2, NextFollows
<1>2. CASE ~Store!Exists(a)
  <2>1. Store!SeqsOf(a) = 1..0
    BY <1>2 DEF StoreInv, NamesAreUsedOnce, Store!SeqsOf
  <2>2. Store!NextSeq(a) = 0 + 1
    BY <2>1, NextFollows
  <2> QED BY <1>2, <2>1, <2>2
<1> QED BY <1>1, <1>2

LEMMA StoreInit == Store!Init => StoreInv
<1> SUFFICES ASSUME Store!Init PROVE StoreInv
  OBVIOUS
<1>1. Store!TypeOK
  BY DEF Store!Init, Store!TypeOK, Store!Creating, Store!Editing
<1>2. \A c \in Calls : asked[c] = Store!NoRow /\ artifacts[c] = Store!NoRow /\ at[c] = "idle"
  BY DEF Store!Init
<1>3. NamesAreUsedOnce
  BY <1>2, RequestsDiffer DEF NamesAreUsedOnce, Store!Exists, Store!Init
<1>4. HistoryIsGapless /\ NextIsAtMostNew /\ TextIsGiven /\ SavedIsThere
  BY <1>2, RequestsDiffer
  DEF HistoryIsGapless, Store!CurrentIsNewest, NextIsAtMostNew, TextIsGiven, SavedIsThere,
      Store!Exists, Store!Init
<1> QED BY <1>1, <1>3, <1>4 DEF StoreInv

(* Types.                                                                    *)
LEMMA StoreTypes == ASSUME StoreInv, Store!Next PROVE Store!TypeOK'
<1>0. Store!TypeOK
  BY DEF StoreInv
<1> USE <1>0 DEF Store!TypeOK, Store!Creating, Store!Editing, Store!Answers
<1>1. ASSUME NEW c \in Calls, NEW s \in Scopes, NEW name \in Names,
             Store!BeginCreate(c, s, name)
      PROVE Store!TypeOK'
  <2>1. [scope |-> s, slug |-> <<name, 1>>] \in Store!Creates
    BY DEF Store!Creates, Store!Slugs
  <2> QED BY <1>1, <2>1 DEF Store!BeginCreate
<1>2. ASSUME NEW c \in Calls, Store!PickSlug(c) PROVE Store!TypeOK'
  <2>1. asked[c] \in Store!Creates
    BY <1>2 DEF Store!PickSlug
  <2>2. PICK n \in 1..Store!Cardinality(Calls) : asked' = [asked EXCEPT ![c].slug = <<asked[c].slug[1], n>>]
    BY <1>2 DEF Store!PickSlug
  <2>3. <<asked[c].slug[1], n>> \in Store!Slugs
    BY <2>1 DEF Store!Creates, Store!Slugs
  <2>4. [asked[c] EXCEPT !.slug = <<asked[c].slug[1], n>>] \in Store!Creates
    BY <2>1, <2>3 DEF Store!Creates
  <2>5. asked' = [asked EXCEPT ![c] = [asked[c] EXCEPT !.slug = <<asked[c].slug[1], n>>]]
    BY <2>2
  <2> QED BY <1>2, <2>4, <2>5 DEF Store!PickSlug
<1>3. ASSUME NEW c \in Calls, Store!Create(c) PROVE Store!TypeOK'
  <2>1. asked[c] \in Store!Creates
    BY <1>3 DEF Store!Create
  <2>2. /\ [scope |-> asked[c].scope, slug |-> asked[c].slug, current |-> c, active |-> TRUE] \in Store!Rows
        /\ [of |-> c, seq |-> 1, text |-> c, by |-> c] \in Store!Versions
    BY <2>1 DEF Store!Creates, Store!Rows, Store!Versions
  <2> QED BY <1>3, <2>2 DEF Store!Create
<1>4. ASSUME NEW c \in Calls, NEW a \in Calls, NEW back \in 0..Store!Cardinality(Calls),
             Store!BeginEdit(c, a, back)
      PROVE Store!TypeOK'
  <2>1. [on |-> a, back |-> back, seq |-> 0, text |-> c] \in Store!Edits
    BY DEF Store!Edits
  <2> QED BY <1>4, <2>1 DEF Store!BeginEdit
<1>5. ASSUME NEW c \in Calls, Store!ReadTarget(c) PROVE Store!TypeOK'
  <2>1. asked[c] \in Store!Edits
    BY <1>5 DEF Store!ReadTarget
  <2>2. CASE UNCHANGED asked
    BY <1>5, <2>2 DEF Store!ReadTarget
  <2>3. ASSUME NEW v \in versions, asked' = [asked EXCEPT ![c].text = v.text], at' = [at EXCEPT ![c] = "max"]
        PROVE Store!TypeOK'
    <3>1. v.text \in Calls
      BY DEF Store!Versions
    <3>2. [asked[c] EXCEPT !.text = v.text] \in Store!Edits
      BY <2>1, <3>1 DEF Store!Edits
    <3>3. asked' = [asked EXCEPT ![c] = [asked[c] EXCEPT !.text = v.text]]
      BY <2>3
    <3> QED BY <1>5, <2>3, <3>2, <3>3 DEF Store!ReadTarget
  <2> QED BY <1>5, <2>2, <2>3 DEF Store!ReadTarget
<1>6. ASSUME NEW c \in Calls, Store!ReadMax(c) PROVE Store!TypeOK'
  <2>1. asked[c] \in Store!Edits
    BY <1>6 DEF Store!ReadMax
  <2>2. CASE UNCHANGED asked
    BY <1>6, <2>2 DEF Store!ReadMax
  <2>3. CASE asked' = [asked EXCEPT ![c].seq = Store!NextSeq(asked[c].on)] /\ at' = [at EXCEPT ![c] = "append"]
    <3>1. Store!NextSeq(asked[c].on) \in Nat
      BY <2>1, HistoryLength DEF Store!Edits
    <3>2. [asked[c] EXCEPT !.seq = Store!NextSeq(asked[c].on)] \in Store!Edits
      BY <2>1, <3>1 DEF Store!Edits
    <3>3. asked' = [asked EXCEPT ![c] = [asked[c] EXCEPT !.seq = Store!NextSeq(asked[c].on)]]
      BY <2>3
    <3> QED BY <1>6, <2>3, <3>2, <3>3 DEF Store!ReadMax
  <2> QED BY <1>6, <2>2, <2>3 DEF Store!ReadMax
<1>7. ASSUME NEW c \in Calls, Store!Append(c) PROVE Store!TypeOK'
  <2>1. asked[c] \in Store!Edits
    BY <1>7 DEF Store!Append
  <2>2. [of |-> asked[c].on, seq |-> asked[c].seq, text |-> asked[c].text, by |-> c] \in Store!Versions
    BY <2>1 DEF Store!Edits, Store!Versions
  <2>3. ASSUME NEW a \in Calls, Store!Exists(a) PROVE [artifacts[a] EXCEPT !.current = c] \in Store!Rows
    BY <2>3 DEF Store!Exists, Store!Rows
  <2>4. CASE Store!Appendable(asked[c].on, asked[c].seq)
    <3>1. artifacts' = [artifacts EXCEPT ![asked[c].on] = [artifacts[asked[c].on] EXCEPT !.current = c]]
      BY <1>7, <2>4 DEF Store!Append
    <3> QED BY <1>7, <2>1, <2>2, <2>3, <2>4, <3>1 DEF Store!Append, Store!Appendable, Store!Edits
  <2>5. CASE ~Store!Appendable(asked[c].on, asked[c].seq)
    BY <1>7, <2>5 DEF Store!Append
  <2> QED BY <2>4, <2>5
<1>8. ASSUME NEW a \in Calls, Store!SoftDelete(a) PROVE Store!TypeOK'
  <2>1. [artifacts[a] EXCEPT !.active = FALSE] \in Store!Rows
    BY <1>8 DEF Store!SoftDelete, Store!Exists, Store!Rows
  <2>2. artifacts' = [artifacts EXCEPT ![a] = [artifacts[a] EXCEPT !.active = FALSE]]
    BY <1>8 DEF Store!SoftDelete
  <2> QED BY <1>8, <2>1, <2>2 DEF Store!SoftDelete
<1>9. ASSUME NEW c \in Calls, Store!Abort(c) PROVE Store!TypeOK'
  BY <1>9 DEF Store!Abort
<1>10. ASSUME NEW s \in Scopes, Store!AddScope(s) PROVE Store!TypeOK'
  BY <1>10 DEF Store!AddScope
<1>11. ASSUME NEW s \in Scopes, Store!DropScope(s) PROVE Store!TypeOK'
  BY <1>11 DEF Store!DropScope
<1> QED BY <1>1, <1>2, <1>3, <1>4, <1>5, <1>6, <1>7, <1>8, <1>9, <1>10, <1>11
  DEF Store!Next, Store!CallStep

(* The steps of a call that only change what the call knows.                *)
LEMMA RequestSteps ==
    ASSUME StoreInv, NEW c \in Calls,
           \/ Store!PickSlug(c) \/ Store!ReadTarget(c) \/ Store!ReadMax(c) \/ Store!Abort(c)
           \/ \E s \in Scopes, name \in Names : Store!BeginCreate(c, s, name)
           \/ \E a \in Calls, back \in 0..Store!Cardinality(Calls) : Store!BeginEdit(c, a, back)
    PROVE  /\ UNCHANGED <<artifacts, versions>>
           /\ at[c] # "saved" /\ at'[c] # "saved"
           /\ \A d \in Calls \ {c} : at'[d] = at[d] /\ asked'[d] = asked[d]
BY
  DEF StoreInv, Store!TypeOK, Store!Creating, Store!Editing, Store!PickSlug, Store!ReadTarget,
      Store!ReadMax, Store!Abort, Store!BeginCreate, Store!BeginEdit

(* Hiding an artifact, or moving its pointer, makes and removes none.       *)
LEMMA RowsStay ==
    ASSUME Store!TypeOK, NEW a \in Calls, Store!Exists(a), NEW b \in Calls,
           \/ artifacts' = [artifacts EXCEPT ![a].current = b]
           \/ artifacts' = [artifacts EXCEPT ![a].active = FALSE]
    PROVE  /\ \A x \in Calls : Store!Exists(x)' <=> Store!Exists(x)
           /\ \A x \in Calls \ {a} : artifacts'[x] = artifacts[x]
           /\ artifacts'[a].current = b \/ artifacts'[a].current = artifacts[a].current
           /\ artifacts' = [artifacts EXCEPT ![a].current = b] => artifacts'[a].current = b
<1>1. artifacts[a] \in Store!Rows
  BY DEF Store!TypeOK, Store!Exists
<1>2. [artifacts[a] EXCEPT !.current = b] \in Store!Rows /\ [artifacts[a] EXCEPT !.active = FALSE] \in Store!Rows
  BY <1>1 DEF Store!Rows
<1>3. \/ artifacts' = [artifacts EXCEPT ![a] = [artifacts[a] EXCEPT !.current = b]]
      \/ artifacts' = [artifacts EXCEPT ![a] = [artifacts[a] EXCEPT !.active = FALSE]]
  OBVIOUS
<1>4. artifacts'[a] \in Store!Rows /\ \A x \in Calls \ {a} : artifacts'[x] = artifacts[x]
  BY <1>2, <1>3 DEF Store!TypeOK
<1>5. \A x \in Calls : Store!Exists(x)' <=> Store!Exists(x)
  BY <1>4, RequestsDiffer DEF Store!Exists
<1>6. artifacts' = [artifacts EXCEPT ![a].current = b] => artifacts'[a].current = b
  BY <1>1 DEF Store!TypeOK, Store!Rows
<1>7. artifacts' = [artifacts EXCEPT ![a].active = FALSE] => artifacts'[a].current = artifacts[a].current
  BY <1>1 DEF Store!TypeOK, Store!Rows
<1> QED BY <1>4, <1>5, <1>6, <1>7

LEMMA NamesStep == ASSUME StoreInv, Store!TypeOK', Store!Next PROVE NamesAreUsedOnce'
<1>0. Store!TypeOK /\ NamesAreUsedOnce
  BY DEF StoreInv
<1> USE <1>0 DEF NamesAreUsedOnce
<1>1. ASSUME NEW c \in Calls, UNCHANGED <<artifacts, versions>>, at[c] # "saved",
             \A d \in Calls \ {c} : at'[d] = at[d] /\ asked'[d] = asked[d],
             at'[c] \in {"idle"} \cup Store!Creating => asked'[c] \notin Store!Edits,
             asked'[c] \in Store!Edits => (asked[c] \in Store!Edits /\ asked'[c].on = asked[c].on) \/ Store!Exists(asked'[c].on)
      PROVE  NamesAreUsedOnce'
  <2>1. \A a \in Calls : at[a] = "saved" => at'[a] = "saved" /\ asked'[a] = asked[a]
    BY <1>1
  <2>2. \A d \in Calls : asked'[d] \in Store!Edits => asked'[d].on \in Calls
    BY DEF Store!Edits
  <2>3. \A d \in Calls : asked'[d] \in Store!Edits => at[asked'[d].on] = "saved" /\ asked[asked'[d].on] \in Store!Creates
    BY <1>1, <2>2
  <2>4. \A v \in versions : v.of \in Calls /\ v.by \in Calls
    BY DEF Store!TypeOK, Store!Versions
  <2>5. \A a \in Calls : Store!Exists(a)' <=> Store!Exists(a)
    BY <1>1 DEF Store!Exists
  <2>6. \A d \in Calls : at'[d] \in {"idle"} \cup Store!Creating => asked'[d] \notin Store!Edits
    BY <1>1
  <2>7. \A d \in Calls : asked'[d] \in Store!Edits => at'[asked'[d].on] = "saved" /\ asked'[asked'[d].on] \in Store!Creates
    BY <2>1, <2>2, <2>3
  <2> QED BY <1>1, <2>1, <2>4, <2>5, <2>6, <2>7
<1>2. ASSUME NEW c \in Calls, NEW s \in Scopes, NEW name \in Names,
             Store!BeginCreate(c, s, name)
      PROVE NamesAreUsedOnce'
  <2>1. [scope |-> s, slug |-> <<name, 1>>] \in Store!Creates
    BY DEF Store!Creates, Store!Slugs
  <2>2. asked'[c] \notin Store!Edits
    BY <1>2, <2>1, RequestsDiffer DEF Store!BeginCreate, Store!TypeOK
  <2> QED BY <1>2, <2>2, <1>1, RequestSteps
<1>3. ASSUME NEW c \in Calls, Store!PickSlug(c) PROVE NamesAreUsedOnce'
  <2>1. asked'[c] \in Store!Creates
    BY <1>3 DEF Store!PickSlug, Store!TypeOK, Store!Creating
  <2> QED BY <1>3, <2>1, <1>1, RequestSteps, RequestsDiffer
<1>4. ASSUME NEW c \in Calls, NEW a \in Calls, NEW back \in 0..Store!Cardinality(Calls),
             Store!BeginEdit(c, a, back)
      PROVE NamesAreUsedOnce'
  <2>1. asked'[c].on = a /\ Store!Exists(a) /\ at'[c] \in Store!Editing
    BY <1>4 DEF Store!BeginEdit, Store!TypeOK, Store!Editing
  <2>2. at'[c] \notin {"idle"} \cup Store!Creating
    BY <2>1 DEF Store!Editing, Store!Creating
  <2> QED BY <1>4, <2>1, <2>2, <1>1, RequestSteps
<1>5. ASSUME NEW c \in Calls, Store!ReadTarget(c) \/ Store!ReadMax(c) PROVE NamesAreUsedOnce'
  <2>1. asked[c] \in Store!Edits /\ asked'[c] \in Store!Edits /\ asked'[c].on = asked[c].on
    BY <1>5 DEF Store!ReadTarget, Store!ReadMax, Store!TypeOK, Store!Editing, Store!Edits
  <2>2. at'[c] \notin {"idle"} \cup Store!Creating
    BY <1>5 DEF Store!ReadTarget, Store!ReadMax, Store!TypeOK, Store!Creating
  <2> QED BY <1>5, <2>1, <2>2, <1>1, RequestSteps
<1>6. ASSUME NEW c \in Calls, Store!Abort(c) PROVE NamesAreUsedOnce'
  <2>1. asked'[c] = asked[c] /\ at'[c] \notin {"idle"} \cup Store!Creating
    BY <1>6 DEF Store!Abort, Store!TypeOK, Store!Creating
  <2> QED BY <1>6, <2>1, <1>1, RequestSteps
<1>7. ASSUME NEW c \in Calls, Store!Create(c) PROVE NamesAreUsedOnce'
  <2>1. at[c] = "create" /\ asked[c] \in Store!Creates /\ UNCHANGED asked
    BY <1>7 DEF Store!Create, Store!TypeOK, Store!Creating
  <2>2. CASE Store!Insertable(asked[c].scope, asked[c].slug)
    <3>0. [scope |-> asked[c].scope, slug |-> asked[c].slug, current |-> c, active |-> TRUE] \in Store!Rows
      BY <2>1 DEF Store!Creates, Store!Rows
    <3>1. /\ \A a \in Calls \ {c} : artifacts'[a] = artifacts[a] /\ at'[a] = at[a]
          /\ artifacts'[c] \in Store!Rows /\ at'[c] = "saved"
          /\ versions' = versions \cup {[of |-> c, seq |-> 1, text |-> c, by |-> c]}
      BY <1>7, <2>2, <3>0 DEF Store!Create, Store!TypeOK
    <3>2. \A v \in versions : v.of \in Calls /\ v.by \in Calls
      BY DEF Store!TypeOK, Store!Versions
    <3>3. \A d \in Calls : asked[d] \in Store!Edits => asked[d].on \in Calls \ {c}
      BY <2>1 DEF Store!Edits
    <3>4. \A v \in versions' : artifacts'[v.of] # Store!NoRow /\ at'[v.by] = "saved"
      BY <3>1, <3>2, RequestsDiffer DEF Store!Exists
    <3>5. \A a \in Calls : artifacts'[a] # Store!NoRow => at'[a] = "saved" /\ asked'[a] \in Store!Creates
      BY <2>1, <3>1 DEF Store!Exists
    <3>6. \A d \in Calls : at'[d] \in {"idle"} \cup Store!Creating => asked'[d] \notin Store!Edits
      BY <2>1, <3>1, RequestsDiffer
    <3> QED BY <2>1, <3>1, <3>3, <3>4, <3>5, <3>6 DEF Store!Exists
  <2>3. CASE ~Store!Insertable(asked[c].scope, asked[c].slug)
    <3>1. UNCHANGED <<artifacts, versions>> /\ at'[c] = "failed" /\ \A d \in Calls \ {c} : at'[d] = at[d]
      BY <1>7, <2>3 DEF Store!Create, Store!TypeOK
    <3> QED BY <2>1, <3>1, <1>1 DEF Store!Creating
  <2> QED BY <2>2, <2>3
<1>8. ASSUME NEW c \in Calls, Store!Append(c) PROVE NamesAreUsedOnce'
  <2>1. at[c] = "append" /\ asked[c] \in Store!Edits /\ UNCHANGED asked /\ asked[c].on \in Calls
    BY <1>8 DEF Store!Append, Store!TypeOK, Store!Editing, Store!Edits
  <2>2. \A d \in Calls \ {c} : at'[d] = at[d]
    BY <1>8 DEF Store!Append, Store!TypeOK
  <2>3. CASE Store!Appendable(asked[c].on, asked[c].seq)
    <3>1. /\ \A a \in Calls : Store!Exists(a)' <=> Store!Exists(a)
          /\ at'[c] = "saved"
          /\ versions' = versions \cup {[of |-> asked[c].on, seq |-> asked[c].seq, text |-> asked[c].text, by |-> c]}
      <4>1. \A a \in Calls : Store!Exists(a)' <=> Store!Exists(a)
        BY <1>8, <2>1, <2>3, RowsStay DEF Store!Append, Store!Appendable
      <4> QED BY <1>8, <2>3, <4>1 DEF Store!Append, Store!TypeOK
    <3>2. \A v \in versions : v.of \in Calls /\ v.by \in Calls
      BY DEF Store!TypeOK, Store!Versions
    <3>3. \A d \in Calls : asked[d] \in Store!Edits => asked[d].on \in Calls
      BY DEF Store!Edits
    <3> QED BY <2>1, <2>2, <2>3, <3>1, <3>2, <3>3 DEF Store!Creating, Store!Appendable
  <2>4. CASE ~Store!Appendable(asked[c].on, asked[c].seq)
    <3>1. UNCHANGED <<artifacts, versions>> /\ at'[c] = "failed"
      BY <1>8, <2>4 DEF Store!Append, Store!TypeOK
    <3> QED BY <2>1, <2>2, <3>1, <1>1 DEF Store!Creating
  <2> QED BY <2>3, <2>4
<1>9. ASSUME NEW a \in Calls, Store!SoftDelete(a) PROVE NamesAreUsedOnce'
  <2>1. \A b \in Calls : Store!Exists(b)' <=> Store!Exists(b)
    BY <1>9, RowsStay DEF Store!SoftDelete
  <2>2. \A v \in versions : v.of \in Calls
    BY DEF Store!TypeOK, Store!Versions
  <2> QED BY <1>9, <2>1, <2>2 DEF Store!SoftDelete
<1>10. ASSUME NEW s \in Scopes, Store!AddScope(s) PROVE NamesAreUsedOnce'
  BY <1>10 DEF Store!AddScope, Store!Exists
<1>11. ASSUME NEW s \in Scopes, Store!DropScope(s) PROVE NamesAreUsedOnce'
  <2>1. \A a \in Calls : Store!Exists(a)' => Store!Exists(a)
    BY <1>11 DEF Store!DropScope, Store!Exists
  <2>2. \A v \in versions' : v \in versions /\ Store!Exists(v.of)'
    BY <1>11 DEF Store!DropScope, Store!Exists
  <2> QED BY <1>11, <2>1, <2>2 DEF Store!DropScope
<1> QED BY <1>2, <1>3, <1>4, <1>5, <1>6, <1>7, <1>8, <1>9, <1>10, <1>11
  DEF Store!Next, Store!CallStep

(* An append that the keys let through continues the history by one.        *)
LEMMA AppendContinues ==
    ASSUME StoreInv, NEW c \in Calls, Store!Append(c), Store!Appendable(asked[c].on, asked[c].seq)
    PROVE  /\ asked[c] \in Store!Edits /\ asked[c].on \in Calls
           /\ \E n \in Nat : n > 0 /\ Store!SeqsOf(asked[c].on) = 1..n /\ asked[c].seq = n + 1
<1>1. at[c] = "append" /\ asked[c] \in Store!Edits
  BY DEF Store!Append, StoreInv, Store!TypeOK, Store!Editing
<1>2. asked[c].on \in Calls /\ asked[c].seq \in Nat
  BY <1>1 DEF Store!Edits
<1>3. PICK n \in Nat : Store!SeqsOf(asked[c].on) = 1..n
  BY <1>2, HistoryLength
<1>4. asked[c].seq > 1 /\ asked[c].seq - 1 \in 1..n /\ asked[c].seq \notin 1..n
  BY <1>1, <1>3 DEF StoreInv, NextIsAtMostNew, Store!Appendable
<1>5. asked[c].seq = n + 1 /\ n > 0
  BY <1>2, <1>4
<1> QED BY <1>1, <1>2, <1>3, <1>5

(* A history whose versions and pointer are left alone.                     *)
LEMMA HistoryOf ==
    ASSUME NEW a \in Calls, Store!SeqsOf(a)' = Store!SeqsOf(a), artifacts'[a].current = artifacts[a].current,
           \A v \in versions : v.of = a => v \in versions',
           \A v \in versions' : v.of = a => v \in versions,
           \E v \in versions :
             /\ v.of = a /\ v.by = artifacts[a].current /\ Store!SeqsOf(a) = 1..v.seq
             /\ \A w \in versions : w.of = a /\ w.seq = v.seq => w = v
    PROVE  \E v \in versions' :
             /\ v.of = a /\ v.by = artifacts'[a].current /\ Store!SeqsOf(a)' = 1..v.seq
             /\ \A w \in versions' : w.of = a /\ w.seq = v.seq => w = v
OBVIOUS

LEMMA HistoryStep == ASSUME StoreInv, NamesAreUsedOnce', Store!Next PROVE HistoryIsGapless'
<1>0. Store!TypeOK /\ HistoryIsGapless /\ NamesAreUsedOnce
  BY DEF StoreInv
<1>1. ASSUME versions' = versions,
             \A a \in Calls : Store!Exists(a)' => Store!Exists(a) /\ artifacts'[a].current = artifacts[a].current
      PROVE  HistoryIsGapless'
  <2>1. \A a \in Calls : Store!SeqsOf(a)' = Store!SeqsOf(a)
    BY <1>1 DEF Store!SeqsOf
  <2> QED BY <1>0, <1>1, <2>1 DEF HistoryIsGapless, Store!CurrentIsNewest
<1>2. ASSUME NEW c \in Calls, Store!Create(c), Store!Insertable(asked[c].scope, asked[c].slug)
      PROVE HistoryIsGapless'
  <2> DEFINE first == [of |-> c, seq |-> 1, text |-> c, by |-> c]
  <2>1. at[c] = "create" /\ versions' = versions \cup {first}
    BY <1>2 DEF Store!Create
  <2>2. \A v \in versions : v.of # c
    BY <2>1, <1>0 DEF NamesAreUsedOnce
  <2>3. first.of = c /\ first.seq = 1 /\ first.by = c
    OBVIOUS
  <2>4. artifacts'[c].current = c /\ \A a \in Calls \ {c} : artifacts'[a] = artifacts[a]
    BY <1>0, <1>2 DEF Store!Create, Store!TypeOK
  <2> HIDE DEF first
  <2>5. \A v, w \in versions' : v.of = w.of /\ v.seq = w.seq => v = w
    BY <1>0, <2>1, <2>2, <2>3 DEF HistoryIsGapless
  <2>6. Store!SeqsOf(c)' = 1..1 /\ \A a \in Calls \ {c} : Store!SeqsOf(a)' = Store!SeqsOf(a)
    BY <2>1, <2>2, <2>3 DEF Store!SeqsOf
  <2>7. ASSUME NEW a \in Calls, Store!Exists(a)' PROVE
          \E v \in versions' :
             /\ v.of = a /\ v.by = artifacts'[a].current /\ Store!SeqsOf(a)' = 1..v.seq
             /\ \A w \in versions' : w.of = a /\ w.seq = v.seq => w = v
    <3>1. CASE a = c
      BY <3>1, <2>1, <2>3, <2>4, <2>5, <2>6
    <3>2. CASE a # c
      <4>1. Store!Exists(a)
        BY <2>4, <2>7, <3>2 DEF Store!Exists
      <4> QED BY <1>0, <2>1, <2>3, <2>4, <2>6, <3>2, <4>1, HistoryOf
        DEF HistoryIsGapless, Store!CurrentIsNewest
    <3> QED BY <3>1, <3>2
  <2> QED BY <2>5, <2>7 DEF HistoryIsGapless, Store!CurrentIsNewest
<1>3. ASSUME NEW c \in Calls, Store!Append(c), Store!Appendable(asked[c].on, asked[c].seq)
      PROVE HistoryIsGapless'
  <2>1. PICK o \in Calls : o = asked[c].on
    BY <1>3, AppendContinues
  <2>2. PICK n \in Nat : n > 0 /\ Store!SeqsOf(o) = 1..n /\ asked[c].seq = n + 1
    BY <1>3, <2>1, AppendContinues
  <2> DEFINE new == [of |-> o, seq |-> n + 1, text |-> asked[c].text, by |-> c]
  <2>3. versions' = versions \cup {new} /\ artifacts' = [artifacts EXCEPT ![o].current = c] /\ Store!Exists(o)
    BY <1>3, <2>1, <2>2 DEF Store!Append, Store!Appendable
  <2>4. new.of = o /\ new.seq = n + 1 /\ new.by = c
    OBVIOUS
  <2> HIDE DEF new
  <2>5. /\ artifacts'[o].current = c
        /\ \A a \in Calls \ {o} : artifacts'[a] = artifacts[a]
    BY <1>0, <2>1, <2>3, RowsStay
  <2>6. \A v \in versions : v.of = o => v.seq \in 1..n
    BY <2>2 DEF Store!SeqsOf
  <2>7. \A v, w \in versions' : v.of = w.of /\ v.seq = w.seq => v = w
    BY <1>0, <2>2, <2>3, <2>4, <2>6 DEF HistoryIsGapless
  <2>8. Store!SeqsOf(o)' = 1..(n+1)
    <3>1. Store!SeqsOf(o)' = Store!SeqsOf(o) \cup {n + 1}
      BY <2>3, <2>4 DEF Store!SeqsOf
    <3> QED BY <3>1, <2>2
  <2>9. \A a \in Calls \ {o} : Store!SeqsOf(a)' = Store!SeqsOf(a)
    BY <2>3, <2>4 DEF Store!SeqsOf
  <2>10. ASSUME NEW a \in Calls, Store!Exists(a)' PROVE
          \E v \in versions' :
             /\ v.of = a /\ v.by = artifacts'[a].current /\ Store!SeqsOf(a)' = 1..v.seq
             /\ \A w \in versions' : w.of = a /\ w.seq = v.seq => w = v
    <3>1. CASE a = o
      BY <3>1, <2>3, <2>4, <2>5, <2>7, <2>8
    <3>2. CASE a # o
      <4>1. Store!Exists(a)
        BY <2>5, <2>10, <3>2 DEF Store!Exists
      <4> QED BY <1>0, <2>3, <2>4, <2>5, <2>9, <3>2, <4>1, HistoryOf
        DEF HistoryIsGapless, Store!CurrentIsNewest
    <3> QED BY <3>1, <3>2
  <2> QED BY <2>7, <2>10 DEF HistoryIsGapless, Store!CurrentIsNewest
<1>4. ASSUME NEW s \in Scopes, Store!DropScope(s) PROVE HistoryIsGapless'
  <2>1. /\ \A a \in Calls : Store!Exists(a)' => Store!Exists(a) /\ artifacts'[a] = artifacts[a]
        /\ versions' = {v \in versions : artifacts'[v.of] # Store!NoRow}
    BY <1>4 DEF Store!DropScope, Store!Exists
  <2>2. \A a \in Calls : Store!Exists(a)' => Store!SeqsOf(a)' = Store!SeqsOf(a)
    BY <2>1 DEF Store!SeqsOf, Store!Exists
  <2>3. \A v, w \in versions' : v.of = w.of /\ v.seq = w.seq => v = w
    BY <1>0, <2>1 DEF HistoryIsGapless
  <2>4. ASSUME NEW a \in Calls, Store!Exists(a)' PROVE
          \E v \in versions' :
             /\ v.of = a /\ v.by = artifacts'[a].current /\ Store!SeqsOf(a)' = 1..v.seq
             /\ \A w \in versions' : w.of = a /\ w.seq = v.seq => w = v
    <3>1. \A v \in versions : v.of = a => v \in versions'
      BY <2>1, <2>4 DEF Store!Exists
    <3> QED BY <1>0, <2>1, <2>2, <2>4, <3>1, HistoryOf DEF HistoryIsGapless, Store!CurrentIsNewest
  <2> QED BY <2>3, <2>4 DEF HistoryIsGapless, Store!CurrentIsNewest
<1>5. ASSUME NEW a \in Calls, Store!SoftDelete(a) PROVE HistoryIsGapless'
  <2>1. artifacts'[a].current = artifacts[a].current
    <3>1. artifacts[a] \in Store!Rows
      BY <1>0, <1>5 DEF Store!SoftDelete, Store!TypeOK, Store!Exists
    <3> QED BY <1>0, <1>5, <3>1 DEF Store!SoftDelete, Store!TypeOK, Store!Rows
  <2>2. \A b \in Calls : Store!Exists(b)' <=> Store!Exists(b)
    BY <1>0, <1>5, RowsStay DEF Store!SoftDelete
  <2>3. \A b \in Calls \ {a} : artifacts'[b] = artifacts[b]
    BY <1>0, <1>5, RowsStay DEF Store!SoftDelete
  <2> QED BY <1>1, <1>5, <2>1, <2>2, <2>3 DEF Store!SoftDelete
<1>6. ASSUME UNCHANGED <<artifacts, versions>> PROVE HistoryIsGapless'
  BY <1>1, <1>6 DEF Store!Exists
<1>7. ASSUME NEW c \in Calls, Store!CallStep(c) PROVE HistoryIsGapless'
  <2>1. CASE Store!Create(c)
    BY <1>2, <1>6, <2>1 DEF Store!Create
  <2>2. CASE Store!Append(c)
    BY <1>3, <1>6, <2>2 DEF Store!Append
  <2> QED BY <1>5, <1>6, <1>7, <2>1, <2>2, RequestSteps DEF Store!CallStep
<1> QED BY <1>4, <1>6, <1>7 DEF Store!Next, Store!AddScope


(* What the histories of this step have in common: numbers and texts stay   *)
(* as long as their artifact does, and no artifact comes back.              *)
LEMMA HistoryStays ==
    ASSUME StoreInv, Store!TypeOK', NamesAreUsedOnce', Store!Next
    PROVE  /\ \A v \in versions : Store!Exists(v.of)' => v \in versions'
           /\ \A a \in Calls : at[a] = "saved" /\ Store!Exists(a)' => Store!Exists(a)
           /\ \A a \in Calls : at[a] = "saved" => at'[a] = "saved" /\ asked'[a] = asked[a]
<1>0. Store!TypeOK /\ NamesAreUsedOnce
  BY DEF StoreInv
<1>1. ASSUME NEW c \in Calls, Store!CallStep(c) PROVE
        /\ versions \subseteq versions'
        /\ \A a \in Calls : at[a] = "saved" /\ Store!Exists(a)' => Store!Exists(a)
        /\ \A a \in Calls : at[a] = "saved" => at'[a] = "saved" /\ asked'[a] = asked[a]
  <2>1. CASE Store!Create(c)
    BY <1>0, <2>1 DEF Store!Create, Store!TypeOK, Store!Exists
  <2>2. CASE Store!Append(c)
    <3>1. asked[c].on \in Calls
      BY <1>0, <2>2 DEF Store!Append, Store!TypeOK, Store!Editing, Store!Edits
    <3>2. \A a \in Calls : Store!Exists(a)' => Store!Exists(a)
      BY <1>0, <2>2, <3>1, RowsStay DEF Store!Append, Store!Appendable, Store!Exists
    <3> QED BY <1>0, <2>2, <3>2 DEF Store!Append, Store!TypeOK
  <2>3. ASSUME NEW a \in Calls, Store!SoftDelete(a) PROVE
        /\ \A b \in Calls : Store!Exists(b)' => Store!Exists(b)
        /\ UNCHANGED <<versions, at, asked>>
    BY <1>0, <2>3, RowsStay DEF Store!SoftDelete
  <2>4. CASE UNCHANGED <<artifacts, versions>> /\ at[c] # "saved"
             /\ \A d \in Calls \ {c} : at'[d] = at[d] /\ asked'[d] = asked[d]
    BY <2>4 DEF Store!Exists
  <2> QED BY <1>1, <2>1, <2>2, <2>3, <2>4, RequestSteps DEF Store!CallStep
<1>2. ASSUME NEW s \in Scopes, Store!DropScope(s) PROVE
        /\ \A v \in versions : Store!Exists(v.of)' => v \in versions'
        /\ \A a \in Calls : Store!Exists(a)' => Store!Exists(a)
        /\ UNCHANGED <<at, asked>>
  BY <1>2 DEF Store!DropScope, Store!Exists
<1>3. ASSUME NEW s \in Scopes, Store!AddScope(s) PROVE UNCHANGED <<artifacts, versions, at, asked>>
  BY <1>3 DEF Store!AddScope
<1> QED BY <1>1, <1>2, <1>3 DEF Store!Next, Store!Exists

(* A step of another call leaves what this one knows alone.                 *)
LEMMA OthersKeepOut ==
    ASSUME StoreInv, Store!Next, NEW c \in Calls
    PROVE  \/ at'[c] = at[c] /\ asked'[c] = asked[c]
           \/ Store!CallStep(c)
BY RequestSteps
  DEF StoreInv, Store!TypeOK, Store!Next, Store!CallStep, Store!Create, Store!Append,
      Store!SoftDelete, Store!AddScope, Store!DropScope

(* An edit works on an artifact that exists as long as it did not end.      *)
LEMMA NextStep == ASSUME StoreInv, Store!TypeOK', NamesAreUsedOnce', Store!Next PROVE NextIsAtMostNew'
<1> SUFFICES ASSUME NEW c \in Calls, at'[c] = "append", NEW o \in Calls, asked'[c].on = o, Store!Exists(o)'
             PROVE  asked'[c].seq > 1 /\ asked'[c].seq - 1 \in Store!SeqsOf(o)'
  <2>1. \A c \in Calls : at'[c] = "append" => asked'[c].on \in Calls
    BY DEF Store!TypeOK, Store!Editing, Store!Edits
  <2> QED BY <2>1 DEF NextIsAtMostNew, Store!Exists, Store!SeqsOf
<1>0. Store!TypeOK /\ NamesAreUsedOnce /\ NextIsAtMostNew
  BY DEF StoreInv
<1>1. CASE at'[c] = at[c] /\ asked'[c] = asked[c]
  <2>1. asked[c] \in Store!Edits /\ at[o] = "saved"
    BY <1>0, <1>1 DEF Store!TypeOK, Store!Editing, NamesAreUsedOnce
  <2>2. Store!Exists(o)
    BY <2>1, HistoryStays
  <2>3. asked[c].seq > 1 /\ \E v \in versions : v.of = o /\ v.seq = asked[c].seq - 1
    BY <1>0, <1>1, <2>2 DEF NextIsAtMostNew, Store!SeqsOf
  <2>4. \A v \in versions : v.of = o => v \in versions'
    BY HistoryStays
  <2> QED BY <1>1, <2>3, <2>4 DEF Store!SeqsOf
<1>2. CASE Store!CallStep(c)
  <2>1. Store!ReadMax(c) \/ (at'[c] = at[c] /\ asked'[c] = asked[c])
    <3>1. ASSUME \/ Store!Create(c) \/ Store!PickSlug(c) \/ Store!ReadTarget(c) \/ Store!Append(c) \/ Store!Abort(c)
                 \/ \E s \in Scopes, name \in Names : Store!BeginCreate(c, s, name)
                 \/ \E a \in Calls, back \in 0..Store!Cardinality(Calls) : Store!BeginEdit(c, a, back)
          PROVE  at'[c] # "append"
      BY <1>0, <3>1
        DEF Store!BeginCreate, Store!PickSlug, Store!Create, Store!BeginEdit, Store!ReadTarget,
            Store!Append, Store!Abort, Store!TypeOK
    <3>2. Store!SoftDelete(c) => at'[c] = at[c] /\ asked'[c] = asked[c]
      BY DEF Store!SoftDelete
    <3>3. Store!ReadMax(c) \/ Store!SoftDelete(c)
      BY <1>2, <3>1, Zenon DEF Store!CallStep
    <3> QED BY <3>2, <3>3
  <2>2. CASE Store!ReadMax(c)
    <3>1. asked'[c].seq = Store!NextSeq(o) /\ versions' = versions /\ artifacts' = artifacts
      BY <1>0, <2>2 DEF Store!ReadMax, Store!TypeOK, Store!Editing, Store!Edits
    <3>2. PICK n \in Nat : Store!SeqsOf(o) = 1..n /\ Store!NextSeq(o) = n + 1 /\ (Store!Exists(o) <=> n > 0)
      BY HistoryLength
    <3>3. n > 0
      BY <3>1, <3>2 DEF Store!Exists
    <3>4. Store!SeqsOf(o)' = Store!SeqsOf(o)
      BY <3>1 DEF Store!SeqsOf
    <3> QED BY <3>1, <3>2, <3>3, <3>4
  <2> QED BY <1>1, <2>1, <2>2
<1> QED BY <1>1, <1>2, OthersKeepOut

LEMMA TextStep == ASSUME StoreInv, Store!TypeOK', NamesAreUsedOnce', Store!Next PROVE TextIsGiven'
<1> SUFFICES ASSUME NEW c \in Calls, asked'[c] \in Store!Edits, NEW o \in Calls, asked'[c].on = o
             PROVE  /\ asked'[c].back = 0 => asked'[c].text = c
                    /\ asked'[c].back > 0 /\ at'[c] \in {"max", "append", "saved"} /\ Store!Exists(o)' =>
                         \E t \in versions' : t.of = o /\ t.seq = asked'[c].back /\ t.text = asked'[c].text
  <2>1. \A c \in Calls : asked'[c] \in Store!Edits => asked'[c].on \in Calls
    BY DEF Store!Edits
  <2> QED BY <2>1 DEF TextIsGiven, Store!Exists
<1>0. Store!TypeOK /\ NamesAreUsedOnce /\ TextIsGiven
  BY DEF StoreInv
\* The request is the same but for the number read.
<1>1. ASSUME asked[c] \in Store!Edits, asked'[c].on = asked[c].on, asked'[c].back = asked[c].back,
             asked'[c].text = asked[c].text,
             at'[c] \in {"max", "append", "saved"} => at[c] \in {"max", "append", "saved"}
      PROVE  /\ asked'[c].back = 0 => asked'[c].text = c
             /\ asked'[c].back > 0 /\ at'[c] \in {"max", "append", "saved"} /\ Store!Exists(o)' =>
                  \E t \in versions' : t.of = o /\ t.seq = asked'[c].back /\ t.text = asked'[c].text
  <2>1. at[o] = "saved"
    BY <1>0, <1>1 DEF NamesAreUsedOnce
  <2>2. Store!Exists(o)' => Store!Exists(o) /\ \A v \in versions : v.of = o => v \in versions'
    BY <2>1, HistoryStays
  <2> QED BY <1>0, <1>1, <2>2 DEF TextIsGiven
<1>2. CASE Store!CallStep(c)
  <2>1. CASE \E s \in Scopes, name \in Names : Store!BeginCreate(c, s, name)
    <3>1. asked'[c] \in Store!Creates
      BY <1>0, <2>1 DEF Store!BeginCreate, Store!TypeOK, Store!Creates, Store!Slugs
    <3> QED BY <3>1, RequestsDiffer
  <2>2. CASE Store!PickSlug(c)
    <3>1. asked'[c] \in Store!Creates
      BY <2>2 DEF Store!PickSlug, Store!TypeOK, Store!Creating
    <3> QED BY <3>1, RequestsDiffer
  <2>3. CASE Store!Create(c)
    <3>1. asked'[c] \in Store!Creates
      BY <1>0, <2>3 DEF Store!Create, Store!TypeOK, Store!Creating
    <3> QED BY <3>1, RequestsDiffer
  <2>4. CASE \E a \in Calls, back \in 0..Store!Cardinality(Calls) : Store!BeginEdit(c, a, back)
    <3>1. asked'[c].text = c /\ (asked'[c].back > 0 => at'[c] = "target")
      BY <1>0, <2>4 DEF Store!BeginEdit, Store!TypeOK
    <3> QED BY <3>1
  <2>5. CASE Store!ReadTarget(c)
    <3>1. at[c] = "target" /\ asked[c] \in Store!Edits /\ versions' = versions /\ artifacts' = artifacts
      BY <1>0, <2>5 DEF Store!ReadTarget, Store!TypeOK, Store!Editing
    <3>2. CASE at'[c] = "nothing" /\ asked' = asked
      BY <1>0, <3>1, <3>2 DEF TextIsGiven
    <3>3. CASE \E v \in versions : v.of = asked[c].on /\ v.seq = asked[c].back
                                     /\ asked' = [asked EXCEPT ![c].text = v.text]
      <4>1. PICK v \in versions : v.of = asked[c].on /\ v.seq = asked[c].back
                                   /\ asked' = [asked EXCEPT ![c].text = v.text]
        BY <3>3
      <4>2. asked'[c].on = asked[c].on /\ asked'[c].back = asked[c].back /\ asked'[c].text = v.text
        BY <1>0, <3>1, <4>1 DEF Store!TypeOK, Store!Edits
      <4>3. v.seq > 0
        <5>1. v.of \in Calls /\ v.seq \in Store!SeqsOf(v.of)
          BY <1>0 DEF Store!TypeOK, Store!Versions, Store!SeqsOf
        <5> QED BY <5>1, HistoryLength
      <4> QED BY <3>1, <4>1, <4>2, <4>3
    <3> QED BY <1>0, <2>5, <3>2, <3>3 DEF Store!ReadTarget, Store!TypeOK
  <2>6. CASE Store!ReadMax(c)
    <3>1. at[c] = "max" /\ asked[c] \in Store!Edits
      BY <1>0, <2>6 DEF Store!ReadMax, Store!TypeOK, Store!Editing
    <3>2. asked'[c].on = asked[c].on /\ asked'[c].back = asked[c].back /\ asked'[c].text = asked[c].text
      BY <1>0, <2>6, <3>1 DEF Store!ReadMax, Store!TypeOK, Store!Edits
    <3> QED BY <1>1, <3>1, <3>2
  <2>7. CASE Store!Append(c)
    BY <1>0, <1>1, <2>7 DEF Store!Append, Store!TypeOK
  <2>8. CASE Store!Abort(c)
    BY <1>0, <1>1, <2>8 DEF Store!Abort, Store!TypeOK
  <2>9. CASE Store!SoftDelete(c)
    BY <1>1, <2>9 DEF Store!SoftDelete
  <2> QED BY <1>2, <2>1, <2>2, <2>3, <2>4, <2>5, <2>6, <2>7, <2>8, <2>9 DEF Store!CallStep
<1>3. CASE at'[c] = at[c] /\ asked'[c] = asked[c]
  BY <1>1, <1>3
<1> QED BY <1>2, <1>3, OthersKeepOut

LEMMA SavedStep == ASSUME StoreInv, Store!TypeOK', NamesAreUsedOnce', Store!Next PROVE SavedIsThere'
<1>0. Store!TypeOK /\ NamesAreUsedOnce /\ SavedIsThere
  BY DEF StoreInv
<1> SUFFICES ASSUME NEW c \in Calls, at'[c] = "saved"
             PROVE  /\ asked'[c] \in Store!Creates /\ Store!Exists(c)' =>
                         [of |-> c, seq |-> 1, text |-> c, by |-> c] \in versions'
                    /\ \A o \in Calls : asked'[c] \in Store!Edits /\ asked'[c].on = o /\ Store!Exists(o)' =>
                         [of |-> o, seq |-> asked'[c].seq, text |-> asked'[c].text, by |-> c] \in versions'
  <2>1. \A c \in Calls : asked'[c] \in Store!Edits => asked'[c].on \in Calls
    BY DEF Store!Edits
  <2> QED BY <2>1 DEF SavedIsThere, Store!Exists
<1>1. CASE at[c] = "saved"
  <2>1. asked'[c] = asked[c]
    BY <1>1, HistoryStays
  <2>2. ASSUME asked[c] \in Store!Creates, Store!Exists(c)'
        PROVE [of |-> c, seq |-> 1, text |-> c, by |-> c] \in versions'
    <3>1. Store!Exists(c)
      BY <1>1, <2>2, HistoryStays
    <3>2. [of |-> c, seq |-> 1, text |-> c, by |-> c] \in versions
      BY <1>0, <1>1, <2>2, <3>1 DEF SavedIsThere
    <3> QED BY <2>2, <3>2, HistoryStays
  <2>3. ASSUME NEW o \in Calls, asked[c] \in Store!Edits, asked[c].on = o, Store!Exists(o)'
        PROVE  [of |-> o, seq |-> asked[c].seq, text |-> asked[c].text, by |-> c] \in versions'
    <3>1. at[o] = "saved"
      BY <1>0, <2>3 DEF NamesAreUsedOnce
    <3>2. Store!Exists(o)
      BY <2>3, <3>1, HistoryStays
    <3>3. [of |-> o, seq |-> asked[c].seq, text |-> asked[c].text, by |-> c] \in versions
      BY <1>0, <1>1, <2>3, <3>2 DEF SavedIsThere
    <3> QED BY <2>3, <3>3, HistoryStays
  <2> QED BY <2>1, <2>2, <2>3
<1>2. CASE at[c] # "saved"
  <2>1. Store!Create(c) \/ Store!Append(c)
    <3>1. Store!CallStep(c)
      BY <1>2, OthersKeepOut
    <3> QED BY <1>2, <3>1, RequestSteps DEF Store!CallStep, Store!SoftDelete
  <2>2. CASE Store!Create(c)
    <3>1. asked'[c] \in Store!Creates
      BY <1>0, <2>2 DEF Store!Create, Store!TypeOK, Store!Creating
    <3>2. [of |-> c, seq |-> 1, text |-> c, by |-> c] \in versions'
      BY <1>0, <2>2 DEF Store!Create, Store!TypeOK
    <3> QED BY <3>1, <3>2, RequestsDiffer
  <2>3. CASE Store!Append(c)
    <3>1. asked'[c] = asked[c] /\ asked[c] \in Store!Edits
      BY <1>0, <2>3 DEF Store!Append, Store!TypeOK, Store!Editing
    <3>2. [of |-> asked[c].on, seq |-> asked[c].seq, text |-> asked[c].text, by |-> c] \in versions'
      BY <1>0, <2>3 DEF Store!Append, Store!TypeOK
    <3> QED BY <3>1, <3>2, RequestsDiffer
  <2> QED BY <2>1, <2>2, <2>3
<1> QED BY <1>1, <1>2

LEMMA StoreStep == StoreInv /\ [Store!Next]_(Store!vars) => StoreInv'
<1>1. ASSUME StoreInv, Store!Next PROVE StoreInv'
  <2>1. Store!TypeOK'
    BY <1>1, StoreTypes
  <2>2. NamesAreUsedOnce'
    BY <1>1, <2>1, NamesStep
  <2>3. HistoryIsGapless'
    BY <1>1, <2>2, HistoryStep
  <2> QED BY <1>1, <2>1, <2>2, <2>3, NextStep, TextStep, SavedStep DEF StoreInv
<1>2. ASSUME StoreInv, UNCHANGED Store!vars PROVE StoreInv'
  <2>1. Store!TypeOK' /\ NamesAreUsedOnce' /\ HistoryIsGapless'
    BY <1>2
      DEF StoreInv, Store!vars, Store!TypeOK, NamesAreUsedOnce, HistoryIsGapless,
          Store!CurrentIsNewest, Store!SeqsOf, Store!Exists
  <2>2. NextIsAtMostNew' /\ TextIsGiven' /\ SavedIsThere'
    BY <1>2
      DEF StoreInv, Store!vars, NextIsAtMostNew, TextIsGiven, SavedIsThere, Store!SeqsOf,
          Store!Exists
  <2> QED BY <2>1, <2>2 DEF StoreInv
<1> QED BY <1>1, <1>2

LEMMA StoreIsSound == Store!Spec => []StoreInv
BY StoreInit, StoreStep, PTL DEF Store!Spec

(* The tables of the store hold what the schema says they hold.             *)
THEOREM StoreTypesAlways == Store!Spec => []Store!TypeOK
<1>1. StoreInv => Store!TypeOK
  BY DEF StoreInv
<1> QED BY <1>1, StoreIsSound, PTL

(* Version numbers are gapless from 1 and the pointer is at the newest, whatever *)
(* edits, rollbacks and deletions meet: artifacts.server.ts.                     *)
THEOREM PointerIsAtTheNewest == Store!Spec => []Store!CurrentIsNewest
<1>1. StoreInv => Store!CurrentIsNewest
  BY DEF StoreInv, HistoryIsGapless
<1> QED BY <1>1, StoreIsSound, PTL

(* What a call answers is borne out by the history.                              *)
THEOREM AnswersAreTrue == Store!Spec => []Store!AnswerIsTrue
<1>1. ASSUME StoreInv PROVE Store!AnswerIsTrue
  <2>1. \A v \in versions : at[v.by] = "saved"
    BY <1>1 DEF StoreInv, NamesAreUsedOnce
  <2>2. SavedIsThere /\ TextIsGiven
    BY <1>1 DEF StoreInv
  <2> QED BY <2>1, <2>2 DEF Store!AnswerIsTrue, SavedIsThere, TextIsGiven
<1> QED BY <1>1, StoreIsSound, PTL

-----------------------------------------------------------------------------
(* Files and rows. *)

\* The part of the state that files and sidecars depend on.
FileTypes ==
    /\ plan \in [Projects -> Plans]
    /\ creation \in [Projects -> {"new", "made", "failed", "dead"} \cup InFlight]
    /\ dirs \in [Projects -> {"none", "plain", "partial", "repo"}]
    /\ deletion \in [Deletes -> {"idle", "done", "dead"} \cup Deleting]
    /\ target \in [Deletes -> Projects]
    /\ sidecars \subseteq [repo : Repos \cup {NoRepo}, project : Projects \cup {Unbound}]
    /\ import \in [Imports -> [at : {"idle", "read", "done"}, repo : Repos \cup {NoRepo}, project : Projects \cup {Unbound}]]

Busy(p, phase) == \E d \in Deletes : target[d] = p /\ deletion[d] = phase
Touched(p) == \E d \in Deletes : target[d] = p /\ deletion[d] # "idle"

\* A directory has somebody who will remove it: whoever deletes the row, as long as the
\* row is not being taken back, or the deletion that has taken the row away.
DirIsAnsweredFor(p) ==
    dirs[p] # "none" /\ <<p, "dir">> \notin strays =>
      \/ /\ HasRow(p) /\ plan[p].kind # "none"
         /\ creation[p] \notin {"new", "named", "dropping", "failed"}
      \/ Busy(p, "removing")

\* A sidecar belongs to a project that is there, and that no deletion has passed; where no
\* import and no detach has had a hand in it, to one whose creation came to its end.
SidecarIsAnsweredFor(p) ==
    /\ SidecarsOf(p) # {} /\ <<p, "sidecar">> \notin strays => HasRow(p) /\ ~Busy(p, "cleared")
    /\ p \notin relinked /\ creation[p] # "made" => SidecarsOf(p) = {}

\* A project that nobody deletes has the files its creation has come to.
FilesAreInPlace(p) ==
    HasRow(p) /\ ~Touched(p) =>
      /\ creation[p] \in {"filled", "binding"} => dirs[p] = "repo"
      /\ creation[p] = "binding" => p \in located
      /\ creation[p] = "made" /\ plan[p].kind # "none" => dirs[p] = "repo" /\ p \in located
      /\ creation[p] = "made" /\ plan[p].kind = "imported" /\ p \notin relinked =>
           {s.repo : s \in SidecarsOf(p)} = {plan[p].repo}

\* The kind of a project decides the way it goes; a row comes with its INSERT.
WayIsKept(p) ==
    /\ creation[p] \in {"filling", "filled"} => plan[p].kind # "none"
    /\ creation[p] \in {"cloning", "binding", "cleaning"} => plan[p].kind = "imported"
    /\ creation[p] \in {"new", "named", "failed"} => ~HasRow(p)

Accounted(p) ==
    DirIsAnsweredFor(p) /\ SidecarIsAnsweredFor(p) /\ FilesAreInPlace(p) /\ WayIsKept(p)

FilesInv == FileTypes /\ \A p \in Projects : Accounted(p)

LEMMA FilesInit == Init => FilesInv
<1> SUFFICES ASSUME Init PROVE FilesInv
  OBVIOUS
<1>1. FileTypes
  BY DEF Init, FileTypes, Plans, InFlight, Deleting
<1>2. \A p \in Projects : dirs[p] = "none" /\ SidecarsOf(p) = {} /\ creation[p] = "new" /\ ~HasRow(p)
  BY NamesAreApart DEF Init, SidecarsOf, HasRow
<1> QED BY <1>1, <1>2 DEF FilesInv, Accounted, DirIsAnsweredFor, SidecarIsAnsweredFor, FilesAreInPlace, WayIsKept

LEMMA FileTypesStep == FileTypes /\ [Next]_vars => FileTypes'
<1> SUFFICES ASSUME FileTypes, [Next]_vars PROVE FileTypes'
  OBVIOUS
<1> USE DEF FileTypes, InFlight, Deleting, creationVars, deletionVars, sourceVars, Goto, SetDir
<1>1. ASSUME NEW p \in Projects,
             (\E w \in Plans : BeginProject(p, w)) \/ InsertRow(p) \/ InitRepo(p)
             \/ Refuse(p) \/ StartClone(p) \/ EndClone(p)
      PROVE  FileTypes'
  <2>1. CASE \E w \in Plans : BeginProject(p, w)
    BY <2>1 DEF BeginProject
  <2>2. CASE InsertRow(p) \/ InitRepo(p)
    BY <2>2 DEF InsertRow, InitRepo
  <2>3. CASE Refuse(p) \/ StartClone(p) \/ EndClone(p)
    BY <2>3 DEF Refuse, StartClone, EndClone
  <2> QED BY <1>1, <2>1, <2>2, <2>3
<1>2. ASSUME NEW p \in Projects, BindRepo(p) PROVE FileTypes'
  <2>1. [repo |-> plan[p].repo, project |-> p] \in [repo : Repos \cup {NoRepo}, project : Projects \cup {Unbound}]
    BY DEF Plans
  <2> DEFINE new == [repo |-> plan[p].repo, project |-> p]
  <2> HIDE DEF new
  <2>2. sidecars' = sidecars \cup {new} \/ sidecars' = sidecars
    BY <1>2 DEF BindRepo, new
  <2>3. sidecars' \subseteq [repo : Repos \cup {NoRepo}, project : Projects \cup {Unbound}]
    BY <2>1, <2>2 DEF new
  <2> QED BY <1>2, <2>3 DEF BindRepo
<1>3. ASSUME NEW p \in Projects,
             \/ RecordPath(p) \/ Throws(p) \/ Clean(p) \/ TakeBack(p) \/ Die(p)
             \/ BindConversation(p) \/ OpenWorkspace(p)
      PROVE  FileTypes'
  BY <1>3 DEF RecordPath, Throws, Clean, TakeBack, Die, BindConversation, OpenWorkspace
<1>4. ASSUME NEW d \in Deletes,
             \/ \E p \in Projects : BeginDelete(d, p)
             \/ ClearSidecar(d) \/ DropProject(d) \/ RemoveDir(d) \/ DieDeleting(d)
      PROVE  FileTypes'
  <2>1. CASE \E p \in Projects : BeginDelete(d, p)
    BY <2>1 DEF BeginDelete
  <2>2. CASE ClearSidecar(d)
    BY <2>2 DEF ClearSidecar
  <2>3. CASE DropProject(d)
    BY <2>3 DEF DropProject
  <2>4. CASE RemoveDir(d) \/ DieDeleting(d)
    BY <2>4 DEF RemoveDir, DieDeleting
  <2> QED BY <1>4, <2>1, <2>2, <2>3, <2>4
<1>5. ASSUME NEW r \in Repos, Sync(r) \/ DetachRepository(r) PROVE FileTypes'
  <2>1. CASE Sync(r)
    BY <2>1 DEF Sync, sourceVars
  <2>2. CASE DetachRepository(r)
    BY <2>2 DEF DetachRepository
  <2> QED BY <1>5, <2>1, <2>2
<1>9. ASSUME NEW i \in Imports, NEW p \in Projects, NEW r \in Repos, ImportReads(i, p, r) PROVE FileTypes'
  BY <1>9 DEF ImportReads
<1>10. ASSUME NEW i \in Imports, ImportUpserts(i) PROVE FileTypes'
  <2>1. [repo |-> import[i].repo, project |-> import[i].project]
          \in [repo : Repos \cup {NoRepo}, project : Projects \cup {Unbound}]
    OBVIOUS
  <2> DEFINE new == [repo |-> import[i].repo, project |-> import[i].project]
  <2> HIDE DEF new
  <2>2. sidecars' = {s \in sidecars : s.repo # import[i].repo} \cup {new}
    BY <1>10 DEF ImportUpserts, new
  <2>3. sidecars' \subseteq [repo : Repos \cup {NoRepo}, project : Projects \cup {Unbound}]
    BY <2>1, <2>2 DEF new
  <2>4. import' \in [Imports -> [at : {"idle", "read", "done"}, repo : Repos \cup {NoRepo}, project : Projects \cup {Unbound}]]
    BY <1>10 DEF ImportUpserts
  <2> QED BY <1>10, <2>3, <2>4 DEF ImportUpserts
<1>6. ASSUME NEW s \in Conversations, DropConversation(s) PROVE FileTypes'
  BY <1>6 DEF DropConversation
<1>7. ASSUME NEW c \in Calls, StoreCall(c) PROVE FileTypes'
  BY <1>7 DEF StoreCall
<1>8. CASE UNCHANGED vars
  BY <1>8 DEF vars
<1> QED BY <1>1, <1>2, <1>3, <1>4, <1>5, <1>6, <1>7, <1>8, <1>9, <1>10 DEF Next

(* A project that a step does not touch stays accounted for.                *)
LEMMA Elsewhere ==
    ASSUME NEW q \in Projects, Accounted(q),
           plan'[q] = plan[q], creation'[q] = creation[q], dirs'[q] = dirs[q],
           HasRow(q)' <=> HasRow(q), q \in located => q \in located',
           SidecarsOf(q)' = SidecarsOf(q), strays \subseteq strays', relinked \subseteq relinked',
           Busy(q, "removing") => Busy(q, "removing")',
           Busy(q, "cleared")' => Busy(q, "cleared"), Touched(q) => Touched(q)'
    PROVE  Accounted(q)'
<1>1. DirIsAnsweredFor(q)'
  BY DEF Accounted, DirIsAnsweredFor
<1>2. SidecarIsAnsweredFor(q)'
  BY DEF Accounted, SidecarIsAnsweredFor
<1>3. FilesAreInPlace(q)'
  BY DEF Accounted, FilesAreInPlace
<1>4. WayIsKept(q)'
  BY DEF Accounted, WayIsKept
<1> QED BY <1>1, <1>2, <1>3, <1>4 DEF Accounted

(* A step of one createProject, or in one project's directory.              *)
LEMMA ProjectStep ==
    ASSUME FilesInv, FileTypes', NEW p \in Projects, UNCHANGED <<deletionVars, relinked>>, strays \subseteq strays',
           \A q \in Projects \ {p} :
             /\ plan'[q] = plan[q] /\ creation'[q] = creation[q] /\ dirs'[q] = dirs[q]
             /\ HasRow(q)' <=> HasRow(q)
             /\ q \in located => q \in located'
             /\ SidecarsOf(q)' = SidecarsOf(q),
           Accounted(p)'
    PROVE  FilesInv'
<1>1. ASSUME NEW q \in Projects \ {p} PROVE Accounted(q)'
  <2>1. \A phase : (Busy(q, phase)' <=> Busy(q, phase)) /\ (Touched(q)' <=> Touched(q))
    BY DEF Busy, Touched, deletionVars
  <2>2. Accounted(q)
    BY DEF FilesInv
  <2> QED BY <2>1, <2>2, Elsewhere
<1> QED BY <1>1 DEF FilesInv

(* The same where the project is not one of the store's, nor deleted.       *)
LEMMA CreationStep ==
    ASSUME FilesInv, [Next]_vars, NEW p \in Projects,
           UNCHANGED <<storeVars, deletionVars, sidecars, relinked>>, strays \subseteq strays',
           \A q \in Projects \ {p} :
             /\ plan'[q] = plan[q] /\ creation'[q] = creation[q] /\ dirs'[q] = dirs[q]
             /\ q \in located => q \in located',
           DirIsAnsweredFor(p)', SidecarIsAnsweredFor(p)', FilesAreInPlace(p)', WayIsKept(p)'
    PROVE  FilesInv'
<1>1. FileTypes'
  BY FileTypesStep DEF FilesInv
<1>2. \A q \in Projects : (HasRow(q)' <=> HasRow(q)) /\ SidecarsOf(q)' = SidecarsOf(q)
  BY DEF HasRow, storeVars, SidecarsOf
<1> QED BY <1>1, <1>2, ProjectStep DEF Accounted

(* A step of one deleteProject.                                             *)
LEMMA DeletionStep ==
    ASSUME FilesInv, FileTypes', NEW d \in Deletes, NEW p \in Projects, target'[d] = p,
           target[d] = p \/ deletion[d] = "idle",
           \A e \in Deletes \ {d} : target'[e] = target[e] /\ deletion'[e] = deletion[e],
           UNCHANGED <<plan, creation, relinked>>, strays \subseteq strays',
           \A q \in Projects \ {p} :
             /\ dirs'[q] = dirs[q]
             /\ HasRow(q)' <=> HasRow(q)
             /\ q \in located => q \in located'
             /\ SidecarsOf(q)' = SidecarsOf(q),
           Accounted(p)'
    PROVE  FilesInv'
<1>1. ASSUME NEW q \in Projects \ {p} PROVE Accounted(q)'
  <2>1. /\ Busy(q, "removing") => Busy(q, "removing")'
        /\ Busy(q, "cleared")' => Busy(q, "cleared")
        /\ Touched(q) => Touched(q)'
    BY DEF Busy, Touched
  <2>2. Accounted(q)
    BY DEF FilesInv
  <2> QED BY <2>1, <2>2, Elsewhere
<1> QED BY <1>1 DEF FilesInv

(* A sidecar is given to a project, or taken from one, by a command.        *)
LEMMA RelinkStep ==
    ASSUME FilesInv, FileTypes', UNCHANGED <<storeVars, creationVars, dirs, deletionVars>>, Relink,
           strays \subseteq strays',
           \A q \in Projects : \/ SidecarsOf(q)' \subseteq SidecarsOf(q) \/ <<q, "sidecar">> \in strays'
                               \/ HasRow(q) /\ ~Busy(q, "cleared")
    PROVE  FilesInv'
<1>1. ASSUME NEW q \in Projects PROVE Accounted(q)'
  <2>1. /\ HasRow(q)' <=> HasRow(q)
        /\ \A phase : Busy(q, phase)' <=> Busy(q, phase)
        /\ Touched(q)' <=> Touched(q)
        /\ UNCHANGED <<plan, creation, located, dirs>>
    BY DEF HasRow, Busy, Touched, storeVars, creationVars, deletionVars
  <2>2. (q \in relinked => q \in relinked') /\ (SidecarsOf(q)' # SidecarsOf(q) => q \in relinked')
    BY DEF Relink
  <2>3. Accounted(q)
    BY DEF FilesInv
  <2>4. DirIsAnsweredFor(q)' /\ WayIsKept(q)'
    BY <2>1, <2>3 DEF Accounted, DirIsAnsweredFor, WayIsKept
  <2>5. SidecarIsAnsweredFor(q)'
    BY <2>1, <2>2, <2>3 DEF Accounted, SidecarIsAnsweredFor
  <2>6. FilesAreInPlace(q)'
    BY <2>1, <2>2, <2>3 DEF Accounted, FilesAreInPlace
  <2> QED BY <2>4, <2>5, <2>6 DEF Accounted
<1> QED BY <1>1 DEF FilesInv

LEMMA FilesStep == FilesInv /\ [Next]_vars => FilesInv'
<1> SUFFICES ASSUME FilesInv, [Next]_vars PROVE FilesInv'
  OBVIOUS
<1>0. FileTypes /\ FileTypes' /\ \A p \in Projects : Accounted(p)
  BY FileTypesStep DEF FilesInv
<1> USE <1>0 DEF creationVars, sourceVars, Goto, SetDir, StrayIf
<1> DEFINE Same(p) == /\ UNCHANGED <<storeVars, deletionVars, sidecars, relinked>>
                      /\ strays \subseteq strays'
                      /\ \A q \in Projects \ {p} :
                           /\ plan'[q] = plan[q] /\ creation'[q] = creation[q] /\ dirs'[q] = dirs[q]
                           /\ q \in located => q \in located'
\* What holds of a project when its row, its sidecars and its deletions stay.
<1>same. ASSUME NEW p \in Projects, Same(p) PROVE
        /\ HasRow(p)' <=> HasRow(p)
        /\ SidecarsOf(p)' = SidecarsOf(p)
        /\ \A phase : Busy(p, phase)' <=> Busy(p, phase)
        /\ Touched(p)' <=> Touched(p)
  BY <1>same DEF HasRow, SidecarsOf, Busy, Touched, storeVars, deletionVars
<1>ways. \A p \in Projects :
           /\ creation[p] = "filled" => plan[p].kind \in {"local", "imported"}
           /\ creation[p] = "binding" => plan[p].kind = "imported"
  <2>1. \A p \in Projects : plan[p].kind \in {"none", "local", "imported"}
    BY DEF FileTypes, Plans
  <2> QED BY <2>1 DEF Accounted, WayIsKept
<1>1. ASSUME NEW p \in Projects, NEW w \in Plans, BeginProject(p, w) PROVE FilesInv'
  <2>1. Same(p) /\ creation[p] = "new" /\ creation'[p] = "named" /\ dirs'[p] = dirs[p]
    BY <1>1 DEF BeginProject, FileTypes
  <2>2. HasRow(p)' <=> HasRow(p)
    BY <2>1, <1>same
  <2>3. DirIsAnsweredFor(p)' /\ SidecarIsAnsweredFor(p)' /\ FilesAreInPlace(p)' /\ WayIsKept(p)'
    BY <2>1, <1>same DEF Accounted, DirIsAnsweredFor, SidecarIsAnsweredFor, FilesAreInPlace, WayIsKept
  <2> QED BY <2>1, <2>3, CreationStep
<1>3. ASSUME NEW p \in Projects, InitRepo(p) PROVE FilesInv'
  <2>1. Same(p) /\ creation[p] = "filling" /\ plan[p].kind = "local" /\ plan'[p] = plan[p] /\ located' = located
    BY <1>3 DEF InitRepo, FileTypes
  <2>2. \/ creation'[p] = "filled" /\ dirs'[p] = "repo" /\ (~HasRow(p) => <<p, "dir">> \in strays')
        \/ creation'[p] = "dropping" /\ dirs'[p] = "plain" /\ <<p, "dir">> \in strays'
        \/ creation'[p] = "dropping" /\ dirs'[p] = dirs[p] /\ (dirs[p] # "none" => <<p, "dir">> \in strays')
    BY <1>3 DEF InitRepo, FileTypes
  <2>3. DirIsAnsweredFor(p)' /\ SidecarIsAnsweredFor(p)' /\ FilesAreInPlace(p)' /\ WayIsKept(p)'
    BY <2>1, <2>2, <1>same DEF Accounted, DirIsAnsweredFor, SidecarIsAnsweredFor, FilesAreInPlace, WayIsKept
  <2> QED BY <2>1, <2>3, CreationStep
<1>4. ASSUME NEW p \in Projects, Refuse(p) PROVE FilesInv'
  <2>1. Same(p) /\ plan'[p] = plan[p] /\ dirs' = dirs /\ located' = located
    BY <1>4 DEF Refuse, FileTypes
  <2>2. creation[p] = "filling" /\ creation'[p] = "cleaning" /\ plan[p].kind = "imported"
    BY <1>4 DEF Refuse, FileTypes
  <2>3. DirIsAnsweredFor(p)' /\ SidecarIsAnsweredFor(p)' /\ FilesAreInPlace(p)' /\ WayIsKept(p)'
    BY <2>1, <2>2, <1>same DEF Accounted, DirIsAnsweredFor, SidecarIsAnsweredFor, FilesAreInPlace, WayIsKept
  <2> QED BY <2>1, <2>3, CreationStep
<1>5. ASSUME NEW p \in Projects, StartClone(p) PROVE FilesInv'
  <2>1. Same(p) /\ plan'[p] = plan[p] /\ located' = located
    BY <1>5 DEF StartClone, FileTypes
  <2>2. /\ creation[p] = "filling" /\ creation'[p] = "cloning" /\ plan[p].kind = "imported"
        /\ dirs'[p] = "partial" /\ (~HasRow(p) => <<p, "dir">> \in strays')
    BY <1>5 DEF StartClone, FileTypes
  <2>3. DirIsAnsweredFor(p)' /\ SidecarIsAnsweredFor(p)' /\ FilesAreInPlace(p)' /\ WayIsKept(p)'
    BY <2>1, <2>2, <1>same DEF Accounted, DirIsAnsweredFor, SidecarIsAnsweredFor, FilesAreInPlace, WayIsKept
  <2> QED BY <2>1, <2>3, CreationStep
<1>6. ASSUME NEW p \in Projects, EndClone(p) PROVE FilesInv'
  <2>1. Same(p) /\ plan'[p] = plan[p] /\ located' = located /\ strays' = strays
    BY <1>6 DEF EndClone, FileTypes
  <2>2. /\ creation[p] = "cloning"
        /\ \/ creation'[p] = "filled" /\ dirs[p] = "partial" /\ dirs'[p] = "repo"
           \/ creation'[p] = "cleaning" /\ (dirs'[p] = "none" \/ dirs'[p] = dirs[p])
    BY <1>6 DEF EndClone, FileTypes
  <2>3. DirIsAnsweredFor(p)' /\ SidecarIsAnsweredFor(p)' /\ FilesAreInPlace(p)' /\ WayIsKept(p)'
    BY <2>1, <2>2, <1>same DEF Accounted, DirIsAnsweredFor, SidecarIsAnsweredFor, FilesAreInPlace, WayIsKept
  <2> QED BY <2>1, <2>3, CreationStep
<1>7. ASSUME NEW p \in Projects, RecordPath(p) PROVE FilesInv'
  <2>1. Same(p) /\ plan'[p] = plan[p] /\ dirs' = dirs /\ strays' = strays
    BY <1>7 DEF RecordPath, FileTypes
  <2>0. plan[p].kind \in {"local", "imported"}
    BY <1>7, <1>ways DEF RecordPath
  <2>2. /\ creation[p] = "filled" /\ (HasRow(p) => p \in located')
        /\ \/ creation'[p] = "made" /\ plan[p].kind = "local"
           \/ creation'[p] = "binding" /\ plan[p].kind = "imported"
    BY <1>7, <2>0 DEF RecordPath, FileTypes
  <2>3. DirIsAnsweredFor(p)' /\ SidecarIsAnsweredFor(p)' /\ FilesAreInPlace(p)' /\ WayIsKept(p)'
    BY <2>1, <2>2, <1>same DEF Accounted, DirIsAnsweredFor, SidecarIsAnsweredFor, FilesAreInPlace, WayIsKept
  <2> QED BY <2>1, <2>3, CreationStep
<1>9. ASSUME NEW p \in Projects, Throws(p) PROVE FilesInv'
  <2>1. Same(p) /\ plan'[p] = plan[p] /\ dirs' = dirs /\ located' = located
    BY <1>9 DEF Throws, FileTypes
  <2>0. plan[p].kind # "local" => plan[p].kind = "imported"
    BY <1>9, <1>ways DEF Throws
  <2>2. \/ creation[p] \in {"filled", "binding"} /\ creation'[p] = "dropping" /\ <<p, "dir">> \in strays'
        \/ creation[p] \in {"filled", "binding"} /\ creation'[p] = "cleaning" /\ plan[p].kind = "imported"
    BY <1>9, <2>0 DEF Throws, FileTypes
  <2>3. DirIsAnsweredFor(p)' /\ SidecarIsAnsweredFor(p)' /\ FilesAreInPlace(p)' /\ WayIsKept(p)'
    BY <2>1, <2>2, <1>same DEF Accounted, DirIsAnsweredFor, SidecarIsAnsweredFor, FilesAreInPlace, WayIsKept
  <2> QED BY <2>1, <2>3, CreationStep
<1>10. ASSUME NEW p \in Projects, Clean(p) PROVE FilesInv'
  <2>1. Same(p) /\ plan'[p] = plan[p] /\ located' = located
    BY <1>10 DEF Clean, FileTypes
  <2>2. /\ creation[p] = "cleaning" /\ creation'[p] = "dropping"
        /\ dirs'[p] = "none" \/ <<p, "dir">> \in strays'
    BY <1>10 DEF Clean, FileTypes
  <2>3. DirIsAnsweredFor(p)' /\ SidecarIsAnsweredFor(p)' /\ FilesAreInPlace(p)' /\ WayIsKept(p)'
    BY <2>1, <2>2, <1>same DEF Accounted, DirIsAnsweredFor, SidecarIsAnsweredFor, FilesAreInPlace, WayIsKept
  <2> QED BY <2>1, <2>3, CreationStep
<1>12. ASSUME NEW p \in Projects, Die(p) PROVE FilesInv'
  <2>1. Same(p) /\ plan'[p] = plan[p] /\ dirs' = dirs /\ located' = located /\ strays' = strays
    BY <1>12 DEF Die, FileTypes
  <2>2. creation[p] \in InFlight /\ creation'[p] = "dead"
    BY <1>12 DEF Die, FileTypes
  <2>3. DirIsAnsweredFor(p)' /\ SidecarIsAnsweredFor(p)' /\ FilesAreInPlace(p)' /\ WayIsKept(p)'
    BY <2>1, <2>2, <1>same DEF Accounted, DirIsAnsweredFor, SidecarIsAnsweredFor, FilesAreInPlace, WayIsKept,
       InFlight
  <2> QED BY <2>1, <2>3, CreationStep
<1>18. ASSUME NEW p \in Projects, OpenWorkspace(p) PROVE FilesInv'
  <2>1. Same(p) /\ plan'[p] = plan[p] /\ located' = located /\ creation' = creation
    BY <1>18 DEF OpenWorkspace, FileTypes
  <2>2. /\ dirs[p] = "none" /\ dirs'[p] = "plain"
        /\ (plan[p].kind = "none" \/ ~HasRow(p) \/ creation[p] = "dropping" => <<p, "dir">> \in strays')
    BY <1>18 DEF OpenWorkspace, FileTypes
  <2>3. DirIsAnsweredFor(p)' /\ SidecarIsAnsweredFor(p)' /\ FilesAreInPlace(p)' /\ WayIsKept(p)'
    BY <2>1, <2>2, <1>same DEF Accounted, DirIsAnsweredFor, SidecarIsAnsweredFor, FilesAreInPlace, WayIsKept
  <2> QED BY <2>1, <2>3, CreationStep
<1>2. ASSUME NEW p \in Projects, InsertRow(p) PROVE FilesInv'
  <2>1. /\ UNCHANGED <<plan, located, sidecars, dirs, deletionVars, strays, relinked>> /\ creation[p] = "named"
        /\ \A q \in Projects \ {p} : creation'[q] = creation[q]
    BY <1>2 DEF InsertRow, FileTypes
  <2>2. \/ creation'[p] = "failed" /\ UNCHANGED scopes
        \/ /\ scopes' = scopes \cup {p}
           /\ \/ creation'[p] = "made" /\ plan[p].kind = "none"
              \/ creation'[p] = "dropping"
              \/ creation'[p] = "filling" /\ plan[p].kind # "none"
    BY <1>2 DEF InsertRow, FileTypes, storeVars, Store!AddScope
  <2>3. /\ \A q \in Projects : SidecarsOf(q)' = SidecarsOf(q)
        /\ \A q \in Projects \ {p} : HasRow(q)' <=> HasRow(q)
        /\ \A phase : Busy(p, phase)' <=> Busy(p, phase)
        /\ creation'[p] = "failed" => ~HasRow(p)'
    BY <2>1, <2>2 DEF HasRow, SidecarsOf, Busy, deletionVars, Accounted, WayIsKept
  <2>4. DirIsAnsweredFor(p)' /\ SidecarIsAnsweredFor(p)' /\ FilesAreInPlace(p)' /\ WayIsKept(p)'
    BY <2>1, <2>2, <2>3 DEF Accounted, DirIsAnsweredFor, SidecarIsAnsweredFor, FilesAreInPlace, WayIsKept
  <2>5. Accounted(p)'
    BY <2>4 DEF Accounted
  <2> QED BY <2>1, <2>3, <2>5, ProjectStep
<1>11. ASSUME NEW p \in Projects, TakeBack(p) PROVE FilesInv'
  <2>1. /\ UNCHANGED <<plan, sidecars, dirs, deletionVars, relinked>>
        /\ strays \subseteq strays' /\ (SidecarsOf(p) # {} => <<p, "sidecar">> \in strays')
        /\ creation[p] = "dropping" /\ creation'[p] = "failed"
        /\ \A q \in Projects \ {p} : creation'[q] = creation[q] /\ (q \in located => q \in located')
    BY <1>11 DEF TakeBack, DeleteRow, FileTypes
  <2>2. scopes' = scopes \ {p}
    BY <1>11 DEF TakeBack, DeleteRow, HasRow, storeVars, Store!DropScope
  <2>3. /\ \A q \in Projects : SidecarsOf(q)' = SidecarsOf(q)
        /\ \A q \in Projects \ {p} : HasRow(q)' <=> HasRow(q)
        /\ \A phase : Busy(p, phase)' <=> Busy(p, phase)
        /\ ~HasRow(p)'
    BY <2>1, <2>2 DEF HasRow, SidecarsOf, Busy, deletionVars
  <2>4. DirIsAnsweredFor(p)' /\ SidecarIsAnsweredFor(p)' /\ FilesAreInPlace(p)' /\ WayIsKept(p)'
    BY <2>1, <2>3 DEF Accounted, DirIsAnsweredFor, SidecarIsAnsweredFor, FilesAreInPlace, WayIsKept
  <2>5. Accounted(p)'
    BY <2>4 DEF Accounted
  <2> QED BY <2>1, <2>3, <2>5, ProjectStep
<1>8. ASSUME NEW p \in Projects, BindRepo(p) PROVE FilesInv'
  <2>1. UNCHANGED <<storeVars, plan, located, dirs, deletionVars, relinked>> /\ creation[p] = "binding" /\ plan[p].kind = "imported"
    BY <1>8, <1>ways DEF BindRepo
  <2>2. /\ \A q \in Projects : (HasRow(q)' <=> HasRow(q)) /\ (Touched(q)' <=> Touched(q))
        /\ \A phase : Busy(p, phase)' <=> Busy(p, phase)
        /\ \A q \in Projects \ {p} : creation'[q] = creation[q]
        /\ p \notin relinked => SidecarsOf(p) = {}
    BY <1>8, <2>1 DEF BindRepo, FileTypes, HasRow, Touched, Busy, storeVars, deletionVars, Accounted, SidecarIsAnsweredFor
  <2>3. CASE creation' = [creation EXCEPT ![p] = "cleaning"] /\ UNCHANGED <<sidecars, strays>>
    <3>1. \A q \in Projects : SidecarsOf(q)' = SidecarsOf(q)
      BY <2>3 DEF SidecarsOf
    <3>2. DirIsAnsweredFor(p)' /\ SidecarIsAnsweredFor(p)' /\ FilesAreInPlace(p)' /\ WayIsKept(p)'
      BY <2>1, <2>2, <2>3, <3>1 DEF FileTypes, Accounted, DirIsAnsweredFor, SidecarIsAnsweredFor, FilesAreInPlace, WayIsKept
    <3> QED BY <2>1, <2>2, <2>3, <3>1, <3>2, ProjectStep DEF Accounted
  <2>4. ASSUME sidecars' = sidecars \cup {[repo |-> plan[p].repo, project |-> p]},
               creation' = [creation EXCEPT ![p] = "made"],
               strays' = IF ~HasRow(p) \/ Busy(p, "cleared") THEN strays \cup {<<p, "sidecar">>} ELSE strays
        PROVE  FilesInv'
    <3> DEFINE new == [repo |-> plan[p].repo, project |-> p]
    <3>1. new.project = p /\ new.repo = plan[p].repo /\ sidecars' = sidecars \cup {new}
      BY <2>4
    <3> HIDE DEF new
    <3>2. SidecarsOf(p)' = SidecarsOf(p) \cup {new} /\ \A q \in Projects \ {p} : SidecarsOf(q)' = SidecarsOf(q)
      BY <2>2, <3>1 DEF SidecarsOf
    <3>3. p \notin relinked => {s.repo : s \in SidecarsOf(p)'} = {plan[p].repo}
      BY <2>2, <3>1, <3>2
    <3>4. creation'[p] = "made" /\ plan'[p] = plan[p] /\ dirs'[p] = dirs[p] /\ located' = located
      BY <2>1, <2>4 DEF FileTypes
    <3>5. DirIsAnsweredFor(p)' /\ WayIsKept(p)'
      BY <2>1, <2>2, <2>4, <3>4 DEF Accounted, DirIsAnsweredFor, WayIsKept
    <3>6. SidecarIsAnsweredFor(p)'
      BY <2>2, <2>4, <3>4 DEF SidecarIsAnsweredFor
    <3>7. FilesAreInPlace(p)'
      BY <2>1, <2>2, <3>3, <3>4 DEF Accounted, FilesAreInPlace
    <3>8. strays \subseteq strays'
      BY <2>4
    <3> QED BY <2>1, <2>2, <3>2, <3>4, <3>5, <3>6, <3>7, <3>8, <2>4, ProjectStep DEF Accounted, FileTypes
  <2>5. \/ creation' = [creation EXCEPT ![p] = "cleaning"] /\ UNCHANGED <<sidecars, strays>>
        \/ /\ sidecars' = sidecars \cup {[repo |-> plan[p].repo, project |-> p]}
           /\ creation' = [creation EXCEPT ![p] = "made"]
           /\ strays' = IF ~HasRow(p) \/ Busy(p, "cleared") THEN strays \cup {<<p, "sidecar">>} ELSE strays
    BY <1>8 DEF BindRepo, Busy, Passed
  <2> QED BY <2>3, <2>4, <2>5
<1>13. ASSUME NEW d \in Deletes, NEW p \in Projects, BeginDelete(d, p) PROVE FilesInv'
  <2>1. /\ UNCHANGED <<storeVars, plan, creation, located, sidecars, dirs, strays, relinked>> /\ deletion[d] = "idle"
        /\ target'[d] = p /\ deletion'[d] = "read"
        /\ \A e \in Deletes \ {d} : target'[e] = target[e] /\ deletion'[e] = deletion[e]
    BY <1>13 DEF BeginDelete, FileTypes
  <2>2. \A q \in Projects : (HasRow(q)' <=> HasRow(q)) /\ SidecarsOf(q)' = SidecarsOf(q)
    BY <2>1 DEF HasRow, SidecarsOf, storeVars
  <2>3. /\ Busy(p, "removing") => Busy(p, "removing")'
        /\ Busy(p, "cleared")' => Busy(p, "cleared")
        /\ Touched(p)'
    BY <2>1 DEF Busy, Touched
  <2>4. DirIsAnsweredFor(p)' /\ SidecarIsAnsweredFor(p)' /\ FilesAreInPlace(p)' /\ WayIsKept(p)'
    BY <2>1, <2>2, <2>3 DEF Accounted, DirIsAnsweredFor, SidecarIsAnsweredFor, FilesAreInPlace, WayIsKept
  <2>5. Accounted(p)'
    BY <2>4 DEF Accounted
  <2> QED BY <2>1, <2>2, <2>5, DeletionStep
<1>14. ASSUME NEW d \in Deletes, ClearSidecar(d) PROVE FilesInv'
  <2>1. PICK p \in Projects : p = target[d]
    BY DEF FileTypes
  <2>2. /\ UNCHANGED <<storeVars, plan, creation, located, dirs, strays, relinked, target>> /\ deletion[d] = "read"
        /\ target'[d] = p /\ deletion'[d] = "cleared"
        /\ sidecars' = {s \in sidecars : s.project # p}
        /\ \A e \in Deletes \ {d} : target'[e] = target[e] /\ deletion'[e] = deletion[e]
    BY <1>14, <2>1 DEF ClearSidecar, FileTypes
  <2>3. /\ \A q \in Projects : HasRow(q)' <=> HasRow(q)
        /\ SidecarsOf(p)' = {}
        /\ \A q \in Projects \ {p} : SidecarsOf(q)' = SidecarsOf(q)
    BY <2>2 DEF HasRow, SidecarsOf, storeVars
  <2>4. (Busy(p, "removing") => Busy(p, "removing")') /\ Touched(p)'
    BY <2>1, <2>2 DEF Busy, Touched
  <2>5. DirIsAnsweredFor(p)' /\ SidecarIsAnsweredFor(p)' /\ FilesAreInPlace(p)' /\ WayIsKept(p)'
    BY <2>2, <2>3, <2>4 DEF Accounted, DirIsAnsweredFor, SidecarIsAnsweredFor, FilesAreInPlace, WayIsKept
  <2>6. Accounted(p)'
    BY <2>5 DEF Accounted
  <2> QED BY <2>1, <2>2, <2>3, <2>6, DeletionStep
<1>15. ASSUME NEW d \in Deletes, DropProject(d) PROVE FilesInv'
  <2>1. PICK p \in Projects : p = target[d]
    BY DEF FileTypes
  <2>2. /\ UNCHANGED <<plan, creation, sidecars, dirs, strays, relinked, target>> /\ deletion[d] = "cleared"
        /\ target'[d] = p
        /\ deletion'[d] = (IF HasRow(p) /\ plan[p].kind # "none" THEN "removing" ELSE "done")
        /\ \A e \in Deletes \ {d} : target'[e] = target[e] /\ deletion'[e] = deletion[e]
        /\ \A q \in Projects \ {p} : q \in located => q \in located'
    BY <1>15, <2>1 DEF DropProject, DeleteRow, FileTypes
  <2>3. scopes' = scopes \ {p}
    BY <1>15, <2>1 DEF DropProject, DeleteRow, HasRow, storeVars, Store!DropScope
  <2>4. /\ \A q \in Projects : SidecarsOf(q)' = SidecarsOf(q)
        /\ \A q \in Projects \ {p} : HasRow(q)' <=> HasRow(q)
        /\ ~HasRow(p)'
    BY <2>2, <2>3 DEF HasRow, SidecarsOf
  <2>5. /\ Busy(p, "removing") => Busy(p, "removing")'
        /\ HasRow(p) /\ plan[p].kind # "none" => Busy(p, "removing")'
        /\ Busy(p, "cleared")
    BY <2>1, <2>2 DEF Busy
  <2>6. DirIsAnsweredFor(p)' /\ SidecarIsAnsweredFor(p)' /\ FilesAreInPlace(p)' /\ WayIsKept(p)'
    BY <2>2, <2>4, <2>5 DEF Accounted, DirIsAnsweredFor, SidecarIsAnsweredFor, FilesAreInPlace, WayIsKept
  <2>7. Accounted(p)'
    BY <2>6 DEF Accounted
  <2> QED BY <2>1, <2>2, <2>4, <2>7, DeletionStep
<1>16. ASSUME NEW d \in Deletes, RemoveDir(d) \/ DieDeleting(d) PROVE FilesInv'
  <2>1. PICK p \in Projects : p = target[d]
    BY DEF FileTypes
  <2>2. /\ UNCHANGED <<storeVars, plan, creation, located, sidecars, relinked, target>> /\ target'[d] = p
        /\ deletion[d] # "idle" /\ deletion'[d] \in {"done", "dead"} /\ strays \subseteq strays'
        /\ \A e \in Deletes \ {d} : target'[e] = target[e] /\ deletion'[e] = deletion[e]
        /\ \A q \in Projects \ {p} : dirs'[q] = dirs[q]
        /\ dirs'[p] = dirs[p] \/ dirs'[p] = "none"
        /\ deletion[d] = "removing" /\ dirs'[p] # "none" => <<p, "dir">> \in strays'
    BY <1>16, <2>1 DEF RemoveDir, DieDeleting, FileTypes, Deleting
  <2>3. \A q \in Projects : (HasRow(q)' <=> HasRow(q)) /\ SidecarsOf(q)' = SidecarsOf(q)
    BY <2>2 DEF HasRow, SidecarsOf, storeVars
  <2>4. /\ deletion[d] # "removing" /\ Busy(p, "removing") => Busy(p, "removing")'
        /\ Busy(p, "cleared")' => Busy(p, "cleared")
        /\ Touched(p)'
    BY <2>1, <2>2 DEF Busy, Touched
  <2>5. DirIsAnsweredFor(p)' /\ SidecarIsAnsweredFor(p)' /\ FilesAreInPlace(p)' /\ WayIsKept(p)'
    BY <2>2, <2>3, <2>4 DEF Accounted, DirIsAnsweredFor, SidecarIsAnsweredFor, FilesAreInPlace, WayIsKept
  <2>6. Accounted(p)'
    BY <2>5 DEF Accounted
  <2> QED BY <2>1, <2>2, <2>3, <2>6, DeletionStep
\* Steps that leave the rows of projects, their directories and their sidecars alone.
<1>17. ASSUME UNCHANGED <<creationVars, dirs, deletionVars, strays, relinked>>,
              \A p \in Projects : (HasRow(p)' <=> HasRow(p)) /\ SidecarsOf(p)' = SidecarsOf(p)
       PROVE  FilesInv'
  <2>1. \A p \in Projects :
             (\A phase : Busy(p, phase)' <=> Busy(p, phase)) /\ (Touched(p)' <=> Touched(p))
    BY <1>17 DEF Busy, Touched, deletionVars
  <2>2. \A p \in Projects : Accounted(p)'
    BY <1>17, <2>1, Elsewhere
  <2> QED BY <2>2 DEF FilesInv
<1>19. ASSUME NEW r \in Repos, Sync(r) PROVE FilesInv'
  <2>1. \A p \in Projects : SidecarsOf(p)' = SidecarsOf(p)
    BY <1>19, NamesAreApart DEF Sync, SidecarsOf
  <2> QED BY <1>17, <1>19, <2>1 DEF Sync, storeVars, HasRow
<1>20. ASSUME NEW s \in Conversations, DropConversation(s) PROVE FilesInv'
  <2>1. \A p \in Projects : (HasRow(p)' <=> HasRow(p)) /\ SidecarsOf(p)' = SidecarsOf(p)
    BY <1>20, NamesAreApart DEF DropConversation, Store!DropScope, HasRow, SidecarsOf
  <2> QED BY <1>17, <1>20, <2>1 DEF DropConversation
<1>21. ASSUME NEW c \in Calls, StoreCall(c) PROVE FilesInv'
  <2>1. scopes' = scopes
    BY <1>21 DEF StoreCall, Store!CallStep, Store!BeginCreate, Store!PickSlug, Store!Create, Store!BeginEdit,
                 Store!ReadTarget, Store!ReadMax, Store!Append, Store!SoftDelete, Store!Abort
  <2> QED BY <1>17, <1>21, <2>1 DEF StoreCall, HasRow, SidecarsOf
<1>24. ASSUME NEW i \in Imports, NEW p \in Projects, NEW r \in Repos, ImportReads(i, p, r) PROVE FilesInv'
  BY <1>17, <1>24 DEF ImportReads, storeVars, HasRow, SidecarsOf
<1>25. ASSUME NEW i \in Imports, ImportUpserts(i) PROVE FilesInv'
  <2>1. ASSUME NEW q \in Projects
        PROVE  \/ SidecarsOf(q)' \subseteq SidecarsOf(q) \/ <<q, "sidecar">> \in strays'
               \/ HasRow(q) /\ ~Busy(q, "cleared")
    <3> DEFINE new == [repo |-> import[i].repo, project |-> import[i].project]
    <3>1. new.project = import[i].project /\ sidecars' \subseteq sidecars \cup {new}
      BY <1>25 DEF ImportUpserts
    <3> HIDE DEF new
    <3>2. CASE q = import[i].project
      BY <1>25, <3>2 DEF ImportUpserts, Busy, Passed
    <3>3. CASE q # import[i].project
      BY <3>1, <3>3 DEF SidecarsOf
    <3> QED BY <3>2, <3>3
  <2> QED BY <1>25, <2>1, RelinkStep DEF ImportUpserts
<1>26. ASSUME NEW r \in Repos, DetachRepository(r) PROVE FilesInv'
  <2>1. \A q \in Projects : SidecarsOf(q)' \subseteq SidecarsOf(q)
    BY <1>26 DEF DetachRepository, SidecarsOf
  <2> QED BY <1>26, <2>1, RelinkStep DEF DetachRepository
<1>22. ASSUME NEW p \in Projects, BindConversation(p) PROVE FilesInv'
  BY <1>17, <1>22 DEF BindConversation, storeVars, HasRow, SidecarsOf
<1>23. CASE UNCHANGED vars
  BY <1>17, <1>23 DEF vars, storeVars, HasRow, SidecarsOf
<1> QED BY <1>1, <1>2, <1>3, <1>4, <1>5, <1>6, <1>7, <1>8, <1>9, <1>10, <1>11, <1>12, <1>13, <1>14, <1>15,
           <1>16, <1>18, <1>19, <1>20, <1>21, <1>22, <1>23, <1>24, <1>25, <1>26 DEF Next

LEMMA FilesAlways == Spec => []FilesInv
BY FilesInit, FilesStep, PTL DEF Spec

(* Rows, sidecars and directories of projects agree, but for the strays that are *)
(* named: createProject, deleteProject and their compensations.                  *)
THEOREM FilesAlwaysFollowRows == Spec => []FilesFollowRows
<1>1. ASSUME FilesInv PROVE FilesFollowRows
  <2>1. ASSUME NEW p \in Projects, ~HasRow(p), Quiet(p)
        PROVE  /\ dirs[p] # "none" => <<p, "dir">> \in strays
               /\ SidecarsOf(p) # {} => <<p, "sidecar">> \in strays
    <3>1. ~Busy(p, "removing")
      BY <2>1 DEF Quiet, BeingDeleted, Busy, Deleting
    <3> QED BY <1>1, <2>1, <3>1 DEF FilesInv, Accounted, DirIsAnsweredFor, SidecarIsAnsweredFor
  <2>2. AnsweredIsWhole
    <3> SUFFICES ASSUME NEW p \in Projects, HasRow(p), creation[p] = "made", plan[p].kind # "none",
                        \A d \in Deletes : target[d] = p => deletion[d] = "idle"
                 PROVE  /\ dirs[p] = "repo" /\ p \in located
                        /\ plan[p].kind = "imported" /\ p \notin relinked => {s.repo : s \in SidecarsOf(p)} = {plan[p].repo}
      BY DEF AnsweredIsWhole
    <3>1. ~Touched(p)
      BY DEF Touched
    <3> QED BY <1>1, <3>1 DEF FilesInv, Accounted, FilesAreInPlace
  <2> QED BY <2>1, <2>2 DEF FilesFollowRows, NothingLeftBehind
<1> QED BY <1>1, FilesAlways, PTL

-----------------------------------------------------------------------------
(* The store inside. *)

(* Every step of projects is one of the artifact store, or leaves it alone: *)
(* rows of projects come and go as its scopes.                              *)
THEOREM StoreIsImplemented == Spec => Store!Spec
<1>1. Init => Store!Init
  BY DEF Init
<1>2. FilesInv /\ [Next]_vars => [Store!Next]_(Store!vars)
  <2> SUFFICES ASSUME FilesInv, [Next]_vars PROVE Store!Next \/ UNCHANGED storeVars
    BY DEF storeVars, Store!vars
  <2>1. ASSUME NEW s \in Scopes, Store!AddScope(s) \/ Store!DropScope(s) PROVE Store!Next
    BY <2>1 DEF Store!Next
  <2>2. \A p \in Projects : p \in Scopes
    BY DEF Scopes
  <2>3. ASSUME NEW p \in Projects, DeleteRow(p) PROVE Store!Next \/ UNCHANGED storeVars
    BY <2>1, <2>2, <2>3 DEF DeleteRow
  <2>4. ASSUME NEW p \in Projects,
               \/ InitRepo(p) \/ Refuse(p) \/ StartClone(p) \/ EndClone(p)
               \/ RecordPath(p) \/ BindRepo(p) \/ Throws(p) \/ Clean(p) \/ Die(p)
               \/ BindConversation(p) \/ OpenWorkspace(p) \/ \E w \in Plans : BeginProject(p, w)
        PROVE  UNCHANGED storeVars
    BY <2>4 DEF InitRepo, Refuse, StartClone, EndClone, RecordPath, BindRepo, Throws, Clean, Die,
                BindConversation, OpenWorkspace, BeginProject
  <2>5. ASSUME NEW p \in Projects, InsertRow(p) \/ TakeBack(p) PROVE Store!Next \/ UNCHANGED storeVars
    BY <2>1, <2>2, <2>3, <2>5 DEF InsertRow, TakeBack
  <2>6. ASSUME NEW d \in Deletes,
               ClearSidecar(d) \/ RemoveDir(d) \/ DieDeleting(d) \/ \E p \in Projects : BeginDelete(d, p)
        PROVE  UNCHANGED storeVars
    BY <2>6 DEF ClearSidecar, RemoveDir, DieDeleting, BeginDelete
  <2>7. ASSUME NEW d \in Deletes, DropProject(d) PROVE Store!Next \/ UNCHANGED storeVars
    <3>1. target[d] \in Projects
      BY DEF FilesInv, FileTypes
    <3> QED BY <2>3, <2>7, <3>1 DEF DropProject
  <2>8. ASSUME NEW s \in Conversations, DropConversation(s) PROVE Store!Next
    BY <2>1, <2>8 DEF DropConversation, Scopes
  <2>9. ASSUME NEW c \in Calls, StoreCall(c) PROVE Store!Next
    BY <2>9 DEF StoreCall, Store!Next
  <2>10. ASSUME NEW r \in Repos,
                \/ Sync(r) \/ DetachRepository(r)
                \/ \E i \in Imports, p \in Projects : ImportReads(i, p, r)
         PROVE  UNCHANGED storeVars
    BY <2>10 DEF Sync, DetachRepository, ImportReads
  <2>12. ASSUME NEW i \in Imports, ImportUpserts(i) PROVE UNCHANGED storeVars
    BY <2>12 DEF ImportUpserts
  <2>11. CASE UNCHANGED vars
    BY <2>11 DEF vars
  <2> QED BY <2>4, <2>5, <2>6, <2>7, <2>8, <2>9, <2>10, <2>11, <2>12 DEF Next
<1> QED BY <1>1, <1>2, FilesAlways, PTL DEF Spec, Store!Spec

(* What was shown of the store alone holds of the store inside: its histories    *)
(* stay gapless while projects are deleted under the calls.                      *)
THEOREM HistoriesOfProjects == Spec => []CurrentIsNewest
BY StoreIsImplemented, PointerIsAtTheNewest, PTL DEF CurrentIsNewest

(* And every answer of artifacts.server.ts is borne out while projects come and go. *)
THEOREM AnswersOfProjects == Spec => []AnswerIsTrue
BY StoreIsImplemented, AnswersAreTrue, PTL DEF AnswerIsTrue
=============================================================================
