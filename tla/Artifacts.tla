----------------------------- MODULE Artifacts -----------------------------
(***************************************************************************)
(* The artifact store (projects/artifacts.server.ts): documents that hang  *)
(* on a project or on a conversation, with an append-only list of versions *)
(* and a pointer to the current one.  Every call is a server request or a  *)
(* tool call of an agent; the statements of different calls interleave,    *)
(* and so does the deletion of the row an artifact hangs on.  A            *)
(* transaction is one step where its last statement commits: a second      *)
(* INSERT of the same key waits for that commit and then fails, and no     *)
(* SELECT sees the rows before it.  Its SELECT max(seq) is a step of its   *)
(* own: READ COMMITTED gives each statement its own snapshot.              *)
(***************************************************************************)
EXTENDS Naturals, FiniteSets, FiniteSetsExt

CONSTANTS
    Calls,   \* the calls that write; the rows a call inserts carry its name (a random UUID)
    Scopes,  \* the projects and conversations artifacts hang on
    Names    \* the slugs made of the names artifacts are given

VARIABLES
    scopes,    \* projects and conversations that have a row
    artifacts, \* artifacts; NoRow where there is none
    versions,  \* artifact_versions
    at,        \* the statement each call comes to next, or its answer
    asked      \* what the call was asked for, and what it has read so far

vars == <<scopes, artifacts, versions, at, asked>>

NoRow == [none |-> TRUE]
Slugs == Names \X (Nat \ {0})
Rows == [scope : Scopes, slug : Slugs, current : Calls, active : BOOLEAN]
\* A text is named by the call it was first written by.
Versions == [of : Calls, seq : Nat, text : Calls, by : Calls]
Creates == [scope : Scopes, slug : Slugs]
Edits == [on : Calls, back : Nat, seq : Nat, text : Calls]
Creating == {"slug", "create"}
Editing == {"target", "max", "append"}
Answers == {"saved", "nothing", "failed"}

TypeOK ==
    /\ scopes \subseteq Scopes
    /\ artifacts \in [Calls -> Rows \cup {NoRow}]
    /\ versions \subseteq Versions
    /\ at \in [Calls -> {"idle"} \cup Creating \cup Editing \cup Answers]
    /\ asked \in [Calls -> Creates \cup Edits \cup {NoRow}]
    /\ \A c \in Calls : at[c] \in Creating => asked[c] \in Creates
    /\ \A c \in Calls : at[c] \in Editing => asked[c] \in Edits

Init ==
    /\ scopes \in SUBSET Scopes
    /\ artifacts = [a \in Calls |-> NoRow] /\ versions = {}
    /\ at = [c \in Calls |-> "idle"] /\ asked = [c \in Calls |-> NoRow]

Exists(a) == artifacts[a] # NoRow
SeqsOf(a) == {v.seq : v \in {w \in versions : w.of = a}}

-----------------------------------------------------------------------------
(* createArtifact. *)

\* The caller has looked the project or the conversation up.
BeginCreate(c, s, name) ==
    /\ at[c] = "idle" /\ s \in scopes
    /\ at' = [at EXCEPT ![c] = "slug"]
    /\ asked' = [asked EXCEPT ![c] = [scope |-> s, slug |-> <<name, 1>>]]
    /\ UNCHANGED <<scopes, artifacts, versions>>

Taken(s, slug) == \E a \in Calls : Exists(a) /\ artifacts[a].scope = s /\ artifacts[a].slug = slug

\* The first of name, name-2, name-3 that no artifact of the scope has.
PickSlug(c) ==
    /\ at[c] = "slug"
    /\ \E n \in 1..Cardinality(Calls) :
         LET s == asked[c].scope
             slug(i) == <<asked[c].slug[1], i>>
         IN /\ ~Taken(s, slug(n)) /\ \A i \in 1..(n-1) : Taken(s, slug(i))
            /\ asked' = [asked EXCEPT ![c].slug = slug(n)]
    /\ at' = [at EXCEPT ![c] = "create"]
    /\ UNCHANGED <<scopes, artifacts, versions>>

\* The foreign key to the scope, and the unique key over its slugs.
Insertable(s, slug) == s \in scopes /\ ~Taken(s, slug)

\* Artifact, first version and pointer, in one transaction.
Create(c) ==
    /\ at[c] = "create"
    /\ IF Insertable(asked[c].scope, asked[c].slug)
       THEN /\ artifacts' = [artifacts EXCEPT ![c] =
                  [scope |-> asked[c].scope, slug |-> asked[c].slug, current |-> c, active |-> TRUE]]
            /\ versions' = versions \cup {[of |-> c, seq |-> 1, text |-> c, by |-> c]}
            /\ at' = [at EXCEPT ![c] = "saved"]
       ELSE at' = [at EXCEPT ![c] = "failed"] /\ UNCHANGED <<artifacts, versions>>
    /\ UNCHANGED <<scopes, asked>>

-----------------------------------------------------------------------------
(* editArtifact and rollbackArtifact. *)

\* back is the version to go back to, 0 for an edit.
BeginEdit(c, a, back) ==
    /\ at[c] = "idle" /\ Exists(a)
    /\ at' = [at EXCEPT ![c] = IF back = 0 THEN "max" ELSE "target"]
    /\ asked' = [asked EXCEPT ![c] = [on |-> a, back |-> back, seq |-> 0, text |-> c]]
    /\ UNCHANGED <<scopes, artifacts, versions>>

\* Variant: the version of that number of any artifact will do.
ReadTargetAnywhere(c) ==
    /\ at[c] = "target"
    /\ \/ \E v \in versions :
            /\ v.seq = asked[c].back
            /\ asked' = [asked EXCEPT ![c].text = v.text] /\ at' = [at EXCEPT ![c] = "max"]
       \/ /\ asked[c].back \notin SeqsOf(asked[c].on)
          /\ at' = [at EXCEPT ![c] = "nothing"] /\ UNCHANGED asked
    /\ UNCHANGED <<scopes, artifacts, versions>>

\* A rollback reads the text of its target before the transaction begins.
ReadTarget(c) ==
    /\ at[c] = "target"
    /\ \/ \E v \in versions :
            /\ v.of = asked[c].on /\ v.seq = asked[c].back
            /\ asked' = [asked EXCEPT ![c].text = v.text] /\ at' = [at EXCEPT ![c] = "max"]
       \/ /\ asked[c].back \notin SeqsOf(asked[c].on)
          /\ at' = [at EXCEPT ![c] = "nothing"] /\ UNCHANGED asked
    /\ UNCHANGED <<scopes, artifacts, versions>>

NextSeq(a) == Max({0} \cup SeqsOf(a)) + 1

\* An artifact without a version is refused.
ReadMax(c) ==
    /\ at[c] = "max"
    /\ IF NextSeq(asked[c].on) = 1
       THEN at' = [at EXCEPT ![c] = "failed"] /\ UNCHANGED asked
       ELSE /\ asked' = [asked EXCEPT ![c].seq = NextSeq(asked[c].on)]
            /\ at' = [at EXCEPT ![c] = "append"]
    /\ UNCHANGED <<scopes, artifacts, versions>>

\* Variant: no unique key.
AppendableTwice(a, n) == Exists(a)

\* The foreign key to the artifact, and the unique key (artifact_id, seq).
Appendable(a, n) == Exists(a) /\ n \notin SeqsOf(a)

\* The INSERT of the version and the UPDATE of the pointer.
Append(c) ==
    /\ at[c] = "append"
    /\ LET e == asked[c] IN
       IF Appendable(e.on, e.seq)
       THEN /\ versions' = versions \cup {[of |-> e.on, seq |-> e.seq, text |-> e.text, by |-> c]}
            /\ artifacts' = [artifacts EXCEPT ![e.on].current = c]
            /\ at' = [at EXCEPT ![c] = "saved"]
       ELSE at' = [at EXCEPT ![c] = "failed"] /\ UNCHANGED <<artifacts, versions>>
    /\ UNCHANGED <<scopes, asked>>

-----------------------------------------------------------------------------
(* The rest of the store, and its surroundings. *)

\* softDeleteArtifact hides the artifact from the lists and keeps it editable.
SoftDelete(a) ==
    /\ Exists(a) /\ artifacts[a].active
    /\ artifacts' = [artifacts EXCEPT ![a].active = FALSE]
    /\ UNCHANGED <<scopes, versions, at, asked>>

\* A query of the call throws: its transaction leaves nothing behind.
Abort(c) ==
    /\ at[c] \in Creating \cup Editing
    /\ at' = [at EXCEPT ![c] = "failed"]
    /\ UNCHANGED <<scopes, artifacts, versions, asked>>

\* INSERT of a project or a conversation.
AddScope(s) ==
    /\ s \notin scopes /\ scopes' = scopes \cup {s}
    /\ UNCHANGED <<artifacts, versions, at, asked>>

\* DELETE of a project or a conversation, which cascades over artifacts to versions.
DropScope(s) ==
    /\ s \in scopes /\ scopes' = scopes \ {s}
    /\ artifacts' = [a \in Calls |-> IF Exists(a) /\ artifacts[a].scope = s THEN NoRow ELSE artifacts[a]]
    /\ versions' = {v \in versions : artifacts'[v.of] # NoRow}
    /\ UNCHANGED <<at, asked>>

CallStep(c) ==
    \/ \E s \in Scopes, name \in Names : BeginCreate(c, s, name)
    \/ PickSlug(c) \/ Create(c)
    \/ \E a \in Calls, back \in 0..Cardinality(Calls) : BeginEdit(c, a, back)
    \/ ReadTarget(c) \/ ReadMax(c) \/ Append(c)
    \/ SoftDelete(c) \/ Abort(c)

Next ==
    \/ \E c \in Calls : CallStep(c)
    \/ \E s \in Scopes : AddScope(s) \/ DropScope(s)

Spec == Init /\ [][Next]_vars

-----------------------------------------------------------------------------
(* What must hold. *)

\* docs/projects/spec.md, "gapless integers starting at 1" and "always points to the
\* most recently saved version": through concurrent edits that read the same maximum,
\* rollbacks, and the deletion of the project in between.
CurrentIsNewest ==
    \A a \in Calls : Exists(a) =>
      \E v \in versions :
        /\ v.of = a /\ v.by = artifacts[a].current
        /\ SeqsOf(a) = 1..v.seq
        /\ \A w \in versions : w.of = a /\ w.seq = v.seq => w = v

\* An answer tells the truth: what was saved is in the history as long as the artifact
\* is, with the text that was sent or, for a rollback, with the text of the version it
\* named, which is still there; a call that failed has left nothing.
AnswerIsTrue ==
    \A c \in Calls :
      /\ at[c] \in {"nothing", "failed"} => \A v \in versions : v.by # c
      /\ at[c] = "saved" /\ asked[c] \in Creates /\ Exists(c) =>
           [of |-> c, seq |-> 1, text |-> c, by |-> c] \in versions
      /\ at[c] = "saved" /\ asked[c] \in Edits =>
           LET e == asked[c] IN
           Exists(e.on) =>
             /\ [of |-> e.on, seq |-> e.seq, text |-> e.text, by |-> c] \in versions
             /\ e.back = 0 => e.text = c
             /\ e.back > 0 => \E t \in versions : t.of = e.on /\ t.seq = e.back /\ t.text = e.text
=============================================================================
