----------------------------- MODULE Projects ------------------------------
(***************************************************************************)
(* Projects (projects/projects.server.ts, project-fs.server.ts): a row,    *)
(* a working directory when the project has a repository, and for an       *)
(* imported one a row of `repositories` that no foreign key ties to it.    *)
(* Rows and files are changed in separate steps, and a failure in between  *)
(* is compensated by hand.  The commands of source control bind, rebind    *)
(* and delete the same rows (repository-import.server.ts).  The artifacts  *)
(* of a project go with its row (module Artifacts).                        *)
(***************************************************************************)
EXTENDS Naturals, FiniteSets

CONSTANTS
    Projects,       \* one createProject call each; also the id of its row
    Conversations,  \* the other rows artifacts hang on
    Repos,          \* remote repositories (owner and name)
    Deletes,        \* deleteProject calls
    Imports,        \* importRepository calls
    Calls, Names

VARIABLES scopes, artifacts, versions, at, asked

Scopes == Projects \cup Conversations

Store == INSTANCE Artifacts

VARIABLES
    plan,     \* what each createProject was asked for: its kind, the remote
    creation, \* where each createProject is
    slug,     \* the slug it has picked
    located,  \* projects whose repo_local_path is set
    sidecars, \* repositories: the remote and the project; Unbound after a sync
    dirs,     \* the project's directory on disk
    deletion, \* where each deleteProject is
    target,   \* the project it deletes
    import,   \* each importRepository: where it is, its remote and its project
    bound,    \* projects some conversation has been bound to
    strays,   \* history: projects whose directory or sidecar nobody answers for
    relinked  \* history: projects an import or a detach has given or taken a sidecar

storeVars == <<scopes, artifacts, versions, at, asked>>
creationVars == <<plan, creation, slug, located>>
deletionVars == <<deletion, target>>
sourceVars == <<import, relinked>>
vars == <<storeVars, creationVars, sidecars, dirs, deletionVars, sourceVars, bound, strays>>

NoRepo == "no source"
Unbound == "no project"
ASSUME NamesAreApart == Projects \cap Conversations = {} /\ Unbound \notin Projects

Plans == [kind : {"none", "local"}, repo : {NoRepo}]
           \cup [kind : {"imported"}, repo : Repos \cup {NoRepo}]
InFlight == {"named", "filling", "cloning", "filled", "binding", "cleaning", "dropping"}
Deleting == {"read", "cleared", "removing"}

TypeOK ==
    /\ Store!TypeOK
    /\ plan \in [Projects -> Plans]
    /\ creation \in [Projects -> {"new", "made", "failed", "dead"} \cup InFlight]
    /\ slug \in [Projects -> Nat] /\ located \subseteq Projects
    /\ sidecars \subseteq [repo : Repos, project : Projects \cup {Unbound}]
    /\ dirs \in [Projects -> {"none", "plain", "partial", "repo"}]
    /\ deletion \in [Deletes -> {"idle", "done", "dead"} \cup Deleting]
    /\ target \in [Deletes -> Projects]
    /\ import \in [Imports -> [at : {"idle", "read", "done"}, repo : Repos \cup {NoRepo}, project : Projects \cup {Unbound}]]
    /\ relinked \subseteq Projects
    /\ bound \subseteq Projects /\ strays \subseteq Projects \X {"dir", "sidecar"}

Init ==
    /\ Store!Init /\ scopes = Conversations
    /\ plan = [p \in Projects |-> [kind |-> "none", repo |-> NoRepo]]
    /\ creation = [p \in Projects |-> "new"] /\ slug = [p \in Projects |-> 0]
    /\ located = {} /\ sidecars = {} /\ dirs = [p \in Projects |-> "none"]
    /\ deletion = [d \in Deletes |-> "idle"] /\ target \in [Deletes -> Projects]
    /\ import = [i \in Imports |-> [at |-> "idle", repo |-> NoRepo, project |-> Unbound]]
    /\ bound = {} /\ strays = {} /\ relinked = {}

HasRow(p) == p \in scopes
SidecarsOf(p) == {s \in sidecars : s.project = p}
Goto(p, phase) == creation' = [creation EXCEPT ![p] = phase]
SetDir(p, d) == dirs' = [dirs EXCEPT ![p] = d]
StrayIf(p, what, lost) == strays' = IF lost THEN strays \cup {<<p, what>>} ELSE strays

-----------------------------------------------------------------------------
(* createProject.  All projects are given one name; the slug is its suffix. *)

Free(n) == \A q \in Projects : HasRow(q) => slug[q] # n

\* The slug is picked from the slugs read now; the row is inserted later.
BeginProject(p, w) ==
    /\ creation[p] = "new" /\ Goto(p, "named")
    /\ plan' = [plan EXCEPT ![p] = w]
    /\ \E n \in 1..Cardinality(Projects) :
         /\ Free(n) /\ \A i \in 1..(n-1) : ~Free(i)
         /\ slug' = [slug EXCEPT ![p] = n]
    /\ UNCHANGED <<storeVars, located, sidecars, dirs, deletionVars, bound, strays, sourceVars>>

\* An import without a source is refused after its row has been inserted.
InsertRow(p) ==
    /\ creation[p] = "named"
    /\ IF Free(slug[p])
       THEN /\ Store!AddScope(p)
            /\ Goto(p, IF plan[p].kind = "none" THEN "made"
                       ELSE IF plan[p] = [kind |-> "imported", repo |-> NoRepo] THEN "dropping"
                       ELSE "filling")
       ELSE Goto(p, "failed") /\ UNCHANGED storeVars
    /\ UNCHANGED <<plan, slug, located, sidecars, dirs, deletionVars, bound, strays, sourceVars>>

\* initLocalProjectRepo; when it throws, only the row is taken back.
InitRepo(p) ==
    /\ creation[p] = "filling" /\ plan[p].kind = "local"
    /\ \/ Goto(p, "filled") /\ SetDir(p, "repo") /\ StrayIf(p, "dir", ~HasRow(p))
       \/ Goto(p, "dropping") /\ SetDir(p, "plain") /\ StrayIf(p, "dir", TRUE)
       \/ Goto(p, "dropping") /\ UNCHANGED dirs /\ StrayIf(p, "dir", dirs[p] # "none")
    /\ UNCHANGED <<storeVars, plan, slug, located, sidecars, deletionVars, bound, sourceVars>>

\* importIntoProject, cloneIntoProject: no connection, or git refuses to begin.
Refuse(p) ==
    /\ creation[p] = "filling" /\ plan[p].kind = "imported"
    /\ Goto(p, "cleaning")
    /\ UNCHANGED <<storeVars, plan, slug, located, sidecars, dirs, deletionVars, bound, strays, sourceVars>>

StartClone(p) ==
    /\ creation[p] = "filling" /\ plan[p].kind = "imported"
    /\ Goto(p, "cloning") /\ SetDir(p, "partial") /\ StrayIf(p, "dir", ~HasRow(p))
    /\ UNCHANGED <<storeVars, plan, slug, located, sidecars, deletionVars, bound, sourceVars>>

\* A clone whose directory was removed under it fails.
EndClone(p) ==
    /\ creation[p] = "cloning"
    /\ \/ dirs[p] = "partial" /\ SetDir(p, "repo") /\ Goto(p, "filled")
       \/ Goto(p, "cleaning") /\ (SetDir(p, "none") \/ UNCHANGED dirs)
    /\ UNCHANGED <<storeVars, plan, slug, located, sidecars, deletionVars, bound, strays, sourceVars>>

\* UPDATE projects: a row that is gone is updated in silence.
RecordPath(p) ==
    /\ creation[p] = "filled"
    /\ located' = IF HasRow(p) THEN located \cup {p} ELSE located
    /\ Goto(p, IF plan[p].kind = "local" THEN "made" ELSE "binding")
    /\ UNCHANGED <<storeVars, plan, slug, sidecars, dirs, deletionVars, bound, strays, sourceVars>>

\* A deletion has looked for the sidecars of the project, and not yet deleted its row.
Passed(p) == \E d \in Deletes : target[d] = p /\ deletion[d] = "cleared"

\* INSERT INTO repositories, unique over the user's remotes.  Nothing ties it to the
\* project's row: it can come after a deletion has looked for it.
BindRepo(p) ==
    /\ creation[p] = "binding"
    /\ IF \A s \in sidecars : s.repo # plan[p].repo
       THEN /\ sidecars' = sidecars \cup {[repo |-> plan[p].repo, project |-> p]}
            /\ Goto(p, "made")
            /\ StrayIf(p, "sidecar", ~HasRow(p) \/ Passed(p))
       ELSE Goto(p, "cleaning") /\ UNCHANGED <<sidecars, strays>>
    /\ UNCHANGED <<storeVars, plan, slug, located, dirs, deletionVars, bound, sourceVars>>

\* A statement throws once the files are there.
Throws(p) ==
    /\ creation[p] \in {"filled", "binding"}
    /\ Goto(p, IF plan[p].kind = "local" THEN "dropping" ELSE "cleaning")
    /\ StrayIf(p, "dir", plan[p].kind = "local")
    /\ UNCHANGED <<storeVars, plan, slug, located, sidecars, dirs, deletionVars, bound, sourceVars>>

\* The compensation of an import: deleteProjectFs, which reports no error, ...
Clean(p) ==
    /\ creation[p] = "cleaning" /\ Goto(p, "dropping")
    /\ \/ SetDir(p, "none") /\ UNCHANGED strays
       \/ UNCHANGED dirs /\ StrayIf(p, "dir", TRUE)
    /\ UNCHANGED <<storeVars, plan, slug, located, sidecars, deletionVars, bound, sourceVars>>

\* DELETE FROM projects, whatever hangs on the row by now.
DeleteRow(p) ==
    /\ IF HasRow(p) THEN Store!DropScope(p) ELSE UNCHANGED storeVars
    /\ located' = located \ {p}

\* ... and the row, which is the whole compensation of a local project; a sidecar that an
\* import has bound to the project meanwhile is left.
TakeBack(p) ==
    /\ creation[p] = "dropping" /\ DeleteRow(p) /\ Goto(p, "failed")
    /\ StrayIf(p, "sidecar", SidecarsOf(p) # {})
    /\ UNCHANGED <<plan, slug, sidecars, dirs, deletionVars, bound, sourceVars>>

\* The process ends in the middle of a createProject.
Die(p) ==
    /\ creation[p] \in InFlight /\ Goto(p, "dead")
    /\ UNCHANGED <<storeVars, plan, slug, located, sidecars, dirs, deletionVars, bound, strays, sourceVars>>

-----------------------------------------------------------------------------
(* deleteProject.  Several calls may be under way for one project. *)

BeginDelete(d, p) ==
    /\ deletion[d] = "idle" /\ HasRow(p)
    /\ deletion' = [deletion EXCEPT ![d] = "read"] /\ target' = [target EXCEPT ![d] = p]
    /\ UNCHANGED <<storeVars, creationVars, sidecars, dirs, bound, strays, sourceVars>>

\* Variant: the sidecar is left to a foreign key that does not exist.
LeaveSidecar(d) ==
    /\ deletion[d] = "read" /\ deletion' = [deletion EXCEPT ![d] = "cleared"]
    /\ UNCHANGED <<storeVars, creationVars, sidecars, dirs, target, bound, strays, sourceVars>>

ClearSidecar(d) ==
    /\ deletion[d] = "read" /\ deletion' = [deletion EXCEPT ![d] = "cleared"]
    /\ sidecars' = {s \in sidecars : s.project # target[d]}
    /\ UNCHANGED <<storeVars, creationVars, dirs, target, bound, strays, sourceVars>>

\* The files are left to the call that deleted the row.
DropProject(d) ==
    /\ deletion[d] = "cleared" /\ DeleteRow(target[d])
    /\ deletion' = [deletion EXCEPT ![d] =
         IF HasRow(target[d]) /\ plan[target[d]].kind # "none" THEN "removing" ELSE "done"]
    /\ UNCHANGED <<plan, creation, slug, sidecars, dirs, target, bound, strays, sourceVars>>

\* deleteProjectFs: an error of rm is logged.
RemoveDir(d) ==
    /\ deletion[d] = "removing" /\ deletion' = [deletion EXCEPT ![d] = "done"]
    /\ \/ SetDir(target[d], "none") /\ UNCHANGED strays
       \/ UNCHANGED dirs /\ StrayIf(target[d], "dir", TRUE)
    /\ UNCHANGED <<storeVars, creationVars, sidecars, target, bound, sourceVars>>

\* The process ends, or a query throws, in the middle of a deleteProject.
DieDeleting(d) ==
    /\ deletion[d] \in Deleting /\ deletion' = [deletion EXCEPT ![d] = "dead"]
    /\ StrayIf(target[d], "dir", deletion[d] = "removing")
    /\ UNCHANGED <<storeVars, creationVars, sidecars, dirs, target, bound, sourceVars>>

-----------------------------------------------------------------------------
(* What others do to the same rows and files. *)

\* The tool sync_my_repos inserts a row for every remote that has none.
Sync(r) ==
    /\ \A s \in sidecars : s.repo # r
    /\ sidecars' = sidecars \cup {[repo |-> r, project |-> Unbound]}
    /\ UNCHANGED <<storeVars, creationVars, dirs, deletionVars, bound, strays, sourceVars>>

\* The project is looked up first; without one the call makes one of no repository itself
\* (createProject), and goes on with that.
ImportReads(i, p, r) ==
    /\ import[i].at = "idle" /\ HasRow(p)
    /\ import' = [import EXCEPT ![i] = [at |-> "read", repo |-> r, project |-> p]]
    /\ UNCHANGED <<storeVars, creationVars, sidecars, dirs, deletionVars, bound, strays, relinked>>

Relink == relinked' = relinked \cup {p \in Projects : SidecarsOf(p)' # SidecarsOf(p)}

\* INSERT INTO repositories ON CONFLICT DO UPDATE: the remote's one row is bound to this
\* project, whatever project it was bound to and whether or not this one is still there.
ImportUpserts(i) ==
    /\ import[i].at = "read" /\ import' = [import EXCEPT ![i].at = "done"]
    /\ sidecars' = {s \in sidecars : s.repo # import[i].repo}
                      \cup {[repo |-> import[i].repo, project |-> import[i].project]}
    /\ Relink
    /\ StrayIf(import[i].project, "sidecar", ~HasRow(import[i].project) \/ Passed(import[i].project))
    /\ UNCHANGED <<storeVars, creationVars, dirs, deletionVars, bound>>

\* detachRepository, also of a project that lives.
DetachRepository(r) ==
    /\ \E s \in sidecars : s.repo = r
    /\ sidecars' = {s \in sidecars : s.repo # r} /\ Relink
    /\ UNCHANGED <<storeVars, creationVars, dirs, deletionVars, import, bound, strays>>

\* set_project_context writes conversations.project_id, which is no foreign key.
BindConversation(p) ==
    /\ HasRow(p) /\ p \notin bound /\ bound' = bound \cup {p}
    /\ UNCHANGED <<storeVars, creationVars, sidecars, dirs, deletionVars, strays, sourceVars>>

\* A tool of a bound conversation makes the directory it works in, whatever has become
\* of the project: nobody removes it when the project has no repository, has no row any
\* more, or is being taken back.
OpenWorkspace(p) ==
    /\ p \in bound /\ dirs[p] = "none" /\ SetDir(p, "plain")
    /\ StrayIf(p, "dir", plan[p].kind = "none" \/ ~HasRow(p) \/ creation[p] = "dropping")
    /\ UNCHANGED <<storeVars, creationVars, sidecars, deletionVars, bound, sourceVars>>

\* A conversation is deleted; its artifacts go with it.
DropConversation(s) ==
    /\ Store!DropScope(s)
    /\ UNCHANGED <<creationVars, sidecars, dirs, deletionVars, bound, strays, sourceVars>>

StoreCall(c) ==
    /\ Store!CallStep(c)
    /\ UNCHANGED <<creationVars, sidecars, dirs, deletionVars, bound, strays, sourceVars>>

Next ==
    \/ \E p \in Projects :
         \/ \E w \in Plans : BeginProject(p, w)
         \/ InsertRow(p) \/ InitRepo(p) \/ Refuse(p) \/ StartClone(p) \/ EndClone(p)
         \/ RecordPath(p) \/ BindRepo(p) \/ Throws(p) \/ Clean(p) \/ TakeBack(p) \/ Die(p)
         \/ BindConversation(p) \/ OpenWorkspace(p)
    \/ \E d \in Deletes :
         \/ \E p \in Projects : BeginDelete(d, p)
         \/ ClearSidecar(d) \/ DropProject(d) \/ RemoveDir(d) \/ DieDeleting(d)
    \/ \E r \in Repos :
         \/ Sync(r) \/ DetachRepository(r)
         \/ \E i \in Imports, p \in Projects : ImportReads(i, p, r)
    \/ \E i \in Imports : ImportUpserts(i)
    \/ \E s \in Conversations : DropConversation(s)
    \/ \E c \in Calls : StoreCall(c)

Spec == Init /\ [][Next]_vars

-----------------------------------------------------------------------------
(* What must hold. *)

BeingDeleted(p) == \E d \in Deletes : target[d] = p /\ deletion[d] \in Deleting
Quiet(p) == creation[p] \notin InFlight /\ ~BeingDeleted(p)
\* A project that has no row, and no call under way, has neither a directory nor a
\* sidecar row, however creations, deletions, syncs, imports, tool calls and crashes were
\* interleaved; the steps that let something go astray are named in strays.
NothingLeftBehind ==
    \A p \in Projects : ~HasRow(p) /\ Quiet(p) =>
      /\ dirs[p] # "none" => <<p, "dir">> \in strays
      /\ SidecarsOf(p) # {} => <<p, "sidecar">> \in strays

\* A project whose creation has been answered, and that no deletion has touched, is
\* whole: the row, the working tree where the row says it is, and for an import the one
\* sidecar that names its remote, unless the user has rebound or detached a sidecar of it.
AnsweredIsWhole ==
    \A p \in Projects :
      /\ HasRow(p) /\ creation[p] = "made" /\ plan[p].kind # "none"
      /\ \A d \in Deletes : target[d] = p => deletion[d] = "idle"
      => /\ dirs[p] = "repo" /\ p \in located
         /\ plan[p].kind = "imported" /\ p \notin relinked => {s.repo : s \in SidecarsOf(p)} = {plan[p].repo}

\* Rows and files agree, though no transaction covers both.
FilesFollowRows == NothingLeftBehind /\ AnsweredIsWhole

\* The artifact store inside (module Artifacts), whose scopes come and go here.
CurrentIsNewest == Store!CurrentIsNewest
AnswerIsTrue == Store!AnswerIsTrue
=============================================================================
