------------------------ MODULE JobQueueRefinement ------------------------
(* The job queue, as long as no lease lapses under a live holder, implements *)
(* JobLifecycle.                                                             *)
EXTENDS JobQueue

ownerOf == [j \in Jobs |-> {w \in Workers : Holds(w, j)}]

phaseOf == [j \in Jobs |->
    IF ownerOf[j] # {} THEN "owned"
    ELSE IF status[j] = "absent" THEN "absent"
    ELSE IF status[j] = "running" THEN "lost"
    ELSE IF status[j] \in Terminal THEN "finished"
    ELSE "waiting"]

Lifecycle == INSTANCE JobLifecycle WITH phase <- phaseOf, owner <- ownerOf, tries <- attempts

\* The statements of claimNextJob, beginJob, completeJob, failJob and cancelJob
\* amount to the promised lifecycle, whatever crashes and database errors occur,
\* until a lease lapses under a live holder.
ImplementsLifecycle ==
    Lifecycle!Init /\ [][stalls' = 0 => Lifecycle!Next]_(Lifecycle!vars)

=============================================================================
