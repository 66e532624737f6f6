---------------------------- MODULE JobLifecycle ----------------------------
(***************************************************************************)
(* What the job queue promises its callers, without leases, row locks or   *)
(* statements: a submitted job waits, is owned by one worker at a time, is *)
(* started at most MaxAttempts times, and once finished never comes back.  *)
(* A job whose owner died while executing is lost: only a cancel ends it.  *)
(***************************************************************************)
EXTENDS Naturals

CONSTANTS Jobs, Workers, MaxAttempts

VARIABLES
    phase,   \* "absent", "waiting", "owned", "lost" or "finished"
    owner,   \* the workers that own the job: never more than one
    tries    \* how often the job was started

vars == <<phase, owner, tries>>

Init ==
    /\ phase = [j \in Jobs |-> "absent"]
    /\ owner = [j \in Jobs |-> {}]
    /\ tries = [j \in Jobs |-> 0]

Move(j, from, to, o) ==
    /\ phase[j] = from
    /\ phase' = [phase EXCEPT ![j] = to]
    /\ owner' = [owner EXCEPT ![j] = o]
    /\ UNCHANGED tries

Submit(j)  == Move(j, "absent", "waiting", {})
Take(w, j) == Move(j, "waiting", "owned", {w})
Start(j) ==
    /\ phase[j] = "owned" /\ tries[j] < MaxAttempts
    /\ tries' = [tries EXCEPT ![j] = @ + 1]
    /\ UNCHANGED <<phase, owner>>
Requeue(j) == tries[j] < MaxAttempts /\ Move(j, "owned", "waiting", {})
Finish(j)  == Move(j, "owned", "finished", {})
Lose(j)    == Move(j, "owned", "lost", {})
Cancel(j)  == Move(j, "waiting", "finished", {}) \/ Move(j, "lost", "finished", {})

Next ==
    \E j \in Jobs :
        \/ Submit(j) \/ Start(j) \/ Requeue(j) \/ Finish(j) \/ Lose(j) \/ Cancel(j)
        \/ \E w \in Workers : Take(w, j)

Spec == Init /\ [][Next]_vars
=============================================================================
