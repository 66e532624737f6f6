--------------------------- MODULE MCRunDecisions ---------------------------
(* TLC instance of RunDecisions: the calls that a run makes.  A script's call *)
(* waits beside an approval of the loop, or beside a question of the loop.    *)
EXTENDS RunDecisions

CONSTANTS a, q, n

VARIABLE calls

InScenario == \A c \in Calls : pc[c] # "idle" => c \in calls

MCInit == RunInit /\ calls \in {{a, n}, {q, n}}
MCNext == RunNext /\ UNCHANGED calls /\ InScenario'
MCSpec == MCInit /\ [][MCNext]_<<runVars, calls>> /\ RunFairness
=============================================================================
