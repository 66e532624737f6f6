---------------------------- MODULE MCJobQueue ----------------------------
(* TLC instance of JobQueue in two scenarios: two independent jobs and two    *)
(* crashes, or two requests with one dedupe key, a crash and a stall.  In     *)
(* both j1 has the higher priority and the only handler.                      *)
EXTENDS JobQueueRefinement

CONSTANTS j1, j2, j3, k

VARIABLE scenario

MCPriorityOf == [j \in Jobs |-> IF j = j1 THEN 100 ELSE 50]
MCKeyOf == [j \in Jobs |-> IF j = j2 THEN None ELSE k]

Scenarios ==
    { [requests |-> {j1, j2}, crashes |-> 2, stalls |-> 0, dbErrors |-> 0],
      [requests |-> {j1, j2}, crashes |-> 0, stalls |-> 0, dbErrors |-> 1],
      [requests |-> {j1, j3}, crashes |-> 1, stalls |-> 1, dbErrors |-> 1] }

InScenario ==
    /\ \A j \in Jobs : returned[j] # None => j \in scenario.requests
    /\ crashes <= scenario.crashes /\ stalls <= scenario.stalls /\ dbErrors <= scenario.dbErrors

MCInit == Init /\ scenario \in Scenarios
MCNext == Next /\ UNCHANGED scenario /\ InScenario'
MCSpec == MCInit /\ [][MCNext]_<<vars, scenario>> /\ Fairness
=============================================================================
