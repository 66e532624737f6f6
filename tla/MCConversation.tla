--------------------------- MODULE MCConversation ---------------------------
(* Small instances of Conversation: who takes part, and what may go wrong. *)
EXTENDS Conversation

CONSTANTS r1, r2, r3, s1, s2

VARIABLE scenario

mcvars == <<vars, scenario>>

Scenarios ==
    { [actors |-> {r1, r3}, edits |-> 0, crashes |-> 0],
      [actors |-> {r1, r2}, edits |-> 1, crashes |-> 0],
      [actors |-> {r1, s1, s2}, edits |-> 0, crashes |-> 0],
      [actors |-> {r1, s1}, edits |-> 1, crashes |-> 1] }

InScenario ==
    /\ \A r \in Requests : pc[r] # "idle" => r \in scenario.actors
    /\ \A s \in Switches : switch[s] # "idle" => s \in scenario.actors
    /\ truncations <= scenario.edits /\ crashes <= scenario.crashes

MCInit == Init /\ scenario \in Scenarios
MCNext ==
    /\ Next /\ UNCHANGED scenario /\ InScenario'
    /\ clock' > clock + 1 => clock = 1 /\ scenario.edits > 0

MCSpec == MCInit /\ [][MCNext]_mcvars /\ Fairness
=============================================================================
