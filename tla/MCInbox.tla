------------------------------ MODULE MCInbox ------------------------------
(* Small instances of Inbox: a run whose hooks fail, or requests at the cap. *)
EXTENDS Inbox

CONSTANTS e1, e2, q1, q2, q3

VARIABLE actors

Scenarios == {{e1, e2}, {e1, q1}, {q1, q2, q3}}

InScenario ==
    /\ \A d \in Dispatches : dispatch[d] # "none" => d[1] \in actors
    /\ \A q \in Requests : request[q] # "idle" => q \in actors
    /\ period > 1 => q2 \in actors

MCInit == Init /\ actors \in Scenarios
MCNext == Next /\ UNCHANGED actors /\ InScenario'

MCSpec == MCInit /\ [][MCNext]_<<vars, actors>>
=============================================================================
