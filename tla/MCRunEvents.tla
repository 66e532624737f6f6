---------------------------- MODULE MCRunEvents ----------------------------
(* TLC instance of RunEvents in two scenarios: a script's calls emit side by  *)
(* side until the loop fails ("together"), or the loop emits alone to a page  *)
(* that loses its connection more often ("alone").                            *)
EXTENDS RunEvents

VARIABLE scenario

Emits(e) == IF scenario = "alone" THEN e = "loop" ELSE e # "loop" \/ ended

InScenario ==
    /\ \A e \in Emitters : pc'[e] # pc[e] => Emits(e) \/ pc'[e] = "dead"
    /\ scenario = "together" => attempts' <= 1 /\ drops' <= 1

\* As Fairness, of the emitters that take part; a loop whose script emits comes to its end.
MCFairness ==
    /\ \A e \in Emitters : WF_vars(Emits(e) /\ EmitStep(e))
    /\ WF_vars(scenario = "together" /\ FailRun)
    /\ WF_vars(CompleteRun) /\ WF_vars(ReapRun) /\ WF_vars(CloseLive)
    /\ WF_vars(HandlerStep) /\ WF_vars(ClientStep)

MCInit == Init /\ scenario \in {"together", "alone"}
MCNext == Next /\ UNCHANGED scenario /\ InScenario
MCSpec == MCInit /\ [][MCNext]_<<vars, scenario>> /\ MCFairness
=============================================================================
