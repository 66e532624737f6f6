------------------------------ MODULE MCMemory ------------------------------
(* TLC instance of Memory in three scenarios: two conversations of one message *)
(* are mined side by side; one of two messages that may differ in topic is; or *)
(* three wings come to be, so that the winner of one merge may lose the next.  *)
EXTENDS Memory

CONSTANTS c, d, E, u

VARIABLE scenario

TwoWings == \A k \in Convs : wing[k] = NoRow \/ wing[k][1] # E
OneTopic == \A cl \in closets : cl[2] # u

InScenario ==
    /\ spent.failures + spent.deletes + spent.crashes <= 1
    /\ \/ scenario = "two conversations" /\ messages[c] <= 1 /\ messages[d] <= 1 /\ TwoWings /\ OneTopic
       \/ scenario = "one conversation" /\ messages[d] = 0 /\ TwoWings
       \/ /\ scenario = "three wings" /\ messages[c] <= 1 /\ messages[d] <= 1 /\ OneTopic
          /\ spent.deletes = 0 /\ spent.crashes = 0
          /\ At("idle") \/ \A n \in Names : born[n] > 0

MCInit == Init /\ scenario \in {"two conversations", "one conversation", "three wings"}
MCNext == Next /\ UNCHANGED scenario /\ InScenario'
MCSpec == MCInit /\ [][MCNext]_<<vars, scenario>> /\ Fairness
=============================================================================
