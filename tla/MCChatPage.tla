----------------------------- MODULE MCChatPage -----------------------------
(* TLC instance of ChatPage in three scenarios: one longer turn in which      *)
(* nothing fails ("fold"); short turns with failures and retries ("fault");   *)
(* short turns and an edit ("edit").                                          *)
EXTENDS ChatPage

VARIABLE scenario

\* The typewriter stands still, and the model answers, asks or refuses to, as often as Moves says.
Short(Moves) ==
  /\ page.text # << >> => page.blocks[LastOf(page, "text")].content = << >>
  /\ Cardinality({i \in DOMAIN run.log : run.log[i].id = i}) <= Moves[run.turn]
  /\ \A i \in DOMAIN run.log : run.log[i].type \notin {"reasoning", "pending", "call"}

InScenario ==
  CASE scenario = "fold"  -> /\ spent = [faults |-> 0, edits |-> 0]
                             /\ run.turn <= 1 /\ page.question <= 1
    [] scenario = "fault" -> spent.edits = 0 /\ (run.turn = 0 \/ Short(<<1, 0>>))
    [] scenario = "edit"  -> spent.faults = 0 /\ (run.turn = 0 \/ Short(<<2, 1>>))

MCInit == Init /\ scenario \in {"fold", "fault", "edit"}
MCNext == Next /\ UNCHANGED scenario /\ InScenario'
MCSpec == MCInit /\ [][MCNext]_<<vars, scenario>> /\ Fairness
=============================================================================
