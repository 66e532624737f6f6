----------------------------- MODULE MCResearch -----------------------------
(* TLC instance of Research in three scenarios.  The user cancels a request   *)
(* whose job is linked before it starts ("linked") or not yet linked when the *)
(* cancel reads the row ("early"), nothing throws and a lane fetches one URL; *)
(* or nobody cancels, the queries of a pass run one after the other, the      *)
(* first one fetching up to two URLs at once, and a statement throws or the   *)
(* process dies, or one after the other ("failure").                          *)
EXTENDS Research

VARIABLE scenario

Hits(l) == {f \in Fetches : f[1] = l /\ fetch[f].at # "absent"}
OneUrl(Ls) == \A l \in Ls : lane[l].at = "fetching" => Cardinality(Hits(l)) = 1
InOrder ==
  /\ Cardinality({l \in Lanes : Active(l)}) <= 1
  /\ \A a \in 1..MaxAttempts : lane[<<a, "q1">>].at = "waiting" => lane[<<a, "q2">>].at \in {"absent", "waiting"}
FirstHasTwo ==
  \A l \in Lanes : lane[l].at = "fetching" => Cardinality(Hits(l)) <= IF l[2] = "q1" THEN 2 ELSE 1

InScenario ==
  CASE scenario = "linked"  -> /\ spent.failures + spent.crashes = 0 /\ loop.gaps = {}
                               /\ OneUrl(Lanes) /\ (job.attempt > 0 => row.jobId)
    [] scenario = "early"   -> /\ spent.failures + spent.crashes = 0 /\ OneUrl(Lanes) /\ ~row.jobId
    [] scenario = "failure" -> spent.cancels = 0 /\ ~row.jobId /\ InOrder /\ FirstHasTwo

MCInit == Init /\ scenario \in {"linked", "early", "failure"}
MCNext == Next /\ UNCHANGED scenario /\ InScenario'
MCSpec == MCInit /\ [][MCNext]_<<vars, scenario>> /\ Fairness
=============================================================================
