---------------------------- MODULE MCProjects -----------------------------
(* Small instances of Projects: rows and files, also with an import that rebinds *)
(* their sidecars, or the artifacts of one project.                          *)
EXTENDS Projects, TLC

CONSTANTS p1, p2, d1, d2, i1, c1, c2, c3

VARIABLE actors

Scenarios == {{p1, p2, d1}, {p1, d1, d2}, {p1, p2, i1}, {p1, d1, i1}, {p1, d1, c1, c2, c3}}

InScenario ==
    /\ \A p \in Projects : creation[p] # "new" => p \in actors
    /\ \A d \in Deletes : deletion[d] # "idle" => d \in actors
    /\ (\E i \in Imports : import[i].at # "idle") \/ relinked # {} => i1 \in actors
    /\ \A c \in Calls : at[c] # "idle" => c \in actors
    /\ p2 \notin bound /\ creation[p2] # "dead"
    /\ c1 \in actors => \A p \in Projects : plan[p].kind = "none"

MCInit == Init /\ target = [d \in Deletes |-> p1] /\ actors \in Scenarios
MCNext == Next /\ UNCHANGED actors /\ InScenario'

\* No definition names a call; the scenarios have all of them or none.
CallSymmetry == Permutations(Calls)

MCSpec == MCInit /\ [][MCNext]_<<vars, actors>>
=============================================================================
