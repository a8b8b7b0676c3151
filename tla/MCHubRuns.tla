----------------------------- MODULE MCHubRuns -----------------------------
(***************************************************************************)
(* HubRuns for one execution of each task, and for two of the tasks that   *)
(* share something: the brain, and the job of a visualization.             *)
(***************************************************************************)
EXTENDS HubRuns

CONSTANTS x1, x2

mc_Exec == {x1, x2}

Pair(s, t) == [x \in mc_Exec |-> IF x = x1 THEN s ELSE t]

mc_Together ==
  {Pair(t, "none") : t \in Task} \cup {Pair(t, t) : t \in {"brain", "visualize"}}
=============================================================================
