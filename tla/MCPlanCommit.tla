---------------------------- MODULE MCPlanCommit ----------------------------
(* Instances of PlanCommit for TLC. *)
EXTENDS PlanCommit, TLC

ClientSymmetry == Permutations(Client)

\* An idle request has no state: what its last run left behind is never read.
Live(f) == [p \in Client |-> IF pc[p] = "idle" THEN "none" ELSE f[p]]
RequestView == <<storeVars, pc, Live(req), Live(stage), Live(view),
                 Live(snap), sent, fate, revived, merged, clicks, crashes>>
=============================================================================
