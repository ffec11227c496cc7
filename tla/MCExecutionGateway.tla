-------------------------- MODULE MCExecutionGateway --------------------------
\* The orchestrator's calls: fresh execution ids in the worktree of the Work
\* Unit, under worker leases.  The daemon's calls: a request that may come twice,
\* in an ephemeral worktree or not, under leases of the queue.
EXTENDS ExecutionGateway, TLC

CONSTANTS p1, p2, x1, x2, inside, outside, control

MCDeployments ==
  {[ephemeral |-> FALSE, kind |-> "worker", exec |-> p1 :> x1 @@ p2 :> x2]}
    \cup [ephemeral : BOOLEAN, kind : {"queue"}, exec : {[p \in Procs |-> x1]}]
=============================================================================
