------------------------------ MODULE MCTPCluster ------------------------------
(* Instances of TPCluster for TLC. *)
EXTENDS TPCluster

Rollout(key, rows, wait) == [op |-> "rollout", key |-> key, rows |-> rows, wait |-> wait]
Other == [op |-> "other", key |-> "k1", rows |-> Groups, wait |-> World]

\* result_ranks of an async call.
Leaders == {r \in World : Leader(r)}

\* Async rollouts of two kinds, a sync rollout and a training command.
MixedShapes ==
  {Rollout("k1", Groups, Leaders), Rollout("k2", Groups, Leaders), Other}

\* One or both DP groups have rows.
SplitShapes == {Rollout("k1", {0}, Leaders), Rollout("k1", Groups, World), Other}
=============================================================================
