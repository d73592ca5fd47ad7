--------------------------- MODULE MCPolicyTrainer ---------------------------
(* Small configurations of PolicyTrainer.                                  *)
EXTENDS PolicyTrainer

MCRequests == {[block |-> 4, n |-> 1], [block |-> 4, n |-> 2]}

\* The reference copies the actor, the critic copies it or has a checkpoint.
MCPaths == {p \in [Roles -> {Actor, "own", "second"}] :
              p["ref"] = Actor /\ p["critic"] \in {Actor, "own"} /\ p["reward"] = "second"}

MCCfgs == {c \in Cfgs : c.paths \in MCPaths}

MCPlans == {p \in Plans :
  /\ p.algo # "ppo" => ~p.reward /\ p.warmup = 0
  /\ p.algo = "ppo" => p.save = 1
  /\ p.algo \in {"dpo", "sft"} => ~p.agentic
  /\ p.algo \in {"probe_rollout", "probe_train"} => ~p.agentic /\ p.save = 1 /\ p.maxSteps = 0
  /\ p.maxSteps \in {0, 2}}

Start == plan \in MCPlans /\ cfg \in MCCfgs /\ WInit /\ TInit

MCSpec == Start /\ [][TNext]_vars /\ WF_vars(TNext)
=============================================================================
