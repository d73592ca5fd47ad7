---------------------------- MODULE PolicyTrainer ----------------------------
(***************************************************************************)
(* The trainer loops (api/trainers) over the Trainer (api/trainer.py), the *)
(* backend and one worker rank: policy-only (GRPO, GSPO), PPO, DPO, SFT.   *)
(* The loop is synchronous; a call of the backend is the begin and the end *)
(* of a pass of WorkerResidency.  A batch is known by the versions of the  *)
(* actor and the critic that its numbers come from.                        *)
(***************************************************************************)
EXTENDS WorkerResidency, Sequences

CONSTANTS MaxBatches,   \* batches of the data set
          MaxCalls      \* rollout calls of one agentic session

VARIABLES
  plan,      \* [algo, agentic, reward, warmup, maxSteps, save, updates]: the configuration
  pc,        \* where the fit loop is
  left,      \* batches not yet taken
  step,      \* the loop's own step counter
  gstep,     \* ctx.global_step
  active,    \* _step_active
  depth,     \* _rollout_session_depth
  calls,     \* rollout calls of the session so far
  queue,     \* models that have still to score the batch
  sources,   \* actor versions the batch's log-probabilities come from
  values,    \* critic version the batch's values come from
  recorded   \* ctx.global_step of the last recorded update

tvars == <<plan, pc, left, step, gstep, active, depth, calls, queue, sources, values, recorded>>
vars == <<wvars, tvars>>

\* updates: the most optimizer steps of a training call, 1 when no
\* gradient_accumulation_steps are set: the batch is then one group.
Plans ==
  [algo : {"policy", "ppo", "dpo", "sft", "probe_rollout", "probe_train"}, agentic : BOOLEAN, reward : BOOLEAN,
   warmup : 0..1, maxSteps : 0..2, save : 1..2,
   updates : 1..MaxUpdates]

PolicyRoles == {}
PPORoles == {"ref", "critic"} \cup (IF plan.reward THEN {"reward"} ELSE {})
DPORoles == {"ref"}
NeededRoles == CASE plan.algo = "ppo" -> PPORoles
                 [] plan.algo = "dpo" -> DPORoles
                 [] OTHER -> PolicyRoles

\* Mutant: the values of the batch are never asked for.
PPOScoresNoCritic == IF plan.reward THEN <<"reward", "ref", Actor>> ELSE <<"ref", Actor>>

\* The models that score a batch, in the order of _materialize_train_batch.
PPOScores ==
  IF plan.reward THEN <<"reward", "ref", Actor, "critic">> ELSE <<"ref", Actor, "critic">>

ASSUME RoleAssumption == {"ref", "critic", "reward"} \subseteq Roles

TInit ==
  /\ pc = "init" /\ left = MaxBatches /\ step = 0 /\ gstep = 0 /\ active = FALSE
  /\ depth = 0 /\ calls = 0 /\ queue = <<>> /\ sources = {} /\ values = 0 /\ recorded = 0

-----------------------------------------------------------------------------
(* Trainer: the step and the rollout session.                              *)

BeginStep ==
  IF active THEN UNCHANGED <<gstep, active>>
  ELSE gstep' = gstep + 1 /\ active' = TRUE

FinishStep == active' = FALSE /\ UNCHANGED gstep

OpenSession ==
  /\ pc = "session" /\ depth = 0 /\ plan.algo # "probe_rollout"
  /\ BeginStep /\ SessionBegin
  /\ depth' = 1 /\ calls' = 0 /\ pc' = "rollout"
  /\ UNCHANGED <<plan, left, step, queue, sources, values, recorded>>

Sampling == plan.algo \in {"policy", "ppo"}

RolloutCall(q, captured) ==
  /\ pc = "rollout" /\ depth > 0 /\ Sampling
  /\ calls < IF plan.agentic THEN MaxCalls ELSE 1
  /\ BeginStep /\ RolloutBegin(q, captured)
  /\ calls' = calls + 1
  /\ sources' = sources \cup {pass'.weights}
  /\ UNCHANGED <<plan, pc, left, step, depth, queue, values, recorded>>

\* A call with fewer prompts than ranks, on a rank that gets none.
RolloutCallIdle ==
  /\ pc = "rollout" /\ depth > 0 /\ Sampling
  /\ calls < IF plan.agentic THEN MaxCalls ELSE 1
  /\ BeginStep /\ RolloutIdleRank
  /\ calls' = calls + 1
  /\ sources' = sources \cup {w.version}
  /\ UNCHANGED <<plan, pc, left, step, depth, queue, values, recorded>>

RolloutReturn == pc = "rollout" /\ RolloutEnd /\ UNCHANGED tvars

CloseSession ==
  /\ pc = "rollout" /\ calls > 0
  /\ SessionEnd
  /\ depth' = 0
  /\ IF plan.algo = "ppo" THEN pc' = "score" /\ queue' = PPOScores
                          ELSE pc' = "train" /\ UNCHANGED queue
  /\ UNCHANGED <<plan, left, step, gstep, active, calls, sources, values, recorded>>

\* The dummy runs of auto_tune: the cache of a rollout alone, or the cache within
\* a session followed by a training step.
ProbeRolloutStage(q, captured) ==
  /\ pc = "session" /\ plan.algo = "probe_rollout"
  /\ ProbeRolloutCache(q, captured)
  /\ pc' = "close"
  /\ UNCHANGED <<plan, left, step, gstep, active, depth, calls, queue, sources, values, recorded>>

ProbeTrainStage(q, captured) ==
  /\ pc = "rollout" /\ plan.algo = "probe_train" /\ calls = 0
  /\ ProbeRolloutCache(q, captured)
  /\ calls' = 1
  /\ UNCHANGED <<plan, pc, left, step, gstep, active, depth, queue, sources, values, recorded>>

-----------------------------------------------------------------------------
(* The fit loops.                                                          *)

Prepare ==
  /\ pc = "init"
  /\ IF NeededRoles = {} THEN pc' = "loop" /\ UNCHANGED wvars
                         ELSE pc' = "roles" /\ EnsureRoles(NeededRoles)
  /\ UNCHANGED <<plan, left, step, gstep, active, depth, calls, queue, sources, values, recorded>>

BuildOne(r) == pc = "roles" /\ BuildRole(r) /\ UNCHANGED tvars

BuildOneEnd == pc = "roles" /\ BuildRoleEnd /\ UNCHANGED tvars

RolesReady ==
  /\ pc = "roles" /\ todo = {} /\ Resting
  /\ pc' = "loop"
  /\ UNCHANGED <<wvars, plan, left, step, gstep, active, depth, calls, queue, sources, values, recorded>>

\* The next batch of load_prompt_batches or _iter_train_batches.
TakeBatch ==
  /\ pc = "loop" /\ left > 0
  /\ left' = left - 1 /\ sources' = {} /\ values' = 0
  /\ CASE plan.algo = "sft" -> pc' = "train" /\ queue' = <<>>
       [] plan.algo = "dpo" -> pc' = "score" /\ queue' = <<"ref">>
       [] OTHER -> pc' = "session" /\ queue' = <<>>
  /\ UNCHANGED <<wvars, plan, step, gstep, active, depth, calls, recorded>>

NoMoreBatches ==
  /\ pc = "loop" /\ left = 0
  /\ pc' = "close"
  /\ UNCHANGED <<wvars, plan, left, step, gstep, active, depth, calls, queue, sources, values, recorded>>

ScoreNext ==
  /\ pc = "score" /\ queue # <<>>
  /\ IF Head(queue) = Actor THEN ScoreActor ELSE ScoreRole(Head(queue))
  /\ queue' = Tail(queue)
  /\ UNCHANGED <<plan, pc, left, step, gstep, active, depth, calls, sources, values, recorded>>

ScoreReturn ==
  /\ pc = "score" /\ ScoreEnd
  /\ sources' = IF pass.model = Actor THEN sources \cup {pass.weights} ELSE sources
  /\ values' = IF pass.model = "critic" THEN pass.weights ELSE values
  /\ UNCHANGED <<plan, pc, left, step, gstep, active, depth, calls, queue, recorded>>

StepDone ==
  /\ step' = step + 1
  /\ pc' = IF plan.maxSteps > 0 /\ step + 1 >= plan.maxSteps THEN "close" ELSE "loop"

\* Every row of the batch had nothing to learn from: the step counts, and the
\* trainer's own step stays open.
EmptyBatch ==
  /\ pc = "score" /\ queue = <<>> /\ Resting /\ plan.algo = "ppo"
  /\ StepDone
  /\ UNCHANGED <<wvars, plan, left, gstep, active, depth, calls, queue, sources, values, recorded>>

Scored ==
  /\ pc = "score" /\ queue = <<>>
  /\ IF plan.algo = "ppo"
     THEN (\E n \in 1..plan.updates : TrainValues("critic", n)) /\ pc' = "values"
     ELSE Resting /\ pc' = "train" /\ UNCHANGED wvars
  /\ UNCHANGED <<plan, left, step, gstep, active, depth, calls, queue, sources, values, recorded>>

CriticSteps == pc = "values" /\ ValueStep /\ UNCHANGED tvars

CriticTrained ==
  /\ pc = "values" /\ TrainValuesEnd
  /\ pc' = "train"
  /\ UNCHANGED <<plan, left, step, gstep, active, depth, calls, queue, sources, values, recorded>>

ShouldTrainPolicy == plan.algo = "ppo" => step >= plan.warmup

SkipTrain ==
  /\ pc = "train" /\ Resting /\ ~ShouldTrainPolicy
  /\ FinishStep /\ StepDone
  /\ UNCHANGED <<wvars, plan, left, depth, calls, queue, sources, values, recorded>>

TrainPolicy ==
  /\ pc = "train" /\ ShouldTrainPolicy
  /\ BeginStep /\ \E n \in 1..plan.updates : Train(n)
  /\ pc' = "training"
  /\ UNCHANGED <<plan, left, step, depth, calls, queue, sources, values, recorded>>

TrainSteps == pc = "training" /\ OptimizerStep /\ UNCHANGED tvars

TrainReturn ==
  /\ pc = "training" /\ TrainEnd
  /\ recorded' = gstep
  /\ FinishStep
  /\ pc' = IF plan.algo = "probe_train" THEN "close" ELSE "save"
  /\ UNCHANGED <<plan, left, step, depth, calls, queue, sources, values>>

MaybeSave ==
  /\ pc = "save" /\ Resting
  /\ IF (step + 1) % plan.save = 0
     THEN SaveCheckpoint /\ pc' = "saving" /\ UNCHANGED step
     ELSE UNCHANGED wvars /\ StepDone
  /\ UNCHANGED <<plan, left, gstep, active, depth, calls, queue, sources, values, recorded>>

Saved ==
  /\ pc = "saving" /\ SaveCheckpointEnd
  /\ StepDone
  /\ UNCHANGED <<plan, left, gstep, active, depth, calls, queue, sources, values, recorded>>

\* The pass that the trainer waits for raises in the worker.
CallRaises ==
  /\ pc \notin {"raised", "closed", "leaked"} /\ PassRaises
  /\ pc' = IF pc = "roles" THEN "leaked" ELSE "raised"
  /\ UNCHANGED <<plan, left, step, gstep, active, depth, calls, queue, sources, values, recorded>>

\* The exception leaves the session (__aexit__ runs end_rollout_session, which
\* raises again) and the fit loop, whose finally closes the engine.
Close ==
  /\ pc \in {"close", "raised"}
  /\ depth' = 0 /\ pc' = "closed"
  /\ UNCHANGED <<wvars, plan, left, step, gstep, active, calls, queue, sources, values, recorded>>

Finished == pc \in {"closed", "leaked"} /\ UNCHANGED vars

TNext ==
  \/ Prepare \/ BuildOneEnd \/ RolesReady \/ TakeBatch \/ NoMoreBatches
  \/ \E r \in Roles : BuildOne(r)
  \/ OpenSession \/ RolloutReturn \/ CloseSession
  \/ \E q \in Requests, captured \in BOOLEAN :
       \/ RolloutCall(q, captured)
       \/ ProbeRolloutStage(q, captured)
       \/ ProbeTrainStage(q, captured)
  \/ RolloutCallIdle
  \/ ScoreNext \/ ScoreReturn \/ EmptyBatch \/ Scored \/ CriticSteps \/ CriticTrained
  \/ SkipTrain \/ TrainPolicy \/ TrainSteps \/ TrainReturn \/ MaybeSave \/ Saved
  \/ CallRaises \/ Close \/ Finished

TSpec == /\ plan \in Plans /\ cfg \in Cfgs /\ WInit /\ TInit
         /\ [][TNext]_vars /\ WF_vars(TNext)

-----------------------------------------------------------------------------
(* Properties.                                                             *)

\* The updates that the running training call has made.
Made == IF pass.kind = "train" THEN w.version - pass.weights ELSE 0

\* The trainer is an on-policy learner up to the updates of one call: a call trains
\* a batch whose log-probabilities all come from the weights it begins with, however
\* the weights were moved, copied and reloaded between rollout, scoring and training;
\* the batch is trained in that call only, so its last update is off the policy by
\* the earlier updates of the call and no more, by none when they are not grouped
\* (gradient_accumulation_steps; TrainingManager.train).
OnPolicySpec ==
  INSTANCE OnPolicy WITH offline <- ~Sampling, window <- plan.updates,
                         version <- w.version, made <- Made
LearnsOnPolicy == OnPolicySpec!Spec

\* The frozen reference scores with weights of version 0, copied before the first
\* update, or raises for want of prepared ones (-1).
ReferenceIsInitial ==
  pass.kind = "score" /\ pass.model = "ref" => pass.weights \in {-1, 0}

\* The values that advantages were computed from are those of the critic as the
\* call that trains it on the batch finds it; there is one such call per batch, before
\* the actor's, and it moves the critic by its own updates only.
CriticScoresBeforeItLearns ==
  LET ahead == w.role["critic"].version - values
  IN  /\ pass.kind = "values" => pass.weights = values /\ ahead + pass.steps \in 1..plan.updates
      /\ pass.kind = "train" /\ plan.algo = "ppo" => ahead \in 1..plan.updates

\* The frozen and the learning roles keep their part through residency swaps, copies
\* and the trainer's own ordering (RoleManager, PPOTrainer._materialize_train_batch).
RolesKeepTheirPart == ReferenceIsInitial /\ CriticScoresBeforeItLearns

\* Every call of fit ends, with its engine closed, unless building a role fails.
FitEnds == <>(pc \in {"closed", "leaked"})

=============================================================================
