--------------------------- MODULE WorkerResidency ---------------------------
(***************************************************************************)
(* What one worker rank keeps on its device, and for which version of the  *)
(* actor's weights: engine/worker.py, inference.py (_init_infer_cache),    *)
(* roles.py, training.py and the residency methods of the model families.  *)
(*                                                                         *)
(* The ranks execute the same commands, so one rank stands for all.  A     *)
(* handler that runs the model is two steps: the step that prepares the    *)
(* memory and enters the forward pass (pass names it), and the step that   *)
(* leaves it and runs the "finally" part.  Weights are their version (the  *)
(* number of optimizer steps); sizes of a cache are [block, n]; a role is  *)
(* where its model is and which version it holds.  A training call steps   *)
(* the optimizer once per gradient_accumulation_steps microbatches, so one *)
(* or several times; pass.steps counts the steps that it has still to take *)
(* and pass.weights is the version with which the pass began.              *)
(***************************************************************************)
EXTENDS Integers, FiniteSets

CONSTANTS Roles,      \* names of the non-actor roles
          Requests,   \* cache requests: records [block, n]
          MaxUpdates, \* bound on the optimizer steps of one training call
          MaxVersion  \* bound on the optimizer steps of a behaviour

None == "none"
Actor == "actor"

ASSUME ResidencyAssumption ==
  /\ Actor \notin Roles /\ None \notin Roles
  /\ MaxVersion \in Nat /\ MaxUpdates \in Nat \ {0}
  /\ Requests \subseteq [block : Nat, n : Nat \ {0}]

VARIABLES
  cfg,   \* [family, keep, paths]: the model family, keep_rollout_state, role paths
  w,     \* the residency of this rank, a record (see ResidencyType)
  pass,  \* the model pass in progress, or Idle
  todo   \* roles that the running ensure_roles has still to build

wvars == <<cfg, w, pass, todo>>

-----------------------------------------------------------------------------
(* Model families: does evaluation use fused copies of the expert weights   *)
(* (fused), and do the experts leave the device during rollout (moves)?     *)

Qwen3Dense   == [fused |-> FALSE, moves |-> FALSE]
Qwen3Moe     == [fused |-> TRUE,  moves |-> FALSE]
Qwen35Dense  == [fused |-> FALSE, moves |-> FALSE]
Qwen35Moe    == [fused |-> TRUE,  moves |-> FALSE]
Gemma4Moe    == [fused |-> TRUE,  moves |-> FALSE]
MiniCPM      == [fused |-> FALSE, moves |-> FALSE]
BailingMoe   == [fused |-> TRUE,  moves |-> TRUE]

Families == {Qwen3Dense, Qwen3Moe, Qwen35Dense, Qwen35Moe, Gemma4Moe, MiniCPM, BailingMoe}

NoRequest == [block |-> 0, n |-> 0]
Idle == [kind |-> None, model |-> None, weights |-> 0, request |-> NoRequest, steps |-> 0]
Failed == [Idle EXCEPT !.kind = "failed"]

NoFused == [version |-> -1, on |-> FALSE]
NoCache == [at |-> None, block |-> 0, n |-> 0]

ResidencyType ==
  [actorOn : BOOLEAN,   \* _actor_on_device
   trainOn : BOOLEAN,   \* the experts are not parked on the host
   optOn   : BOOLEAN,   \* optimizer state on the device
   ready   : BOOLEAN,   \* _train_state_ready
   spec    : {NoCache} \cup [at : {"device"}, block : Nat, n : Nat],  \* _infer_cache_spec
   kv      : [at : {None, "device", "host"}, block : Nat, n : Nat],
   fused   : [version : Int, on : BOOLEAN],
   graphs  : BOOLEAN,   \* some decode graph is captured
   tried   : BOOLEAN,   \* _decode_graph_init_attempted
   stale   : BOOLEAN,   \* a captured graph points at storage that is gone
   version : Nat,
   role    : [Roles -> [at : {None, "device", "host"}, version : Nat]]]

(* The worker after __init__: the model is built on the device.            *)
WInit ==
  /\ w = [actorOn |-> TRUE, trainOn |-> TRUE, optOn |-> TRUE, ready |-> FALSE,
          spec |-> NoCache, kv |-> NoCache, fused |-> NoFused,
          graphs |-> FALSE, tried |-> FALSE, stale |-> FALSE, version |-> 0,
          role |-> [r \in Roles |-> [at |-> None, version |-> 0]]]
  /\ pass = Idle
  /\ todo = {}

-----------------------------------------------------------------------------
(* The residency methods, as functions of the record.                      *)

\* Storage that a captured graph reads has been replaced.
Replaced(s) == [s EXCEPT !.stale = s.stale \/ s.graphs]

OnloadTrainWeights(s) == [s EXCEPT !.trainOn = TRUE]

OffloadTrainWeights(s) == [s EXCEPT !.trainOn = ~cfg.family.moves]

ClearInferWeights(s) ==
  IF cfg.family.fused THEN Replaced([s EXCEPT !.fused = NoFused]) ELSE s

\* Copied in place when the old copy has the device and the shape of the new one.
PrepareInferWeightsOnce(s) ==
  IF ~cfg.family.fused \/ s.fused.version >= 0 THEN s
  ELSE Replaced([s EXCEPT !.fused = [version |-> s.version, on |-> s.actorOn /\ s.trainOn]])
PrepareInferWeights(s) ==
  IF ~cfg.family.fused THEN s
  ELSE LET new == [version |-> s.version, on |-> s.actorOn /\ s.trainOn]
           upd == [s EXCEPT !.fused = new]
       IN  IF s.fused.version >= 0 /\ s.fused.on = new.on THEN upd ELSE Replaced(upd)

ReleaseDecodeGraphsKept(s) == [s EXCEPT !.tried = FALSE]
ReleaseDecodeGraphs(s) == [s EXCEPT !.graphs = FALSE, !.tried = FALSE, !.stale = FALSE]

OffloadKV(s) ==
  IF s.kv.at = "device" THEN Replaced([s EXCEPT !.kv.at = "host"]) ELSE s

OnloadKV(s) ==
  IF s.kv.at = "host" THEN Replaced([s EXCEPT !.kv.at = "device"]) ELSE s

AllocateKV(s, q) ==
  Replaced([s EXCEPT !.kv = [at |-> "device", block |-> q.block, n |-> q.n]])

PrepareActorOnloaded(s) ==
  IF s.actorOn THEN s
  ELSE OnloadTrainWeights([Replaced(s) EXCEPT !.optOn = TRUE, !.actorOn = TRUE])

PrepareActorOffloaded(s) ==
  IF ~s.actorOn THEN s
  ELSE LET cleared == ClearInferWeights([ReleaseDecodeGraphs(s) EXCEPT !.spec = NoCache])
       IN  [OffloadTrainWeights([cleared EXCEPT !.kv = NoCache]) EXCEPT
              !.optOn = FALSE, !.ready = FALSE, !.actorOn = FALSE]

PrepareForTrainActorOnly(s) == [PrepareActorOnloaded(s) EXCEPT !.ready = TRUE]
PrepareForTrain(s) ==
  [OnloadTrainWeights(PrepareActorOnloaded(s)) EXCEPT !.ready = TRUE]

DropRolloutHbm(s) ==
  [OffloadKV(ClearInferWeights(ReleaseDecodeGraphs(s))) EXCEPT !.ready = FALSE]

\* Captured at the first call after a release; memory decides whether any graph is.
InitDecodeGraphs(s, captured) ==
  IF s.tried THEN s ELSE [s EXCEPT !.tried = TRUE, !.graphs = captured, !.stale = FALSE]

Reusable(s, q) == s.spec # NoCache /\ q.block = s.spec.block /\ q.n <= s.spec.n

ReuseInferCacheReady(s, q) ==
  OffloadTrainWeights(PrepareInferWeights(OnloadTrainWeights(OnloadKV(s))))
ReuseInferCacheCold(s, q) ==
  OffloadTrainWeights([PrepareInferWeights(OnloadTrainWeights(s)) EXCEPT !.ready = FALSE])
ReuseInferCache(s, q) ==
  OffloadTrainWeights(
    [PrepareInferWeights(OnloadTrainWeights(OnloadKV(s))) EXCEPT !.ready = FALSE])

ReallocateInferCache(s, q) ==
  LET fresh == [ReleaseDecodeGraphs(s) EXCEPT
                  !.spec = [at |-> "device", block |-> q.block, n |-> q.n], !.ready = FALSE]
  IN  OffloadTrainWeights(PrepareInferWeights(OnloadTrainWeights(AllocateKV(fresh, q))))

InitInferCache(s, q, captured) ==
  LET on == PrepareActorOnloaded(s)
  IN  InitDecodeGraphs(
        IF Reusable(on, q) THEN ReuseInferCache(on, q) ELSE ReallocateInferCache(on, q),
        captured)

OnloadRole(s, r)  == [s EXCEPT !.role[r].at = "device"]
OffloadRoleLater(s, r) == s
OffloadRole(s, r) == [s EXCEPT !.role[r].at = "host"]

-----------------------------------------------------------------------------
(* The handlers.                                                           *)

\* The version that an evaluation pass of model m reads; -1 when a fused family
\* has no prepared copy, which raises.
EvalWeights(s, m) ==
  IF m = Actor
  THEN IF ~cfg.family.fused THEN s.version
       ELSE IF s.fused.on THEN s.fused.version ELSE -1
  ELSE IF cfg.family.fused THEN -1 ELSE s.role[m].version

Resting == pass.kind = None

\* n: the optimizer steps that the payload asks for, of a call that trains.
EnterFor(kind, m, weights, n) ==
  pass' = [kind |-> kind, model |-> m, weights |-> weights, request |-> NoRequest, steps |-> n]

Enter(kind, m, weights) == EnterFor(kind, m, weights, 0)

SessionBegin ==
  /\ Resting /\ todo = {}
  /\ w' = PrepareActorOnloaded(w)
  /\ UNCHANGED <<cfg, pass, todo>>

\* The start of infer_rollout on a rank that has prompts.
RolloutBegin(q, captured) ==
  /\ Resting /\ todo = {}
  /\ w' = InitInferCache(w, q, captured)
  /\ pass' = [kind |-> "decode", model |-> Actor, weights |-> EvalWeights(w', Actor),
              request |-> q, steps |-> 0]
  /\ UNCHANGED <<cfg, todo>>

RolloutEnd ==
  /\ pass.kind = "decode"
  /\ w' = IF cfg.keep THEN w ELSE DropRolloutHbm(w)
  /\ pass' = Idle
  /\ UNCHANGED <<cfg, todo>>

\* A data-parallel rank without prompts returns early, through the same finally.
RolloutIdleRank ==
  /\ Resting /\ todo = {}
  /\ w' = IF cfg.keep THEN w ELSE DropRolloutHbm(w)
  /\ UNCHANGED <<cfg, pass, todo>>

ProbeRolloutCache(q, captured) ==
  /\ Resting /\ todo = {}
  /\ w' = InitInferCache(w, q, captured)
  /\ UNCHANGED <<cfg, pass, todo>>

SessionEnd ==
  /\ Resting /\ todo = {}
  /\ w' = PrepareForTrain(IF cfg.keep THEN w ELSE DropRolloutHbm(w))
  /\ UNCHANGED <<cfg, pass, todo>>

EnsureRoles(names) ==
  /\ Resting /\ todo = {}
  /\ w' = PrepareActorOffloaded(w)
  /\ todo' = {r \in names : w.role[r].at = None}
  /\ UNCHANGED <<cfg, pass>>

\* A role whose path is the actor's copies the actor's current weights, one whose
\* path another role has copies that role's, any other loads its checkpoint.
SourceVersion(r) ==
  IF cfg.paths[r] = Actor THEN w.version
  ELSE LET same == {x \in Roles : w.role[x].at # None /\ cfg.paths[x] = cfg.paths[r]}
       IN  IF same = {} THEN 0 ELSE w.role[CHOOSE x \in same : TRUE].version

BuildRole(r) ==
  /\ Resting /\ r \in todo
  /\ w' = [w EXCEPT !.role[r] = [at |-> "device", version |-> SourceVersion(r)]]
  /\ Enter("build", r, 0)
  /\ UNCHANGED <<cfg, todo>>

BuildRoleEndAgain ==
  /\ pass.kind = "build"
  /\ w' = OffloadRole(w, pass.model)
  /\ pass' = Idle
  /\ UNCHANGED <<cfg, todo>>
BuildRoleEnd ==
  /\ pass.kind = "build"
  /\ w' = OffloadRole(w, pass.model)
  /\ todo' = todo \ {pass.model}
  /\ pass' = Idle
  /\ UNCHANGED cfg

ScoreActor ==
  /\ Resting /\ todo = {}
  /\ w' = PrepareActorOnloaded(w)
  /\ Enter("score", Actor, EvalWeights(w', Actor))
  /\ UNCHANGED <<cfg, todo>>

\* score_logprobs, score_values and score_rewards of a role: one residency.
ScoreRole(r) ==
  /\ Resting /\ todo = {} /\ w.role[r].at # None
  /\ w' = OnloadRole(PrepareActorOffloaded(w), r)
  /\ Enter("score", r, EvalWeights(w', r))
  /\ UNCHANGED <<cfg, todo>>

ScoreEnd ==
  /\ pass.kind = "score" /\ pass.weights >= 0
  /\ w' = IF pass.model = Actor THEN w ELSE OffloadRole(w, pass.model)
  /\ pass' = Idle
  /\ UNCHANGED <<cfg, todo>>

\* A pass raises: for want of memory at any time, always when a fused family has
\* no copy to evaluate with.  The finally runs and the worker process ends.
PassRaises ==
  /\ pass.kind \notin {None, Failed.kind}
  /\ w' = CASE pass.kind = "build" -> [w EXCEPT !.role[pass.model].at = None]
            [] pass.kind \in {"score", "values"} /\ pass.model # Actor -> OffloadRole(w, pass.model)
            [] pass.kind = "decode" /\ ~cfg.keep -> DropRolloutHbm(w)
            [] pass.kind = "train" /\ ~cfg.keep -> [w EXCEPT !.optOn = FALSE]
            [] OTHER -> w
  /\ pass' = Failed
  /\ UNCHANGED <<cfg, todo>>

TrainValues(r, n) ==
  /\ Resting /\ todo = {} /\ w.role[r].at # None
  /\ w' = OnloadRole(PrepareActorOffloaded(w), r)
  /\ EnterFor("values", r, w.role[r].version, n)
  /\ UNCHANGED <<cfg, todo>>

ValueStepShared ==
  /\ pass.kind = "values" /\ pass.steps > 0 /\ w.role[pass.model].version < MaxVersion
  /\ w' = [w EXCEPT !.role = [r \in Roles |->
              IF cfg.paths[r] = cfg.paths[pass.model]
              THEN [w.role[r] EXCEPT !.version = @ + 1] ELSE w.role[r]]]
  /\ pass' = [pass EXCEPT !.steps = @ - 1]
  /\ UNCHANGED <<cfg, todo>>
\* The last microbatch of an accumulation group: the critic's optimizer steps.
ValueStep ==
  /\ pass.kind = "values" /\ pass.steps > 0 /\ w.role[pass.model].version < MaxVersion
  /\ w' = [w EXCEPT !.role[pass.model].version = @ + 1]
  /\ pass' = [pass EXCEPT !.steps = @ - 1]
  /\ UNCHANGED <<cfg, todo>>

TrainValuesEnd ==
  /\ pass.kind = "values" /\ pass.steps = 0
  /\ w' = OffloadRole(w, pass.model)
  /\ pass' = Idle
  /\ UNCHANGED <<cfg, todo>>

Train(n) ==
  /\ Resting /\ todo = {}
  /\ w' = IF w.ready THEN w ELSE PrepareForTrain(w)
  /\ EnterFor("train", Actor, w.version, n)
  /\ UNCHANGED <<cfg, todo>>

\* The last microbatch of an accumulation group: the optimizer brings its state
\* back bucket by bucket and steps.  What follows in the call reads the new weights.
OptimizerStep ==
  /\ pass.kind = "train" /\ pass.steps > 0 /\ w.version < MaxVersion
  /\ w' = [w EXCEPT !.version = @ + 1, !.optOn = TRUE]
  /\ pass' = [pass EXCEPT !.steps = @ - 1]
  /\ UNCHANGED <<cfg, todo>>

TrainEnd ==
  /\ pass.kind = "train" /\ pass.steps = 0
  /\ w' = [w EXCEPT !.optOn = @ /\ cfg.keep]
  /\ pass' = Idle
  /\ UNCHANGED <<cfg, todo>>

SaveCheckpoint ==
  /\ Resting /\ todo = {}
  /\ w' = PrepareActorOnloaded(w)
  /\ Enter("save", Actor, w.version)
  /\ UNCHANGED <<cfg, todo>>

SaveCheckpointEnd ==
  /\ pass.kind = "save"
  /\ pass' = Idle
  /\ UNCHANGED <<cfg, w, todo>>

WNext ==
  \/ SessionBegin \/ SessionEnd \/ RolloutEnd \/ RolloutIdleRank
  \/ \E q \in Requests, captured \in BOOLEAN :
       RolloutBegin(q, captured) \/ ProbeRolloutCache(q, captured)
  \/ \E names \in SUBSET Roles : EnsureRoles(names)
  \/ \E r \in Roles : BuildRole(r) \/ ScoreRole(r)
  \/ \E r \in Roles, n \in 1..MaxUpdates : TrainValues(r, n)
  \/ BuildRoleEnd \/ ScoreActor \/ ScoreEnd \/ PassRaises \/ ValueStep \/ TrainValuesEnd
  \/ (\E n \in 1..MaxUpdates : Train(n)) \/ OptimizerStep \/ TrainEnd
  \/ SaveCheckpoint \/ SaveCheckpointEnd

Cfgs == [family : Families, keep : BOOLEAN, paths : [Roles -> {Actor, "own", "second"}]]

WSpec == cfg \in Cfgs /\ WInit /\ [][WNext]_wvars

-----------------------------------------------------------------------------
(* Properties that hold whatever commands arrive, in whatever order.        *)

\* _train_state_ready is cleared by every handler that takes the training
\* weights away, so train() may trust it instead of loading them again.
ReadyMeansLoaded == w.ready => w.actorOn /\ w.trainOn

\* The device never holds the actor and a role, nor two roles, at the same
\* time, in any handler: the memory plan of RoleManager.
OneModelOnDevice ==
  \A r \in Roles : w.role[r].at = "device" =>
    /\ ~w.actorOn
    /\ pass.kind \in {"build", "score", "values"} /\ pass.model = r

\* No captured decode graph survives the storage it was captured against.
GraphsNeverStale == ~w.stale

\* While a rollout decodes, the cache is on the device and large enough for the
\* request, and the weights read are those of the last optimizer step.
DecodeIsReady ==
  pass.kind = "decode" =>
    /\ w.actorOn /\ w.kv.at = "device"
    /\ w.kv.block = pass.request.block /\ pass.request.n <= w.kv.n
    /\ pass.weights = w.version

\* A training step and a checkpoint, which read the training weights without any
\* check of their own, find all of them on the device.
WholeModelInUse == pass.kind \in {"train", "save"} => w.actorOn /\ w.trainOn

\* A pass finds what it reads: a rollout its cache, its weights and graphs captured
\* over them, a training step and a checkpoint the whole model (the handlers of
\* ArenoWorker, which rely on flags other handlers left).
PassesFindTheirModel == DecodeIsReady /\ WholeModelInUse /\ GraphsNeverStale
=============================================================================
