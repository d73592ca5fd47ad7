------------------------ MODULE PolicyTrainerProofs ------------------------
(***************************************************************************)
(* Three parts.  The residency of one worker rank is sound for any commands *)
(* in any order, and for any roles, cache requests and number of            *)
(* updates: Sound is about the record alone, and each residency method      *)
(* preserves it (one lemma each); WInv adds the pass in progress, and       *)
(* WorkerStep has one case per handler.  Then the fit loops of the trainers *)
(* over that worker, for any number of batches, calls, roles and updates:   *)
(* their invariant adds to WInv what the loop knows: which pass belongs to  *)
(* which point of it (PassAt), which models have still to score (QueueOK),  *)
(* and which versions the batch's numbers come from (SourcesOK, CriticOK,   *)
(* ReferenceOK).  At the end the search for the sizes of a run: TuneInv     *)
(* says which sizes are left, what the others needed, and where the         *)
(* template of the candidates comes from.                                   *)
(***************************************************************************)
EXTENDS PolicyTrainer, AutoTune, InductionFacts, FiniteSetTheorems, TLAPS

\* The configuration never changes; Fused: evaluation reads fused copies of the experts.
CfgOK == cfg \in Cfgs
Fused == cfg.family.fused

\* The flags of a configuration are Booleans.
LEMMA FamilyFlags ==
  ASSUME CfgOK PROVE cfg.family.fused \in BOOLEAN /\ cfg.family.moves \in BOOLEAN /\ cfg.keep \in BOOLEAN
<1>1. ASSUME NEW f \in Families
      PROVE  f.fused \in BOOLEAN /\ f.moves \in BOOLEAN
  <2>1. \/ f = [fused |-> FALSE, moves |-> FALSE]
        \/ f = [fused |-> TRUE,  moves |-> FALSE]
        \/ f = [fused |-> TRUE,  moves |-> TRUE]
    BY <1>1, Zenon DEF Families, Qwen3Dense, Qwen3Moe, Qwen35Dense, Qwen35Moe, Gemma4Moe, MiniCPM, BailingMoe
  <2>2. CASE f = [fused |-> FALSE, moves |-> FALSE] BY <2>2
  <2>3. CASE f = [fused |-> TRUE,  moves |-> FALSE] BY <2>3
  <2>4. CASE f = [fused |-> TRUE,  moves |-> TRUE] BY <2>4
  <2> QED BY <2>1, <2>2, <2>3, <2>4
<1>2. cfg.family \in Families /\ cfg.keep \in BOOLEAN
  BY DEF CfgOK, Cfgs
<1> QED BY <1>1, <1>2

\* What every residency method preserves: the flags tell the truth, a captured graph has
\* all that it reads, the cache has the size that the spec remembers, and no fused copy is
\* believed to be on the device while the actor is away.
Sound(s) ==
  /\ s \in ResidencyType
  /\ s.ready => s.actorOn /\ s.trainOn
  /\ ~s.stale
  /\ s.graphs => /\ s.actorOn /\ s.tried /\ s.kv.at = "device"
                 /\ Fused => s.fused.on /\ s.fused.version >= 0
  /\ s.spec # NoCache => /\ s.kv.at # None
                         /\ s.kv.block = s.spec.block /\ s.kv.n = s.spec.n
  /\ Fused /\ ~s.actorOn => ~s.fused.on

\* Bringing the actor back keeps a sound residency and its fused copy.
LEMMA OnloadedSound ==
  ASSUME CfgOK, NEW s, Sound(s)
  PROVE  /\ Sound(PrepareActorOnloaded(s))
         /\ PrepareActorOnloaded(s).actorOn
         /\ PrepareActorOnloaded(s).version = s.version
         /\ PrepareActorOnloaded(s).role = s.role
         /\ PrepareActorOnloaded(s).fused = s.fused
<1> DEFINE n == OnloadTrainWeights([Replaced(s) EXCEPT !.optOn = TRUE, !.actorOn = TRUE])
<1>0. s \in ResidencyType BY DEF Sound
<1>1. CASE s.actorOn
  BY <1>1 DEF PrepareActorOnloaded
<1>2. CASE ~s.actorOn
  <2>1. PrepareActorOnloaded(s) = n BY <1>2 DEF PrepareActorOnloaded
  <2>2. n \in ResidencyType
    BY <1>0 DEF ResidencyType, OnloadTrainWeights, Replaced
  <2>3. /\ n.actorOn /\ n.trainOn /\ n.stale = (s.stale \/ s.graphs)
        /\ n.ready = s.ready /\ n.graphs = s.graphs /\ n.tried = s.tried
        /\ n.spec = s.spec /\ n.kv = s.kv /\ n.fused = s.fused
        /\ n.version = s.version /\ n.role = s.role
    BY <1>0 DEF ResidencyType, OnloadTrainWeights, Replaced
  <2> HIDE DEF n
  <2> QED BY <1>2, <2>1, <2>2, <2>3 DEF Sound
<1> QED BY <1>1, <1>2

\* Two residencies that differ at most in the fused copy and in what graphs are captured.
SameBut(n, s) ==
  /\ n.actorOn = s.actorOn /\ n.trainOn = s.trainOn /\ n.optOn = s.optOn /\ n.ready = s.ready
  /\ n.spec = s.spec /\ n.version = s.version /\ n.role = s.role

\* Releasing the decode graphs leaves none, and none stale.
LEMMA Released ==
  ASSUME NEW s, s \in ResidencyType
  PROVE  LET n == ReleaseDecodeGraphs(s)
         IN  /\ n \in ResidencyType /\ SameBut(n, s) /\ n.kv = s.kv /\ n.fused = s.fused
             /\ ~n.graphs /\ ~n.stale
  BY DEF ReleaseDecodeGraphs, ResidencyType, SameBut

\* With no graph captured, the fused copy can go.
LEMMA Cleared ==
  ASSUME CfgOK, NEW s, s \in ResidencyType, ~s.graphs
  PROVE  LET n == ClearInferWeights(s)
         IN  /\ n \in ResidencyType /\ SameBut(n, s) /\ n.kv = s.kv
             /\ ~n.graphs /\ n.stale = s.stale
             /\ Fused => ~n.fused.on
<1> DEFINE n == ClearInferWeights(s)
<1>1. CASE Fused
  <2>1. n = Replaced([s EXCEPT !.fused = NoFused]) BY <1>1 DEF ClearInferWeights, Fused
  <2>2. NoFused \in [version : Int, on : BOOLEAN] /\ ~NoFused.on BY DEF NoFused
  <2> HIDE DEF n
  <2>3. /\ n \in ResidencyType /\ SameBut(n, s) /\ n.kv = s.kv
        /\ ~n.graphs /\ n.stale = s.stale /\ ~n.fused.on
    BY <2>1, <2>2 DEF ResidencyType, Replaced, SameBut
  <2> QED BY <2>3 DEF n
<1>2. CASE ~Fused
  <2>1. n = s BY <1>2 DEF ClearInferWeights, Fused
  <2> QED BY <1>2, <2>1 DEF SameBut
<1> QED BY <1>1, <1>2

\* Taking the actor away keeps a sound residency; its weights and roles stay as they are.
LEMMA OffloadedSound ==
  ASSUME CfgOK, NEW s, Sound(s)
  PROVE  LET n == PrepareActorOffloaded(s)
         IN  Sound(n) /\ ~n.actorOn /\ n.version = s.version /\ n.role = s.role
<1> DEFINE r == ReleaseDecodeGraphs(s)
           a == [r EXCEPT !.spec = NoCache]
           c == ClearInferWeights(a)
           n == [OffloadTrainWeights([c EXCEPT !.kv = NoCache]) EXCEPT
              !.optOn = FALSE, !.ready = FALSE, !.actorOn = FALSE]
<1>1. CASE ~s.actorOn
  BY <1>1 DEF PrepareActorOffloaded
<1>2. CASE s.actorOn
  <2>1. PrepareActorOffloaded(s) = n BY <1>2 DEF PrepareActorOffloaded
  <2>2. /\ r \in ResidencyType /\ ~r.graphs /\ ~r.stale
        /\ r.version = s.version /\ r.role = s.role
    BY Released DEF Sound, SameBut
  <2> HIDE DEF r
  <2>3. /\ a \in ResidencyType /\ ~a.graphs /\ ~a.stale
        /\ a.spec = NoCache /\ a.version = s.version /\ a.role = s.role
    BY <2>2 DEF ResidencyType, NoCache
  <2> HIDE DEF a
  <2>4. /\ c \in ResidencyType /\ ~c.graphs /\ ~c.stale
        /\ c.spec = NoCache /\ c.version = s.version /\ c.role = s.role
        /\ Fused => ~c.fused.on
    BY <2>3, Cleared DEF SameBut
  <2> HIDE DEF c
  <2>5. /\ n \in ResidencyType /\ ~n.graphs /\ ~n.stale
        /\ n.spec = NoCache /\ n.version = s.version /\ n.role = s.role
        /\ ~n.ready /\ ~n.actorOn /\ n.fused = c.fused
    BY <2>4, FamilyFlags, ZenonT(30) DEF ResidencyType, OffloadTrainWeights, NoCache, None
  <2> HIDE DEF n
  <2> QED BY <2>1, <2>4, <2>5 DEF Sound
<1> QED BY <1>1, <1>2

\* prepare_for_train ends with the whole model on the device.
LEMMA TrainReady ==
  ASSUME CfgOK, NEW s, Sound(s)
  PROVE  LET n == PrepareForTrain(s)
         IN  /\ Sound(n) /\ n.actorOn /\ n.trainOn
             /\ n.version = s.version /\ n.role = s.role
<1> DEFINE a == PrepareActorOnloaded(s)
           n == PrepareForTrain(s)
<1>1. Sound(a) /\ a.actorOn /\ a.version = s.version /\ a.role = s.role
  BY OnloadedSound
<1>2. n = [OnloadTrainWeights(a) EXCEPT !.ready = TRUE]
  BY DEF PrepareForTrain
<1> HIDE DEF a, n
<1>3. a \in ResidencyType BY <1>1 DEF Sound
<1>4. /\ n \in ResidencyType /\ n.actorOn = a.actorOn /\ n.trainOn /\ n.stale = a.stale
      /\ n.graphs = a.graphs /\ n.tried = a.tried /\ n.kv = a.kv /\ n.spec = a.spec
      /\ n.fused = a.fused /\ n.version = a.version /\ n.role = a.role
  BY <1>2, <1>3 DEF ResidencyType, OnloadTrainWeights
<1> QED BY <1>1, <1>4 DEF Sound, n

\* Dropping what a rollout left keeps the actor where it is.
LEMMA Dropped ==
  ASSUME CfgOK, NEW s, Sound(s)
  PROVE  LET n == DropRolloutHbm(s)
         IN  /\ Sound(n) /\ n.actorOn = s.actorOn /\ n.trainOn = s.trainOn
             /\ n.version = s.version /\ n.role = s.role
<1> DEFINE r == ReleaseDecodeGraphs(s)
           c == ClearInferWeights(r)
           k == OffloadKV(c)
           n == [k EXCEPT !.ready = FALSE]
<1>1. /\ r \in ResidencyType /\ SameBut(r, s) /\ r.kv = s.kv /\ ~r.graphs /\ ~r.stale
  BY Released DEF Sound
<1> HIDE DEF r
<1>2. /\ c \in ResidencyType /\ SameBut(c, s) /\ c.kv = s.kv /\ ~c.graphs /\ ~c.stale
      /\ Fused => ~c.fused.on
  BY <1>1, Cleared DEF SameBut
<1> HIDE DEF c
<1>3. /\ k \in ResidencyType /\ SameBut(k, s) /\ ~k.graphs /\ ~k.stale /\ k.fused = c.fused
      /\ k.kv.block = s.kv.block /\ k.kv.n = s.kv.n
      /\ s.kv.at # None => k.kv.at # None
  <2>1. CASE c.kv.at = "device"
    <3>1. k = Replaced([c EXCEPT !.kv.at = "host"]) BY <2>1 DEF OffloadKV
    <3> HIDE DEF k
    <3> QED BY <1>2, <2>1, <3>1 DEF Replaced, ResidencyType, SameBut, None
  <2>2. CASE c.kv.at # "device"
    <3>1. k = c BY <2>2 DEF OffloadKV
    <3> HIDE DEF k
    <3> QED BY <1>2, <3>1
  <2> QED BY <2>1, <2>2
<1> HIDE DEF k
<1>4. /\ n \in ResidencyType /\ ~n.ready /\ n.actorOn = k.actorOn /\ n.trainOn = k.trainOn
      /\ n.stale = k.stale /\ n.graphs = k.graphs /\ n.kv = k.kv /\ n.spec = k.spec
      /\ n.fused = k.fused /\ n.version = k.version /\ n.role = k.role
  BY <1>3 DEF ResidencyType
<1>5. DropRolloutHbm(s) = n BY DEF DropRolloutHbm, r, c, k
<1> HIDE DEF n
<1> QED BY <1>2, <1>3, <1>4, <1>5 DEF Sound, SameBut

\* prepare_infer_weights leaves a fused copy of the current weights, and never under a graph.
LEMMA WeightsPrepared ==
  ASSUME CfgOK, NEW s, Sound(s), s.actorOn
  PROVE  LET n == PrepareInferWeights(OnloadTrainWeights(s))
         IN  /\ Sound(n) /\ n.actorOn /\ n.ready = s.ready /\ n.kv = s.kv
             /\ n.version = s.version /\ n.role = s.role
             /\ Fused => n.fused.on /\ n.fused.version = s.version
<1> DEFINE a == OnloadTrainWeights(s)
           new == [version |-> a.version, on |-> a.actorOn /\ a.trainOn]
           upd == [a EXCEPT !.fused = new]
           n == PrepareInferWeights(a)
<1>1. /\ Sound(a) /\ a.actorOn /\ a.trainOn /\ a.ready = s.ready /\ a.kv = s.kv
      /\ a.version = s.version /\ a.role = s.role
  <2>1. s \in ResidencyType BY DEF Sound
  <2>2. /\ a \in ResidencyType /\ a.actorOn = s.actorOn /\ a.trainOn /\ a.stale = s.stale
        /\ a.ready = s.ready /\ a.kv = s.kv /\ a.spec = s.spec /\ a.graphs = s.graphs
        /\ a.tried = s.tried /\ a.fused = s.fused /\ a.version = s.version /\ a.role = s.role
    BY <2>1 DEF ResidencyType, OnloadTrainWeights
  <2> HIDE DEF a
  <2> QED BY <2>2 DEF Sound
<1> HIDE DEF a
<1>2. CASE ~Fused
  <2>1. n = a BY <1>2 DEF PrepareInferWeights, Fused
  <2> QED BY <1>1, <1>2, <2>1 DEF a
<1>3. CASE Fused
  <2>1. a \in ResidencyType /\ a.version \in Nat BY <1>1 DEF Sound, ResidencyType
  <2>2. /\ new \in [version : Int, on : BOOLEAN]
        /\ new.version = a.version /\ new.on
    <3>1. (a.actorOn /\ a.trainOn) = TRUE BY <1>1
    <3>2. new = [version |-> a.version, on |-> TRUE] BY <3>1
    <3> HIDE DEF new
    <3> QED BY <2>1, <3>2
  <2> HIDE DEF new
  <2>3. /\ upd \in ResidencyType /\ upd.fused = new /\ upd.graphs = a.graphs
        /\ upd.actorOn = a.actorOn /\ upd.trainOn = a.trainOn /\ upd.stale = a.stale
        /\ upd.ready = a.ready /\ upd.kv = a.kv /\ upd.spec = a.spec
        /\ upd.tried = a.tried /\ upd.version = a.version /\ upd.role = a.role
    BY <2>1, <2>2 DEF ResidencyType
  <2> HIDE DEF upd
  <2>4. CASE a.fused.version >= 0 /\ a.fused.on = new.on
    <3>1. n = upd BY <1>3, <2>4 DEF PrepareInferWeights, Fused, upd, new
    <3>2. Sound(upd) BY <1>1, <2>1, <2>2, <2>3 DEF Sound
    <3> HIDE DEF n
    <3> QED BY <1>1, <2>2, <2>3, <3>1, <3>2 DEF a, n
  <2>5. CASE ~(a.fused.version >= 0 /\ a.fused.on = new.on)
    <3>1. ~a.graphs BY <1>1, <1>3, <2>2, <2>5 DEF Sound
    <3>2. n = Replaced(upd) BY <1>3, <2>5 DEF PrepareInferWeights, Fused, upd, new
    <3> HIDE DEF n
    <3>3. /\ n \in ResidencyType /\ n.fused = upd.fused /\ n.graphs = upd.graphs
          /\ n.actorOn = upd.actorOn /\ n.trainOn = upd.trainOn /\ n.stale = (upd.stale \/ upd.graphs)
          /\ n.ready = upd.ready /\ n.kv = upd.kv /\ n.spec = upd.spec
          /\ n.tried = upd.tried /\ n.version = upd.version /\ n.role = upd.role
      BY <2>3, <3>2 DEF ResidencyType, Replaced
    <3>4. /\ ~n.stale /\ ~n.graphs /\ n.actorOn /\ n.trainOn /\ n.spec = a.spec /\ n.kv = a.kv
      BY <1>1, <2>3, <3>1, <3>3 DEF Sound
    <3>5. Sound(n) BY <1>1, <3>3, <3>4 DEF Sound
    <3> QED BY <1>1, <2>2, <2>3, <3>3, <3>5 DEF a, n
  <2> QED BY <2>4, <2>5
<1> QED BY <1>2, <1>3

\* The experts may leave the device once _train_state_ready is cleared.
LEMMA Parked ==
  ASSUME CfgOK, NEW s, Sound(s), ~s.ready
  PROVE  LET n == OffloadTrainWeights(s)
         IN  /\ Sound(n) /\ n.actorOn = s.actorOn /\ n.kv = s.kv /\ n.fused = s.fused
             /\ n.version = s.version /\ n.role = s.role
<1> DEFINE n == OffloadTrainWeights(s)
<1>1. s \in ResidencyType BY DEF Sound
<1>2. /\ n \in ResidencyType /\ n.actorOn = s.actorOn /\ n.stale = s.stale
      /\ n.ready = s.ready /\ n.kv = s.kv /\ n.spec = s.spec /\ n.graphs = s.graphs
      /\ n.tried = s.tried /\ n.fused = s.fused /\ n.version = s.version /\ n.role = s.role
  BY <1>1, FamilyFlags DEF ResidencyType, OffloadTrainWeights
<1> HIDE DEF n
<1>3. Sound(n) BY <1>2 DEF Sound
<1> QED BY <1>2, <1>3 DEF n

\* A cache on the host comes back with the size it had.
LEMMA CacheBack ==
  ASSUME NEW s, Sound(s)
  PROVE  LET n == OnloadKV(s)
         IN  /\ Sound(n) /\ n.actorOn = s.actorOn /\ n.spec = s.spec
             /\ n.version = s.version /\ n.role = s.role
             /\ n.kv.block = s.kv.block /\ n.kv.n = s.kv.n
             /\ s.kv.at # None => n.kv.at = "device"
<1> DEFINE n == OnloadKV(s)
<1>0. s \in ResidencyType BY DEF Sound
<1>1. CASE s.kv.at = "host"
  <2>1. n = Replaced([s EXCEPT !.kv.at = "device"]) BY <1>1 DEF OnloadKV
  <2> HIDE DEF n
  <2>2. /\ n \in ResidencyType /\ n.actorOn = s.actorOn /\ n.trainOn = s.trainOn
        /\ n.stale = (s.stale \/ s.graphs)
        /\ n.ready = s.ready /\ n.kv = [s.kv EXCEPT !.at = "device"] /\ n.spec = s.spec
        /\ n.graphs = s.graphs /\ n.tried = s.tried /\ n.fused = s.fused
        /\ n.version = s.version /\ n.role = s.role
    BY <1>0, <2>1, ZenonT(30) DEF ResidencyType, Replaced
  <2>3. s.kv \in [at : {None, "device", "host"}, block : Nat, n : Nat]
    BY <1>0 DEF ResidencyType
  <2>4. n.kv.at = "device" /\ n.kv.block = s.kv.block /\ n.kv.n = s.kv.n
    BY <2>2, <2>3
  <2>5. Sound(n) BY <1>1, <2>2, <2>4 DEF Sound, None
  <2> QED BY <2>2, <2>4, <2>5 DEF n
<1>2. CASE s.kv.at # "host"
  <2>1. n = s BY <1>2 DEF OnloadKV
  <2>2. s.kv.at # None => s.kv.at = "device" BY <1>0, <1>2 DEF ResidencyType
  <2> QED BY <2>1, <2>2
<1> QED BY <1>1, <1>2

\* A new cache has the requested size.
LEMMA CacheAllocated ==
  ASSUME NEW s, Sound(s), s.actorOn, NEW q \in [block : Nat, n : Nat]
  PROVE  LET fresh == [ReleaseDecodeGraphs(s) EXCEPT
                         !.spec = [at |-> "device", block |-> q.block, n |-> q.n], !.ready = FALSE]
             n == AllocateKV(fresh, q)
         IN  /\ Sound(n) /\ n.actorOn /\ ~n.ready
             /\ n.kv = [at |-> "device", block |-> q.block, n |-> q.n]
             /\ n.version = s.version /\ n.role = s.role
<1> DEFINE size == [at |-> "device", block |-> q.block, n |-> q.n]
           r == ReleaseDecodeGraphs(s)
           fresh == [r EXCEPT !.spec = size, !.ready = FALSE]
           n == AllocateKV(fresh, q)
<1>1. /\ r \in ResidencyType /\ SameBut(r, s) /\ r.fused = s.fused /\ ~r.graphs /\ ~r.stale
  BY Released DEF Sound
<1> HIDE DEF r
<1>2. size \in [at : {"device"}, block : Nat, n : Nat] /\ size.at = "device"
  OBVIOUS
<1> HIDE DEF size
<1>3. /\ fresh \in ResidencyType /\ ~fresh.graphs /\ ~fresh.stale /\ ~fresh.ready
      /\ fresh.spec = size /\ fresh.actorOn = r.actorOn /\ fresh.fused = r.fused
      /\ fresh.version = r.version /\ fresh.role = r.role
  BY <1>1, <1>2 DEF ResidencyType
<1>4. n = Replaced([fresh EXCEPT !.kv = size]) BY DEF AllocateKV, size
<1> HIDE DEF fresh, n
<1>5. /\ n \in ResidencyType /\ ~n.graphs /\ ~n.stale /\ ~n.ready /\ n.kv = size
      /\ n.spec = size /\ n.actorOn = fresh.actorOn /\ n.fused = fresh.fused
      /\ n.version = fresh.version /\ n.role = fresh.role
  BY <1>2, <1>3, <1>4 DEF ResidencyType, Replaced
<1>6. Sound(n) BY <1>1, <1>2, <1>3, <1>5 DEF Sound, SameBut, None
<1> QED BY <1>1, <1>3, <1>5, <1>6 DEF n, fresh, r, size, SameBut

\* Graphs are captured only over what is on the device.
LEMMA GraphsCaptured ==
  ASSUME NEW s, Sound(s), s.actorOn, s.kv.at = "device", NEW captured \in BOOLEAN,
         Fused => s.fused.on /\ s.fused.version >= 0
  PROVE  LET n == InitDecodeGraphs(s, captured)
         IN  /\ Sound(n) /\ n.actorOn /\ n.kv = s.kv /\ n.fused = s.fused
             /\ n.version = s.version /\ n.role = s.role
<1> DEFINE n == InitDecodeGraphs(s, captured)
<1>0. s \in ResidencyType BY DEF Sound
<1>1. CASE s.tried BY <1>1 DEF InitDecodeGraphs
<1>2. CASE ~s.tried
  <2>1. n = [s EXCEPT !.tried = TRUE, !.graphs = captured, !.stale = FALSE]
    BY <1>2 DEF InitDecodeGraphs
  <2> HIDE DEF n
  <2>2. /\ n \in ResidencyType /\ n.tried /\ n.graphs = captured /\ ~n.stale
        /\ n.actorOn = s.actorOn /\ n.trainOn = s.trainOn /\ n.ready = s.ready /\ n.kv = s.kv
        /\ n.spec = s.spec /\ n.fused = s.fused /\ n.version = s.version /\ n.role = s.role
    BY <1>0, <2>1 DEF ResidencyType
  <2>3. Sound(n) BY <2>2 DEF Sound
  <2> QED BY <2>2, <2>3 DEF n
<1> QED BY <1>1, <1>2

\* _init_infer_cache leaves all that a rollout reads: the cache, large enough, and the
\* current weights.
LEMMA CacheReady ==
  ASSUME CfgOK, NEW s, Sound(s), NEW q \in Requests, NEW captured \in BOOLEAN
  PROVE  LET n == InitInferCache(s, q, captured)
         IN  /\ Sound(n) /\ n.actorOn /\ n.version = s.version /\ n.role = s.role
             /\ n.kv.at = "device" /\ n.kv.block = q.block /\ q.n <= n.kv.n
             /\ Fused => n.fused.on /\ n.fused.version = n.version
<1> DEFINE on == PrepareActorOnloaded(s)
           n == InitInferCache(s, q, captured)
           Good(x) == /\ Sound(x) /\ x.actorOn /\ x.version = s.version /\ x.role = s.role
                      /\ x.kv.at = "device" /\ x.kv.block = q.block /\ q.n <= x.kv.n
           Prepared(x) == Good(x) /\ (Fused => x.fused.on /\ x.fused.version = x.version)
<1>1. Sound(on) /\ on.actorOn /\ on.version = s.version /\ on.role = s.role
  BY OnloadedSound
<1>2. q \in [block : Nat, n : Nat] /\ q.block \in Nat /\ q.n \in Nat
  BY ResidencyAssumption
<1>3. on.version \in Nat BY <1>1 DEF Sound, ResidencyType
<1> HIDE DEF on
<1>4. ASSUME NEW x, Good(x)
      PROVE  LET y == PrepareInferWeights(OnloadTrainWeights(x))
             IN  Prepared(y) /\ y.ready = x.ready
  BY <1>4, WeightsPrepared
<1>5. ASSUME NEW x, Prepared(x), ~x.ready
      PROVE  Prepared(OffloadTrainWeights(x))
  BY <1>5, Parked
<1>6. ASSUME Reusable(on, q)
      PROVE  Prepared(ReuseInferCache(on, q))
  <2> DEFINE k == OnloadKV(on)
             y == PrepareInferWeights(OnloadTrainWeights(k))
             z == [y EXCEPT !.ready = FALSE]
  <2>1. on.spec # NoCache /\ q.block = on.spec.block /\ q.n <= on.spec.n
    BY <1>6 DEF Reusable
  <2>2. on.kv.at # None /\ on.kv.block = on.spec.block /\ on.kv.n = on.spec.n
    BY <1>1, <2>1 DEF Sound
  <2>3. Good(k) BY <1>1, <2>1, <2>2, CacheBack
  <2> HIDE DEF k
  <2>4. Prepared(y) BY <1>4, <2>3
  <2> HIDE DEF y
  <2>5. y \in ResidencyType BY <2>4 DEF Sound
  <2>6. /\ z \in ResidencyType /\ ~z.ready /\ z.actorOn = y.actorOn /\ z.trainOn = y.trainOn
        /\ z.stale = y.stale /\ z.graphs = y.graphs /\ z.tried = y.tried /\ z.kv = y.kv
        /\ z.spec = y.spec /\ z.fused = y.fused /\ z.version = y.version /\ z.role = y.role
    BY <2>5 DEF ResidencyType
  <2> HIDE DEF z
  <2>7. Prepared(z) BY <2>4, <2>6 DEF Sound
  <2>8. Prepared(OffloadTrainWeights(z)) BY <1>5, <2>6, <2>7
  <2> QED BY <2>8 DEF ReuseInferCache, z, y, k
<1>7. Prepared(ReallocateInferCache(on, q))
  <2> DEFINE f == [ReleaseDecodeGraphs(on) EXCEPT
                     !.spec = [at |-> "device", block |-> q.block, n |-> q.n], !.ready = FALSE]
             k == AllocateKV(f, q)
             y == PrepareInferWeights(OnloadTrainWeights(k))
  <2>1. /\ Sound(k) /\ k.actorOn /\ ~k.ready /\ k.kv = [at |-> "device", block |-> q.block, n |-> q.n]
        /\ k.version = on.version /\ k.role = on.role
    BY <1>1, <1>2, CacheAllocated
  <2> HIDE DEF f, k
  <2>2. Good(k) /\ ~k.ready BY <1>1, <1>2, <2>1
  <2>3. Prepared(y) /\ ~y.ready BY <1>4, <2>2
  <2> HIDE DEF y
  <2>4. Prepared(OffloadTrainWeights(y)) BY <1>5, <2>3
  <2> QED BY <2>4 DEF ReallocateInferCache, y, k, f
<1> DEFINE c == IF Reusable(on, q) THEN ReuseInferCache(on, q) ELSE ReallocateInferCache(on, q)
<1>8. Prepared(c) BY <1>6, <1>7
<1>9. n = InitDecodeGraphs(c, captured) BY DEF InitInferCache, on
<1> HIDE DEF c, n
<1>10. Fused => c.fused.version >= 0 BY <1>1, <1>3, <1>8
<1>11. /\ Sound(n) /\ n.actorOn /\ n.kv = c.kv /\ n.fused = c.fused
       /\ n.version = c.version /\ n.role = c.role
  BY <1>8, <1>9, <1>10, GraphsCaptured
<1> QED BY <1>8, <1>11 DEF n

-----------------------------------------------------------------------------
(* The invariant of the handlers.                                          *)

\* The passes of the model.
Kinds == {None, "decode", "build", "score", "values", "train", "save", Failed.kind}

Passes == [kind : Kinds, model : Roles \cup {Actor, None}, weights : Int,
           request : [block : Nat, n : Nat], steps : Nat]

PassType == todo \subseteq Roles /\ pass \in Passes

\* A role is in use, or about to be built, only while the actor is away.
ActorAway ==
  /\ todo # {} => ~w.actorOn
  /\ pass.kind \in {"build", "values"} => pass.model \in Roles /\ ~w.actorOn
  /\ pass.kind = "score" => pass.model = Actor \/ (pass.model \in Roles /\ ~w.actorOn)

TrainsWhole == pass.kind = "train" => w.actorOn /\ w.trainOn

WInv == /\ CfgOK /\ Sound(w) /\ PassType /\ ActorAway
        /\ OneModelOnDevice /\ DecodeIsReady /\ TrainsWhole

\* Residency with other roles.
LEMMA RolesChanged ==
  ASSUME NEW s, Sound(s),
         NEW x \in [Roles -> [at : {None, "device", "host"}, version : Nat]]
  PROVE  LET n == [s EXCEPT !.role = x]
         IN  /\ Sound(n) /\ n.role = x /\ n.actorOn = s.actorOn /\ n.trainOn = s.trainOn
             /\ n.kv = s.kv /\ n.version = s.version /\ n.fused = s.fused
<1> DEFINE n == [s EXCEPT !.role = x]
<1>0. s \in ResidencyType BY DEF Sound
<1>1. /\ n \in ResidencyType /\ n.role = x /\ n.actorOn = s.actorOn /\ n.trainOn = s.trainOn
      /\ n.ready = s.ready /\ n.stale = s.stale /\ n.graphs = s.graphs /\ n.tried = s.tried
      /\ n.kv = s.kv /\ n.spec = s.spec /\ n.fused = s.fused /\ n.version = s.version
  BY <1>0 DEF ResidencyType
<1> HIDE DEF n
<1>2. Sound(n) BY <1>1 DEF Sound
<1> QED BY <1>1, <1>2 DEF n

\* The place of the optimizer state is its own.
LEMMA OptimizerMoved ==
  ASSUME NEW s, Sound(s), NEW k \in BOOLEAN
  PROVE  LET n == [s EXCEPT !.optOn = k]
         IN  /\ Sound(n) /\ n.role = s.role /\ n.actorOn = s.actorOn /\ n.trainOn = s.trainOn
             /\ n.version = s.version
<1> DEFINE n == [s EXCEPT !.optOn = k]
<1>0. s \in ResidencyType BY DEF Sound
<1>1. /\ n \in ResidencyType /\ n.role = s.role /\ n.actorOn = s.actorOn /\ n.trainOn = s.trainOn
      /\ n.ready = s.ready /\ n.stale = s.stale /\ n.graphs = s.graphs /\ n.tried = s.tried
      /\ n.kv = s.kv /\ n.spec = s.spec /\ n.fused = s.fused /\ n.version = s.version
  BY <1>0 DEF ResidencyType
<1> HIDE DEF n
<1>2. Sound(n) BY <1>0, <1>1 DEF Sound
<1> QED BY <1>1, <1>2 DEF n

\* A step of the optimizer.
LEMMA OptimizerStepped ==
  ASSUME NEW s, Sound(s), NEW k \in BOOLEAN, NEW v \in Nat
  PROVE  LET n == [s EXCEPT !.version = v, !.optOn = k]
         IN  /\ Sound(n) /\ n.role = s.role /\ n.actorOn = s.actorOn /\ n.trainOn = s.trainOn
             /\ n.version = v
<1> DEFINE n == [s EXCEPT !.version = v, !.optOn = k]
<1>0. s \in ResidencyType BY DEF Sound
<1>1. /\ n \in ResidencyType /\ n.role = s.role /\ n.actorOn = s.actorOn /\ n.trainOn = s.trainOn
      /\ n.ready = s.ready /\ n.stale = s.stale /\ n.graphs = s.graphs /\ n.tried = s.tried
      /\ n.kv = s.kv /\ n.spec = s.spec /\ n.fused = s.fused /\ n.version = v
  BY <1>0 DEF ResidencyType
<1> HIDE DEF n
<1>2. Sound(n) BY <1>0, <1>1 DEF Sound
<1> QED BY <1>1, <1>2 DEF n

\* Moving a role changes its place only.
LEMMA RoleMoved ==
  ASSUME NEW s, Sound(s), NEW r \in Roles
  PROVE  /\ OnloadRole(s, r) = [s EXCEPT !.role = [s.role EXCEPT ![r].at = "device"]]
         /\ OffloadRole(s, r) = [s EXCEPT !.role = [s.role EXCEPT ![r].at = "host"]]
         /\ \A place \in {None, "device", "host"} :
              LET x == [s.role EXCEPT ![r].at = place]
              IN  /\ x \in [Roles -> [at : {None, "device", "host"}, version : Nat]]
                  /\ x[r].at = place /\ x[r].version = s.role[r].version
                  /\ \A q \in Roles \ {r} : x[q] = s.role[q]
<1>1. s \in ResidencyType BY DEF Sound
<1>2. s.role \in [Roles -> [at : {None, "device", "host"}, version : Nat]]
  BY <1>1 DEF ResidencyType
<1>3. OnloadRole(s, r) = [s EXCEPT !.role = [s.role EXCEPT ![r].at = "device"]]
  BY <1>1 DEF OnloadRole, ResidencyType
<1>4. OffloadRole(s, r) = [s EXCEPT !.role = [s.role EXCEPT ![r].at = "host"]]
  BY <1>1 DEF OffloadRole, ResidencyType
<1> QED BY <1>2, <1>3, <1>4

\* The worker after __init__ is sound.
LEMMA WorkerStarts == (cfg \in Cfgs /\ WInit) => WInv
<1> SUFFICES ASSUME cfg \in Cfgs, WInit PROVE WInv
  OBVIOUS
<1>1. w \in ResidencyType BY DEF WInit, ResidencyType, NoCache, NoFused, None
<1>2. Sound(w) BY <1>1 DEF WInit, Sound, NoCache, NoFused
<1>3. PassType BY DEF WInit, PassType, Passes, Idle, NoRequest, Kinds
<1>4. ActorAway /\ DecodeIsReady /\ TrainsWhole
  BY DEF WInit, ActorAway, DecodeIsReady, TrainsWhole, Idle, None
<1>5. OneModelOnDevice BY DEF WInit, OneModelOnDevice, None
<1> QED BY <1>2, <1>3, <1>4, <1>5 DEF WInv, CfgOK

\* Idle and Failed are passes.
LEMMA IdleIsPass == Idle \in Passes /\ Idle.kind = None /\ Failed \in Passes
  BY DEF Idle, Failed, Passes, NoRequest, Kinds

\* A handler that runs no pass, or the end of one: no role stays on the device.
LEMMA AtRest ==
  ASSUME WInv, cfg' = cfg, Sound(w'),
         pass' \in Passes, pass'.kind \notin {"decode", "build", "score", "values", "train"},
         todo' \subseteq Roles, todo' # {} => ~w'.actorOn,
         \A r \in Roles : w'.role[r].at # "device"
  PROVE  WInv'
<1>1. (Sound(w))' BY DEF Sound, Fused
<1>2. PassType' BY DEF PassType
<1>3. /\ ActorAway' /\ DecodeIsReady' /\ TrainsWhole'
  BY DEF ActorAway, DecodeIsReady, TrainsWhole
<1>4. OneModelOnDevice' BY DEF OneModelOnDevice
<1> QED BY <1>1, <1>2, <1>3, <1>4 DEF WInv, CfgOK

\* A pass of a role: it alone is on the device.
LEMMA RolePass ==
  ASSUME WInv, cfg' = cfg, Sound(w'), ~w'.actorOn, NEW r \in Roles,
         pass' \in Passes, pass'.kind \in {"build", "score", "values"}, pass'.model = r,
         \A q \in Roles \ {r} : w'.role[q].at # "device", todo' \subseteq Roles
  PROVE  WInv'
<1>1. (Sound(w))' BY DEF Sound, Fused
<1>2. PassType' BY DEF PassType
<1>3. /\ ActorAway' /\ DecodeIsReady' /\ TrainsWhole'
  BY DEF ActorAway, DecodeIsReady, TrainsWhole
<1>4. OneModelOnDevice' BY DEF OneModelOnDevice
<1> QED BY <1>1, <1>2, <1>3, <1>4 DEF WInv, CfgOK

\* Every handler keeps the invariant, whatever command comes next.
LEMMA WorkerStep == WInv /\ [WNext]_wvars => WInv'
<1> SUFFICES ASSUME WInv, [WNext]_wvars PROVE WInv'
  OBVIOUS
<1> DEFINE Places == [Roles -> [at : {None, "device", "host"}, version : Nat]]
           Apart == \A r \in Roles : w.role[r].at # "device"
<1>0. /\ w \in ResidencyType /\ w.version \in Nat /\ w.role \in Places /\ Sound(w) /\ CfgOK
  BY DEF WInv, Sound, ResidencyType
<1>1. pass \in Passes /\ todo \subseteq Roles BY DEF WInv, PassType
<1>a. Resting => Apart
  BY DEF WInv, Resting, OneModelOnDevice, None
<1>b. pass.kind \in {"decode", "train", "save"} => Apart
  BY DEF WInv, OneModelOnDevice
<1>2. CASE SessionBegin
  <2>1. Sound(w') /\ w'.role = w.role /\ cfg' = cfg /\ pass' = pass /\ todo' = {}
    BY <1>0, <1>2, OnloadedSound DEF SessionBegin
  <2> QED BY <1>1, <1>2, <1>a, <2>1, AtRest DEF SessionBegin, Resting, None
<1>3. CASE SessionEnd
  <2>1. Sound(w') /\ w'.role = w.role /\ cfg' = cfg /\ pass' = pass /\ todo' = {}
    <3>1. CASE cfg.keep
      BY <1>0, <1>3, <3>1, TrainReady DEF SessionEnd
    <3>2. CASE ~cfg.keep
      BY <1>0, <1>3, <3>2, TrainReady, Dropped DEF SessionEnd
    <3> QED BY <3>1, <3>2
  <2> QED BY <1>1, <1>3, <1>a, <2>1, AtRest DEF SessionEnd, Resting, None
<1>4. CASE RolloutEnd
  <2>1. Sound(w') /\ w'.role = w.role /\ w'.actorOn = w.actorOn /\ cfg' = cfg /\ pass' = Idle /\ todo' = todo
    BY <1>0, <1>4, Dropped DEF RolloutEnd
  <2>2. todo # {} => ~w.actorOn BY DEF WInv, ActorAway
  <2> QED BY <1>1, <1>4, <1>b, <2>1, <2>2, AtRest, IdleIsPass DEF RolloutEnd, None
<1>5. CASE RolloutIdleRank
  <2>1. Sound(w') /\ w'.role = w.role /\ cfg' = cfg /\ pass' = pass /\ todo' = {}
    BY <1>0, <1>5, Dropped DEF RolloutIdleRank
  <2> QED BY <1>1, <1>5, <1>a, <2>1, AtRest DEF RolloutIdleRank, Resting, None
<1>6. ASSUME NEW q \in Requests, NEW captured \in BOOLEAN, RolloutBegin(q, captured)
      PROVE  WInv'
  <2>1. /\ Sound(w') /\ w'.actorOn /\ w'.role = w.role /\ w'.version = w.version
        /\ w'.kv.at = "device" /\ w'.kv.block = q.block /\ q.n <= w'.kv.n
        /\ Fused => w'.fused.on /\ w'.fused.version = w'.version
    BY <1>0, <1>6, CacheReady DEF RolloutBegin
  <2>2. EvalWeights(w', Actor) = w'.version BY <2>1 DEF EvalWeights, Fused
  <2>3. /\ cfg' = cfg /\ todo' = {} /\ pass'.kind = "decode" /\ pass'.model = Actor
        /\ pass'.weights = w'.version /\ pass'.request = q /\ Apart
    BY <1>6, <1>a, <2>2 DEF RolloutBegin
  <2>4. pass' \in Passes
    <3>1. q \in [block : Nat, n : Nat] BY ResidencyAssumption
    <3> QED BY <1>0, <1>6, <2>1, <2>2, <3>1 DEF RolloutBegin, Passes, Kinds
  <2>5. (Sound(w))' BY <2>1, <2>3 DEF Sound, Fused
  <2>6. PassType' BY <2>3, <2>4 DEF PassType
  <2>7. ActorAway' /\ TrainsWhole' BY <2>3 DEF ActorAway, TrainsWhole
  <2>8. DecodeIsReady' BY <2>1, <2>3 DEF DecodeIsReady
  <2>9. OneModelOnDevice' BY <2>1, <2>3 DEF OneModelOnDevice
  <2> QED BY <1>0, <2>3, <2>5, <2>6, <2>7, <2>8, <2>9 DEF WInv, CfgOK
<1>7. ASSUME NEW q \in Requests, NEW captured \in BOOLEAN, ProbeRolloutCache(q, captured)
      PROVE  WInv'
  <2>1. Sound(w') /\ w'.role = w.role /\ cfg' = cfg /\ pass' = pass /\ todo' = {}
    BY <1>0, <1>7, CacheReady DEF ProbeRolloutCache
  <2> QED BY <1>1, <1>7, <1>a, <2>1, AtRest DEF ProbeRolloutCache, Resting, None
<1>8. ASSUME NEW names \in SUBSET Roles, EnsureRoles(names)
      PROVE  WInv'
  <2>1. Sound(w') /\ ~w'.actorOn /\ w'.role = w.role /\ cfg' = cfg /\ pass' = pass /\ todo' \subseteq Roles
    BY <1>0, <1>8, OffloadedSound DEF EnsureRoles
  <2> QED BY <1>1, <1>8, <1>a, <2>1, AtRest DEF EnsureRoles, Resting, None
<1>9. ASSUME NEW r \in Roles, BuildRole(r) PROVE WInv'
  <2> DEFINE v == SourceVersion(r)
             x == [w.role EXCEPT ![r] = [at |-> "device", version |-> v]]
  <2>1. v \in Nat
    <3> DEFINE same == {y \in Roles : w.role[y].at # None /\ cfg.paths[y] = cfg.paths[r]}
    <3>1. CASE cfg.paths[r] = Actor BY <1>0, <3>1 DEF SourceVersion
    <3>2. CASE cfg.paths[r] # Actor /\ same = {} BY <3>2 DEF SourceVersion
    <3>3. CASE cfg.paths[r] # Actor /\ same # {}
      <4>1. v = w.role[CHOOSE y \in same : TRUE].version BY <3>3 DEF SourceVersion
      <4>2. (CHOOSE y \in same : TRUE) \in Roles BY <3>3
      <4> HIDE DEF v
      <4> QED BY <1>0, <4>1, <4>2
    <3> QED BY <3>1, <3>2, <3>3
  <2> HIDE DEF v
  <2>2. x \in Places BY <1>0, <2>1
  <2>3. w' = [w EXCEPT !.role = x] BY <1>0, <1>9 DEF BuildRole, ResidencyType, v
  <2>4. \A q \in Roles \ {r} : x[q] = w.role[q] BY <1>0
  <2> HIDE DEF x
  <2>5. Sound(w') /\ w'.role = x /\ w'.actorOn = w.actorOn
    BY <1>0, <2>2, <2>3, RolesChanged
  <2>6. ~w.actorOn BY <1>9 DEF BuildRole, WInv, ActorAway
  <2>7. pass' \in Passes /\ pass'.kind = "build" /\ pass'.model = r /\ cfg' = cfg /\ todo' = todo
    BY <1>9 DEF BuildRole, Enter, EnterFor, Passes, Kinds, NoRequest
  <2> QED BY <1>1, <1>9, <1>a, <2>4, <2>5, <2>6, <2>7, RolePass DEF BuildRole
<1>10. CASE BuildRoleEnd
  <2> DEFINE x == [w.role EXCEPT ![pass.model].at = "host"]
  <2>1. pass.model \in Roles /\ pass.kind = "build"
    BY <1>10 DEF BuildRoleEnd, WInv, ActorAway
  <2>2. x \in Places /\ x[pass.model].at = "host" /\ \A q \in Roles \ {pass.model} : x[q] = w.role[q]
    BY <1>0, <2>1, RoleMoved
  <2>3. w' = [w EXCEPT !.role = x] BY <1>0, <1>10, <2>1, RoleMoved, ZenonT(30) DEF BuildRoleEnd
  <2> HIDE DEF x
  <2>4. Sound(w') /\ w'.role = x /\ w'.actorOn = w.actorOn
    BY <1>0, <2>2, <2>3, RolesChanged
  <2>5. ~w.actorOn BY <2>1 DEF WInv, ActorAway
  <2>6. \A q \in Roles \ {pass.model} : w.role[q].at # "device"
    BY DEF WInv, OneModelOnDevice
  <2>7. pass' = Idle /\ todo' \subseteq Roles /\ cfg' = cfg
    BY <1>1, <1>10 DEF BuildRoleEnd
  <2>8. \A q \in Roles : w'.role[q].at # "device" BY <2>2, <2>4, <2>6
  <2> QED BY <2>4, <2>5, <2>7, <2>8, AtRest, IdleIsPass DEF None
<1>11. CASE ScoreActor
  <2>1. /\ Sound(w') /\ w'.role = w.role /\ cfg' = cfg /\ todo' = {} /\ w'.version \in Nat
        /\ w'.fused.version \in Int
    BY <1>0, <1>11, OnloadedSound DEF ScoreActor, Sound, ResidencyType
  <2>2. EvalWeights(w', Actor) \in Int BY <2>1 DEF EvalWeights
  <2>3. pass' \in Passes /\ pass'.kind = "score" /\ pass'.model = Actor
    BY <1>11, <2>2 DEF ScoreActor, Enter, EnterFor, Passes, Kinds, NoRequest
  <2>4. (Sound(w))' BY <2>1 DEF Sound, Fused
  <2>5. /\ PassType' /\ ActorAway' /\ DecodeIsReady' /\ TrainsWhole'
    BY <2>1, <2>3 DEF PassType, ActorAway, DecodeIsReady, TrainsWhole
  <2>6. OneModelOnDevice' BY <1>11, <1>a, <2>1 DEF OneModelOnDevice, ScoreActor
  <2> QED BY <1>0, <2>1, <2>4, <2>5, <2>6 DEF WInv, CfgOK
<1>12. ASSUME NEW r \in Roles, ScoreRole(r) \/ \E n \in 1..MaxUpdates : TrainValues(r, n) PROVE WInv'
  <2> DEFINE a == PrepareActorOffloaded(w)
             x == [a.role EXCEPT ![r].at = "device"]
  <2>1. Sound(a) /\ ~a.actorOn /\ a.role = w.role BY <1>0, OffloadedSound
  <2>2. w' = OnloadRole(a, r) /\ cfg' = cfg /\ todo' = {} /\ Apart
    BY <1>12, <1>a DEF ScoreRole, TrainValues
  <2> HIDE DEF a
  <2>3. x \in Places /\ \A q \in Roles \ {r} : x[q] = a.role[q]
    BY <2>1, RoleMoved, ZenonT(30)
  <2>4. w' = [a EXCEPT !.role = x] BY <2>1, <2>2, RoleMoved
  <2> HIDE DEF x
  <2>5. Sound(w') /\ w'.role = x /\ ~w'.actorOn
    BY <2>1, <2>3, <2>4, RolesChanged
  <2>6. w'.role[r].version \in Int BY <2>3, <2>5
  <2>7. Actor \notin Roles BY ResidencyAssumption
  <2>8. EvalWeights(w', r) \in Int BY <2>6, <2>7 DEF EvalWeights
  <2>9. w.role[r].version \in Int BY <1>0
  <2>10. pass' \in Passes /\ pass'.kind \in {"score", "values"} /\ pass'.model = r
    BY <1>12, <2>8, <2>9 DEF ScoreRole, TrainValues, Enter, EnterFor, Passes, Kinds, NoRequest
  <2>11. \A q \in Roles \ {r} : w'.role[q].at # "device" BY <2>1, <2>2, <2>3, <2>5
  <2> QED BY <2>2, <2>5, <2>10, <2>11, RolePass
<1>c. pass.kind \in {"build", "values", "score"} /\ pass.model # Actor =>
        /\ pass.model \in Roles /\ ~w.actorOn
        /\ \A q \in Roles \ {pass.model} : w.role[q].at # "device"
  BY DEF WInv, ActorAway, OneModelOnDevice
<1>d. pass.kind = "score" /\ pass.model = Actor => Apart
  BY ResidencyAssumption DEF WInv, OneModelOnDevice
<1>e. Actor \notin Roles BY ResidencyAssumption
<1>f. ASSUME w' = OffloadRole(w, pass.model), pass.model \in Roles
      PROVE  /\ Sound(w') /\ w'.actorOn = w.actorOn
             /\ w'.role[pass.model].at = "host"
             /\ \A q \in Roles \ {pass.model} : w'.role[q] = w.role[q]
  <2> DEFINE x == [w.role EXCEPT ![pass.model].at = "host"]
  <2>1. x \in Places /\ x[pass.model].at = "host" /\ \A q \in Roles \ {pass.model} : x[q] = w.role[q]
    BY <1>0, <1>f, RoleMoved
  <2>2. w' = [w EXCEPT !.role = x] BY <1>0, <1>f, RoleMoved, ZenonT(30)
  <2> HIDE DEF x
  <2>3. Sound(w') /\ w'.role = x /\ w'.actorOn = w.actorOn
    BY <1>0, <2>1, <2>2, RolesChanged
  <2> QED BY <2>1, <2>3
<1>g. todo # {} => ~w.actorOn BY DEF WInv, ActorAway
<1>13. CASE ScoreEnd
  <2>1. cfg' = cfg /\ todo' = todo /\ pass' = Idle /\ pass.kind = "score" BY <1>13 DEF ScoreEnd
  <2>2. CASE pass.model = Actor
    BY <1>0, <1>1, <1>13, <1>d, <1>g, <2>1, <2>2, AtRest, IdleIsPass DEF ScoreEnd, None
  <2>3. CASE pass.model # Actor
    <3>1. w' = OffloadRole(w, pass.model) /\ pass.model \in Roles BY <1>13, <1>c, <2>3 DEF ScoreEnd
    <3>2. \A q \in Roles : w'.role[q].at # "device" BY <1>c, <1>f, <2>1, <2>3, <3>1
    <3> QED BY <1>1, <1>f, <1>g, <2>1, <3>1, <3>2, AtRest, IdleIsPass DEF None
  <2> QED BY <2>2, <2>3
<1>14. CASE PassRaises
  <2>1. cfg' = cfg /\ todo' = todo /\ pass' = Failed /\ Failed.kind = "failed"
    BY <1>14 DEF PassRaises, Failed, Idle
  <2>2. CASE pass.kind = "build"
    <3> DEFINE x == [w.role EXCEPT ![pass.model].at = None]
    <3>1. pass.model \in Roles BY <2>2 DEF WInv, ActorAway
    <3>2. x \in Places /\ x[pass.model].at = None /\ \A q \in Roles \ {pass.model} : x[q] = w.role[q]
      BY <1>0, <3>1, RoleMoved
    <3>3. w' = [w EXCEPT !.role = x] BY <1>0, <1>14, <2>2, <3>1 DEF PassRaises, ResidencyType
    <3> HIDE DEF x
    <3>4. Sound(w') /\ w'.role = x /\ w'.actorOn = w.actorOn
      BY <1>0, <3>2, <3>3, RolesChanged
    <3>5. \A q \in Roles : w'.role[q].at # "device" BY <1>c, <1>e, <2>2, <3>1, <3>2, <3>4 DEF None
    <3> QED BY <1>1, <1>g, <2>1, <3>4, <3>5, AtRest, IdleIsPass
  <2>3. CASE pass.kind \in {"score", "values"} /\ pass.model # Actor
    <3>1. w' = OffloadRole(w, pass.model) /\ pass.model \in Roles BY <1>14, <1>c, <2>3 DEF PassRaises
    <3>2. \A q \in Roles : w'.role[q].at # "device" BY <1>c, <1>f, <2>3, <3>1
    <3> QED BY <1>1, <1>f, <1>g, <2>1, <3>1, <3>2, AtRest, IdleIsPass
  <2>4. CASE pass.kind # "build" /\ ~(pass.kind \in {"score", "values"} /\ pass.model # Actor)
    <3>1. Sound(w') /\ w'.role = w.role /\ w'.actorOn = w.actorOn
      <4>1. CASE pass.kind = "decode" /\ ~cfg.keep
        <5>1. w' = DropRolloutHbm(w) BY <1>14, <2>4, <4>1 DEF PassRaises
        <5> QED BY <1>0, <5>1, Dropped
      <4>2. CASE pass.kind = "train" /\ ~cfg.keep
        <5>1. w' = [w EXCEPT !.optOn = FALSE] BY <1>14, <2>4, <4>2 DEF PassRaises
        <5> QED BY <1>0, <5>1, OptimizerMoved
      <4>3. CASE ~(pass.kind = "decode" /\ ~cfg.keep) /\ ~(pass.kind = "train" /\ ~cfg.keep)
        <5>1. w' = w BY <1>14, <2>4, <4>3 DEF PassRaises
        <5> QED BY <1>0, <5>1
      <4> QED BY <4>1, <4>2, <4>3
    <3>2. pass.kind \in {"decode", "train", "save", "score"}
      BY <1>1, <1>14, <1>e, <2>4 DEF PassRaises, Passes, Kinds, WInv, ActorAway, Failed, Idle, None
    <3>3. Apart BY <1>b, <1>d, <2>4, <3>2
    <3> QED BY <1>0, <1>1, <1>g, <2>1, <3>1, <3>3, AtRest, IdleIsPass
  <2> QED BY <2>2, <2>3, <2>4
<1>15. CASE TrainValuesEnd
  <2>1. /\ pass.kind = "values" /\ w' = OffloadRole(w, pass.model)
        /\ cfg' = cfg /\ todo' = todo /\ pass' = Idle
    BY <1>15 DEF TrainValuesEnd
  <2>2. pass.model \in Roles /\ pass.model # Actor BY <1>e, <2>1 DEF WInv, ActorAway
  <2>3. \A q \in Roles : w'.role[q].at # "device" BY <1>c, <1>f, <2>1, <2>2
  <2> QED BY <1>1, <1>f, <1>g, <2>1, <2>2, <2>3, AtRest, IdleIsPass DEF None
<1>21. CASE ValueStep
  <2> DEFINE m == pass.model
             v == w.role[m].version + 1
             x == [w.role EXCEPT ![m].version = v]
  <2>1. m \in Roles /\ ~w.actorOn /\ pass.kind = "values" /\ pass.steps > 0
    BY <1>21 DEF ValueStep, WInv, ActorAway
  <2>2. x \in Places /\ \A q \in Roles \ {m} : x[q] = w.role[q] BY <1>0, <2>1
  <2>3. w' = [w EXCEPT !.role = x] BY <1>0, <1>21, <2>1 DEF ValueStep, ResidencyType
  <2> HIDE DEF x
  <2>4. Sound(w') /\ w'.role = x /\ w'.actorOn = w.actorOn BY <1>0, <2>2, <2>3, RolesChanged
  <2>5. pass' = [pass EXCEPT !.steps = pass.steps - 1] /\ cfg' = cfg /\ todo' = todo BY <1>21 DEF ValueStep
  <2>6. pass' \in Passes /\ pass'.kind = "values" /\ pass'.model = m BY <1>1, <2>1, <2>5 DEF Passes
  <2>7. \A q \in Roles \ {m} : w'.role[q].at # "device" BY <1>c, <1>e, <2>1, <2>2, <2>4
  <2> HIDE DEF m
  <2> QED BY <1>1, <2>1, <2>4, <2>5, <2>6, <2>7, RolePass
<1>16. ASSUME NEW k \in 1..MaxUpdates, Train(k) PROVE WInv'
  <2>1. /\ Sound(w') /\ w'.actorOn /\ w'.trainOn /\ w'.role = w.role
        /\ cfg' = cfg /\ todo' = {} /\ Apart
    <3>1. CASE w.ready BY <1>0, <1>16, <1>a, <3>1 DEF Train, Sound
    <3>2. CASE ~w.ready BY <1>0, <1>16, <1>a, <3>2, TrainReady DEF Train
    <3> QED BY <3>1, <3>2
  <2>2. pass' \in Passes /\ pass'.kind = "train"
    BY <1>0, <1>16 DEF Train, EnterFor, Passes, Kinds, NoRequest
  <2>3. (Sound(w))' BY <2>1 DEF Sound, Fused
  <2>4. /\ PassType' /\ ActorAway' /\ DecodeIsReady' /\ TrainsWhole'
    BY <2>1, <2>2 DEF PassType, ActorAway, DecodeIsReady, TrainsWhole
  <2>5. OneModelOnDevice' BY <2>1 DEF OneModelOnDevice
  <2> QED BY <1>0, <2>1, <2>3, <2>4, <2>5 DEF WInv, CfgOK
<1>22. CASE OptimizerStep
  <2> DEFINE v == w.version + 1
  <2>1. /\ w' = [w EXCEPT !.version = v, !.optOn = TRUE] /\ cfg' = cfg /\ todo' = todo
        /\ pass' = [pass EXCEPT !.steps = pass.steps - 1] /\ pass.kind = "train" /\ pass.steps > 0
    BY <1>22 DEF OptimizerStep
  <2>2. v \in Nat BY <1>0
  <2> HIDE DEF v
  <2>3. Sound(w') /\ w'.role = w.role /\ w'.actorOn = w.actorOn /\ w'.trainOn = w.trainOn
    BY <1>0, <2>1, <2>2, OptimizerStepped
  <2>4. pass' \in Passes /\ pass'.kind = "train" BY <1>1, <2>1 DEF Passes
  <2>5. (Sound(w))' BY <2>1, <2>3 DEF Sound, Fused
  <2>6. w.actorOn /\ w.trainOn BY <2>1 DEF WInv, TrainsWhole
  <2>7. /\ PassType' /\ ActorAway' /\ DecodeIsReady' /\ TrainsWhole'
    BY <1>1, <1>g, <2>1, <2>3, <2>4, <2>6 DEF PassType, ActorAway, DecodeIsReady, TrainsWhole
  <2>8. OneModelOnDevice' BY <1>b, <2>1, <2>3 DEF OneModelOnDevice
  <2> QED BY <1>0, <2>1, <2>5, <2>7, <2>8 DEF WInv, CfgOK
<1>17. CASE TrainEnd
  <2> DEFINE k == w.optOn /\ cfg.keep
  <2>1. w' = [w EXCEPT !.optOn = k] /\ cfg' = cfg /\ todo' = todo /\ pass' = Idle /\ pass.kind = "train"
    BY <1>17 DEF TrainEnd
  <2>2. k \in BOOLEAN OBVIOUS
  <2> HIDE DEF k
  <2>3. Sound(w') /\ w'.role = w.role /\ w'.actorOn = w.actorOn
    BY <1>0, <2>1, <2>2, OptimizerMoved
  <2> QED BY <1>1, <1>b, <1>g, <2>1, <2>3, AtRest, IdleIsPass DEF None
<1>18. CASE SaveCheckpoint
  <2>1. Sound(w') /\ w'.role = w.role /\ cfg' = cfg /\ todo' = {}
    BY <1>0, <1>18, OnloadedSound DEF SaveCheckpoint
  <2>2. pass' \in Passes /\ pass'.kind = "save"
    BY <1>0, <1>18 DEF SaveCheckpoint, Enter, EnterFor, Passes, Kinds, NoRequest
  <2> QED BY <1>18, <1>a, <2>1, <2>2, AtRest DEF SaveCheckpoint
<1>19. CASE SaveCheckpointEnd
  BY <1>0, <1>1, <1>19, <1>b, <1>g, AtRest, IdleIsPass DEF SaveCheckpointEnd, None
<1>20. CASE UNCHANGED wvars
  <2>1. w' = w /\ pass' = pass /\ todo' = todo /\ cfg' = cfg BY <1>20 DEF wvars
  <2> QED BY <2>1 DEF WInv, CfgOK, Sound, Fused, PassType, ActorAway, OneModelOnDevice,
       DecodeIsReady, TrainsWhole
<1> QED
  BY <1>2, <1>3, <1>4, <1>5, <1>6, <1>7, <1>8, <1>9, <1>10, <1>11, <1>12, <1>13, <1>14,
     <1>15, <1>16, <1>17, <1>18, <1>19, <1>20, <1>21, <1>22 DEF WNext

\* The residency of a worker is sound under any sequence of commands (engine/worker.py).
THEOREM WorkerInvariant == WSpec => []WInv
<1>1. cfg \in Cfgs /\ WInit => WInv BY WorkerStarts
<1>2. WInv /\ [WNext]_wvars => WInv' BY WorkerStep
<1> QED BY <1>1, <1>2, PTL DEF WSpec

-----------------------------------------------------------------------------
(***************************************************************************)
(* The fit loops                                                            *)
(***************************************************************************)

\* A pass belongs to one point of the fit loop.
PassAt ==
  /\ pass.kind = "build"  => pc = "roles"
  /\ pass.kind = "decode" => pc = "rollout"
  /\ pass.kind = "score"  => pc = "score"
  /\ pass.kind = "values" => pc = "values"
  /\ pass.kind = "train"  => pc = "training"
  /\ pass.kind = "save"   => pc = "saving"
  /\ pass.kind = "failed" => pc \in {"raised", "leaked", "closed"}

\* Which models have still to score, and which one is scoring.  The actor scores
\* after the reference, so from a residency that was offloaded.
QueueOK ==
  pc = "score" =>
    \/ /\ plan.algo = "dpo" /\ queue \in {<<"ref">>, <<>>}
       /\ pass.kind = "score" => pass.model = "ref"
    \/ /\ plan.algo = "ppo"
       /\ queue \in {<<"reward", "ref", Actor, "critic">>, <<"ref", Actor, "critic">>,
                     <<Actor, "critic">>, <<"critic">>, <<>>}
       /\ queue = <<Actor, "critic">> => ~w.actorOn
       /\ pass.kind = "score" /\ pass.model = "critic" => queue = <<>>
       /\ queue = <<>> /\ pass.kind # None => pass.model = "critic"

\* The points of the loop at which the batch holds log-probabilities of the actor as it is.
Busy == {"score", "values", "train"}

\* The batch's log-probabilities are those of the actor that will learn from them, and
\* in the training call those of the actor with which it began.
SourcesOK ==
  /\ ~Sampling => sources = {}
  /\ Sampling /\ pc \in {"session", "rollout"} \cup Busy => sources \subseteq {w.version}
  /\ Sampling /\ (pc \in Busy \/ (pc = "rollout" /\ calls > 0)) => sources # {}
  /\ Sampling /\ pass.kind = "train" => sources = {pass.weights}
  /\ pass.kind = "score" /\ pass.model = Actor => pass.weights \in {-1, w.version}

\* The updates that a training call has made and has still to make are those of a call.
StepsOK ==
  /\ pc = "training" => pass.kind = "train"
  /\ pass.kind = "train" =>
       /\ w.version - pass.weights \in Nat
       /\ w.version - pass.weights + pass.steps \in 1..plan.updates

\* A checkpoint is written from the residency that the update left.
SavesWhole ==
  /\ pc \in {"save", "saving"} => w.actorOn /\ w.trainOn
  /\ pass.kind = "save" => pc = "saving"

\* The critic's values are of the version with which its own training call begins.
CriticOK ==
  LET v == w.role["critic"].version
  IN  /\ values \in Int
      /\ pass.kind = "score" /\ pass.model = "critic" => pass.weights \in {-1, v}
      /\ plan.algo = "ppo" /\ pc = "score" /\ queue = <<>> /\ pass.kind = None => values = v
      /\ pass.kind = "values" =>
           /\ plan.algo = "ppo" /\ pass.model = "critic" /\ pass.weights = values
           /\ values <= v /\ v - values + pass.steps \in 1..plan.updates
      /\ plan.algo = "ppo" /\ pc \in {"train", "training"} => v - values \in 1..plan.updates

\* Roles are built before anything has learned, and the reference never learns.
ReferenceOK ==
  /\ pc \in {"init", "roles"} => w.version = 0 /\ \A r \in Roles : w.role[r].version = 0
  /\ w.role["ref"].version = 0
  /\ pass.kind = "score" /\ pass.model = "ref" => pass.weights \in {-1, 0}

\* The invariant of the loop, and of the loop with its worker.
LoopInv == PassAt /\ QueueOK /\ SourcesOK /\ SavesWhole /\ StepsOK /\ CriticOK /\ ReferenceOK
TInv == WInv /\ LoopInv /\ plan \in Plans

\* What a step does to what an on-policy learner sees.
Learns ==
  \/ w'.version = w.version /\ sources' = sources
  \/ w'.version = w.version /\ sources' = {} /\ pc # "training"
  \/ w'.version = w.version /\ sources' = {w.version} /\ Sampling /\ pc # "training"
  \/ /\ Made < plan.updates
     /\ sources = IF Sampling THEN {w.version - Made} ELSE {}
     /\ w'.version = w.version + 1 /\ Made' = Made + 1 /\ sources' = sources

\* The roles that the trainers name, and the names that are no role.
LEMMA Names == /\ {"ref", "critic", "reward"} \subseteq Roles /\ "actor" \notin Roles /\ "none" \notin Roles
  BY RoleAssumption, ResidencyAssumption DEF Actor, None

\* A step that leaves the worker alone.
LEMMA LoopSteps ==
  ASSUME TInv, UNCHANGED wvars,
         RolesReady \/ TakeBatch \/ NoMoreBatches \/ EmptyBatch \/ SkipTrain \/ Close \/ Finished
  PROVE  TInv' /\ plan' = plan /\ Learns
<1>1. WInv' BY WorkerStep DEF TInv
<1>2. w' = w /\ pass' = pass /\ plan' = plan
  BY DEF wvars, RolesReady, TakeBatch, NoMoreBatches, EmptyBatch, SkipTrain, Close, Finished, vars, tvars
<1> USE DEF TInv, LoopInv
<1>a. CASE RolesReady
  BY <1>1, <1>2, <1>a DEF RolesReady, StepDone, PassAt, QueueOK, SourcesOK, SavesWhole, StepsOK, CriticOK, ReferenceOK, Sampling, Busy, Resting, None, Learns
<1>b. CASE TakeBatch
  BY <1>1, <1>2, <1>b DEF TakeBatch, StepDone, PassAt, QueueOK, SourcesOK, SavesWhole, StepsOK, CriticOK, ReferenceOK, Sampling, Busy, Resting, None, Learns
<1>c. CASE NoMoreBatches
  BY <1>1, <1>2, <1>c DEF NoMoreBatches, StepDone, PassAt, QueueOK, SourcesOK, SavesWhole, StepsOK, CriticOK, ReferenceOK, Sampling, Busy, Resting, None, Learns
<1>d. CASE EmptyBatch
  BY <1>1, <1>2, <1>d DEF EmptyBatch, StepDone, PassAt, QueueOK, SourcesOK, SavesWhole, StepsOK, CriticOK, ReferenceOK, Sampling, Busy, Resting, None, Learns
<1>e. CASE SkipTrain
  BY <1>1, <1>2, <1>e DEF SkipTrain, StepDone, PassAt, QueueOK, SourcesOK, SavesWhole, StepsOK, CriticOK, ReferenceOK, Sampling, Busy, Resting, None, Learns
<1>f. CASE Close
  BY <1>1, <1>2, <1>f DEF Close, StepDone, PassAt, QueueOK, SourcesOK, SavesWhole, StepsOK, CriticOK, ReferenceOK, Sampling, Busy, Resting, None, Learns
<1>g. CASE Finished
  BY <1>1, <1>2, <1>g DEF Finished, vars, tvars, StepDone, PassAt, QueueOK, SourcesOK, SavesWhole, StepsOK, CriticOK, ReferenceOK, Sampling, Busy, Resting, None, Learns
<1> QED BY <1>a, <1>b, <1>c, <1>d, <1>e, <1>f, <1>g

\* Moving the actor changes no version and no role.
LEMMA VersionsKept ==
  ASSUME WInv
  PROVE  /\ \A s \in {PrepareActorOnloaded(w), PrepareActorOffloaded(w)} :
              s.version = w.version /\ s.role = w.role
         /\ DropRolloutHbm(w).version = w.version /\ DropRolloutHbm(w).role = w.role
         /\ DropRolloutHbm(w).actorOn = w.actorOn /\ DropRolloutHbm(w).trainOn = w.trainOn
         /\ PrepareForTrain(w).version = w.version /\ PrepareForTrain(w).role = w.role
         /\ PrepareForTrain(w).actorOn /\ PrepareForTrain(w).trainOn
         /\ PrepareForTrain(DropRolloutHbm(w)).version = w.version
         /\ PrepareForTrain(DropRolloutHbm(w)).role = w.role
  BY OnloadedSound, OffloadedSound, Dropped, TrainReady DEF WInv

\* A step inside a rollout session.
LEMMA SessionSteps ==
  ASSUME TInv,
         \/ OpenSession \/ RolloutReturn \/ CloseSession \/ RolloutCallIdle
         \/ \E q \in Requests, captured \in BOOLEAN :
              RolloutCall(q, captured) \/ ProbeRolloutStage(q, captured) \/ ProbeTrainStage(q, captured)
  PROVE  WNext /\ LoopInv' /\ plan' = plan /\ Learns
<1> USE DEF TInv, LoopInv
<1>0. w.version \in Nat BY DEF WInv, Sound, ResidencyType
<1>1. CASE OpenSession
  <2>1. w'.version = w.version /\ w'.role = w.role BY <1>1, VersionsKept DEF OpenSession, SessionBegin
  <2>2. WNext BY <1>1 DEF OpenSession, WNext
  <2> QED BY <1>1, <2>1, <2>2 DEF OpenSession, SessionBegin, PassAt, QueueOK, SourcesOK, SavesWhole, StepsOK, CriticOK, ReferenceOK, Sampling, Busy, Resting, None, Learns
<1>2. CASE RolloutReturn
  <2>1. w'.version = w.version /\ w'.role = w.role BY <1>2, VersionsKept DEF RolloutReturn, RolloutEnd
  <2>2. WNext BY <1>2 DEF RolloutReturn, WNext
  <2> QED BY <1>2, <2>1, <2>2 DEF RolloutReturn, RolloutEnd, tvars, Idle, PassAt, QueueOK, SourcesOK, SavesWhole, StepsOK, CriticOK, ReferenceOK, Sampling, Busy, Resting, None, Learns
<1>3. CASE CloseSession
  <2>1. w'.version = w.version /\ w'.role = w.role BY <1>3, VersionsKept DEF CloseSession, SessionEnd
  <2>2. WNext BY <1>3 DEF CloseSession, WNext
  <2>3. pass' = pass /\ plan' = plan /\ Resting /\ sources' = sources BY <1>3 DEF CloseSession, SessionEnd
  <2>4. CASE plan.algo = "ppo"
    <3>1. queue' \in {<<"reward", "ref", Actor, "critic">>, <<"ref", Actor, "critic">>} /\ pc' = "score"
      BY <1>3, <2>4 DEF CloseSession, PPOScores
    <3>2. QueueOK' BY <2>3, <2>4, <3>1 DEF QueueOK, Resting, None
    <3>3. SourcesOK' BY <1>3, <2>1, <2>3, <2>4 DEF CloseSession, SourcesOK, Sampling, Busy, Resting, None
    <3>0. queue' # <<>> BY <3>1
    <3>6. values' = values BY <1>3 DEF CloseSession
    <3>4. CriticOK' BY <2>1, <2>3, <3>0, <3>1, <3>6 DEF CriticOK, Resting, None
    <3>5. PassAt' /\ SavesWhole' /\ StepsOK' /\ ReferenceOK'
      BY <2>1, <2>3, <3>1 DEF PassAt, SavesWhole, StepsOK, ReferenceOK, Resting, None
    <3> QED BY <2>1, <2>2, <2>3, <3>2, <3>3, <3>4, <3>5 DEF Learns
  <2>5. CASE plan.algo # "ppo"
    BY <1>3, <2>1, <2>2, <2>3, <2>5 DEF CloseSession, PassAt, QueueOK, SourcesOK, SavesWhole, StepsOK, CriticOK, ReferenceOK, Sampling, Busy, Resting, None, Learns
  <2> QED BY <2>4, <2>5
<1>4. CASE RolloutCallIdle
  <2>1. w'.version = w.version /\ w'.role = w.role BY <1>4, VersionsKept DEF RolloutCallIdle, RolloutIdleRank
  <2>2. WNext BY <1>4 DEF RolloutCallIdle, WNext
  <2> QED BY <1>4, <2>1, <2>2 DEF RolloutCallIdle, RolloutIdleRank, PassAt, QueueOK, SourcesOK, SavesWhole, StepsOK, CriticOK, ReferenceOK, Sampling, Busy, Resting, None, Learns
<1>5. ASSUME NEW q \in Requests, NEW captured \in BOOLEAN, RolloutCall(q, captured)
      PROVE  WNext /\ LoopInv' /\ plan' = plan /\ Learns
  <2>1. WNext BY <1>5 DEF RolloutCall, WNext
  <2>2. w'.version = w.version /\ w'.role = w.role /\ (Fused => w'.fused.on /\ w'.fused.version = w.version)
    BY <1>5, CacheReady DEF RolloutCall, RolloutBegin, WInv
  <2>3. EvalWeights(w', Actor) = w.version BY <2>2 DEF EvalWeights, Fused
  <2>4. pass'.kind = "decode" /\ pass'.weights = w.version
    BY <1>5, <2>3 DEF RolloutCall, RolloutBegin
  <2> QED BY <1>5, <2>1, <2>2, <2>4 DEF RolloutCall, PassAt, QueueOK, SourcesOK, SavesWhole, StepsOK, CriticOK, ReferenceOK, Sampling, Busy, Resting, None, Learns
<1>6. ASSUME NEW q \in Requests, NEW captured \in BOOLEAN,
             ProbeRolloutStage(q, captured) \/ ProbeTrainStage(q, captured)
      PROVE  WNext /\ LoopInv' /\ plan' = plan /\ Learns
  <2>1. WNext BY <1>6 DEF ProbeRolloutStage, ProbeTrainStage, WNext
  <2>2. w'.version = w.version /\ w'.role = w.role
    BY <1>6, CacheReady DEF ProbeRolloutStage, ProbeTrainStage, ProbeRolloutCache, WInv
  <2>3. pass' = pass /\ Resting
    BY <1>6 DEF ProbeRolloutStage, ProbeTrainStage, ProbeRolloutCache
  <2> QED BY <1>6, <2>1, <2>2, <2>3 DEF ProbeRolloutStage, ProbeTrainStage, PassAt, QueueOK, SourcesOK, SavesWhole, StepsOK, CriticOK, ReferenceOK, Sampling, Busy, Resting, None, Learns
<1> QED BY <1>1, <1>2, <1>3, <1>4, <1>5, <1>6

\* A step that builds the roles, or an exception of the pass.
LEMMA RoleSteps ==
  ASSUME TInv,
         Prepare \/ (\E r \in Roles : BuildOne(r)) \/ BuildOneEnd \/ CallRaises
  PROVE  (WNext \/ UNCHANGED wvars) /\ LoopInv' /\ plan' = plan /\ Learns
<1> USE DEF TInv, LoopInv
<1>0. /\ w \in ResidencyType /\ w.version \in Nat
      /\ w.role \in [Roles -> [at : {None, "device", "host"}, version : Nat]]
  BY DEF WInv, Sound, ResidencyType
<1>1. CASE Prepare
  <2>1. CASE NeededRoles = {}
    BY <1>1, <2>1 DEF Prepare, wvars, PassAt, QueueOK, SourcesOK, SavesWhole, StepsOK, CriticOK, ReferenceOK, Sampling, Busy, Resting, None, Learns
  <2>2. CASE NeededRoles # {}
    <3>1. NeededRoles \in SUBSET Roles
      BY Names DEF NeededRoles, PPORoles, DPORoles, PolicyRoles
    <3>2. EnsureRoles(NeededRoles) BY <1>1, <2>2 DEF Prepare
    <3>3. WNext BY <3>1, <3>2 DEF WNext
    <3>4. w'.version = w.version /\ w'.role = w.role BY <3>2, VersionsKept DEF EnsureRoles
    <3> QED BY <1>1, <2>2, <3>2, <3>3, <3>4 DEF Prepare, EnsureRoles, PassAt, QueueOK, SourcesOK, SavesWhole, StepsOK, CriticOK, ReferenceOK, Sampling, Busy, Resting, None, Learns
  <2> QED BY <2>1, <2>2
<1>2. ASSUME NEW r \in Roles, BuildOne(r)
      PROVE  WNext /\ LoopInv' /\ plan' = plan /\ Learns
  <2>1. WNext BY <1>2 DEF BuildOne, WNext
  <2>2. pc = "roles" /\ UNCHANGED tvars /\ pass'.kind = "build" /\ pass'.model = r
    BY <1>2 DEF BuildOne, BuildRole, Enter, EnterFor
  <2>3. SourceVersion(r) = 0
    <3> DEFINE same == {y \in Roles : w.role[y].at # None /\ cfg.paths[y] = cfg.paths[r]}
    <3>1. w.version = 0 /\ \A y \in Roles : w.role[y].version = 0 BY <2>2 DEF ReferenceOK
    <3>2. CASE cfg.paths[r] = Actor BY <3>1, <3>2 DEF SourceVersion
    <3>3. CASE cfg.paths[r] # Actor /\ same = {} BY <3>3 DEF SourceVersion
    <3>4. CASE cfg.paths[r] # Actor /\ same # {}
      <4>1. SourceVersion(r) = w.role[CHOOSE y \in same : TRUE].version BY <3>4 DEF SourceVersion
      <4>2. (CHOOSE y \in same : TRUE) \in Roles BY <3>4
      <4> QED BY <3>1, <4>1, <4>2
    <3> QED BY <3>2, <3>3, <3>4
  <2>4. w' = [w EXCEPT !.role[r] = [at |-> "device", version |-> 0]]
    BY <1>2, <2>3 DEF BuildOne, BuildRole
  <2>5. w'.version = w.version /\ w'.role = [w.role EXCEPT ![r] = [at |-> "device", version |-> 0]]
    BY <1>0, <2>4 DEF ResidencyType
  <2>6. \A q \in Roles : w'.role[q].version = w.role[q].version
    BY <1>0, <2>2, <2>5 DEF ReferenceOK
  <2>7. w'.role["ref"].version = w.role["ref"].version /\ w'.role["critic"].version = w.role["critic"].version
    BY <2>6, Names
  <2> QED BY <2>1, <2>2, <2>5, <2>6, <2>7 DEF tvars, PassAt, QueueOK, SourcesOK, SavesWhole, StepsOK, CriticOK, ReferenceOK, Sampling, Busy, None, Learns
<1>3. CASE BuildOneEnd
  <2>1. WNext BY <1>3 DEF BuildOneEnd, WNext
  <2>2. pc = "roles" /\ UNCHANGED tvars /\ pass' = Idle /\ pass.model \in Roles /\ w' = OffloadRole(w, pass.model)
    BY <1>3 DEF BuildOneEnd, BuildRoleEnd, WInv, ActorAway
  <2>3. w'.version = w.version /\ \A q \in Roles : w'.role[q].version = w.role[q].version
    BY <1>0, <2>2 DEF OffloadRole, ResidencyType
  <2>4. w'.role["ref"].version = w.role["ref"].version /\ w'.role["critic"].version = w.role["critic"].version
    BY <2>3, Names
  <2> QED BY <2>1, <2>2, <2>3, <2>4 DEF Idle, tvars, PassAt, QueueOK, SourcesOK, SavesWhole, StepsOK, CriticOK, ReferenceOK, Sampling, Busy, None, Learns
<1>4. CASE CallRaises
  <2>1. WNext BY <1>4 DEF CallRaises, WNext
  <2>2. /\ pc' \in {"raised", "leaked"} /\ plan' = plan /\ sources' = sources /\ values' = values
        /\ pass'.kind = "failed"
    BY <1>4 DEF CallRaises, PassRaises, Failed, Idle
  <2>3. w'.role["ref"].version = w.role["ref"].version /\ w'.version = w.version
    <3>1. CASE pass.kind = "build"
      <4>1. w' = [w EXCEPT !.role[pass.model].at = None] BY <1>4, <3>1 DEF CallRaises, PassRaises
      <4> QED BY <1>0, <4>1, Names DEF ResidencyType
    <3>2. CASE pass.kind \in {"score", "values"} /\ pass.model # Actor
      <4>1. w' = OffloadRole(w, pass.model) BY <1>4, <3>2 DEF CallRaises, PassRaises
      <4> QED BY <1>0, <4>1, Names DEF OffloadRole, ResidencyType
    <3>3. CASE pass.kind = "decode" /\ ~cfg.keep
      <4>1. w' = DropRolloutHbm(w) BY <1>4, <3>3 DEF CallRaises, PassRaises
      <4> QED BY <4>1, VersionsKept
    <3>4. CASE pass.kind = "train" /\ ~cfg.keep
      <4>1. w' = [w EXCEPT !.optOn = FALSE] BY <1>4, <3>4 DEF CallRaises, PassRaises
      <4> QED BY <1>0, <4>1 DEF ResidencyType
    <3>5. CASE /\ pass.kind # "build" /\ ~(pass.kind \in {"score", "values"} /\ pass.model # Actor)
               /\ ~(pass.kind = "decode" /\ ~cfg.keep) /\ ~(pass.kind = "train" /\ ~cfg.keep)
      BY <1>4, <3>5 DEF CallRaises, PassRaises
    <3> QED BY <3>1, <3>2, <3>3, <3>4, <3>5
  <2> QED BY <2>1, <2>2, <2>3 DEF PassAt, QueueOK, SourcesOK, SavesWhole, StepsOK, CriticOK, ReferenceOK, Sampling, Busy, None, Learns
<1> QED BY <1>1, <1>2, <1>3, <1>4

\* A step that scores the batch or trains.
LEMMA LearningSteps ==
  ASSUME TInv,
         \/ ScoreNext \/ ScoreReturn \/ Scored \/ CriticSteps \/ CriticTrained
         \/ TrainPolicy \/ TrainSteps \/ TrainReturn \/ MaybeSave \/ Saved
  PROVE  (WNext \/ UNCHANGED wvars) /\ LoopInv' /\ plan' = plan /\ Learns
<1> USE DEF TInv, LoopInv
<1>0. /\ w \in ResidencyType /\ w.version \in Nat
      /\ w.role \in [Roles -> [at : {None, "device", "host"}, version : Nat]]
  BY DEF WInv, Sound, ResidencyType
<1>p. plan.updates \in 1..MaxUpdates BY DEF Plans
<1>v. ASSUME NEW r \in Roles PROVE w.role[r].version \in Nat BY <1>0
<1>w. w.role["critic"].version \in Nat BY <1>v, Names
<1>1. CASE TrainPolicy
  <2>1. PICK n \in 1..plan.updates : Train(n) BY <1>1 DEF TrainPolicy
  <2>2. WNext BY <1>p, <2>1, ResidencyAssumption DEF WNext
  <2>3. w'.version = w.version /\ w'.role = w.role BY <2>1, VersionsKept DEF Train
  <2>4. /\ pass'.kind = "train" /\ pass'.weights = w.version /\ pass'.steps = n /\ pass'.model = Actor
        /\ pc' = "training" /\ pc = "train" /\ plan' = plan /\ sources' = sources /\ values' = values
    BY <1>1, <2>1 DEF TrainPolicy, Train, EnterFor
  <2>5. PassAt' /\ QueueOK' /\ SavesWhole' /\ ReferenceOK' /\ CriticOK'
    BY <2>3, <2>4 DEF PassAt, QueueOK, SavesWhole, ReferenceOK, CriticOK, None
  <2>6. Sampling => sources = {w.version} BY <2>4 DEF SourcesOK, Busy
  <2>7. SourcesOK' BY <2>3, <2>4, <2>6 DEF SourcesOK, Sampling, Busy
  <2>8. StepsOK' BY <1>0, <1>p, <2>3, <2>4 DEF StepsOK
  <2> QED BY <2>2, <2>3, <2>4, <2>5, <2>7, <2>8 DEF Learns
<1>2. CASE TrainReturn
  <2>1. WNext BY <1>2 DEF TrainReturn, WNext
  <2>2. /\ w'.role = w.role /\ w'.actorOn = w.actorOn /\ w'.trainOn = w.trainOn
        /\ w'.version = w.version
    BY <1>0, <1>2 DEF TrainReturn, TrainEnd, ResidencyType
  <2>3. /\ w.actorOn /\ w.trainOn /\ pass' = Idle /\ pc' \in {"close", "save"} /\ plan' = plan
        /\ sources' = sources /\ values' = values
    BY <1>2 DEF TrainReturn, TrainEnd, WInv, TrainsWhole
  <2>4. PassAt' /\ QueueOK' /\ SourcesOK' /\ SavesWhole' /\ StepsOK' /\ CriticOK' /\ ReferenceOK'
    BY <2>2, <2>3 DEF Idle, PassAt, QueueOK, SourcesOK, SavesWhole, StepsOK, CriticOK, ReferenceOK, Sampling, Busy, Resting, None
  <2> QED BY <2>1, <2>2, <2>3, <2>4 DEF Learns
<1>9. CASE TrainSteps
  <2>1. WNext BY <1>9 DEF TrainSteps, WNext
  <2>2. /\ w'.role = w.role /\ w'.actorOn = w.actorOn /\ w'.trainOn = w.trainOn
        /\ w'.version = w.version + 1
    BY <1>0, <1>9 DEF TrainSteps, OptimizerStep, ResidencyType
  <2>3. pass \in Passes BY DEF WInv, PassType
  <2>4. /\ pc = "training" /\ UNCHANGED tvars /\ pass.kind = "train" /\ pass.steps > 0
        /\ pass' = [pass EXCEPT !.steps = pass.steps - 1]
    BY <1>9 DEF TrainSteps, OptimizerStep
  <2>5. /\ pass'.kind = "train" /\ pass'.weights = pass.weights /\ pass'.model = pass.model
        /\ pass'.steps = pass.steps - 1 /\ pass.weights \in Int /\ pass.steps \in Nat
    BY <2>3, <2>4 DEF Passes
  <2>6. /\ w.version - pass.weights \in Nat
        /\ w.version - pass.weights + pass.steps \in 1..plan.updates
    BY <2>4 DEF StepsOK
  <2>7. StepsOK' BY <1>0, <1>p, <2>2, <2>4, <2>5, <2>6 DEF StepsOK, tvars
  <2>8. PassAt' /\ QueueOK' /\ SavesWhole' /\ ReferenceOK' /\ CriticOK'
    BY <2>2, <2>4, <2>5 DEF tvars, PassAt, QueueOK, SavesWhole, ReferenceOK, CriticOK, None
  <2>9. SourcesOK' BY <2>4, <2>5 DEF SourcesOK, Sampling, Busy, tvars
  <2>10. Learns
    <3>1. Made = w.version - pass.weights /\ Made' = w'.version - pass'.weights BY <2>4, <2>5 DEF Made
    <3>2. Made < plan.updates /\ Made' = Made + 1 BY <1>0, <1>p, <2>2, <2>4, <2>5, <2>6, <3>1
    <3>3. w.version - Made = pass.weights BY <1>0, <2>5, <3>1
    <3>4. sources = IF Sampling THEN {pass.weights} ELSE {} BY <2>4 DEF SourcesOK
    <3> QED BY <2>2, <2>4, <3>2, <3>3, <3>4 DEF Learns, tvars
  <2>11. plan' = plan BY <2>4 DEF tvars
  <2> QED BY <2>1, <2>7, <2>8, <2>9, <2>10, <2>11
<1>3. CASE MaybeSave
  <2>1. CASE (step + 1) % plan.save = 0
    <3>1. WNext BY <1>3, <2>1 DEF MaybeSave, WNext
    <3>2. w.actorOn /\ w' = w BY <1>3, <2>1 DEF MaybeSave, SaveCheckpoint, PrepareActorOnloaded, SavesWhole
    <3> QED BY <1>3, <2>1, <3>1, <3>2 DEF MaybeSave, SaveCheckpoint, Enter, EnterFor, PassAt, QueueOK, SourcesOK, SavesWhole, StepsOK, CriticOK, ReferenceOK, Sampling, Busy, Resting, None, Learns
  <2>2. CASE (step + 1) % plan.save # 0
    BY <1>3, <2>2 DEF MaybeSave, StepDone, wvars, PassAt, QueueOK, SourcesOK, SavesWhole, StepsOK, CriticOK, ReferenceOK, Sampling, Busy, Resting, None, Learns
  <2> QED BY <2>1, <2>2
<1>4. CASE Saved
  <2>1. WNext BY <1>4 DEF Saved, WNext
  <2> QED BY <1>4, <2>1 DEF Saved, SaveCheckpointEnd, StepDone, Idle, PassAt, QueueOK, SourcesOK, SavesWhole, StepsOK, CriticOK, ReferenceOK, Sampling, Busy, Resting, None, Learns
<1>a. ASSUME NEW r \in Roles, w' = OnloadRole(PrepareActorOffloaded(w), r)
      PROVE  /\ w'.version = w.version /\ ~w'.actorOn
             /\ \A q \in Roles : w'.role[q].version = w.role[q].version
  <2> DEFINE a == PrepareActorOffloaded(w)
             x == [a.role EXCEPT ![r].at = "device"]
  <2>1. Sound(a) /\ ~a.actorOn /\ a.role = w.role /\ a.version = w.version
    BY OffloadedSound DEF WInv
  <2>2. w' = OnloadRole(a, r) BY <1>a
  <2> HIDE DEF a
  <2>3. x[r].version = a.role[r].version /\ \A q \in Roles \ {r} : x[q] = a.role[q]
    BY <2>1, RoleMoved
  <2>4. w' = [a EXCEPT !.role = x] BY <2>1, <2>2, RoleMoved
  <2>5. a \in ResidencyType BY <2>1 DEF Sound
  <2> HIDE DEF x
  <2>6. w'.role = x /\ w'.actorOn = a.actorOn /\ w'.version = a.version
    BY <2>4, <2>5 DEF ResidencyType
  <2> QED BY <2>1, <2>3, <2>6
<1>5. CASE ScoreNext
  <2>1. pc = "score" /\ pc' = "score" /\ queue # <<>> /\ queue' = Tail(queue) /\ plan' = plan /\ sources' = sources /\ values' = values
    BY <1>5 DEF ScoreNext
  <2>2. ASSUME NEW r \in {"ref", "critic", "reward"}, ScoreRole(r)
        PROVE  /\ WNext /\ w'.version = w.version /\ ~w'.actorOn
               /\ \A q \in Roles : w'.role[q].version = w.role[q].version
               /\ pass'.kind = "score" /\ pass'.model = r /\ pass'.weights \in {-1, w.role[r].version}
    <3>1. r \in Roles /\ r # Actor BY Names DEF Actor
    <3>2. WNext BY <2>2, <3>1 DEF WNext
    <3>3. /\ w'.version = w.version /\ ~w'.actorOn
          /\ \A q \in Roles : w'.role[q].version = w.role[q].version
      BY <1>a, <2>2, <3>1 DEF ScoreRole
    <3>4. EvalWeights(w', r) \in {-1, w.role[r].version} BY <3>1, <3>3 DEF EvalWeights
    <3> QED BY <2>2, <3>2, <3>3, <3>4 DEF ScoreRole, Enter, EnterFor
  <2>3. ASSUME ScoreActor, ~w.actorOn
        PROVE  /\ WNext /\ w'.version = w.version /\ w'.role = w.role
               /\ pass'.kind = "score" /\ pass'.model = Actor /\ pass'.weights \in {-1, w.version}
    <3>1. w'.version = w.version /\ w'.role = w.role /\ w'.fused = w.fused
      BY <2>3, OnloadedSound DEF ScoreActor, WInv
    <3>2. EvalWeights(w', Actor) \in {-1, w.version}
      BY <2>3, <3>1 DEF EvalWeights, WInv, Sound, Fused
    <3> QED BY <2>3, <3>1, <3>2 DEF ScoreActor, Enter, EnterFor, WNext
  <2>4. Actor \notin {"ref", "critic", "reward"} BY Names DEF Actor
  <2>5. ASSUME w'.version = w.version, \A q \in Roles : w'.role[q].version = w.role[q].version,
               pass'.kind = "score",
               pass'.model = Actor => pass'.weights \in {-1, w.version},
               pass'.model = "ref" => pass'.weights \in {-1, w.role["ref"].version},
               pass'.model = "critic" => pass'.weights \in {-1, w.role["critic"].version}
        PROVE  Learns /\ PassAt' /\ SourcesOK' /\ SavesWhole' /\ StepsOK' /\ CriticOK' /\ ReferenceOK'
    <3>1. w'.role["ref"].version = w.role["ref"].version /\ w'.role["critic"].version = w.role["critic"].version
      BY <2>5, Names
    <3>2. PassAt' /\ SavesWhole' /\ StepsOK' BY <2>1, <2>5 DEF PassAt, SavesWhole, StepsOK
    <3>3. SourcesOK' BY <2>1, <2>5 DEF SourcesOK, Sampling, Busy
    <3>4. ReferenceOK' BY <2>1, <2>5, <3>1 DEF ReferenceOK
    <3>5. CriticOK' BY <2>1, <2>5, <3>1 DEF CriticOK, None
    <3>6. Learns BY <2>1, <2>5 DEF Learns
    <3> QED BY <3>2, <3>3, <3>4, <3>5, <3>6
  <2>6. ASSUME NEW r \in {"ref", "critic", "reward"}, Head(queue) = r
        PROVE  /\ WNext /\ ~w'.actorOn /\ pass'.kind = "score" /\ pass'.model = r
               /\ Learns /\ PassAt' /\ SourcesOK' /\ SavesWhole' /\ StepsOK' /\ CriticOK' /\ ReferenceOK'
    <3>1. ScoreRole(r) BY <1>5, <2>4, <2>6 DEF ScoreNext
    <3> QED BY <2>2, <2>4, <2>5, <3>1
  <2>7. ASSUME Head(queue) = Actor, ~w.actorOn
        PROVE  /\ WNext /\ pass'.kind = "score" /\ pass'.model = Actor
               /\ Learns /\ PassAt' /\ SourcesOK' /\ SavesWhole' /\ StepsOK' /\ CriticOK' /\ ReferenceOK'
    <3>1. ScoreActor BY <1>5, <2>7 DEF ScoreNext
    <3> QED BY <2>3, <2>4, <2>5, <2>7, <3>1
  <2>8. CASE plan.algo = "dpo"
    <3>1. queue = <<"ref">> BY <2>1, <2>8 DEF QueueOK
    <3>2. Tail(<<"ref">>) = <<>> /\ Head(<<"ref">>) = "ref" OBVIOUS
    <3>3. queue' = <<>> /\ Head(queue) = "ref" BY <2>1, <3>1, <3>2
    <3>4. QueueOK' BY <2>1, <2>6, <2>8, <3>3 DEF QueueOK
    <3> QED BY <2>1, <2>6, <3>3, <3>4
  <2>9. CASE plan.algo = "ppo"
    <3>1. CASE queue = <<"reward", "ref", Actor, "critic">>
      <4>1. queue' = <<"ref", Actor, "critic">> /\ Head(queue) = "reward" BY <2>1, <3>1
      <4>2. queue' # <<Actor, "critic">> /\ queue' # <<>> BY <4>1
      <4>3. QueueOK' BY <2>1, <2>6, <2>9, <4>1, <4>2 DEF QueueOK
      <4> QED BY <2>1, <2>6, <4>1, <4>3
    <3>2. CASE queue = <<"ref", Actor, "critic">>
      <4>1. queue' = <<Actor, "critic">> /\ Head(queue) = "ref" BY <2>1, <3>2
      <4>2. queue' # <<>> BY <4>1
      <4>3. QueueOK' BY <2>1, <2>6, <2>9, <4>1, <4>2 DEF QueueOK
      <4> QED BY <2>1, <2>6, <4>1, <4>3
    <3>3. CASE queue = <<Actor, "critic">>
      <4>1. queue' = <<"critic">> /\ Head(queue) = Actor BY <2>1, <3>3
      <4>2. queue' # <<Actor, "critic">> /\ queue' # <<>> BY <4>1
      <4>3. ~w.actorOn BY <2>1, <2>9, <3>3 DEF QueueOK
      <4>4. QueueOK' BY <2>1, <2>4, <2>7, <2>9, <4>1, <4>2, <4>3 DEF QueueOK
      <4> QED BY <2>1, <2>7, <4>1, <4>3, <4>4
    <3>4. CASE queue = <<"critic">>
      <4>1. queue' = <<>> /\ Head(queue) = "critic" BY <2>1, <3>4
      <4>2. queue' # <<Actor, "critic">> BY <4>1
      <4>3. QueueOK' BY <2>1, <2>6, <2>9, <4>1, <4>2 DEF QueueOK
      <4> QED BY <2>1, <2>6, <4>1, <4>3
    <3> QED BY <2>1, <2>9, <3>1, <3>2, <3>3, <3>4 DEF QueueOK
  <2> QED BY <2>1, <2>8, <2>9 DEF QueueOK
<1>6. CASE ScoreReturn
  <2>1. WNext BY <1>6 DEF ScoreReturn, WNext
  <2>2. /\ w'.version = w.version /\ w'.actorOn = w.actorOn
        /\ \A q \in Roles : w'.role[q].version = w.role[q].version
    BY <1>0, <1>6 DEF ScoreReturn, ScoreEnd, OffloadRole, ResidencyType
  <2>3. w'.role["ref"].version = w.role["ref"].version /\ w'.role["critic"].version = w.role["critic"].version
    BY <2>2, Names
  <2>4. pass' = Idle /\ pass.kind = "score" /\ pass.weights >= 0
    BY <1>6 DEF ScoreReturn, ScoreEnd
  <2>5. "critic" # Actor /\ "score" # None BY Names DEF Actor, None
  <2>6. pc = "score" /\ UNCHANGED <<pc, queue, plan>> BY <1>6 DEF ScoreReturn
  <2>7. PassAt' /\ SavesWhole' /\ StepsOK' BY <2>4, <2>6 DEF PassAt, SavesWhole, StepsOK, Idle, None
  <2>8. QueueOK' BY <2>2, <2>4, <2>6 DEF QueueOK, Idle, None
  <2>9. SourcesOK'
    <3>1. sources' = IF pass.model = Actor THEN sources \cup {pass.weights} ELSE sources
      BY <1>6 DEF ScoreReturn
    <3>2. pass.model = Actor => pass.weights = w.version
      BY <2>4 DEF SourcesOK
    <3>3. pass.model = Actor => Sampling BY <2>4, <2>5, <2>6, Names DEF QueueOK, Sampling, Actor
    <3>4. Sampling => sources \subseteq {w.version} /\ sources # {} BY <2>6 DEF SourcesOK, Busy
    <3>5. Sampling => sources' \subseteq {w'.version} /\ sources' # {} BY <2>2, <3>1, <3>2, <3>4
    <3>6. ~Sampling => sources' = {} BY <3>1, <3>3 DEF SourcesOK
    <3>7. Sampling' = Sampling BY <2>6 DEF Sampling
    <3> QED BY <2>4, <2>6, <3>5, <3>6, <3>7 DEF SourcesOK, Idle, None, Busy
  <2>10. ReferenceOK' BY <2>3, <2>4, <2>6 DEF ReferenceOK, Idle, None
  <2>11. CriticOK'
    <3>1. values' = IF pass.model = "critic" THEN pass.weights ELSE values BY <1>6 DEF ScoreReturn
    <3>2. plan.algo = "ppo" /\ queue = <<>> => pass.model = "critic" BY <2>4, <2>5, <2>6 DEF QueueOK
    <3>3. pass.model = "critic" => pass.weights = w.role["critic"].version BY <2>4 DEF CriticOK
    <3> QED BY <1>w, <2>3, <2>4, <2>6, <3>1, <3>2, <3>3 DEF CriticOK, Idle, None
  <2>12. Learns
    <3>1. sources' = IF pass.model = Actor THEN sources \cup {pass.weights} ELSE sources
      BY <1>6 DEF ScoreReturn
    <3>2. pass.model = Actor => pass.weights = w.version
      BY <2>4 DEF SourcesOK
    <3>3. pass.model = Actor => Sampling BY <2>4, <2>5, <2>6, Names DEF QueueOK, Sampling, Actor
    <3>4. Sampling => sources \subseteq {w.version} BY <2>6 DEF SourcesOK, Busy
    <3>5. pass.model = Actor => sources' = {w.version} BY <3>1, <3>2, <3>3, <3>4
    <3> QED BY <2>2, <2>6, <3>1, <3>3, <3>5 DEF Learns
  <2> QED BY <2>1, <2>6, <2>7, <2>8, <2>9, <2>10, <2>11, <2>12
<1>7. CASE Scored
  <2>1. CASE plan.algo = "ppo"
    <3>1. pc = "score" /\ queue = <<>> /\ pc' = "values" /\ "critic" \in Roles
      BY <1>7, <2>1, Names DEF Scored
    <3>2. PICK n \in 1..plan.updates : TrainValues("critic", n) BY <1>7, <2>1 DEF Scored
    <3>3. WNext BY <1>p, <3>1, <3>2, ResidencyAssumption DEF WNext
    <3>4. w'.version = w.version /\ \A q \in Roles : w'.role[q].version = w.role[q].version
      BY <1>a, <3>1, <3>2 DEF TrainValues
    <3>5. w'.role["ref"].version = w.role["ref"].version /\ w'.role["critic"].version = w.role["critic"].version
      BY <3>4, Names
    <3>6. /\ pass'.kind = "values" /\ pass'.model = "critic" /\ Resting
          /\ pass'.weights = w.role["critic"].version /\ pass'.steps = n
      BY <3>2 DEF TrainValues, EnterFor
    <3>7. plan' = plan /\ sources' = sources /\ values' = values BY <1>7 DEF Scored
    <3>8. values = w.role["critic"].version BY <2>1, <3>1, <3>6 DEF CriticOK, Resting
    <3>11. /\ w'.role["critic"].version = values' /\ values' \in Int
           /\ w'.role["critic"].version - values' + pass'.steps = n
      BY <1>w, <1>p, <3>5, <3>6, <3>7, <3>8
    <3>12. /\ plan.algo' = "ppo" /\ pass.model' = "critic" /\ pass.weights' = values'
           /\ values' <= w.role["critic"].version'
           /\ w.role["critic"].version' - values' + pass.steps' \in 1..plan.updates'
      BY <1>w, <1>p, <2>1, <3>5, <3>6, <3>7, <3>8, <3>11
    <3>9. CriticOK' BY <3>1, <3>6, <3>11, <3>12 DEF CriticOK, None
    <3>10. PassAt' /\ QueueOK' /\ SourcesOK' /\ SavesWhole' /\ StepsOK' /\ ReferenceOK'
      BY <3>1, <3>4, <3>5, <3>6, <3>7 DEF PassAt, QueueOK, SourcesOK, SavesWhole, StepsOK, ReferenceOK, Sampling, Busy
    <3> QED BY <3>3, <3>4, <3>7, <3>9, <3>10 DEF Learns
  <2>2. CASE plan.algo # "ppo"
    BY <1>7, <2>2 DEF Scored, wvars, PassAt, QueueOK, SourcesOK, SavesWhole, StepsOK, CriticOK, ReferenceOK, Sampling, Busy, Resting, None, Learns
  <2> QED BY <2>1, <2>2
<1>8. CASE CriticTrained
  <2>1. WNext BY <1>8 DEF CriticTrained, WNext
  <2>2. pass.kind = "values" /\ pass.steps = 0 /\ pass.model = "critic" /\ "critic" \in Roles /\ pass' = Idle
    BY <1>8, Names DEF CriticTrained, TrainValuesEnd, CriticOK
  <2>3. w' = OffloadRole(w, "critic") BY <1>8, <2>2 DEF CriticTrained, TrainValuesEnd
  <2>4. /\ w'.version = w.version /\ w'.role["critic"].version = w.role["critic"].version
        /\ w'.role["ref"].version = w.role["ref"].version
    BY <1>0, <2>2, <2>3, Names DEF OffloadRole, ResidencyType
  <2>5. w.role["critic"].version - values \in 1..plan.updates BY <1>w, <2>2 DEF CriticOK
  <2> QED BY <1>8, <2>1, <2>2, <2>4, <2>5 DEF CriticTrained, Idle, PassAt, QueueOK, SourcesOK, SavesWhole, StepsOK, CriticOK, ReferenceOK, Sampling, Busy, Resting, None, Learns
<1>10. CASE CriticSteps
  <2>1. WNext BY <1>10 DEF CriticSteps, WNext
  <2>2. /\ pass.kind = "values" /\ pass.steps > 0 /\ pass.model = "critic" /\ UNCHANGED tvars
        /\ pass' = [pass EXCEPT !.steps = pass.steps - 1] /\ pc = "values"
    BY <1>10 DEF CriticSteps, ValueStep, CriticOK
  <2>3. pass \in Passes BY DEF WInv, PassType
  <2>4. /\ pass'.kind = "values" /\ pass'.weights = pass.weights /\ pass'.model = pass.model
        /\ pass'.steps = pass.steps - 1 /\ pass.steps \in Nat
    BY <2>2, <2>3 DEF Passes
  <2>5. w' = [w EXCEPT !.role["critic"].version = w.role["critic"].version + 1]
    BY <1>10, <2>2 DEF CriticSteps, ValueStep
  <2>6. /\ w'.version = w.version /\ w'.role["critic"].version = w.role["critic"].version + 1
        /\ w'.role["ref"].version = w.role["ref"].version
    BY <1>0, <2>5, Names DEF ResidencyType
  <2>7. CriticOK' BY <1>p, <1>w, <2>2, <2>4, <2>6 DEF CriticOK, tvars, None
  <2>8. PassAt' /\ QueueOK' /\ SourcesOK' /\ SavesWhole' /\ StepsOK' /\ ReferenceOK'
    BY <2>2, <2>4, <2>6 DEF tvars, PassAt, QueueOK, SourcesOK, SavesWhole, StepsOK, ReferenceOK, Sampling, Busy
  <2>9. plan' = plan /\ sources' = sources BY <2>2 DEF tvars
  <2> QED BY <2>1, <2>6, <2>7, <2>8, <2>9 DEF Learns
<1> QED BY <1>1, <1>2, <1>3, <1>4, <1>5, <1>6, <1>7, <1>8, <1>9, <1>10

\* The first state satisfies the invariant.
LEMMA TrainerStarts == plan \in Plans /\ cfg \in Cfgs /\ WInit /\ TInit => TInv
<1> SUFFICES ASSUME plan \in Plans, cfg \in Cfgs, WInit, TInit PROVE TInv
  OBVIOUS
<1>1. WInv BY WorkerStarts
<1>2. /\ pc = "init" /\ sources = {} /\ values = 0 /\ pass.kind = None
      /\ w.version = 0 /\ \A r \in Roles : w.role[r].version = 0
  BY DEF TInit, WInit, Idle
<1>3. w.role["ref"].version = 0 BY <1>2, Names
<1>4. LoopInv
  BY <1>2, <1>3 DEF LoopInv, PassAt, QueueOK, SourcesOK, SavesWhole, StepsOK, CriticOK, ReferenceOK, Sampling, Busy, None
<1> QED BY <1>1, <1>4 DEF TInv

\* Every step keeps the invariant, is a step of the worker or leaves it alone, and
\* is a step of an on-policy learner.
LEMMA TrainerStep ==
  ASSUME TInv, [TNext]_vars
  PROVE  TInv' /\ [WNext]_wvars /\ plan' = plan /\ Learns
<1>1. CASE RolesReady \/ TakeBatch \/ NoMoreBatches \/ EmptyBatch \/ SkipTrain \/ Close \/ Finished
  <2>1. UNCHANGED wvars
    BY <1>1 DEF RolesReady, TakeBatch, NoMoreBatches, EmptyBatch, SkipTrain, Close, Finished, vars
  <2> QED BY <1>1, <2>1, LoopSteps
<1>2. CASE \/ OpenSession \/ RolloutReturn \/ CloseSession \/ RolloutCallIdle
           \/ \E q \in Requests, captured \in BOOLEAN :
                RolloutCall(q, captured) \/ ProbeRolloutStage(q, captured) \/ ProbeTrainStage(q, captured)
  <2>1. WNext /\ LoopInv' /\ plan' = plan /\ Learns BY <1>2, SessionSteps
  <2>2. WInv' BY <2>1, WorkerStep DEF TInv
  <2> QED BY <2>1, <2>2 DEF TInv
<1>3. CASE Prepare \/ (\E r \in Roles : BuildOne(r)) \/ BuildOneEnd \/ CallRaises
  <2>1. (WNext \/ UNCHANGED wvars) /\ LoopInv' /\ plan' = plan /\ Learns BY <1>3, RoleSteps
  <2>2. WInv' BY <2>1, WorkerStep DEF TInv
  <2> QED BY <2>1, <2>2 DEF TInv
<1>4. CASE ScoreNext \/ ScoreReturn \/ Scored \/ CriticSteps \/ CriticTrained
           \/ TrainPolicy \/ TrainSteps \/ TrainReturn \/ MaybeSave \/ Saved
  <2>1. (WNext \/ UNCHANGED wvars) /\ LoopInv' /\ plan' = plan /\ Learns BY <1>4, LearningSteps
  <2>2. WInv' BY <2>1, WorkerStep DEF TInv
  <2> QED BY <2>1, <2>2 DEF TInv
<1>5. CASE UNCHANGED vars
  <2>1. UNCHANGED wvars /\ UNCHANGED tvars BY <1>5 DEF vars
  <2>2. WInv' BY <2>1, WorkerStep DEF TInv
  <2>3. LoopInv'
    BY <2>1 DEF wvars, tvars, TInv, LoopInv, PassAt, QueueOK, SourcesOK, SavesWhole, StepsOK, CriticOK, ReferenceOK, Sampling
  <2> QED BY <2>1, <2>2, <2>3 DEF TInv, tvars, wvars, Learns
<1> QED BY <1>1, <1>2, <1>3, <1>4, <1>5 DEF TNext

\* The invariant of the fit loops and of the worker they drive (api/trainers, engine/worker.py).
THEOREM TrainerInvariant == TSpec => []TInv
<1>1. plan \in Plans /\ cfg \in Cfgs /\ WInit /\ TInit => TInv BY TrainerStarts
<1>2. TInv /\ [TNext]_vars => TInv' BY TrainerStep
<1> QED BY <1>1, <1>2, PTL DEF TSpec

\* The trainers use the worker within its protocol: every fit loop is one of the
\* behaviours that the worker's own specification allows.
THEOREM TrainerDrivesWorker == TSpec => WSpec
<1>1. TInv /\ [TNext]_vars => [WNext]_wvars BY TrainerStep
<1> QED BY <1>1, TrainerInvariant, PTL DEF TSpec, WSpec

\* _train_state_ready never outlives the training weights.
THEOREM TrainerReadyMeansLoaded == TSpec => []ReadyMeansLoaded
<1>1. TInv => ReadyMeansLoaded BY DEF TInv, WInv, Sound, ReadyMeansLoaded
<1> QED BY <1>1, TrainerInvariant, PTL

\* The actor and the roles take turns on the device.
THEOREM TrainerOneModelOnDevice == TSpec => []OneModelOnDevice
<1>1. TInv => OneModelOnDevice BY DEF TInv, WInv
<1> QED BY <1>1, TrainerInvariant, PTL

\* Every pass of the fit loops finds the cache, graphs and weights it reads.
THEOREM TrainerPassesFindTheirModel == TSpec => []PassesFindTheirModel
<1>1. TInv => PassesFindTheirModel
  <2> SUFFICES ASSUME TInv PROVE PassesFindTheirModel OBVIOUS
  <2>1. DecodeIsReady BY DEF TInv, WInv
  <2>2. GraphsNeverStale BY DEF TInv, WInv, Sound, GraphsNeverStale
  <2>3. WholeModelInUse
    BY DEF TInv, WInv, TrainsWhole, LoopInv, SavesWhole, WholeModelInUse
  <2> QED BY <2>1, <2>2, <2>3 DEF PassesFindTheirModel
<1> QED BY <1>1, TrainerInvariant, PTL

\* The reference never learns, and the critic's values are those of the version with
\* which its one training call on the batch begins.
THEOREM TrainerRolesKeepTheirPart == TSpec => []RolesKeepTheirPart
<1>1. TInv => RolesKeepTheirPart
  <2> SUFFICES ASSUME TInv PROVE RolesKeepTheirPart OBVIOUS
  <2>1. ReferenceIsInitial BY DEF TInv, LoopInv, ReferenceOK, ReferenceIsInitial
  <2>2. CriticScoresBeforeItLearns
    BY DEF TInv, LoopInv, PassAt, CriticOK, CriticScoresBeforeItLearns
  <2> QED BY <2>1, <2>2 DEF RolesKeepTheirPart
<1> QED BY <1>1, TrainerInvariant, PTL

\* Outside a training call nothing was made of it; what starts one begins at zero.
LEMMA MadeStartsAtZero ==
  ASSUME TInv, TInv', [TNext]_vars
  PROVE  TrainSteps \/ Made' \in {0, Made}
<1> USE DEF TInv, LoopInv
<1>1. CASE pc' # "training" BY <1>1 DEF PassAt, Made
<1>2. CASE TrainPolicy
  <2>1. PICK n \in 1..plan.updates : Train(n) BY <1>2 DEF TrainPolicy
  <2>2. w'.version = w.version /\ pass'.weights = w.version
    BY <2>1, VersionsKept DEF Train, EnterFor
  <2>3. w.version \in Nat BY DEF WInv, Sound, ResidencyType
  <2> QED BY <2>2, <2>3 DEF Made
<1>3. CASE UNCHANGED vars BY <1>3 DEF vars, wvars, Made
<1>4. CASE TNext /\ ~TrainPolicy /\ ~TrainSteps /\ pc' = "training"
  <2>1. pc # "training" => FALSE
    BY <1>4 DEF TNext, Prepare, BuildOneEnd, RolesReady, TakeBatch, NoMoreBatches, BuildOne,
      OpenSession, RolloutReturn, CloseSession, RolloutCall, ProbeRolloutStage, ProbeTrainStage,
      RolloutCallIdle, ScoreNext, ScoreReturn, EmptyBatch, Scored, CriticSteps, CriticTrained,
      SkipTrain, TrainReturn, MaybeSave, Saved, CallRaises, Close, Finished, StepDone, tvars, vars
  <2>2. CASE pc = "training"
    <3>1. TrainReturn \/ CallRaises
      BY <1>4, <2>2 DEF TNext, Prepare, BuildOneEnd, RolesReady, TakeBatch, NoMoreBatches, BuildOne,
        OpenSession, RolloutReturn, CloseSession, RolloutCall, ProbeRolloutStage, ProbeTrainStage,
        RolloutCallIdle, ScoreNext, ScoreReturn, EmptyBatch, Scored, CriticSteps, CriticTrained,
        SkipTrain, MaybeSave, Saved, Close, Finished
    <3> QED BY <1>4, <3>1 DEF TrainReturn, CallRaises
  <2> QED BY <2>1, <2>2
<1> QED BY <1>1, <1>2, <1>3, <1>4

\* The fit loops implement the on-policy learner: a training call uses only
\* log-probabilities of the weights it begins with, and each of its updates is off
\* them by the updates before it in the same call, of which there are fewer than
\* accumulation groups (TrainingManager.train).
THEOREM TrainerLearnsOnPolicy == TSpec => LearnsOnPolicy
<1>1. plan \in Plans /\ cfg \in Cfgs /\ WInit /\ TInit => OnPolicySpec!Init
  BY ResidencyAssumption DEF WInit, TInit, Idle, Made, Plans, None, OnPolicySpec!Init
<1>2. TInv /\ TInv' /\ [TNext]_vars => [OnPolicySpec!Next]_(OnPolicySpec!vars)
  <2> SUFFICES ASSUME TInv, TInv', [TNext]_vars PROVE [OnPolicySpec!Next]_(OnPolicySpec!vars)
    OBVIOUS
  <2>1. plan' = plan /\ Learns BY TrainerStep
  <2>2. Sampling' = Sampling BY <2>1 DEF Sampling
  <2>3. CASE TrainSteps
    <3>1. w'.version = w.version + 1 /\ w.version \in Nat
      BY <2>3 DEF TrainSteps, OptimizerStep, TInv, WInv, Sound, ResidencyType
    <3>2. Made < plan.updates /\ sources = (IF Sampling THEN {w.version - Made} ELSE {})
          /\ w'.version = w.version + 1 /\ Made' = Made + 1 /\ sources' = sources
      BY <2>1, <3>1 DEF Learns
    <3> QED BY <2>1, <2>2, <3>2 DEF OnPolicySpec!Next, OnPolicySpec!vars, OnPolicySpec!Update
  <2>4. CASE ~TrainSteps
    <3>1. Made' \in {0, Made} BY <2>4, MadeStartsAtZero
    <3>2. CASE w'.version = w.version /\ sources' = sources
      BY <2>1, <2>2, <3>1, <3>2 DEF OnPolicySpec!Next, OnPolicySpec!vars, OnPolicySpec!Return
    <3>3. CASE /\ w'.version = w.version /\ pc # "training"
               /\ sources' = {} \/ (sources' = {w.version} /\ Sampling)
      <4>1. Made = 0 BY <3>3 DEF TInv, LoopInv, PassAt, Made
      <4>2. Made' = Made BY <3>1, <4>1
      <4> QED BY <2>1, <2>2, <3>3, <4>1, <4>2 DEF OnPolicySpec!Next, OnPolicySpec!vars,
            OnPolicySpec!Sample, OnPolicySpec!Discard
    <3>4. CASE /\ Made < plan.updates /\ sources = (IF Sampling THEN {w.version - Made} ELSE {})
               /\ w'.version = w.version + 1 /\ Made' = Made + 1 /\ sources' = sources
      BY <2>1, <2>2, <3>4 DEF OnPolicySpec!Next, OnPolicySpec!vars, OnPolicySpec!Update
    <3> QED BY <2>1, <3>2, <3>3, <3>4 DEF Learns
  <2> QED BY <2>3, <2>4
<1> QED BY <1>1, <1>2, TrainerInvariant, PTL DEF TSpec, LearnsOnPolicy, OnPolicySpec!Spec

(***************************************************************************)
(* What areno train settles before it builds a trainer: the search for the  *)
(* sizes of the run.                                                        *)
(***************************************************************************)
\* Every nonempty set of numbers up to n has a largest member.
LEMMA LargestOf ==
  ASSUME NEW n \in Nat, NEW S \in SUBSET (1..n), S # {}
  PROVE  \E p \in S : \A r \in S : r <= p
<1> DEFINE T == {k \in Nat : \A s \in SUBSET (1..k) : s # {} => \E p \in s : \A r \in s : r <= p}
<1>1. 0 \in T
  <2>1. 1..0 = {} OBVIOUS
  <2> QED BY <2>1
<1>2. ASSUME NEW k \in Nat, k \in T PROVE k + 1 \in T
  <2>1. ASSUME NEW s \in SUBSET (1..k+1), s # {} PROVE \E p \in s : \A r \in s : r <= p
    <3>1. CASE k + 1 \in s BY <3>1
    <3>2. CASE k + 1 \notin s
      <4>1. s \in SUBSET (1..k) BY <3>2
      <4> QED BY <1>2, <2>1, <4>1
    <3> QED BY <3>1, <3>2
  <2> QED BY <2>1
<1> HIDE DEF T
<1>3. Nat \subseteq T BY <1>1, <1>2, NatSetInduction, Zenon
<1> QED BY <1>3 DEF T

\* Powers of two are numbers up to the bound, and one is always among them.
LEMMA PowersAreNumbers ==
  ASSUME NEW v \in Int
  PROVE  /\ PowersOfTwo(v) \in SUBSET (1..Larger(v, 1)) /\ 1 \in PowersOfTwo(v)
         /\ Larger(v, 1) \in Nat /\ IsFiniteSet(PowersOfTwo(v))
<1>1. PowersOfTwo(v) \in SUBSET (1..Larger(v, 1)) /\ 1 \in PowersOfTwo(v) /\ Larger(v, 1) \in Nat
  BY DEF PowersOfTwo, Larger
<1>2. IsFiniteSet(1..Larger(v, 1)) BY <1>1, FS_Interval
<1> QED BY <1>1, <1>2, FS_Subset

\* A product is divided without a rest.
LEMMA DividesProduct ==
  ASSUME NEW a \in Nat, NEW b \in Nat \ {0}
  PROVE  (a * b) \div b = a /\ (a * b) % b = 0
OBVIOUS

\* An odd divisor of twice a number divides the number.
LEMMA OddDivisor ==
  ASSUME NEW p \in Nat \ {0}, NEW d \in Nat \ {0}, (2 * p) % d = 0, d % 2 # 0
  PROVE  p % d = 0 /\ d <= p
<1> DEFINE q == (2 * p) \div d
           h == d \div 2
           j == q \div 2
<1>1. q \in Nat /\ 2 * p = d * q OBVIOUS
<1>2. h \in Nat /\ d = 2 * h + 1 OBVIOUS
<1>3. j \in Nat /\ (q = 2 * j \/ q = 2 * j + 1) BY <1>1
<1> HIDE DEF q, h, j
<1>4. q = 2 * j
  <2>1. SUFFICES ASSUME q = 2 * j + 1 PROVE FALSE BY <1>3
  <2>2. d * q = 2 * (h * q) + q BY <1>1, <1>2
  <2>3. h * q \in Nat BY <1>1, <1>2
  <2> QED BY <1>1, <1>3, <2>1, <2>2, <2>3
<1>5. p = j * d BY <1>1, <1>3, <1>4
<1>6. p % d = 0 BY <1>3, <1>5, DividesProduct
<1>7. j >= 1 BY <1>3, <1>5
<1> QED BY <1>3, <1>5, <1>6, <1>7

\* Twice a power of two is one, if it is within the bound.
LEMMA Doubled ==
  ASSUME NEW v \in Int, NEW p \in PowersOfTwo(v), 2 * p <= v
  PROVE  2 * p \in PowersOfTwo(v)
<1>1. p \in Nat \ {0} /\ v \in Nat BY PowersAreNumbers
<1>2. ASSUME NEW d \in 2..2*p, (2 * p) % d = 0, d % 2 # 0 PROVE FALSE
  <2>1. d \in Nat \ {0} OBVIOUS
  <2>2. p % d = 0 /\ d <= p BY <1>1, <1>2, <2>1, OddDivisor
  <2>3. p # 1 BY <2>2
  <2>4. \A e \in 2..p : p % e = 0 => e % 2 = 0 BY <2>3 DEF PowersOfTwo
  <2> QED BY <1>1, <1>2, <2>1, <2>2, <2>4
<1> QED BY <1>1, <1>2 DEF PowersOfTwo

\* The floor is the largest power of two within the bound: twice it is beyond.
LEMMA FloorIsLargest ==
  ASSUME NEW v \in Int
  PROVE  /\ FloorPowerOfTwo(v) \in PowersOfTwo(v) /\ FloorPowerOfTwo(v) \in Nat \ {0}
         /\ \A r \in PowersOfTwo(v) : r <= FloorPowerOfTwo(v)
         /\ FloorPowerOfTwo(v) <= Larger(v, 1) /\ 2 * FloorPowerOfTwo(v) > v
<1>1. PowersOfTwo(v) # {} /\ PowersOfTwo(v) \in SUBSET (1..Larger(v, 1)) /\ Larger(v, 1) \in Nat
  BY PowersAreNumbers
<1>2. \E p \in PowersOfTwo(v) : \A r \in PowersOfTwo(v) : r <= p
  BY <1>1, LargestOf, Zenon
<1>3. FloorPowerOfTwo(v) \in PowersOfTwo(v) /\ \A r \in PowersOfTwo(v) : r <= FloorPowerOfTwo(v)
  BY <1>2, Zenon DEF FloorPowerOfTwo
<1>4. FloorPowerOfTwo(v) \in Nat \ {0} /\ FloorPowerOfTwo(v) <= Larger(v, 1)
  BY <1>1, <1>3
<1>5. 2 * FloorPowerOfTwo(v) > v
  <2>1. SUFFICES ASSUME 2 * FloorPowerOfTwo(v) <= v PROVE FALSE BY <1>4
  <2>2. 2 * FloorPowerOfTwo(v) \in PowersOfTwo(v) BY <1>3, <2>1, Doubled
  <2>3. 2 * FloorPowerOfTwo(v) <= FloorPowerOfTwo(v) BY <1>3, <2>2
  <2> QED BY <1>4, <2>3
<1> QED BY <1>3, <1>4, <1>5

\* Sparse selection keeps numbers of the set, its first and its last.
LEMMA SparseKeepsEnds ==
  ASSUME NEW v \in Int
  PROVE  /\ SparseSelect(PowersOfTwo(v)) \subseteq PowersOfTwo(v)
         /\ 1 \in SparseSelect(PowersOfTwo(v)) /\ FloorPowerOfTwo(v) \in SparseSelect(PowersOfTwo(v))
<1> DEFINE sizes == PowersOfTwo(v)
           top == FloorPowerOfTwo(v)
           last == Cardinality(sizes) - 1
           kept == {Nearest(i * last, Limit - 1) : i \in 0..Limit-1}
<1>1. /\ sizes \in SUBSET (1..Larger(v, 1)) /\ 1 \in sizes /\ IsFiniteSet(sizes) /\ Larger(v, 1) \in Nat
      /\ top \in sizes /\ \A r \in sizes : r <= top
  BY PowersAreNumbers, FloorIsLargest
<1>2. Cardinality(sizes) \in Nat BY <1>1, FS_CardinalityType
<1>3. Cardinality({j \in sizes : j < 1}) = 0
  <2>1. {j \in sizes : j < 1} = {} BY <1>1
  <2> QED BY <2>1, FS_EmptySet
<1>4. Cardinality({j \in sizes : j < top}) = last
  <2>1. {j \in sizes : j < top} = sizes \ {top} BY <1>1
  <2>2. Cardinality(sizes \ {top}) = Cardinality(sizes) - 1 BY <1>1, FS_RemoveElement
  <2> QED BY <2>1, <2>2
<1>5. last \in Nat
  <2>1. sizes # {} BY <1>1
  <2>2. Cardinality(sizes) # 0 BY <1>1, <2>1, FS_EmptySet
  <2> QED BY <1>2, <2>2
<1>6. Limit - 1 \in Nat \ {0} BY TuneAssumption
<1> HIDE DEF sizes, top, last
<1>7. last \in kept /\ 0 \in kept
  <2>1. ASSUME NEW a \in Nat PROVE Nearest(a * (Limit - 1), Limit - 1) = a
    <3> DEFINE b == Limit - 1
    <3> HIDE DEF b
    <3>1. b \in Nat \ {0} BY <1>6 DEF b
    <3>2. (a * b) \div b = a /\ (a * b) % b = 0 BY <3>1, DividesProduct
    <3>3. Nearest(a * b, b) = a BY <3>1, <3>2 DEF Nearest
    <3> QED BY <3>3 DEF b
  <2>2. (Limit - 1) * last = last * (Limit - 1) /\ 0 * last = 0 * (Limit - 1) BY <1>5, <1>6
  <2>3. 0 \in 0..Limit-1 /\ Limit - 1 \in 0..Limit-1 BY <1>6
  <2>4. Nearest((Limit - 1) * last, Limit - 1) = last BY <1>5, <2>1, <2>2
  <2>5. Nearest(0 * last, Limit - 1) = 0 BY <2>1, <2>2
  <2> QED BY <2>3, <2>4, <2>5
<1>8. SparseSelect(sizes) = IF Cardinality(sizes) <= Limit THEN sizes
                            ELSE {u \in sizes : Cardinality({j \in sizes : j < u}) \in kept}
  BY DEF SparseSelect, last
<1> HIDE DEF kept
<1>9. SparseSelect(sizes) \subseteq sizes /\ 1 \in SparseSelect(sizes) /\ top \in SparseSelect(sizes)
  BY <1>1, <1>3, <1>4, <1>7, <1>8
<1> QED BY <1>9 DEF sizes, top

\* The template of the train stage for a concurrency r.
WaveOf(o, r) == TrainTemplate(o, [DefaultTemplate(o.config) EXCEPT !.max_running_prompts = r])

\* A size was probed in a stage and fits, or does not.
FoundIn(o, ms, s, fits, size, field) ==
  \E m \in ms : m.stage = s /\ (Fits(o, m) <=> fits) /\ m.candidate[field] = size

\* Of the sizes of a stage those that are left are the smallest, and the others do not fit.
Searched(o, ms, rest, s, sizes, field) ==
  /\ rest \subseteq sizes
  /\ \A k \in sizes \ rest : FoundIn(o, ms, s, FALSE, k, field) /\ \A j \in rest : j < k

\* The search of the rollout stage, and where the train stage has its concurrency from.
RolloutSearch(o, ms, rest, t) ==
  /\ o.config.max_running_prompts = 0 /\ t = DefaultTemplate(o.config)
  /\ \A m \in ms : m.stage = "rollout" /\ ~Fits(o, m) /\ m.candidate.max_running_prompts \in RolloutSizes(o) \ rest
  /\ Searched(o, ms, rest, "rollout", RolloutSizes(o), "max_running_prompts")

Concurrency(o, ms, r) ==
  LET asked == o.config.max_running_prompts IN
  /\ r \in Nat \ {0}
  /\ asked # 0 => r = asked
  /\ asked = 0 => /\ FoundIn(o, ms, "rollout", TRUE, r, "max_running_prompts")
                  /\ \A k \in RolloutSizes(o) : k > r => FoundIn(o, ms, "rollout", FALSE, k, "max_running_prompts")

\* The search of the train stage, and the end of it.
TrainSearch(o, ms, rest, t) ==
  /\ t = WaveOf(o, t.max_running_prompts) /\ Concurrency(o, ms, t.max_running_prompts)
  /\ \A m \in ms : m.stage = "train" => ~Fits(o, m)
  /\ Searched(o, ms, rest, "train", MiniSizes(o, t), "mini_bs")

Chosen(o, ms, t, size) ==
  /\ t = WaveOf(o, t.max_running_prompts) /\ Concurrency(o, ms, t.max_running_prompts)
  /\ size \in MiniSizes(o, t)
  /\ \A k \in MiniSizes(o, t) : k > size => FoundIn(o, ms, "train", FALSE, k, "mini_bs")
  /\ \E m \in ms : m.stage = "train" /\ Fits(o, m) /\ m.candidate = [t EXCEPT !.mini_bs = size] /\ m.rows = TrainRows(t)

\* The config of a run with a template and a mini-batch.
TunedTo(c, t, size) ==
  [c EXCEPT !.tp_size = t.tp_size, !.batch_size = t.batch_size, !.n_samples = t.n_samples, !.mini_bs = size,
     !.max_running_prompts = t.max_running_prompts, !.keep_rollout_state = t.keep_rollout_state]

\* Among the rollouts that were measured is one at half of what is allowed, or more.
BegunHigh(o, ms) ==
  (\E m \in ms : m.stage = "rollout") =>
     \E m \in ms : m.stage = "rollout" /\ 2 * m.candidate.max_running_prompts > o.tune_max_samples

\* The inductive invariant of the command.
TuneInv ==
  /\ options \in CommandLines
  /\ phase \in {"options", "refused", "rollout", "train", "run", "done", "failed", "raised"}
  /\ phase # "run" \/ ~options.tune_params => trainer_config = options.config
  /\ phase \in {"options", "refused"} => measurements = {}
  /\ phase \notin {"options", "refused"} => ~Refused(options)
  /\ phase = "run" => ~Smoke
  /\ phase \in {"rollout", "train", "failed", "raised", "done"} => Smoke \/ options.tune_params
  /\ \A m \in measurements : m.tokens = TokenBudgets(options.config)
  /\ phase \in {"rollout", "train"} => untried # {}
  /\ ~Smoke => BegunHigh(options, measurements)
  /\ ~Smoke /\ phase = "rollout" => RolloutSearch(options, measurements, untried, template)
  /\ ~Smoke /\ phase = "train" => TrainSearch(options, measurements, untried, template)
  /\ ~Smoke /\ phase = "failed" => RolloutSearch(options, measurements, {}, template) \/ TrainSearch(options, measurements, {}, template)
  /\ phase = "run" /\ options.tune_params =>
       /\ Chosen(options, measurements, template, trainer_config.mini_bs)
       /\ trainer_config = TunedTo(options.config, template, trainer_config.mini_bs)

\* What the options that are not refused are.
LEMMA OptionsInRange ==
  ASSUME options \in CommandLines, ~Refused(options), options.tune_params
  PROVE  /\ options.config \in Configs /\ options.tune_max_samples \in Nat \ {0}
         /\ options.config.batch_size \in Nat \ {0} /\ options.config.n_samples \in Nat \ {0}
         /\ options.config.mini_bs \in Nat \ {0} /\ options.config.max_running_prompts \in Nat
BY TuneAssumption DEF Refused, Configs

\* A quotient is the last multiple within the dividend.
LEMMA QuotientBounds ==
  ASSUME NEW a \in Nat, NEW b \in Nat \ {0}
  PROVE  a \div b \in Nat /\ (a \div b) * b <= a /\ (a \div b + 1) * b > a
<1>1. a \div b \in Nat /\ a = (b * (a \div b)) + (a % b) /\ a % b \in 0..b-1 OBVIOUS
<1> QED BY <1>1

\* The candidates of the train stage: the batch fills a wave, and some mini-batch is tried.
LEMMA WaveFacts ==
  ASSUME options \in CommandLines, ~Refused(options), options.tune_params, NEW r \in Nat \ {0}
  PROVE  LET t == WaveOf(options, r)
             c == options.config
             wave == Smaller(options.tune_max_samples, r) IN
         /\ DOMAIN t = {"tp_size", "batch_size", "n_samples", "mini_bs", "max_running_prompts", "adam_8bit",
                        "keep_rollout_state"}
         /\ t.tp_size = c.tp_size /\ t.n_samples = c.n_samples /\ t.max_running_prompts = r
         /\ t.adam_8bit = c.adam_8bit /\ t.keep_rollout_state = FALSE
         /\ t.batch_size \in Nat \ {0} /\ TrainRows(t) \in Nat \ {0}
         /\ t.batch_size = 1 \/ t.batch_size * t.n_samples <= wave
         /\ 2 * t.batch_size * t.n_samples > wave
         /\ MiniSizes(options, t) = {k \in {1, 2, 4, 8, 16} : k <= c.mini_bs /\ k <= TrainRows(t)} /\ 1 \in MiniSizes(options, t)
<1> DEFINE c == options.config
           n == c.n_samples
           wave == Smaller(options.tune_max_samples, r)
           max_rows == Larger(1, wave)
           b == FloorPowerOfTwo(max_rows \div n)
           t == WaveOf(options, r)
<1>1. n \in Nat \ {0} /\ c.mini_bs \in Nat \ {0} /\ wave \in Nat \ {0} /\ max_rows = wave /\ c \in Configs
      /\ Larger(n, 1) = n /\ Larger(c.mini_bs, 1) = c.mini_bs
  BY OptionsInRange DEF Smaller, Larger
<1>2. t = [tp_size |-> c.tp_size, batch_size |-> b, n_samples |-> n, mini_bs |-> Smaller(c.mini_bs, b * n),
           max_running_prompts |-> r, adam_8bit |-> c.adam_8bit, keep_rollout_state |-> FALSE]
  <2> DEFINE e == DefaultTemplate(c)
             f == FloorPowerOfTwo(c.batch_size)
             d == [e EXCEPT !.max_running_prompts = r]
             x == FloorPowerOfTwo(Larger(1, Smaller(options.tune_max_samples, d.max_running_prompts)) \div d.n_samples)
  <2>1. e = [tp_size |-> c.tp_size, batch_size |-> f, n_samples |-> n, mini_bs |-> 1,
             max_running_prompts |-> 1, adam_8bit |-> c.adam_8bit, keep_rollout_state |-> FALSE]
    BY <1>1, Zenon DEF DefaultTemplate
  <2>2. d = [e EXCEPT !.max_running_prompts = r] OBVIOUS
  <2>3. t = [d EXCEPT !.batch_size = x, !.mini_bs = Smaller(Larger(c.mini_bs, 1), x * d.n_samples)]
    BY DEF WaveOf, TrainTemplate
  <2> HIDE DEF c, n, d, e, f
  <2>4. d = [tp_size |-> c.tp_size, batch_size |-> f, n_samples |-> n,
             mini_bs |-> 1, max_running_prompts |-> r, adam_8bit |-> c.adam_8bit, keep_rollout_state |-> FALSE]
    BY <2>1, <2>2
  <2>5. d.max_running_prompts = r /\ d.n_samples = n BY <2>4
  <2>6. x = b BY <2>5
  <2> HIDE DEF x, b, t
  <2>7. t = [d EXCEPT !.batch_size = b, !.mini_bs = Smaller(c.mini_bs, b * n)] BY <1>1, <2>3, <2>5, <2>6
  <2> DEFINE y == Smaller(c.mini_bs, b * n)
  <2> HIDE DEF y
  <2>8. t = [d EXCEPT !.batch_size = b, !.mini_bs = y] BY <2>7 DEF y
  <2>9. t = [tp_size |-> c.tp_size, batch_size |-> b, n_samples |-> n, mini_bs |-> y,
           max_running_prompts |-> r, adam_8bit |-> c.adam_8bit, keep_rollout_state |-> FALSE]
    BY <2>8, <2>4
  <2> QED BY <2>9 DEF y
<1>3. wave \div n \in Nat /\ (wave \div n) * n <= wave /\ (wave \div n + 1) * n > wave
  BY <1>1, QuotientBounds
<1> HIDE DEF wave
<1>4. b \in Nat \ {0} /\ b \in PowersOfTwo(wave \div n) /\ 2 * b > wave \div n /\ b <= Larger(wave \div n, 1)
  BY <1>1, <1>3, FloorIsLargest
<1> HIDE DEF b
<1>5. b = 1 \/ b * n <= wave
  <2>1. CASE wave \div n = 0 BY <2>1, <1>4 DEF Larger
  <2>2. CASE wave \div n # 0
    <3>1. b <= wave \div n BY <1>3, <1>4, <2>2 DEF Larger
    <3>2. b * n <= (wave \div n) * n BY <1>1, <1>3, <1>4, <3>1
    <3> QED BY <1>1, <1>3, <1>4, <3>2
  <2> QED BY <2>1, <2>2
<1>6. 2 * b * n > wave
  <2>1. 2 * b >= (wave \div n) + 1 BY <1>3, <1>4
  <2>2. (2 * b) * n >= ((wave \div n) + 1) * n BY <1>1, <1>3, <1>4, <2>1
  <2> QED BY <1>1, <1>3, <1>4, <2>2
<1>7. TrainRows(t) = b * n /\ b * n \in Nat \ {0}
  BY <1>1, <1>2, <1>4 DEF TrainRows
<1>8. MiniSizes(options, t) = {k \in {1, 2, 4, 8, 16} : k <= c.mini_bs /\ k <= TrainRows(t)} /\ 1 \in MiniSizes(options, t)
  BY <1>1, <1>7 DEF MiniSizes, Smaller
<1> HIDE DEF t
<1>9. /\ DOMAIN t = {"tp_size", "batch_size", "n_samples", "mini_bs", "max_running_prompts", "adam_8bit",
                     "keep_rollout_state"}
      /\ t.tp_size = c.tp_size /\ t.n_samples = n /\ t.max_running_prompts = r /\ t.batch_size = b
      /\ t.adam_8bit = c.adam_8bit /\ t.keep_rollout_state = FALSE
  BY <1>2
<1>10. /\ t.batch_size = 1 \/ t.batch_size * t.n_samples <= wave
       /\ 2 * t.batch_size * t.n_samples > wave /\ t.batch_size \in Nat \ {0} /\ TrainRows(t) \in Nat \ {0}
  BY <1>4, <1>5, <1>6, <1>7, <1>9
<1> QED BY <1>8, <1>9, <1>10, Zenon DEF t, wave

\* What a probe reports is about its stage, its candidate and the tokens of the options.
LEMMA OutcomeFacts ==
  ASSUME NEW size, NEW m \in Outcomes(size)
  PROVE  /\ m.stage = phase /\ m.candidate = Candidate(size) /\ m.tokens = TokenBudgets(options.config)
         /\ phase = "train" => m.rows = TrainRows(Candidate(size))
BY DEF Outcomes, Measurement

\* The sizes of the rollout stage: one is among them, and one of more than half of what is allowed.
LEMMA RolloutSizesFacts ==
  ASSUME options.tune_max_samples \in Nat \ {0}
  PROVE  /\ RolloutSizes(options) \subseteq Nat \ {0} /\ 1 \in RolloutSizes(options)
         /\ \E k \in RolloutSizes(options) : 2 * k > options.tune_max_samples
<1> DEFINE v == options.tune_max_samples
<1>1. Larger(v, 1) = v BY DEF Larger
<1>2. RolloutSizes(options) = SparseSelect(PowersOfTwo(v)) BY <1>1 DEF RolloutSizes
<1>3. PowersOfTwo(v) \subseteq Nat \ {0} BY PowersAreNumbers
<1>4. FloorPowerOfTwo(v) \in Nat /\ 2 * FloorPowerOfTwo(v) > v BY FloorIsLargest
<1> HIDE DEF v
<1>5. v \in Int BY DEF v
<1> QED BY <1>2, <1>3, <1>4, <1>5, SparseKeepsEnds DEF v

\* A probe is of the largest size left: what it adds to the search of a stage.
LEMMA SearchGoesOn ==
  ASSUME NEW ms, NEW rest, NEW sizes \in SUBSET Nat, NEW s, NEW field, Searched(options, ms, rest, s, sizes, field),
         NEW size \in rest, \A j \in rest : j <= size, NEW m
  PROVE  /\ \A k \in sizes : k > size => FoundIn(options, ms \cup {m}, s, FALSE, k, field)
         /\ m.stage = s /\ ~Fits(options, m) /\ m.candidate[field] = size =>
              Searched(options, ms \cup {m}, rest \ {size}, s, sizes, field)
<1>1. \A k : FoundIn(options, ms, s, FALSE, k, field) => FoundIn(options, ms \cup {m}, s, FALSE, k, field)
  BY DEF FoundIn
<1>2. ASSUME NEW k \in sizes, k > size PROVE FoundIn(options, ms \cup {m}, s, FALSE, k, field)
  <2>1. k \notin rest BY <1>2 DEF Searched
  <2> QED BY <1>1, <2>1 DEF Searched
<1>3. ASSUME m.stage = s, ~Fits(options, m), m.candidate[field] = size
      PROVE  Searched(options, ms \cup {m}, rest \ {size}, s, sizes, field)
  <2>1. FoundIn(options, ms \cup {m}, s, FALSE, size, field) BY <1>3 DEF FoundIn
  <2>2. ASSUME NEW k \in sizes \ (rest \ {size})
        PROVE  FoundIn(options, ms \cup {m}, s, FALSE, k, field) /\ \A j \in rest \ {size} : j < k
    <3>1. CASE k = size
      <4>1. rest \subseteq sizes BY DEF Searched
      <4>2. \A j \in rest \ {size} : j \in Nat /\ size \in Nat /\ j <= size /\ j # size BY <4>1
      <4>3. \A j \in rest \ {size} : j < k BY <3>1, <4>2
      <4> QED BY <2>1, <3>1, <4>3
    <3>2. CASE k # size BY <1>1, <3>2 DEF Searched
    <3> QED BY <3>1, <3>2
  <2> QED BY <2>2 DEF Searched
<1> QED BY <1>2, <1>3

\* A probe of the rollout stage.
LEMMA RolloutProbed ==
  ASSUME TuneInv, ~Smoke, phase = "rollout", NEW size, NEW m, Probe(size, m)
  PROVE  /\ m.candidate = [DefaultTemplate(options.config) EXCEPT !.max_running_prompts = size]
         /\ size \in Nat \ {0} /\ BegunHigh(options, measurements \cup {m})
         /\ Fits(options, m) => TrainSearch(options, measurements \cup {m}, MiniSizes(options, WaveOf(options, size)), WaveOf(options, size))
         /\ ~Fits(options, m) => RolloutSearch(options, measurements \cup {m}, untried \ {size}, template)
<1> DEFINE ms == measurements \cup {m}
           old == measurements
           rest == untried
           most == options.tune_max_samples
           asked == options.config.max_running_prompts
<1>1. /\ options \in CommandLines /\ ~Refused(options) /\ options.tune_params
      /\ RolloutSearch(options, old, rest, template)
  BY DEF TuneInv
<1>2. most \in Nat \ {0} BY <1>1, OptionsInRange
<1>3. /\ RolloutSizes(options) \subseteq Nat \ {0} /\ \E k \in RolloutSizes(options) : 2 * k > most
  BY <1>2, RolloutSizesFacts
<1>4. size \in rest /\ (\A j \in rest : j <= size) /\ m \in Outcomes(size) BY DEF Probe
<1>5. m.stage = "rollout" /\ m.candidate = [DefaultTemplate(options.config) EXCEPT !.max_running_prompts = size]
  BY <1>1, <1>4, OutcomeFacts DEF Candidate, RolloutSearch
<1>6. m.candidate.max_running_prompts = size BY <1>5 DEF DefaultTemplate
<1>7. /\ Searched(options, old, rest, "rollout", RolloutSizes(options), "max_running_prompts") /\ asked = 0
      /\ \A e \in old : e.stage = "rollout" /\ ~Fits(options, e) /\ e.candidate.max_running_prompts \in RolloutSizes(options) \ rest
      /\ template = DefaultTemplate(options.config)
  BY <1>1 DEF RolloutSearch
<1>8. size \in RolloutSizes(options) /\ size \in Nat \ {0} BY <1>3, <1>4, <1>7 DEF Searched
<1>9. BegunHigh(options, ms)
  <2>1. PICK k \in RolloutSizes(options) : 2 * k > most BY <1>3
  <2>2. CASE k \in rest
    <3>1. 2 * size > most BY <1>2, <1>3, <1>4, <1>8, <2>1, <2>2
    <3> QED BY <1>5, <1>6, <3>1 DEF BegunHigh
  <2>3. CASE k \notin rest
    <3>1. FoundIn(options, old, "rollout", FALSE, k, "max_running_prompts") BY <1>7, <2>1, <2>3 DEF Searched
    <3> QED BY <2>1, <3>1 DEF FoundIn, BegunHigh
  <2> QED BY <2>2, <2>3
<1>10. RolloutSizes(options) \in SUBSET Nat BY <1>3
<1> HIDE DEF rest, old
<1>11. /\ \A k \in RolloutSizes(options) : k > size => FoundIn(options, ms, "rollout", FALSE, k, "max_running_prompts")
       /\ ~Fits(options, m) => Searched(options, ms, rest \ {size}, "rollout", RolloutSizes(options), "max_running_prompts")
  BY <1>4, <1>5, <1>6, <1>7, <1>10, SearchGoesOn DEF old
<1>12. ASSUME Fits(options, m) PROVE TrainSearch(options, ms, MiniSizes(options, WaveOf(options, size)), WaveOf(options, size))
  <2>1. WaveOf(options, size).max_running_prompts = size BY <1>1, <1>8, WaveFacts
  <2>2. FoundIn(options, ms, "rollout", TRUE, size, "max_running_prompts") BY <1>5, <1>6, <1>12 DEF FoundIn
  <2>3. Concurrency(options, ms, size) BY <1>7, <1>8, <1>11, <2>2 DEF Concurrency
  <2>4. \A e \in ms : e.stage = "train" => ~Fits(options, e) BY <1>5, <1>7 DEF old
  <2> QED BY <2>1, <2>3, <2>4 DEF TrainSearch, Searched
<1>13. ASSUME ~Fits(options, m) PROVE RolloutSearch(options, ms, rest \ {size}, template)
  <2>1. \A e \in ms : e.stage = "rollout" /\ ~Fits(options, e)
                      /\ e.candidate.max_running_prompts \in RolloutSizes(options) \ (rest \ {size})
    BY <1>5, <1>6, <1>7, <1>8, <1>13 DEF old
  <2> QED BY <1>7, <1>11, <1>13, <2>1 DEF RolloutSearch
<1> QED BY <1>5, <1>8, <1>9, <1>12, <1>13 DEF rest, old

\* A probe of the train stage.
LEMMA TrainProbed ==
  ASSUME TuneInv, ~Smoke, phase = "train", NEW size, NEW m, Probe(size, m)
  PROVE  /\ m.candidate = [template EXCEPT !.mini_bs = size]
         /\ size \in MiniSizes(options, template) /\ BegunHigh(options, measurements \cup {m})
         /\ Fits(options, m) => Chosen(options, measurements \cup {m}, template, size)
         /\ ~Fits(options, m) => TrainSearch(options, measurements \cup {m}, untried \ {size}, template)
<1> DEFINE ms == measurements \cup {m}
           old == measurements
           rest == untried
           t == template
           r == t.max_running_prompts
           asked == options.config.max_running_prompts
<1>1. /\ options \in CommandLines /\ ~Refused(options) /\ options.tune_params
      /\ TrainSearch(options, old, rest, t) /\ BegunHigh(options, old)
  BY DEF TuneInv
<1>2. size \in rest /\ (\A j \in rest : j <= size) /\ m \in Outcomes(size) BY DEF Probe
<1>3. m.stage = "train" /\ m.candidate = [t EXCEPT !.mini_bs = size] /\ m.rows = TrainRows(m.candidate)
  BY <1>2, OutcomeFacts DEF Candidate
<1>4. /\ t = WaveOf(options, r) /\ Concurrency(options, old, r) /\ r \in Nat \ {0}
      /\ \A e \in old : e.stage = "train" => ~Fits(options, e)
      /\ Searched(options, old, rest, "train", MiniSizes(options, t), "mini_bs")
  BY <1>1 DEF TrainSearch, Concurrency
<1>5. size \in MiniSizes(options, t) BY <1>2, <1>4 DEF Searched
<1>6. DOMAIN t = {"tp_size", "batch_size", "n_samples", "mini_bs", "max_running_prompts", "adam_8bit",
                  "keep_rollout_state"}
  <2>1. DOMAIN WaveOf(options, r) = {"tp_size", "batch_size", "n_samples", "mini_bs", "max_running_prompts", "adam_8bit",
                            "keep_rollout_state"}
    BY <1>1, <1>4, WaveFacts
  <2> QED BY <1>4, <2>1, Zenon
<1> HIDE DEF rest, old, t
<1>7. /\ m.candidate.mini_bs = size /\ m.candidate.batch_size = t.batch_size
      /\ m.candidate.n_samples = t.n_samples
  BY <1>3, <1>6
<1>8. m.rows = TrainRows(t) BY <1>3, <1>7 DEF TrainRows
<1>9. BegunHigh(options, ms) BY <1>1, <1>3 DEF BegunHigh, old
<1>10. MiniSizes(options, t) \in SUBSET Nat BY DEF MiniSizes
<1>11. /\ \A k \in MiniSizes(options, t) : k > size => FoundIn(options, ms, "train", FALSE, k, "mini_bs")
       /\ ~Fits(options, m) => Searched(options, ms, rest \ {size}, "train", MiniSizes(options, t), "mini_bs")
  BY <1>2, <1>3, <1>4, <1>7, <1>10, SearchGoesOn DEF old
<1>12. Concurrency(options, ms, r) BY <1>4 DEF Concurrency, FoundIn, old
<1>13. Fits(options, m) => Chosen(options, ms, t, size)
  BY <1>3, <1>4, <1>5, <1>8, <1>11, <1>12 DEF Chosen
<1>14. ~Fits(options, m) => TrainSearch(options, ms, rest \ {size}, t)
  BY <1>3, <1>4, <1>11, <1>12 DEF TrainSearch, old
<1> QED BY <1>3, <1>5, <1>9, <1>13, <1>14 DEF rest, old, t

\* The invariant holds at first.
LEMMA TuneStarts == ASSUME UTInit PROVE TuneInv
BY DEF UTInit, TuneInv, BegunHigh

\* The options never change, and what is not refused stays so.
LEMMA TuneKeeps == ASSUME UTNext PROVE options' = options
BY DEF UTNext, Refuse, SmokeInfer, SmokeTrain, Tune, RunUntuned, Proceed, SmokeEnds, RolloutFits, TrainFits,
       Rejected, ProbeRaises, Probe

\* A command line enters its first stage.
LEMMA TuneEnters ==
  ASSUME TuneInv, Refuse \/ SmokeInfer \/ SmokeTrain \/ Tune \/ RunUntuned
  PROVE  TuneInv'
<1>1. phase = "options" /\ measurements = {} /\ measurements' = {} /\ options' = options
      /\ trainer_config' = trainer_config /\ trainer_config = options.config /\ options \in CommandLines
  BY DEF TuneInv, Refuse, SmokeInfer, SmokeTrain, Tune, RunUntuned, Proceed
<1>2. BegunHigh(options, {}) BY DEF BegunHigh
<1>3. CASE Refuse BY <1>1, <1>2, <1>3 DEF Refuse, Proceed, TuneInv, Smoke
<1>4. CASE SmokeInfer BY <1>1, <1>2, <1>4 DEF SmokeInfer, Proceed, TuneInv, Smoke
<1>5. CASE SmokeTrain BY <1>1, <1>2, <1>5 DEF SmokeTrain, Proceed, TuneInv, Smoke
<1>6. CASE RunUntuned BY <1>1, <1>2, <1>6 DEF RunUntuned, Proceed, TuneInv, Smoke
<1>7. CASE Tune
  <2>1. ~Refused(options) /\ ~Smoke /\ options.tune_params BY <1>7 DEF Tune
  <2>2. CASE options.config.max_running_prompts = 0
    <3>1. phase' = "rollout" /\ template' = DefaultTemplate(options.config) /\ untried' = RolloutSizes(options)
      BY <1>7, <2>2 DEF Tune, Proceed
    <3>2. RolloutSearch(options, {}, RolloutSizes(options), DefaultTemplate(options.config))
      BY <2>2 DEF RolloutSearch, Searched
    <3>3. untried' # {} BY <1>1, <2>1, <3>1, OptionsInRange, RolloutSizesFacts
    <3> QED BY <1>1, <1>2, <2>1, <3>1, <3>2, <3>3 DEF TuneInv, Smoke
  <2>3. CASE options.config.max_running_prompts # 0
    <3> DEFINE r == options.config.max_running_prompts
               t == WaveOf(options, r)
    <3>1. phase' = "train" /\ template' = t /\ untried' = MiniSizes(options, t)
      BY <1>7, <2>3 DEF Tune, Proceed, WaveOf, UserTemplate
    <3>2. r \in Nat \ {0} BY <1>1, <2>1, <2>3, OptionsInRange
    <3>3. t.max_running_prompts = r /\ untried' # {} BY <1>1, <2>1, <3>1, <3>2, WaveFacts
    <3>4. Concurrency(options, {}, r) BY <2>3, <3>2 DEF Concurrency
    <3> HIDE DEF t
    <3>5. TrainSearch(options, {}, MiniSizes(options, t), t)
      BY <3>3, <3>4 DEF TrainSearch, Searched, t
    <3> QED BY <1>1, <1>2, <2>1, <3>1, <3>3, <3>5 DEF TuneInv, Smoke
  <2> QED BY <2>2, <2>3
<1> QED BY <1>3, <1>4, <1>5, <1>6, <1>7

\* A probe ends, and the command goes on.
LEMMA TuneProbes ==
  ASSUME TuneInv, NEW size, NEW m,
         SmokeEnds(size, m) \/ RolloutFits(size, m) \/ TrainFits(size, m) \/ Rejected(size, m)
  PROVE  TuneInv'
<1> DEFINE ms == measurements \cup {m}
<1>1. /\ Probe(size, m) /\ measurements' = ms /\ options' = options /\ phase \in {"rollout", "train"}
      /\ ~Refused(options) /\ options \in CommandLines /\ trainer_config = options.config
      /\ Smoke \/ options.tune_params
  BY DEF TuneInv, SmokeEnds, RolloutFits, TrainFits, Rejected, Probe
<1>2. \A e \in ms : e.tokens = TokenBudgets(options.config)
  <2>1. m \in Outcomes(size) BY <1>1 DEF Probe
  <2> QED BY <2>1, OutcomeFacts DEF TuneInv
<1>3. CASE SmokeEnds(size, m)
  <2>1. Smoke /\ phase' \in {"done", "failed"} /\ trainer_config' = trainer_config BY <1>3 DEF SmokeEnds
  <2> QED BY <1>1, <1>2, <2>1 DEF TuneInv, Smoke
<1>4. CASE RolloutFits(size, m)
  <2>1. /\ ~Smoke /\ phase = "rollout" /\ Fits(options, m) /\ phase' = "train" /\ trainer_config' = trainer_config
        /\ template' = TrainTemplate(options, m.candidate) /\ untried' = MiniSizes(options, template')
    BY <1>4 DEF RolloutFits
  <2>2. /\ template' = WaveOf(options, size) /\ BegunHigh(options, ms)
        /\ TrainSearch(options, ms, MiniSizes(options, WaveOf(options, size)), WaveOf(options, size))
    BY <1>1, <2>1, RolloutProbed DEF WaveOf
  <2>3. size \in Nat \ {0} BY <1>1, <2>1, RolloutProbed
  <2>4. untried' # {} BY <1>1, <2>1, <2>2, <2>3, WaveFacts
  <2> QED BY <1>1, <1>2, <2>1, <2>2, <2>4 DEF TuneInv, Smoke
<1>5. CASE TrainFits(size, m)
  <2>1. /\ ~Smoke /\ phase = "train" /\ Fits(options, m) /\ phase' = "run" /\ template' = template
        /\ trainer_config' = TunedTo(trainer_config, m.candidate, m.candidate.mini_bs)
    BY <1>5 DEF TrainFits, TunedTo
  <2>2. /\ m.candidate = [template EXCEPT !.mini_bs = size] /\ BegunHigh(options, ms)
        /\ Chosen(options, ms, template, size)
    BY <1>1, <2>1, TrainProbed
  <2>3. DOMAIN template = {"tp_size", "batch_size", "n_samples", "mini_bs", "max_running_prompts", "adam_8bit",
                           "keep_rollout_state"}
    <3> DEFINE r == template.max_running_prompts
    <3>1. template = WaveOf(options, r) /\ r \in Nat \ {0} BY <2>2 DEF Chosen, Concurrency
    <3>2. DOMAIN WaveOf(options, r) =
            {"tp_size", "batch_size", "n_samples", "mini_bs", "max_running_prompts", "adam_8bit", "keep_rollout_state"}
      BY <1>1, <2>1, <3>1, WaveFacts
    <3> QED BY <3>1, <3>2, Zenon
  <2>4. m.candidate.mini_bs = size /\ TunedTo(options.config, m.candidate, size) = TunedTo(options.config, template, size)
    BY <2>2, <2>3 DEF TunedTo
  <2>5. trainer_config' = TunedTo(options.config, template, size) BY <1>1, <2>1, <2>4
  <2>6. options.config \in Configs BY <1>1, <2>1, OptionsInRange
  <2>7. trainer_config'.mini_bs = size BY <2>5, <2>6 DEF TunedTo, Configs
  <2> QED BY <1>1, <1>2, <2>1, <2>2, <2>5, <2>7 DEF TuneInv, Smoke
<1>6. CASE Rejected(size, m)
  <2>1. /\ ~Smoke /\ ~Fits(options, m) /\ untried' = untried \ {size} /\ trainer_config' = trainer_config
        /\ template' = template /\ phase' = IF untried \ {size} = {} THEN "failed" ELSE phase
    BY <1>6 DEF Rejected
  <2>2. CASE phase = "rollout"
    <3>1. RolloutSearch(options, ms, untried \ {size}, template) /\ BegunHigh(options, ms)
      BY <1>1, <2>1, <2>2, RolloutProbed
    <3> QED BY <1>1, <1>2, <2>1, <2>2, <3>1 DEF TuneInv, Smoke
  <2>3. CASE phase = "train"
    <3>1. TrainSearch(options, ms, untried \ {size}, template) /\ BegunHigh(options, ms)
      BY <1>1, <2>1, <2>3, TrainProbed
    <3> QED BY <1>1, <1>2, <2>1, <2>3, <3>1 DEF TuneInv, Smoke
  <2> QED BY <1>1, <2>2, <2>3
<1> QED BY <1>3, <1>4, <1>5, <1>6

\* Every step keeps the invariant.
LEMMA TuneStep == ASSUME TuneInv, [UTNext]_utvars PROVE TuneInv'
<1>1. CASE UNCHANGED utvars BY <1>1 DEF utvars, TuneInv, Smoke
<1>2. CASE ProbeRaises
  <2>1. phase' = "raised" /\ UNCHANGED <<options, trainer_config, template, untried, measurements>>
        /\ phase \in {"rollout", "train"}
    BY <1>2 DEF ProbeRaises
  <2> QED BY <2>1 DEF TuneInv, Smoke
<1>3. CASE Refuse \/ SmokeInfer \/ SmokeTrain \/ Tune \/ RunUntuned BY <1>3, TuneEnters
<1>4. CASE \E size \in untried : \E m \in Outcomes(size) :
             SmokeEnds(size, m) \/ RolloutFits(size, m) \/ TrainFits(size, m) \/ Rejected(size, m)
  BY <1>4, TuneProbes
<1> QED BY <1>1, <1>2, <1>3, <1>4 DEF UTNext

\* The lengths of dummy rows.
LEMMA BudgetsFill ==
  ASSUME NEW c \in Configs, c.max_prompt_tokens \in Nat \ {0}, c.max_new_tokens \in Nat \ {0}, c.max_context_len \in Nat
  PROVE  LET b == TokenBudgets(c)
             length == b.prompt + b.response IN
         /\ b.prompt >= 1 /\ b.response >= 1
         /\ length >= (IF c.max_context_len = 0 THEN c.max_prompt_tokens + c.max_new_tokens ELSE c.max_context_len)
         /\ c.max_context_len >= 2 => length <= c.max_context_len
BY DEF TokenBudgets, Smaller, Larger

\* What the invariant says of a run that was tuned.
LEMMA ChosenIsBest ==
  ASSUME TuneInv, phase = "run", options.tune_params
  PROVE  /\ SearchWasComplete
         /\ LET c == trainer_config
                wave == Smaller(options.tune_max_samples, c.max_running_prompts) IN
            /\ c.batch_size = 1 \/ c.batch_size * c.n_samples <= wave
            /\ 2 * c.batch_size * c.n_samples > wave
         /\ \A f \in {"tp_size", "n_samples", "adam_8bit", "max_prompt_tokens", "max_new_tokens", "max_context_len"} :
              trainer_config[f] = options.config[f]
         /\ options.config.max_running_prompts # 0 =>
              trainer_config.max_running_prompts = options.config.max_running_prompts
         /\ trainer_config.mini_bs <= options.config.mini_bs
<1> DEFINE c == trainer_config
           given == options.config
           t == template
           r == t.max_running_prompts
           size == c.mini_bs
           rows == c.batch_size * c.n_samples
<1>1. /\ options \in CommandLines /\ ~Refused(options) /\ Chosen(options, measurements, t, size)
      /\ c = TunedTo(given, t, size)
  BY DEF TuneInv
<1>2. /\ t = WaveOf(options, r) /\ r \in Nat \ {0} /\ Concurrency(options, measurements, r)
      /\ size \in MiniSizes(options, t)
      /\ \A k \in MiniSizes(options, t) : k > size => FoundIn(options, measurements, "train", FALSE, k, "mini_bs")
  BY <1>1 DEF Chosen, Concurrency
<1>3. given \in Configs /\ given.mini_bs \in Nat \ {0} BY <1>1, OptionsInRange
<1>4. /\ DOMAIN t = {"tp_size", "batch_size", "n_samples", "mini_bs", "max_running_prompts", "adam_8bit",
                     "keep_rollout_state"}
      /\ t.tp_size = given.tp_size /\ t.n_samples = given.n_samples /\ t.adam_8bit = given.adam_8bit
      /\ t.keep_rollout_state = FALSE
      /\ t.batch_size = 1 \/ t.batch_size * t.n_samples <= Smaller(options.tune_max_samples, r)
      /\ 2 * t.batch_size * t.n_samples > Smaller(options.tune_max_samples, r)
      /\ MiniSizes(options, t) = {k \in {1, 2, 4, 8, 16} : k <= given.mini_bs /\ k <= TrainRows(t)}
  <2> DEFINE u == WaveOf(options, r)
  <2>1. /\ DOMAIN u = {"tp_size", "batch_size", "n_samples", "mini_bs", "max_running_prompts", "adam_8bit",
                       "keep_rollout_state"}
        /\ u.tp_size = given.tp_size /\ u.n_samples = given.n_samples /\ u.adam_8bit = given.adam_8bit
        /\ u.keep_rollout_state = FALSE
        /\ u.batch_size = 1 \/ u.batch_size * u.n_samples <= Smaller(options.tune_max_samples, r)
        /\ 2 * u.batch_size * u.n_samples > Smaller(options.tune_max_samples, r)
        /\ MiniSizes(options, u) = {k \in {1, 2, 4, 8, 16} : k <= given.mini_bs /\ k <= TrainRows(u)}
    BY <1>1, <1>2, WaveFacts
  <2> HIDE DEF u
  <2>2. t = u BY <1>2 DEF u
  <2> QED BY <2>1, <2>2
<1> HIDE DEF c, given, t, size
<1>5. DOMAIN given = {"tp_size", "batch_size", "n_samples", "mini_bs", "max_running_prompts", "max_prompt_tokens",
                      "max_new_tokens", "max_context_len", "adam_8bit", "keep_rollout_state"}
  BY <1>3 DEF Configs
<1>6. /\ c.tp_size = t.tp_size /\ c.batch_size = t.batch_size /\ c.n_samples = t.n_samples /\ c.mini_bs = size
      /\ c.max_running_prompts = r /\ c.keep_rollout_state = t.keep_rollout_state /\ c.adam_8bit = given.adam_8bit
      /\ c.max_prompt_tokens = given.max_prompt_tokens /\ c.max_new_tokens = given.max_new_tokens
      /\ c.max_context_len = given.max_context_len
  BY <1>1, <1>5 DEF TunedTo
<1>7. rows = TrainRows(t) BY <1>6 DEF TrainRows
<1>8. \E m \in measurements : /\ m.stage = "train" /\ Fits(options, m) /\ m.rows = rows
                              /\ \A f \in DOMAIN m.candidate : m.candidate[f] = c[f]
  <2>1. PICK m \in measurements : m.stage = "train" /\ Fits(options, m) /\ m.rows = TrainRows(t)
                                  /\ m.candidate = [t EXCEPT !.mini_bs = size]
    BY <1>1 DEF Chosen
  <2>2. \A f \in DOMAIN m.candidate : m.candidate[f] = c[f] BY <1>4, <1>6, <2>1
  <2> QED BY <1>7, <2>1, <2>2
<1>9. \A k \in {1, 2, 4, 8, 16} : size < k /\ k <= rows /\ k <= given.mini_bs =>
         FoundIn(options, measurements, "train", FALSE, k, "mini_bs")
  <2>1. ASSUME NEW k \in {1, 2, 4, 8, 16}, size < k, k <= rows, k <= given.mini_bs
        PROVE  FoundIn(options, measurements, "train", FALSE, k, "mini_bs")
    <3>1. k \in MiniSizes(options, t) BY <1>4, <1>7, <2>1
    <3>2. size \in {1, 2, 4, 8, 16} BY <1>2, <1>4
    <3> QED BY <1>2, <2>1, <3>1, <3>2
  <2> QED BY <2>1
<1>10. given.max_running_prompts = 0 =>
         /\ FoundIn(options, measurements, "rollout", TRUE, r, "max_running_prompts")
         /\ \A k \in RolloutSizes(options) : k > r => FoundIn(options, measurements, "rollout", FALSE, k, "max_running_prompts")
  BY <1>2 DEF Concurrency, given
<1>11. SearchWasComplete
  <2> \A m : Fits(options, m) <=> WithinMemory(m) BY DEF Fits, WithinMemory
  <2>1. \E m \in measurements :
           /\ m.stage = "train" /\ WithinMemory(m) /\ m.rows = trainer_config.batch_size * trainer_config.n_samples
           /\ \A f \in DOMAIN m.candidate : m.candidate[f] = trainer_config[f]
    BY <1>8, Zenon DEF c
  <2>2. ASSUME NEW k \in {1, 2, 4, 8, 16}, trainer_config.mini_bs < k,
               k <= trainer_config.batch_size * trainer_config.n_samples, k <= options.config.mini_bs
        PROVE  \E m \in measurements : m.stage = "train" /\ (WithinMemory(m) <=> FALSE) /\ m.candidate["mini_bs"] = k
    <3>1. FoundIn(options, measurements, "train", FALSE, k, "mini_bs")
      BY <1>6, <1>9, <2>2, Zenon DEF c, given
    <3> QED BY <3>1, Zenon DEF FoundIn
  <2>3. ASSUME options.config.max_running_prompts = 0
        PROVE  /\ \E m \in measurements : /\ m.stage = "rollout" /\ (WithinMemory(m) <=> TRUE)
                                         /\ m.candidate["max_running_prompts"] = trainer_config.max_running_prompts
               /\ \A k \in RolloutSizes(options) : k > trainer_config.max_running_prompts =>
                    \E m \in measurements : /\ m.stage = "rollout" /\ (WithinMemory(m) <=> FALSE)
                                            /\ m.candidate["max_running_prompts"] = k
    <3>1. /\ FoundIn(options, measurements, "rollout", TRUE, r, "max_running_prompts")
          /\ \A k \in RolloutSizes(options) : k > r =>
               FoundIn(options, measurements, "rollout", FALSE, k, "max_running_prompts")
      BY <1>10, <2>3, Zenon DEF given
    <3>2. trainer_config.max_running_prompts = r BY <1>6 DEF c
    <3> QED BY <3>1, <3>2, Zenon DEF FoundIn
  <2> QED BY <2>1, <2>2, <2>3, Zenon DEF SearchWasComplete
<1>12. given.max_running_prompts # 0 => r = given.max_running_prompts BY <1>2 DEF Concurrency, given
<1>13. size <= given.mini_bs BY <1>2, <1>4
<1> QED BY <1>4, <1>6, <1>11, <1>12, <1>13 DEF c, given

\* A search that failed has tried the smallest size of its stage.
LEMMA FailedAtOne == ASSUME TuneInv PROVE FailureIsReal
<1> \A m : Fits(options, m) <=> WithinMemory(m) BY DEF Fits, WithinMemory
<1>1. SUFFICES ASSUME phase = "failed", ~Smoke PROVE FailureIsReal BY DEF FailureIsReal, TuneInv
<1>2. options \in CommandLines /\ ~Refused(options) /\ options.tune_params /\ options.tune_max_samples \in Nat \ {0}
  BY <1>1, OptionsInRange DEF TuneInv
<1>3. CASE RolloutSearch(options, measurements, {}, template)
  <2>1. /\ \A m \in measurements : m.stage = "rollout" /\ ~Fits(options, m)
        /\ Searched(options, measurements, {}, "rollout", RolloutSizes(options), "max_running_prompts")
    BY <1>3 DEF RolloutSearch
  <2>2. 1 \in RolloutSizes(options) BY <1>2, RolloutSizesFacts
  <2>3. FoundIn(options, measurements, "rollout", FALSE, 1, "max_running_prompts") BY <2>1, <2>2 DEF Searched
  <2> QED BY <1>1, <2>1, <2>3 DEF FailureIsReal, FoundIn
<1>4. CASE TrainSearch(options, measurements, {}, template)
  <2> DEFINE r == template.max_running_prompts
  <2>1. /\ template = WaveOf(options, r) /\ r \in Nat \ {0}
        /\ \A m \in measurements : m.stage = "train" => ~Fits(options, m)
        /\ Searched(options, measurements, {}, "train", MiniSizes(options, template), "mini_bs")
    BY <1>4 DEF TrainSearch, Concurrency
  <2>2. 1 \in MiniSizes(options, WaveOf(options, r)) BY <1>2, <2>1, WaveFacts
  <2>3. 1 \in MiniSizes(options, template) BY <2>1, <2>2, Zenon
  <2>4. FoundIn(options, measurements, "train", FALSE, 1, "mini_bs") BY <2>1, <2>3 DEF Searched
  <2> QED BY <1>1, <2>1, <2>4 DEF FailureIsReal, FoundIn
<1> QED BY <1>1, <1>3, <1>4 DEF TuneInv

\* The invariant has the property.
LEMMA TunedBest == ASSUME TuneInv PROVE TunedIsTheBest
<1>1. SearchWasComplete BY ChosenIsBest DEF SearchWasComplete
<1>2. OptionsAreKept
  <2>1. CASE phase = "run" /\ options.tune_params
    <3>1. \A f \in {"tp_size", "n_samples", "adam_8bit", "max_prompt_tokens", "max_new_tokens", "max_context_len"} :
             trainer_config[f] = options.config[f]
      BY <2>1, ChosenIsBest, Zenon
    <3>2. /\ options.config.max_running_prompts # 0 =>
               trainer_config.max_running_prompts = options.config.max_running_prompts
          /\ trainer_config.mini_bs <= options.config.mini_bs
      BY <2>1, ChosenIsBest, Zenon
    <3> QED BY <2>1, <3>1, <3>2, Zenon DEF OptionsAreKept
  <2>2. CASE ~(phase = "run" /\ options.tune_params)
    <3>1. trainer_config = options.config /\ (phase = "refused" => measurements = {}) BY <2>2 DEF TuneInv
    <3>2. options.config.mini_bs \in Int BY TuneAssumption DEF TuneInv, Configs
    <3> QED BY <2>2, <3>1, <3>2 DEF OptionsAreKept
  <2> QED BY <2>1, <2>2
<1>3. FailureIsReal BY FailedAtOne
<1>4. SizesAreFilled
  <2>1. phase = "run" /\ options.tune_params =>
           LET c == trainer_config
               wave == Smaller(options.tune_max_samples, c.max_running_prompts) IN
           /\ c.batch_size = 1 \/ c.batch_size * c.n_samples <= wave
           /\ 2 * c.batch_size * c.n_samples > wave
    BY ChosenIsBest
  <2>2. ~Smoke /\ (\E m \in measurements : m.stage = "rollout") =>
          \E m \in measurements : m.stage = "rollout" /\ 2 * m.candidate.max_running_prompts > options.tune_max_samples
    BY DEF TuneInv, BegunHigh
  <2>3. ASSUME NEW m \in measurements
        PROVE  LET length == m.tokens.prompt + m.tokens.response
                   asked == options.config IN
               /\ m.tokens.prompt >= 1 /\ m.tokens.response >= 1
               /\ length >= (IF asked.max_context_len = 0 THEN asked.max_prompt_tokens + asked.max_new_tokens
                             ELSE asked.max_context_len)
               /\ asked.max_context_len >= 2 => length <= asked.max_context_len
    <3>1. m.tokens = TokenBudgets(options.config) /\ ~Refused(options) /\ options \in CommandLines
      BY <2>3 DEF TuneInv
    <3>2. options.config \in Configs BY <3>1, TuneAssumption
    <3>3. /\ options.config.max_prompt_tokens \in Nat \ {0} /\ options.config.max_new_tokens \in Nat \ {0}
          /\ options.config.max_context_len \in Nat
      BY <3>1, <3>2 DEF Refused, Configs
    <3> QED BY <3>1, <3>2, <3>3, BudgetsFill
  <2> QED BY <2>1, <2>2, <2>3, Zenon DEF SizesAreFilled
<1> QED BY <1>1, <1>2, <1>3, <1>4 DEF TunedIsTheBest

\* For any options, device memory and outcomes of the probes: a tuned run has the largest sizes
\* that were measured to fit, on a batch that fills a wave of rollouts, and a search that fails has
\* tried the smallest.
THEOREM TunedAlways == UTSpec => []TunedIsTheBest
<1>1. UTInit => TuneInv BY TuneStarts
<1>2. TuneInv /\ [UTNext]_utvars => TuneInv' BY TuneStep
<1>3. TuneInv => TunedIsTheBest BY TunedBest
<1> QED BY <1>1, <1>2, <1>3, PTL DEF UTSpec
=============================================================================
