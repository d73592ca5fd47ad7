-------------------------- MODULE OptimizerShards --------------------------
(***************************************************************************)
(* The optimizer state sharded over data-parallel ranks                    *)
(* (engine/optim/adamw_fp32_master.py, adamw_8bit.py).  Parameters are cut *)
(* into chunks, chunks packed into buckets, and each rank keeps the master *)
(* weights and moments of one slice of every bucket.  After a bucket is    *)
(* stepped its slices are gathered back into every rank's model.           *)
(*                                                                         *)
(* Numbers are integers: a master weight is twice a model weight, so that  *)
(* the copy into the model rounds; the moment is the sum of the gradients  *)
(* and a step adds it to the master.  The size of a step (bias correction, *)
(* decay, second moment) is left out, its step counter is kept.            *)
(***************************************************************************)
EXTENDS Integers, Sequences, FiniteSets, SequencesExt, FiniteSetsExt, Subsequences

CONSTANTS Shapes,       \* sequences of [numel, device], one per parameter
          Shardings,    \* records [kind, dp, bucket, chunk]
          Gradients,    \* gradients <<g>>, g the same over a parameter
          MaxUpdates,   \* bound on the optimizer steps
          Levels        \* of a quantised moment

\* Parameters have lengths, a group has ranks; buckets and chunks have room for a number.
ShapesAssumption ==
    \A sh \in Shapes : Len(sh) \in Nat /\ DOMAIN sh = 1..Len(sh) /\ \A p \in DOMAIN sh : sh[p].numel \in Nat
ShardingsAssumption ==
    \A l \in Shardings : {l.dp, l.bucket, l.chunk} \subseteq Nat \ {0}
GradientsAssumption == \A g \in Gradients : g # << >> /\ g[1] \in Int
ASSUME OptimizerAssumption == ShapesAssumption /\ ShardingsAssumption /\ GradientsAssumption

VARIABLES shape, sharding,
          ranks,     \* the state of the group, see Fresh
          whole,     \* the same history on one rank, in other buckets, never stopped
          saved,     \* the state_dict of every rank beside the saved model, or NoTensor
          updates
ovars == <<shape, sharding, ranks, whole, saved, updates>>

NoTensor == << >>            \* no tensor; of an empty slice, also the tensor
Low(a, b) == IF a < b THEN a ELSE b
High(a, b) == IF a > b THEN a ELSE b

(*------------------------------- layout ---------------------------------*)
\* A parameter in update-chunk sized pieces.
ChunksOf(sh, l, p) ==
    [k \in 1..((sh[p].numel + l.chunk - 1) \div l.chunk) |->
       [p |-> p, start |-> (k - 1) * l.chunk, at |-> 0,
        numel |-> Low(l.chunk, sh[p].numel - (k - 1) * l.chunk)]]

\* _build_buckets: a bucket is closed when the next chunk would overflow it
\* or lives on another device.
WithChunkIn(b, c) == [numel |-> b.numel + c.numel, refs |-> Append(b.refs, [c EXCEPT !.at = b.numel])]
Packed(sh, l, bs, c) ==
    LET b == Last(bs)
    IN IF bs # << >> /\ sh[b.refs[1].p].device = sh[c.p].device /\ b.numel + c.numel <= l.bucket
       THEN [bs EXCEPT ![Len(bs)] = WithChunkIn(b, c)]
       ELSE Append(bs, [numel |-> c.numel, refs |-> <<c>>])
AllChunks(sh, l) == FlattenSeq([p \in DOMAIN sh |-> ChunksOf(sh, l, p)])
Buckets(sh, l) ==
    LET cs == AllChunks(sh, l)
        packed[n \in 0..Len(cs)] == IF n = 0 THEN << >> ELSE Packed(sh, l, packed[n - 1], cs[n])
    IN packed[Len(cs)]

\* _max_shard_numel and _shard_range.
MaxShard(l, numel) == (numel + l.dp - 1) \div l.dp
ShardRangeOf(l, numel, r) ==
    LET start == Low(r * MaxShard(l, numel), numel)
    IN [start |-> start, numel |-> Low(start + MaxShard(l, numel), numel) - start]

\* _make_bucket: the slice of a chunk that a rank keeps, by its offset in the
\* chunk and in the rank's buffer.
SliceOf(l, b, ref, r) ==
    LET s == ShardRangeOf(l, b.numel, r)
        from == High(ref.at, s.start)
        to == Low(ref.at + ref.numel, s.start + s.numel)
    IN [inRef |-> High(from - ref.at, 0), numel |-> High(to - from, 0),
        inShard |-> High(from - s.start, 0)]

(*-------------------------------- state ---------------------------------*)
Round(x) == x \div 2     \* FP32 to BF16
Widen(x) == 2 * x        \* BF16 to FP32
NoState == [master |-> NoTensor, avg |-> NoTensor, step |-> 0, onHost |-> FALSE]
Weights(sh) == [p \in DOMAIN sh |-> [i \in 0..sh[p].numel-1 |-> 10 * p + i]]
Fresh(sh, l, model) ==
    [model |-> [r \in 0..l.dp-1 |-> model],
     opt |-> [r \in 0..l.dp-1 |-> [b \in DOMAIN Buckets(sh, l) |-> NoState]]]

\* The bucket offsets of rank r's slice, read out of its model.
MasterFromModel(l, b, r, model) ==
    [o \in 0..ShardRangeOf(l, b.numel, r).numel-1 |->
       LET ref == CHOOSE x \in Range(b.refs) :
                    o - SliceOf(l, b, x, r).inShard \in 0..SliceOf(l, b, x, r).numel-1
           s == SliceOf(l, b, ref, r)
       IN Widen(model[ref.p][ref.start + s.inRef + o - s.inShard])]

\* _ensure_bucket_state: state comes back from the host, or into being.
EnsureMoments(l, b, r, o) ==
    [o EXCEPT !.onHost = FALSE,
              !.avg = IF @ = NoTensor THEN [k \in 0..ShardRangeOf(l, b.numel, r).numel-1 |-> 0] ELSE @]
Ensure(l, b, r, model, o) ==
    [EnsureMoments(l, b, r, o) EXCEPT !.master =
       IF l.kind = "fp32" /\ @ = NoTensor THEN MasterFromModel(l, b, r, model) ELSE @]

(*-------------------------------- a step --------------------------------*)
\* _all_gather_bucket: every rank sends a buffer of the largest shard, and
\* copies each of the buffers it receives to the elements it overlaps.
NotGathered(l, b, refs, models) == models
AllGathered(l, b, refs, models) ==
    IF l.dp = 1 THEN models
    ELSE LET send == [q \in DOMAIN models |-> [o \in 0..MaxShard(l, b.numel)-1 |->
                LET hit == {x \in refs : o - SliceOf(l, b, x, q).inShard \in 0..SliceOf(l, b, x, q).numel-1}
                IN IF hit = {} THEN 0
                   ELSE LET x == CHOOSE y \in hit : TRUE
                        IN models[q][x.p][x.start + SliceOf(l, b, x, q).inRef + o - SliceOf(l, b, x, q).inShard]]]
             from(x, i) == {q \in DOMAIN models :
                LET s == ShardRangeOf(l, b.numel, q) IN x.at + i - x.start - s.start \in 0..s.numel-1}
         IN [r \in DOMAIN models |-> [p \in DOMAIN models[r] |-> [i \in DOMAIN models[r][p] |->
               LET x == {y \in refs : y.p = p /\ i - y.start \in 0..y.numel-1}
               IN IF \E y \in x : from(y, i) # {}
                  THEN LET y == CHOOSE y \in x : TRUE
                           q == CHOOSE q \in from(y, i) : TRUE
                       IN send[q][y.at + i - y.start - ShardRangeOf(l, b.numel, q).start]
                  ELSE models[r][p][i]]]]

\* One chunk on one rank: the moment over its slice, and the model elements of
\* the slice rounded from the new weights w.
Moment(o, s, g) == [k \in DOMAIN o.avg |-> o.avg[k] + (IF k - s.inShard \in 0..s.numel-1 THEN g ELSE 0)]
Written(model, ref, s, w(_)) ==
    [model EXCEPT ![ref.p] = [i \in DOMAIN @ |->
       LET at == i - ref.start - s.inRef
       IN IF at \in 0..s.numel-1 THEN Round(w(s.inShard + at)) ELSE @[i]]]

StepRef(l, b, r, st, ref, g) ==
    LET s == SliceOf(l, b, ref, r)
        avg == Moment(st.o, s, g)
        master == [k \in DOMAIN st.o.master |->
                     st.o.master[k] + (IF k - s.inShard \in 0..s.numel-1 THEN avg[k] ELSE 0)]
    IN [model |-> Written(st.model, ref, s, LAMBDA k : master[k]),
        o |-> [st.o EXCEPT !.avg = avg, !.master = master]]

\* Without a master copy the weight is widened, stepped and rounded again.
StepRef8bit(l, b, r, st, ref, g) ==
    LET s == SliceOf(l, b, ref, r)
        avg == Moment(st.o, s, g)
        old(k) == Widen(st.model[ref.p][k - s.inShard + ref.start + s.inRef])
    IN [model |-> Written(st.model, ref, s, LAMBDA k : old(k) + avg[k]),
        o |-> [st.o EXCEPT !.avg = avg]]

\* _quantize_symmetric and back: one scale for the rank's slice.
Requantised(avg) ==
    LET size(x) == IF x < 0 THEN -x ELSE x
        top == Max({1} \cup {size(avg[k]) : k \in DOMAIN avg})
    IN [k \in DOMAIN avg |-> (((avg[k] * Levels) \div top) * top) \div Levels]

\* _step_bucket: chunks whose parameter has a gradient are stepped; a
\* gradient is dropped with the last chunk of its parameter.
UsedUpAtOnce(sh, g, refs) ==
    [p \in DOMAIN g |-> IF \E x \in refs : x.p = p THEN NoTensor ELSE g[p]]
UsedUp(sh, g, refs) ==
    [p \in DOMAIN g |-> IF \E x \in refs : x.p = p /\ x.start + x.numel = sh[p].numel THEN NoTensor ELSE g[p]]
Stored(l, o) == IF l.kind = "8bit" THEN [o EXCEPT !.avg = Requantised(@)] ELSE o
StepRefs(l, b, r, start, refs, grads) ==
    LET step(st, x) == IF l.kind = "8bit" THEN StepRef8bit(l, b, r, st, x, grads[x.p][1])
                                          ELSE StepRef(l, b, r, st, x, grads[x.p][1])
        swept[n \in 0..Len(refs)] == IF n = 0 THEN start ELSE step(swept[n - 1], refs[n])
    IN swept[Len(refs)]
StepBucket(sh, l, acc, k) ==
    LET b == Buckets(sh, l)[k]
        refs == Kept(b.refs, {x \in Range(b.refs) : acc.grads[x.p] # NoTensor})
        start(r) == [model |-> acc.state.model[r],
                     o |-> [Ensure(l, b, r, acc.state.model[r], acc.state.opt[r][k]) EXCEPT !.step = @ + 1]]
        stepped == [r \in DOMAIN acc.state.model |-> StepRefs(l, b, r, start(r), refs, acc.grads)]
    IN IF refs = << >> THEN acc
       ELSE [grads |-> UsedUp(sh, acc.grads, Range(refs)),
             state |-> [model |-> AllGathered(l, b, Range(refs), [r \in DOMAIN stepped |-> stepped[r].model]),
                        opt |-> [r \in DOMAIN stepped |->
                                   [acc.state.opt[r] EXCEPT ![k] = Stored(l, stepped[r].o)]]]]

Stepped(sh, l, state, grads) ==
    LET passed[k \in 0..Len(Buckets(sh, l))] ==
          IF k = 0 THEN [state |-> state, grads |-> grads] ELSE StepBucket(sh, l, passed[k - 1], k)
    IN passed[Len(Buckets(sh, l))].state

(*------------------------------ behaviour -------------------------------*)
WholeOf(l, sh) == [kind |-> l.kind, dp |-> 1, bucket |-> 1000, chunk |-> 1000]
MapOpt(state, f(_)) ==
    [state EXCEPT !.opt = [r \in DOMAIN @ |-> [b \in DOMAIN @[r] |-> f(@[r][b])]]]

OInit ==
    /\ shape \in Shapes /\ sharding \in Shardings
    /\ ranks = Fresh(shape, sharding, Weights(shape))
    /\ whole = Fresh(shape, WholeOf(sharding, shape), Weights(shape))
    /\ saved = NoTensor /\ updates = 0

\* step: the gradients are the same on every rank, _sync_data_parallel ran.
OStep ==
    /\ updates < MaxUpdates
    /\ \E g \in [DOMAIN shape -> Gradients \cup {NoTensor}] :
         /\ ranks' = Stepped(shape, sharding, ranks, g)
         /\ whole' = Stepped(shape, WholeOf(sharding, shape), whole, g)
    /\ updates' = updates + 1
    /\ UNCHANGED <<shape, sharding, saved>>

\* offload_state, onload_state.
Parked(o, host) == [o EXCEPT !.onHost = host /\ o.avg # NoTensor]
OMove ==
    /\ \E host \in BOOLEAN : ranks' = MapOpt(ranks, LAMBDA o : Parked(o, host))
    /\ UNCHANGED <<shape, sharding, whole, saved, updates>>

\* clear_state.
OClear ==
    /\ ranks' = MapOpt(ranks, LAMBDA o : NoState)
    /\ whole' = MapOpt(whole, LAMBDA o : NoState)
    /\ UNCHANGED <<shape, sharding, saved, updates>>

\* state_dict, beside a checkpoint of the model.
OSave ==
    /\ saved' = [ranks |-> ranks, whole |-> whole, updates |-> updates]
    /\ UNCHANGED <<shape, sharding, ranks, whole, updates>>

\* A new process with the saved model calls load_state_dict: buckets that had
\* no state stay empty, the others overwrite the model with their master.
CopyMasterToModel(l, b, state, k) ==
    LET written(r) == [p \in DOMAIN state.model[r] |-> [i \in DOMAIN state.model[r][p] |->
          LET x == {y \in Range(b.refs) : /\ y.p = p
                                          /\ i - y.start - SliceOf(l, b, y, r).inRef
                                               \in 0..SliceOf(l, b, y, r).numel-1}
          IN IF x = {} THEN state.model[r][p][i]
             ELSE LET y == CHOOSE y \in x : TRUE
                      s == SliceOf(l, b, y, r)
                  IN Round(state.opt[r][k].master[s.inShard + i - y.start - s.inRef])]]
    IN IF state.opt[0][k].master = NoTensor THEN state
       ELSE [state EXCEPT !.model =
               AllGathered(l, b, Range(b.refs), [r \in DOMAIN state.model |-> written(r)])]
AllCopied(sh, l, state) ==
    LET copied[k \in 0..Len(Buckets(sh, l))] ==
          IF k = 0 THEN state ELSE CopyMasterToModel(l, Buckets(sh, l)[k], copied[k - 1], k)
    IN copied[Len(Buckets(sh, l))]
Restored == MapOpt([saved.ranks EXCEPT !.model = [r \in DOMAIN @ |-> saved.ranks.model[0]]],
                   LAMBDA o : [o EXCEPT !.onHost = FALSE])
OLoad ==
    /\ saved # NoTensor
    /\ ranks' = AllCopied(shape, sharding, Restored)
    /\ whole' = saved.whole /\ updates' = saved.updates
    /\ UNCHANGED <<shape, sharding, saved>>

ONext == OStep \/ OMove \/ OClear \/ OSave \/ OLoad
OSpec == OInit /\ [][ONext]_ovars

(*------------------------------ properties ------------------------------*)
\* Every data-parallel rank runs the same model after every step, clear, move
\* and reload, with full or quantised state (_all_gather_bucket).
ReplicasAgree == \A r, q \in DOMAIN ranks.model : ranks.model[r] = ranks.model[q]

\* How parameters are cut into chunks, buckets and shards does not show: the
\* model is the one an optimizer with a single buffer would have, each element
\* updated once by every step whose gradient reached its parameter, from a
\* master copy that keeps what BF16 drops, a save and a reload included.
UpdatesAreUnsharded ==
    sharding.kind = "fp32" => \A r \in DOMAIN ranks.model : ranks.model[r] = whole.model[0]

\* The shards do not show: all ranks hold one model, the one of an optimizer that is not
\* sharded (adamw_fp32_master.py, adamw_8bit.py).
ShardingDoesNotShow == ReplicasAgree /\ UpdatesAreUnsharded
=============================================================================
