-------------------------- MODULE TensorParallel --------------------------
(***************************************************************************)
(* One decoder layer split over a tensor-parallel group, forward, backward *)
(* and the gradient synchronisation before the optimizer step              *)
(* (engine/layers/*.py, engine/parallel/collectives.py, engine/training.py,*)
(* engine/runtime/train_step.py, models/qwen3, models/qwen3_5).            *)
(*                                                                         *)
(* The hidden size is one and every layer is linear, so that a tensor over *)
(* the sequence is a sequence of integers; what is kept is which rank holds*)
(* which rows, which rank adds what, and where a sum crosses ranks.  The   *)
(* weights of a net: embed and head by vocabulary entry, pre and post the  *)
(* scales of the norms before the layer and before the head, gain a scale  *)
(* shared by the heads (q_norm, norm_weight of a delta net, the scales of  *)
(* experts), up and down by head or expert, kv by key/value head.  Ranks   *)
(* are 0..T-1, rows are 1..n.                                              *)
(***************************************************************************)
EXTENDS Integers, Sequences, FiniteSets, Functions

CONSTANTS Nets,    \* records of the weights above
          Packs,   \* records [tokens, upstream, routes]: tokens, dL/dlogits, chosen experts
          Layouts, \* records [tp, kind, hook]: sizes and kinds of layer
          MaxPacks \* bound on the accumulated microbatches

\* Layers are built only for sizes their ranges divide (_shard_range and _kv_shard_range raise),
\* and there is a gradient for every row of the vocabulary.
ASSUME LayoutsAssumption == Layouts \subseteq [tp : Nat \ {0}, kind : {"dense", "delta", "moe"}, hook : BOOLEAN]
ASSUME NetsAssumption ==
    \A n \in Nets :
      /\ n \in [embed : Seq(Int), head : Seq(Int), pre : Int, post : Int, gain : Int,
                up : Seq(Int), down : Seq(Int), kv : Seq(Int)]
      /\ Len(n.down) = Len(n.up) /\ Len(n.kv) # 0
      /\ \A l \in Layouts :
           /\ Len(n.embed) % l.tp = 0 /\ Len(n.head) % l.tp = 0 /\ Len(n.up) % l.tp = 0
           /\ Len(n.kv) % l.tp = 0 \/ l.tp % Len(n.kv) = 0
ASSUME PacksAssumption ==
    \A p \in Packs : /\ p.tokens \in Seq(Nat)
                     /\ \A n \in Nets : \A s \in DOMAIN p.tokens, v \in DOMAIN n.head : p.upstream[s][v] \in Int

VARIABLES net, layout,
          logits,  \* of the last microbatch: by rank, by position, by own vocabulary row
          grads,   \* main_grad: by rank, a record like a net, over the rows the rank holds
          packs,   \* the microbatches accumulated
          phase    \* "accumulate", "stepping"
tpvars == <<net, layout, logits, grads, packs, phase>>

Ranks(T) == 0..T-1

(*------------------------------- shards ---------------------------------*)
\* _shard_range: rows start..end of an even partition.
ShardRange(size, r, T) == (r * (size \div T) + 1)..((r + 1) * (size \div T))

\* _kv_shard_range: whole heads, replicated when the group is wider.
KvShard(heads, r, T) ==
    IF heads % T = 0 THEN ShardRange(heads, r, T) ELSE {r \div (T \div heads) + 1}

(*---------------- collectives over [Ranks -> Seq(Int)] ------------------*)
AllReduce(X) == [r \in DOMAIN X |-> [s \in DOMAIN X[r] |-> SumFunction([q \in DOMAIN X |-> X[q][s]])]]

\* The boundary of a column-parallel layer copies, its dual sums.
EnterBackwardUnsummed(G) == G
EnterBackward(G) == AllReduce(G)

Scale(w, X) == [r \in DOMAIN X |-> [s \in DOMAIN X[r] |-> w * X[r][s]]]
Plus(X, Y) == [r \in DOMAIN X |-> [s \in DOMAIN X[r] |-> X[r][s] + Y[r][s]]]
Dot(x, y) == SumFunction([s \in DOMAIN x |-> x[s] * y[s]])

(*------------------------------- forward --------------------------------*)
\* The key/value head a query head reads.
KvOf(n, f) == ((f - 1) * Len(n.kv)) \div Len(n.up) + 1

\* The heads (or experts) a rank applies to position s.
Active(n, p, l, r, s) ==
    {f \in ShardRange(Len(n.up), r, l.tp) : l.kind = "moe" => p.routes[s] = f}
Mid(n, f, h) == n.gain * (n.up[f] + n.kv[KvOf(n, f)]) * h

Embedded(n, p, l) ==
    LET partial == [r \in Ranks(l.tp) |-> [s \in DOMAIN p.tokens |->
                      IF p.tokens[s] \in ShardRange(Len(n.embed), r, l.tp)
                      THEN n.embed[p.tokens[s]] ELSE 0]]
    IN AllReduce(partial)

\* What a rank's heads or experts add at every position it has, and the sum.
\* Experts do not pass the column boundary: each rank permutes all tokens.
Branch(n, p, l, inner) ==
    [r \in DOMAIN inner |-> [s \in DOMAIN inner[r] |->
       SumFunction([f \in Active(n, p, l, r, s) |-> n.down[f] * Mid(n, f, inner[r][s])])]]
Logits(n, l, z) ==
    [r \in DOMAIN z |-> [s \in DOMAIN z[r] |->
       [v \in ShardRange(Len(n.head), r, l.tp) |-> n.head[v] * z[r][s]]]]

\* Every value the backward pass needs.
Forward(n, p, l) ==
    LET x == Embedded(n, p, l)
        inner == Scale(n.pre, x)
        partial == Branch(n, p, l, inner)
        y == Plus(x, AllReduce(partial))
        z == Scale(n.post, y)
    IN [x |-> x, inner |-> inner, y |-> y, z |-> z, logits |-> Logits(n, l, z)]

(*------------------------------- backward -------------------------------*)
\* Replicated K/V rows: the hook averages them over the ranks that hold a copy.  Their
\* gradients are kept times the number of copies, so that the average is a whole number.
Copies(n, l, r) == {q \in Ranks(l.tp) : KvShard(Len(n.kv), q, l.tp) = KvShard(Len(n.kv), r, l.tp)}
HookMissed(n, l, G) == G
Hook(n, l, G) ==
    IF ~l.hook \/ Len(n.kv) % l.tp = 0 THEN G
    ELSE [r \in DOMAIN G |-> [k \in DOMAIN G[r] |->
            SumFunction([q \in Copies(n, l, r) |-> G[q][k]]) \div Cardinality(Copies(n, l, r))]]

\* The gradient of the normalised output, summed over the head's rows of every rank.
NormedSlope(n, p, l) ==
    LET dz == [r \in Ranks(l.tp) |-> [s \in DOMAIN p.tokens |->
                 SumFunction([w \in ShardRange(Len(n.head), r, l.tp) |-> p.upstream[s][w] * n.head[w]])]]
    IN EnterBackward(dz)

\* The gradients of one rank.  Only the column boundary sums a gradient over ranks; a scale
\* inside it, an expert and a copy of K/V get what the rank's own heads make of them.
Differentiate(n, p, l, v, dnormed) ==
    LET dy == Scale(n.post, dnormed)
        Weight(f) == n.down[f] * n.gain * (n.up[f] + n.kv[KvOf(n, f)])
        dinner == [r \in DOMAIN dy |-> [s \in DOMAIN dy[r] |->
                     dy[r][s] * SumFunction([f \in Active(n, p, l, r, s) |-> Weight(f)])]]
        dpre == IF l.kind = "moe" THEN dinner ELSE EnterBackward(dinner)
        dx == Plus(dy, Scale(n.pre, dpre))
        At(r, f) == {s \in DOMAIN dy[r] : f \in Active(n, p, l, r, s)}
        Read(r, f) == SumFunction([s \in At(r, f) |-> dy[r][s] * n.down[f] * n.gain * v.inner[r][s]])
        kv == [r \in Ranks(l.tp) |-> [k \in KvShard(Len(n.kv), r, l.tp) |->
                 Cardinality(Copies(n, l, r)) *
                 SumFunction([f \in {g \in ShardRange(Len(n.up), r, l.tp) : KvOf(n, g) = k} |-> Read(r, f)])]]
    IN [r \in Ranks(l.tp) |->
         [pre |-> Dot(dpre[r], v.x[r]),
          post |-> Dot(dnormed[r], v.y[r]),
          gain |-> SumFunction([f \in ShardRange(Len(n.up), r, l.tp) |->
                     SumFunction([s \in At(r, f) |->
                       dy[r][s] * n.down[f] * (n.up[f] + n.kv[KvOf(n, f)]) * v.inner[r][s]])]),
          head |-> [w \in ShardRange(Len(n.head), r, l.tp) |->
                      SumFunction([s \in DOMAIN p.tokens |-> p.upstream[s][w] * v.z[r][s]])],
          embed |-> [t \in ShardRange(Len(n.embed), r, l.tp) |->
                      SumFunction([s \in {i \in DOMAIN p.tokens : p.tokens[i] = t} |-> dx[r][s]])],
          up |-> [f \in ShardRange(Len(n.up), r, l.tp) |-> Read(r, f)],
          down |-> [f \in ShardRange(Len(n.up), r, l.tp) |->
                      SumFunction([s \in At(r, f) |-> dy[r][s] * Mid(n, f, v.inner[r][s])])],
          kv |-> Hook(n, l, kv)[r]]]

\* The backward pass of one microbatch, by rank.
Backward(n, p, l) == Differentiate(n, p, l, Forward(n, p, l), NormedSlope(n, p, l))

(*--------------------------- gradient handling --------------------------*)
Sharded == {"head", "embed", "up", "down", "kv"}
Scales == {"pre", "post", "gain"}

\* The parameters marked tp_grad_allreduce: every RMSNorm, but not norm_weight of a delta net.
Replicated(l) == IF l.kind = "delta" THEN {"pre", "post"} ELSE Scales

\* _accumulate_main_gradients.
AddRows(a, b) == [i \in DOMAIN a |-> a[i] + b[i]]
AddGrads(a, b) ==
    [k \in DOMAIN a |-> IF k \in Sharded THEN AddRows(a[k], b[k]) ELSE a[k] + b[k]]

\* _sync_tensor_parallel_replicated_gradients: a sum over the group.
SyncReplicated(l, G) ==
    [r \in DOMAIN G |-> [k \in DOMAIN G[r] |->
       IF k \in Replicated(l) THEN SumFunction([q \in DOMAIN G |-> G[q][k]]) ELSE G[r][k]]]

(*------------------------------- behaviour ------------------------------*)
TPInit ==
    /\ net \in Nets /\ layout \in Layouts
    /\ logits = << >> /\ grads = << >> /\ packs = << >> /\ phase = "accumulate"

\* One forward and backward pass on every rank of the group.
TPMicrobatch ==
    /\ phase = "accumulate" /\ Len(packs) < MaxPacks
    /\ \E p \in Packs :
         /\ logits' = Forward(net, p, layout).logits
         /\ packs' = Append(packs, p)
         /\ LET g == Backward(net, p, layout)
            IN grads' = IF packs = << >> THEN g
                        ELSE [r \in DOMAIN g |-> AddGrads(grads[r], g[r])]
    /\ UNCHANGED <<net, layout, phase>>

\* The microbatch that may step: its gradients synchronised.
TPStep ==
    /\ phase = "accumulate" /\ packs # << >>
    /\ grads' = SyncReplicated(layout, grads)
    /\ phase' = "stepping"
    /\ UNCHANGED <<net, layout, logits, packs>>

TPNext == TPMicrobatch \/ TPStep
TPSpec == TPInit /\ [][TPNext]_tpvars

(*------------------------------ properties ------------------------------*)
Unsharded(l) == [l EXCEPT !.tp = 1]
LastPack == packs[Len(packs)]
WholeGrads(n) ==
    LET g(p) == Backward(n, p, Unsharded(layout))[0]
        sum[i \in 1..Len(packs)] == IF i = 1 THEN g(packs[1]) ELSE AddGrads(sum[i - 1], g(packs[i]))
    IN sum[Len(packs)]

\* The net in which only the heads (or experts) of rank r add anything.
Alone(n, l, r) ==
    [n EXCEPT !.down = [f \in DOMAIN n.down |-> IF f \in ShardRange(Len(n.up), r, l.tp)
                                                 THEN n.down[f] ELSE 0]]

LogitsAreWhole ==
    LET whole == Forward(net, LastPack, Unsharded(layout)).logits[0] IN
    \A r \in DOMAIN logits, s \in DOMAIN logits[0] : \A v \in DOMAIN logits[r][s] :
      logits[r][s][v] = whole[s][v]

\* The embedding is behind the layer: with experts, which do not pass the column boundary,
\* a rank's rows learn from its own experts alone.
RowsAreWhole ==
    LET whole == WholeGrads(net) IN
    \A r \in DOMAIN grads :
      LET learnt == WholeGrads(IF layout.kind = "moe" THEN Alone(net, layout, r) ELSE net) IN
      /\ \A k \in {"head", "up", "down"} : \A i \in DOMAIN grads[r][k] : grads[r][k][i] = whole[k][i]
      /\ \A i \in DOMAIN grads[r].embed : grads[r].embed[i] = learnt.embed[i]

\* The ranks that hold one K/V head share its gradient between them: equally with the hook
\* of Qwen35ReplicatedKVQKVLinear, otherwise each has the part of its own query heads.
CopiesShareTheGradient ==
    LET whole == WholeGrads(net).kv IN
    \A r \in DOMAIN grads : \A k \in DOMAIN grads[r].kv :
      LET copies == Copies(net, layout, r) IN
      /\ SumFunction([q \in copies |-> grads[q].kv[k]]) = Cardinality(copies) * whole[k]
      /\ layout.hook => \A q \in copies : grads[q].kv[k] = grads[r].kv[k]

\* A scale outside the column boundary, of which every rank has the whole gradient, is
\* summed all the same.  The parts of one inside it are summed if it is marked.
TimesSummed(l, k) == IF k = "gain" \/ (k = "pre" /\ l.kind = "moe") THEN 1 ELSE l.tp
ScalesAreSummed ==
    LET whole == WholeGrads(net) IN
    \A k \in Scales :
      LET all == TimesSummed(layout, k) * whole[k] IN
      IF phase = "stepping" /\ k \in Replicated(layout)
      THEN \A r \in DOMAIN grads : grads[r][k] = all
      ELSE SumFunction([r \in DOMAIN grads |-> grads[r][k]]) = all

\* With rows packed, a layer split over any number of ranks computes the logits of the whole
\* layer.  What it accumulates relates to the whole layer's gradients as the code's sums have
\* it, for each kind of weight: equal, a share of it, or (norms) that many times it.
SplitLayerIsWhole ==
    packs # << >> => LogitsAreWhole /\ RowsAreWhole /\ CopiesShareTheGradient /\ ScalesAreSummed

=============================================================================
