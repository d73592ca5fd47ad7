---------------------------- MODULE MoeDispatch ----------------------------
(***************************************************************************)
(* One mixture-of-experts layer with its experts split over a TP group:    *)
(* the routers (accel/csrc/topk.cu, router.cu), the permuted training path *)
(* with its backward (accel/csrc/moe_permute.cu, linear.cu) and the fused  *)
(* inference path (accel/csrc/moe_align_kernel.cu, kernels/fused_moe.py),  *)
(* as the Bailing, Gemma4, Qwen3 and Qwen3.5 blocks call them.             *)
(*                                                                         *)
(* A token is one integer.  A route is a number: token * TopK + position.  *)
(* The kernels place routes with atomicAdd, so a route is placed in any    *)
(* order (PlaceRoute); the ranks share nothing until the closing           *)
(* all_reduce, so they are taken one after the other.  Probabilities are   *)
(* kept as numerators over one denominator.                                *)
(***************************************************************************)
EXTENDS Integers, Sequences, FiniteSets, SequencesExt, FiniteSetsExt

CONSTANTS Members,      \* ranks of the TP group
          LocalExperts, \* experts a rank owns
          TopK, NumGroups, TopkGroup,
          TokenLogits,  \* the rows of logits a token may have
          Bias,         \* the expert bias of the grouped router, by expert
          TileM,        \* block_size_m
          SmallRoutes,  \* thresholds: below it one block plans alone (1024 in the code)
          Workers,      \* counting lanes of that block
          Scaling,      \* routed_scaling_factor
          Silu(_), SiluSlope(_) \* the gate's activation and its derivative

VARIABLES router,   \* "softmax", "normalised" (norm_topk_prob) or "grouped"
          logits,   \* by token
          routes,   \* by token: the chosen [expert, weight], best first
          limit,    \* the threshold
          path,     \* "route", "train", "infer"
          member,   \* the rank at work
          placed,   \* the routes its kernel has placed, in order
          mixture,  \* the layer's output, the all_reduce so far
          slopes    \* by rank: its gradients of tokens, route weights, down rows
mvars == <<router, limit, logits, routes, path, member, placed, mixture, slopes>>

NumExperts == Members * LocalExperts
Experts == 0..NumExperts-1
Toks == 0..Len(logits)-1
Addition(f, S) == FoldSet(LAMBDA x, acc : acc + f[x], 0, S)

(*------------------------------- routers --------------------------------*)
Lowest == -1000

InsertUnordered(slots, value, index) ==
    LET beaten == {p \in DOMAIN slots : value >= slots[p].value}
    IN IF beaten = {} THEN slots
       ELSE [p \in DOMAIN slots |->
               IF p < Min(beaten) THEN slots[p]
               ELSE IF p = Min(beaten) THEN [value |-> value, index |-> index] ELSE slots[p - 1]]

\* One insertion into k sorted slots; a tie goes to the smaller index.
InsertTopk(slots, value, index) ==
    LET ahead == {p \in DOMAIN slots : \/ value > slots[p].value
                                       \/ value = slots[p].value /\ index < slots[p].index}
    IN IF ahead = {} THEN slots
       ELSE [p \in DOMAIN slots |->
               IF p < Min(ahead) THEN slots[p]
               ELSE IF p = Min(ahead) THEN [value |-> value, index |-> index] ELSE slots[p - 1]]

\* Scanning indices in order.
Largest(k, unset, scan, value) ==
    FoldLeft(LAMBDA slots, i : InsertTopk(slots, value[i], i),
             [p \in 1..k |-> [value |-> Lowest, index |-> unset]], scan)
Scan(S) == SetToSortSeq(S, <)

\* expf of a logit, as a numerator; it underflows far below the maximum.
Prob(row) == [e \in Experts |-> IF row[e + 1] = 0 THEN 0 ELSE 2 ^ row[e + 1]]
TopKSoftmax(row) ==
    [k \in 1..TopK |-> LET best == Largest(TopK, 0, Scan(Experts), Prob(row))[k]
                       IN [expert |-> best.index, weight |-> best.value]]

\* The gradient of the logits, times total * chosen^2 (normalised: the
\* weights divided by their sum) or total^2, for upstream gradients 1, 2, ...
TopKSoftmaxBackward(row, chosen, normalised) ==
    LET p == Prob(row)
        total == Addition(p, Experts)
        sum == Addition([k \in 1..TopK |-> p[chosen[k].expert]], 1..TopK)
        weighted == Addition([k \in 1..TopK |-> k * p[chosen[k].expert]], 1..TopK)
        dprob == [e \in Experts |->
                    Addition([k \in 1..TopK |-> IF chosen[k].expert # e THEN 0
                                                ELSE IF normalised THEN (k * sum) - weighted ELSE k], 1..TopK)]
        dot == Addition([e \in Experts |-> dprob[e] * p[e]], Experts)
    IN [e \in Experts |-> p[e] * ((dprob[e] * total) - dot)]

\* Sigmoid scores select with the bias and weigh without it.
Score01(row) == [e \in Experts |-> row[e + 1]]
PerGroup == NumExperts \div NumGroups
GroupedTopK(row) ==
    LET score == Score01(row)
        biased == [e \in Experts |-> score[e] + Bias[e + 1]]
        k == TopK \div TopkGroup
        groupScore == [g \in 0..NumGroups-1 |->
            LET top == Largest(k, NumExperts, Scan(g * PerGroup..((g + 1) * PerGroup) - 1), biased)
            IN Addition([p \in 1..k |-> top[p].value], 1..k)]
        groups == {Largest(TopkGroup, NumGroups, Scan(0..NumGroups-1), groupScore)[p].index : p \in 1..TopkGroup}
        open == {e \in Experts : e \div PerGroup \in groups}
    IN [p \in 1..TopK |-> LET e == Largest(TopK, 0, Scan(open), biased)[p].index
                          IN [expert |-> e, weight |-> score[e]]]

(*--------------------------- experts and routes --------------------------*)
\* Tokens and weights of the experts: any distinct small values.
TokenValue(t) == t + 1
GateRow(e) == e + 1
UpRow(e) == 2 - (e % 2)
DownRow(e) == 3 - e
LossSlope(t) == 2 - (3 * t)

Routes == 0..(Len(logits) * TopK) - 1
TokenOf(r) == r \div TopK
RouteExpert(r) == routes[TokenOf(r) + 1][(r % TopK) + 1].expert
RouteWeight(r) == routes[TokenOf(r) + 1][(r % TopK) + 1].weight
Activated(e, x) == Silu(GateRow(e) * x) * UpRow(e) * x
ActivatedSlope(e, x) ==
    (SiluSlope(GateRow(e) * x) * GateRow(e) * UpRow(e) * x) + (Silu(GateRow(e) * x) * UpRow(e))

(*------------------------- the training path ----------------------------*)
\* A route is materialised on the rank that owns its expert, if it weighs.
Owned(r) ==
    LET local == RouteExpert(r) - (member * LocalExperts)
    IN local \in 0..LocalExperts-1 /\ RouteWeight(r) # 0
RouteCount(l) == Cardinality({r \in Routes : Owned(r) /\ RouteExpert(r) - (member * LocalExperts) = l})
RouteOffset(l) == Addition([i \in 0..LocalExperts-1 |-> RouteCount(i)], 0..l-1)
\* offsets[expert] + atomicAdd(counters + expert, 1), rows from 0.
PermutedRow(p) ==
    LET l == RouteExpert(placed[p]) - (member * LocalExperts)
    IN RouteOffset(l) + Cardinality({q \in 1..p-1 : RouteExpert(placed[q]) = RouteExpert(placed[p])})
TokenIndex == [row \in 0..Len(placed)-1 |-> placed[CHOOSE p \in DOMAIN placed : PermutedRow(p) = row]]
\* The expert whose slab of rows a grouped linear multiplies row by.
SlabExpert(row) ==
    (member * LocalExperts) + CHOOSE l \in 0..LocalExperts-1 :
        row \in RouteOffset(l)..RouteOffset(l) + RouteCount(l) - 1

Unpermute(rows) ==
    [t \in Toks |-> Addition(rows, {row \in DOMAIN rows : TokenOf(TokenIndex[row]) = t})]
ExpertRows ==
    [row \in DOMAIN TokenIndex |->
       DownRow(SlabExpert(row)) * Activated(SlabExpert(row), TokenValue(TokenOf(TokenIndex[row])))
         * RouteWeight(TokenIndex[row])]
TrainedMixture == [t \in Toks |-> Unpermute(ExpertRows)[t] * Scaling]

\* Backward: the output slopes gathered by row, through the two grouped
\* linears, scattered back by token, by route and by expert.  The backward
\* of the closing all_reduce is the identity, and the input of the experts
\* is not copied to a TP region: no rank's gradient meets another's here.
GatheredSlope(row) == LossSlope(TokenOf(TokenIndex[row])) * Scaling
RowValue(row) == TokenValue(TokenOf(TokenIndex[row]))
\* Back to the (token, position) each row came from; other routes keep zero.
WeightSlopes(rows) ==
    [r \in Routes |-> Addition(rows, {row \in DOMAIN rows : TokenIndex[row] = r})]
TrainedSlopes ==
    [tokens |-> Unpermute([row \in DOMAIN TokenIndex |->
         GatheredSlope(row) * DownRow(SlabExpert(row)) * RouteWeight(TokenIndex[row])
           * ActivatedSlope(SlabExpert(row), RowValue(row))]),
     weights |-> WeightSlopes([row \in DOMAIN TokenIndex |->
         GatheredSlope(row) * DownRow(SlabExpert(row)) * Activated(SlabExpert(row), RowValue(row))]),
     down |-> [e \in Experts |-> Addition([row \in DOMAIN TokenIndex |->
         GatheredSlope(row) * RouteWeight(TokenIndex[row]) * Activated(e, RowValue(row))],
         {row \in DOMAIN TokenIndex : SlabExpert(row) = e})]]

(*------------------------- the inference path ---------------------------*)
\* local_routes: ids clamped into the rank's range, foreign weights zero.
ClampedExpert(r) ==
    LET l == RouteExpert(r) - (member * LocalExperts)
    IN IF l < 0 THEN 0 ELSE IF l >= LocalExperts THEN LocalExperts - 1 ELSE l
UnmaskedWeight(r) == RouteWeight(r)
LocalWeight(r) ==
    IF RouteExpert(r) \div LocalExperts = member THEN RouteWeight(r) ELSE 0

\* The planner's slots: slot 0 for expert -1, slot e + 1 for local expert e.
PlanSlots == 0..LocalExperts
SlotRoutes(s) == {r \in Routes : ClampedExpert(r) + 1 = s}
PaddedCount(s) == ((Cardinality(SlotRoutes(s)) + TileM - 1) \div TileM) * TileM
PaddedOffset(s) == Addition([i \in PlanSlots |-> PaddedCount(i)], 0..s-1)
PaddedTotal == PaddedOffset(LocalExperts + 1)

\* A small batch is placed by one block: by lane, then by route.
SmallPlan == Len(logits) * TopK < limit
LaneOrder == SetToSortSeq(Routes, LAMBDA a, b : \/ a % Workers < b % Workers
                                                \/ a % Workers = b % Workers /\ a < b)
PlacedIds == IF SmallPlan THEN LaneOrder ELSE placed
Sentinel == Len(logits) * TopK
SortedId(i) ==
    LET at == {p \in DOMAIN PlacedIds :
                 LET s == ClampedExpert(PlacedIds[p]) + 1
                 IN i = PaddedOffset(s) + Cardinality({q \in 1..p-1 : ClampedExpert(PlacedIds[q]) + 1 = s})}
    IN IF at = {} THEN Sentinel ELSE PlacedIds[CHOOSE p \in at : TRUE]
\* The expert of a block: the range that holds its start, or by bisection
\* the last slot that starts no later.
BlockExpert(b) ==
    IF SmallPlan
    THEN (CHOOSE s \in PlanSlots : b * TileM \in PaddedOffset(s)..PaddedOffset(s + 1) - 1) - 1
    ELSE Max({s \in PlanSlots : PaddedOffset(s) <= b * TileM}) - 1

\* The fused matmul: what tile b, lane i writes for its route; the padding
\* lanes are masked, a block of expert -1 writes zeros.
TileRoutes(b) == {r \in Routes : \E i \in b * TileM..((b + 1) * TileM) - 1 : SortedId(i) = r}
FusedMatmul(operand, weightOf, weigh) ==
    [r \in Routes |->
       LET b == CHOOSE x \in 0..(PaddedTotal \div TileM) - 1 : r \in TileRoutes(x)
       IN IF BlockExpert(b) = -1 THEN 0
          ELSE weightOf[(member * LocalExperts) + BlockExpert(b)] * operand[r]
                 * (IF weigh THEN LocalWeight(r) ELSE 1)]
\* All top_k slots of a token, scaled.
SumReduce(slots) == [t \in Toks |-> Addition(slots, {r \in Routes : TokenOf(r) = t}) * Scaling]
\* The first projections of a token read row route // top_k; the last reads the
\* route's own row.
FusedExperts ==
    LET x == [r \in Routes |-> TokenValue(TokenOf(r))]
        gate == FusedMatmul(x, [e \in Experts |-> GateRow(e)], FALSE)
        up == FusedMatmul(x, [e \in Experts |-> UpRow(e)], FALSE)
        hidden == [r \in Routes |-> Silu(gate[r]) * up[r]]
        down == FusedMatmul(hidden, [e \in Experts |-> DownRow(e)], TRUE)
    IN SumReduce(down)

(*------------------------------- behaviour ------------------------------*)
NoSlopes == [tokens |-> [t \in Toks |-> 0], weights |-> [r \in Routes |-> 0], down |-> [e \in Experts |-> 0]]
MoeIdle ==
    /\ routes = << >> /\ path = "route" /\ member = 0 /\ placed = << >>
    /\ mixture = << >> /\ slopes = << >>
MoeInit ==
    /\ router \in {"softmax", "normalised", "grouped"}
    /\ limit \in SmallRoutes
    /\ logits \in [1..2 -> TokenLogits]
    /\ MoeIdle

\* The router's kernel; then the training or the inference branch.
RouteTokens ==
    /\ path = "route"
    /\ routes' = [t \in DOMAIN logits |->
                    IF router = "grouped" THEN GroupedTopK(logits[t]) ELSE TopKSoftmax(logits[t])]
    /\ path' \in {"train", "infer"}
    /\ mixture' = [t \in Toks |-> 0] /\ slopes' = << >>
    /\ UNCHANGED <<router, limit, logits, member, placed>>

ToPlace == IF path = "train" THEN {r \in Routes : Owned(r)} ELSE IF SmallPlan THEN {} ELSE Routes
PlaceRoute ==
    /\ path # "route" /\ member < Members
    /\ \E r \in ToPlace \ Range(placed) : placed' = Append(placed, r)
    /\ UNCHANGED <<router, limit, logits, routes, path, member, mixture, slopes>>

Combine(a, b) == [i \in DOMAIN a |-> a[i] + b[i]]

\* A rank without routes contributes zeros and stays in the collective.
NoRoutesHere ==
    /\ path = "train" /\ member < Members /\ ToPlace = {}
    /\ slopes' = Append(slopes, NoSlopes) /\ member' = member + 1
    /\ UNCHANGED <<router, limit, logits, routes, path, placed, mixture>>

TrainExperts ==
    /\ path = "train" /\ member < Members /\ ToPlace # {} /\ ToPlace = Range(placed)
    /\ mixture' = Combine(mixture, TrainedMixture)
    /\ slopes' = Append(slopes, TrainedSlopes)
    /\ member' = member + 1 /\ placed' = << >>
    /\ UNCHANGED <<router, limit, logits, routes, path>>

InferExperts ==
    /\ path = "infer" /\ member < Members /\ ToPlace = Range(placed)
    /\ mixture' = Combine(mixture, FusedExperts)
    /\ member' = member + 1 /\ placed' = << >>
    /\ UNCHANGED <<router, limit, logits, routes, path, slopes>>

MoeNext == RouteTokens \/ PlaceRoute \/ NoRoutesHere \/ TrainExperts \/ InferExperts
MoeSpec == MoeInit /\ [][MoeNext]_mvars

(*------------------------------ properties ------------------------------*)
Beats(score, a, b) == score[a] > score[b] \/ (score[a] = score[b] /\ a < b)
Ranked(score, S, k) == {a \in S : Cardinality({b \in S : Beats(score, b, a)}) < k}
BestOf(row) ==
    IF router # "grouped" THEN Ranked(Prob(row), Experts, TopK)
    ELSE LET biased == [e \in Experts |-> row[e + 1] + Bias[e + 1]]
             InGroup(g) == {e \in Experts : e \div PerGroup = g}
             worth == [g \in 0..NumGroups-1 |-> Addition(biased, Ranked(biased, InGroup(g), TopK \div TopkGroup))]
         IN Ranked(biased, UNION {InGroup(g) : g \in Ranked(worth, 0..NumGroups-1, TopkGroup)}, TopK)
\* d weight_k / d logit_e of the softmax weights, times the denominators.
SoftmaxSlope(row, chosen, k, e) ==
    LET p == Prob(row)
        all == IF router = "normalised" THEN {chosen[i].expert : i \in 1..TopK} ELSE Experts
        i == chosen[k].expert
    IN (IF e = i THEN p[i] * Addition(p, all) ELSE 0) - (IF e \in all THEN p[i] * p[e] ELSE 0)

\* Every token gets the TopK best experts (of the best groups, by biased
\* score), each once and weighed by its own unbiased score; and the router's
\* backward is the derivative of those weights.  grouped_topk_router_kernel,
\* topk_softmax_forward_kernel and topk_softmax_backward_kernel against the
\* definition of a top-k.
RoutersPickTheBest ==
    path # "route" => \A t \in DOMAIN logits :
      /\ {routes[t][k].expert : k \in 1..TopK} = BestOf(logits[t])
      /\ \A k \in 1..TopK :
           routes[t][k].weight = (IF router = "grouped" THEN Score01(logits[t]) ELSE Prob(logits[t]))[routes[t][k].expert]
      /\ router # "grouped" =>
           LET g == TopKSoftmaxBackward(logits[t], routes[t], router = "normalised")
               total == Addition(Prob(logits[t]), Experts)
           IN \A e \in Experts :
                g[e] = (IF router = "normalised" THEN total ELSE 1)
                       * Addition([k \in 1..TopK |-> k * SoftmaxSlope(logits[t], routes[t], k, e)], 1..TopK)

Mixture(t) ==
    Scaling * Addition([r \in Routes |-> RouteWeight(r) * DownRow(RouteExpert(r)) * Activated(RouteExpert(r), TokenValue(t))],
                       {r \in Routes : TokenOf(r) = t})

\* What rank m should learn: the derivatives of the part of the mixture its
\* own experts compute, zero for the experts of other ranks.
OwnRoute(m, r) == RouteExpert(r) \div LocalExperts = m
Share(m) ==
    [tokens |-> [t \in Toks |-> LossSlope(t) * Scaling * Addition([r \in Routes |->
         RouteWeight(r) * DownRow(RouteExpert(r)) * ActivatedSlope(RouteExpert(r), TokenValue(t))],
         {r \in Routes : TokenOf(r) = t /\ OwnRoute(m, r)})],
     weights |-> [r \in Routes |-> IF ~OwnRoute(m, r) THEN 0 ELSE
         LossSlope(TokenOf(r)) * Scaling * DownRow(RouteExpert(r)) * Activated(RouteExpert(r), TokenValue(TokenOf(r)))],
     down |-> [e \in Experts |-> Addition([r \in Routes |->
         LossSlope(TokenOf(r)) * Scaling * RouteWeight(r) * Activated(e, TokenValue(TokenOf(r)))],
         {r \in Routes : RouteExpert(r) = e /\ OwnRoute(m, r)})]]

\* Whatever the routing, the order of the atomics, the padding and the split
\* of the experts, both paths add up to the weighted mixture of the chosen
\* experts at every token: what is trained is what was sampled.  In training
\* each rank gets the derivatives of its own experts' part of the mixture,
\* for the weights of materialised routes: of an expert's rows that is the
\* mixture's gradient, of a route's weight the owner has it and the others
\* zero, until the gate's marked parameters are summed over ranks; of a
\* token's value it is a part, which nothing in the code adds to the others.
DispatchIsTheMixture ==
    path # "route" /\ member = Members =>
      /\ \A t \in Toks : mixture[t] = Mixture(t)
      /\ path = "train" =>
           \A m \in 0..Members-1 :
             /\ slopes[m + 1].tokens = Share(m).tokens
             /\ slopes[m + 1].down = Share(m).down
             /\ \A r \in Routes : RouteWeight(r) # 0 => slopes[m + 1].weights[r] = Share(m).weights[r]

\* Router and dispatch together: every token gets the weighted outputs of its own best
\* experts, in training and in rollout, and each rank the gradients of its own experts' part
\* and no other's (BailingSparseMoeBlock, Qwen3MoeMLP, Gemma4MoeExperts).
ExpertsAgree == RoutersPickTheBest /\ DispatchIsTheMixture
=============================================================================
