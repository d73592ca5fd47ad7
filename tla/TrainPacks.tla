--------------------------- MODULE TrainPacks ---------------------------
(***************************************************************************)
(* One train call: rows of a trainer become padded packs of mini_bs rows   *)
(* (api/backend/areno/backend.py), each pack is sharded over data-parallel *)
(* ranks (engine/runtime/common.py), packed without padding (train_step.py)*)
(* and its loss accumulated over a window of packs (training.py, roles.py).*)
(*                                                                         *)
(* A row is the kind of its tokens: "c" context, "r" response, "x" response*)
(* that the loss mask leaves out.  A signal of token t of row i is named   *)
(* by what it says: <<i, t>> is the model's word on that token, which it   *)
(* gives from the position before; Nil is padding or a dummy.             *)
(***************************************************************************)
EXTENDS Integers, Sequences, FiniteSets, SequencesExt, FiniteSetsExt

CONSTANT Calls  \* records [algo, rows, mini, accumulation, dp]; accumulation 0 stands for None

VARIABLES call,
          index,    \* packs done
          window,   \* what the packs since the last optimizer step contributed
          updates   \* the windows that were stepped
tvars == <<call, index, window, updates>>

Nil == <<0, 0>>
Absent == << >>
Least(a, b) == IF a < b THEN a ELSE b

(*------------------------- rows of the trainers --------------------------*)
Says(i, from, to) == [t \in 1..(to - from + 1) |-> <<i, from + t - 1>>]
Zeros(n) == [t \in 1..n |-> Nil]
Answered(row) == {t \in DOMAIN row : row[t] # "c"}

\* A role's rows: the log-probability of token t stands at t, the value read before it at t-1.
RoleLogprobs(i, row) == <<Nil>> \o Says(i, 2, Len(row))
RoleValues(i, row) == Says(i, 2, Len(row) + 1)

\* compute_gae, backwards: the delta of token u counts (gamma lam)^k in the advantage of u - k.
\* An advantage is the set of its <<k, value of u>>, {} for 0.0; the return is the advantage
\* plus the value.
Gae(values) ==
    LET Step(acc, t) == LET a == {<<0, values[t]>>} \cup {<<p[1] + 1, p[2]>> : p \in acc.last}
                        IN [last |-> a, all |-> <<a>> \o acc.all]
    IN FoldLeft(Step, [last |-> {}, all |-> << >>], [k \in DOMAIN values |-> Len(values) + 1 - k]).all

\* The plausible mistake: the window of the values starts at the first response token.
ValueWindowLate(i, row, prefix, n) == SubSeq(RoleValues(i, row), prefix + 1, prefix + n)

\* The value used for a response token is the one read at the token before it.
ValueWindow(i, row, prefix, n) == SubSeq(RoleValues(i, row), prefix, prefix + n - 1)

\* A row of PPOTrainer is a prompt and its response, or, from an agent, turns with context between.
PromptRow(row) == \A t \in DOMAIN row : row[t] = "r" <=> t >= Min(Answered(row))
Agentic == \E i \in DOMAIN call.rows : ~PromptRow(call.rows[i])

\* PPOTrainer, a prompt batch: every signal is the window of the response behind zeros.
PPOPromptRow(i, row) ==
    LET prefix == Min(Answered(row)) - 1
        n == Len(row) - prefix
        values == ValueWindow(i, row, prefix, n)
    IN [logprobs |-> Zeros(prefix) \o SubSeq(RoleLogprobs(i, row), prefix + 1, prefix + n),
        values |-> Zeros(prefix) \o values, returns |-> Zeros(prefix) \o values,
        advantages |-> [t \in 1..prefix |-> {}] \o Gae(values),
        ref_logprobs |-> RoleLogprobs(i, row)]

\* PPOTrainer, an agent's batch: the same windows, spread over the response tokens; the
\* advantages of tokens outside the loss mask are zeroed.
PPOAgentRow(i, row) ==
    LET prefix == Min(Answered(row)) - 1
        n == Cardinality(Answered(row))
        values == ValueWindow(i, row, prefix, n)
        gae == Gae(values)
        Spread(xs, on, zero) == [t \in DOMAIN row |->
                         IF t \in on THEN xs[Cardinality({u \in Answered(row) : u <= t})] ELSE zero]
    IN [logprobs |-> Zeros(prefix) \o SubSeq(RoleLogprobs(i, row), prefix + 1, prefix + n),
        values |-> Spread(values, Answered(row), Nil),
        returns |-> Spread(values, Answered(row), Nil),
        advantages |-> Spread(gae, {t \in DOMAIN row : row[t] = "r"}, {}),
        ref_logprobs |-> RoleLogprobs(i, row)]

\* The policy trainers keep the rollout's scores, and the advantage of the row.
PolicyRow(i, row) ==
    [logprobs |-> [t \in DOMAIN row |-> IF row[t] # "c" THEN <<i, t>> ELSE Nil],
     advantages |-> [t \in DOMAIN row |-> IF row[t] = "r" THEN {<<0, <<i, t>>>>} ELSE {}],
     ref_logprobs |-> << >>, values |-> << >>, returns |-> << >>]

\* SFT fills dummies; DPO does, and adds the reference's scores with zero values and returns.
SFTRow(row) ==
    [logprobs |-> Zeros(Len(row)), advantages |-> [t \in DOMAIN row |-> {}],
     ref_logprobs |-> << >>, values |-> << >>, returns |-> << >>]
DPORow(i, row) ==
    [SFTRow(row) EXCEPT !.ref_logprobs = RoleLogprobs(i, row), !.values = Zeros(Len(row)), !.returns = Zeros(Len(row))]

\* A TrainSequence.  SFT and PPO without an agent carry no loss mask.
Sequence(algo, i, row) ==
    (CASE algo \in {"ppo", "critic"} -> IF Agentic THEN PPOAgentRow(i, row) ELSE PPOPromptRow(i, row)
       [] algo = "policy" -> PolicyRow(i, row)
       [] algo = "sft" -> SFTRow(row)
       [] algo = "dpo" -> DPORow(i, row)) @@
    [tokens |-> Says(i, 1, Len(row)),
     prompt_mask |-> [t \in DOMAIN row |-> row[t] = "c"],
     loss_mask |-> IF \E t \in DOMAIN row : row[t] = "x" THEN [t \in DOMAIN row |-> row[t] = "r"] ELSE << >>]

(*------------------------- packing and sharding --------------------------*)
\* pad_rows
Padded(rows, fill, width) ==
    [k \in DOMAIN rows |-> [t \in 1..width |-> IF t <= Len(rows[k]) THEN rows[k][t] ELSE fill]]

\* _make_train_pack
MakePack(seqs) ==
    LET width == Max({Len(seqs[k].tokens) : k \in DOMAIN seqs})
        Col(f) == [k \in DOMAIN seqs |-> seqs[k][f]]
        Optional(f) == IF \E k \in DOMAIN seqs : seqs[k][f] # << >> THEN Padded(Col(f), Nil, width) ELSE Absent
        Unmasked(k) == [t \in DOMAIN seqs[k].prompt_mask |-> ~seqs[k].prompt_mask[t]]
        masks == [k \in DOMAIN seqs |-> IF seqs[k].loss_mask # << >> THEN seqs[k].loss_mask ELSE Unmasked(k)]
    IN [input_ids |-> Padded(Col("tokens"), Nil, width),
        lengths |-> [k \in DOMAIN seqs |-> Len(seqs[k].tokens)],
        prompt_mask |-> Padded(Col("prompt_mask"), TRUE, width),
        loss_mask |-> IF \E k \in DOMAIN seqs : seqs[k].loss_mask # << >>
                      THEN Padded(masks, FALSE, width) ELSE Absent,
        logprobs |-> Padded(Col("logprobs"), Nil, width),
        advantages |-> Padded(Col("advantages"), {}, width),
        returns |-> Optional("returns"), values |-> Optional("values"),
        ref_logprobs |-> Optional("ref_logprobs")]

\* split_data_pack_by_dp: strided rows of every batch-major value, or the whole small pack.
Shard(pack, rank, dp) ==
    LET batch == Len(pack.input_ids)
        Every(rows) == [k \in 1..((batch - rank - 1) \div dp + 1) |-> rows[rank + 1 + (k - 1) * dp]]
    IN IF dp = 1 \/ batch < dp THEN pack
       ELSE [f \in DOMAIN pack |-> IF pack[f] = Absent THEN Absent ELSE Every(pack[f])]

\* _pack_train_data: the actions of every row, without padding; action k predicts token k+1.
Actions(shard) ==
    LET OfRow(k) == [a \in 1..(shard.lengths[k] - 1) |->
            LET At(f) == IF shard[f] = Absent THEN Absent ELSE shard[f][k][a + 1] IN
            [seq |-> k, token |-> At("input_ids"),
             target |-> ~At("prompt_mask") /\ (shard.loss_mask = Absent \/ shard.loss_mask[k][a + 1]),
             logprob |-> At("logprobs"), advantage |-> At("advantages"),
             ppo |-> IF Absent \in {shard.ref_logprobs, shard.values, shard.returns} THEN Absent
                     ELSE [ref |-> At("ref_logprobs"), value |-> At("values"), return |-> At("returns")]]]
    IN FlattenSeq([k \in DOMAIN shard.lengths |-> OfRow(k)])

\* _padded_response_layout: the same targets, read from the rectangle.
Rectangle(shard) == (DOMAIN shard.lengths) \X (2..Len(shard.input_ids[1]))
PaddedTargets(shard) ==
    {shard.input_ids[p[1]][p[2]] : p \in {q \in Rectangle(shard) :
        /\ ~shard.prompt_mask[q[1]][q[2]]
        /\ shard.loss_mask = Absent \/ shard.loss_mask[q[1]][q[2]]}}

\* _critic_value_mask, and the shift of returns and old values: the head reading at t-1 is
\* trained towards what stands at t.  Only the prompt mask counts.
CriticActions(shard) ==
    LET OfRow(k) == LET ts == SelectSeq([t \in 1..Len(shard.input_ids[k]) |-> t],
                                        LAMBDA t : t > 1 /\ ~shard.prompt_mask[k][t])
                    IN [a \in DOMAIN ts |-> [seq |-> k, token |-> shard.input_ids[k][ts[a]],
                                             return |-> shard.returns[k][ts[a]],
                                             old |-> shard.values[k][ts[a]]]]
    IN FlattenSeq([k \in DOMAIN shard.lengths |-> OfRow(k)])

(*------------------------------- the call -------------------------------*)
\* backend.train: packs of mini_bs rows.
RowsOf(k) == LET n == Len(call.rows) IN [j \in 1..Least(call.mini, n - k * call.mini) |-> k * call.mini + j]
PackCount == (Len(call.rows) + call.mini - 1) \div call.mini
PackOf(k) == MakePack([j \in DOMAIN RowsOf(k) |-> Sequence(call.algo, RowsOf(k)[j], call.rows[RowsOf(k)[j]])])

\* The window of a pack: gradient_accumulation_steps packs, the last one possibly fewer.
WindowSize == IF call.accumulation = 0 THEN PackCount ELSE call.accumulation
WindowStart(k) == (k \div WindowSize) * WindowSize
GroupSize(k) == Least(WindowSize, PackCount - WindowStart(k))

\* The plausible mistake: every window is taken to be full.
AllowStepFull(k) == (k + 1) % WindowSize = 0

\* The optimizer steps at the end of a window and after the last pack.
AllowStep(k) == (k + 1) % WindowSize = 0 \/ k = PackCount - 1

\* _sft_target_token_count
TargetCount(i) == LET s == Sequence(call.algo, i, call.rows[i]) IN
    Cardinality({t \in 2..Len(s.tokens) : ~s.prompt_mask[t] /\ (s.loss_mask = << >> \/ s.loss_mask[t])})

\* The plausible mistake: each pack is normalised by its own tokens.
NormaliserOfPack(k) == MapThenSumSet(TargetCount, Range(RowsOf(k)))

\* _annotate_sft_token_mean_packs: the target tokens of the whole accumulation group.
Normaliser(k) ==
    MapThenSumSet(TargetCount,
        UNION {Range(RowsOf(p)) : p \in WindowStart(k)..(WindowStart(k) + GroupSize(k) - 1)})

TInit == call \in Calls /\ index = 0 /\ window = << >> /\ updates = << >>

\* _train_step or _train_value_microbatch on every rank, the optimizer step included.
Microbatch ==
    /\ index < PackCount
    /\ LET shards == [d \in 0..call.dp-1 |-> Shard(PackOf(index), d, call.dp)]
           part == [total |-> Normaliser(index), group |-> GroupSize(index),
                    rows |-> [d \in 0..call.dp-1 |-> [k \in DOMAIN shards[d].lengths |-> shards[d].input_ids[k][1][1]]],
                    padded |-> [d \in 0..call.dp-1 |-> PaddedTargets(shards[d])],
                    actions |-> [d \in 0..call.dp-1 |->
                        IF call.algo = "critic" THEN CriticActions(shards[d])
                        ELSE SelectSeq(Actions(shards[d]), LAMBDA a : a.target)]]
       IN IF AllowStep(index)
          THEN updates' = Append(updates, Append(window, part)) /\ window' = << >>
          ELSE window' = Append(window, part) /\ UNCHANGED updates
    /\ index' = index + 1
    /\ UNCHANGED call

TNext == Microbatch
TSpec == TInit /\ [][TNext]_tvars

(***************************************************************************)
(* Properties.                                                             *)
(***************************************************************************)
Tokens(part, d) == {part.actions[d][a].token : a \in DOMAIN part.actions[d]}
Uses(i, t) == {<<u, p, d>> \in (DOMAIN updates) \X (1..PackCount) \X (0..call.dp-1) :
                 p \in DOMAIN updates[u] /\ <<i, t>> \in Tokens(updates[u][p], d)}
Trains(i, t) == call.rows[i][t] = "r" \/ (call.algo = "critic" /\ call.rows[i][t] = "x")
Replicated(i) == Len(RowsOf((i - 1) \div call.mini)) < call.dp

\* When the call returns, every response token of every row went into exactly one optimizer
\* step, on one rank - on all of them if its pack was too small to split - and nothing else did.
TargetsTrainedOnce ==
    index = PackCount =>
      /\ window = << >>
      /\ \A i \in DOMAIN call.rows : \A t \in DOMAIN call.rows[i] :
           Cardinality(Uses(i, t)) = IF t = 1 \/ ~Trains(i, t) THEN 0
                                     ELSE IF Replicated(i) THEN call.dp ELSE 1

Parts == UNION {Range(updates[u]) : u \in DOMAIN updates}

\* Through windows, padding, sharding and packing, the scores that meet at one action are all
\* about that action's token: its log-probability, the value read before it, its advantage.
SignalsAligned ==
    \A part \in Parts : \A d \in 0..call.dp-1 : \A k \in DOMAIN part.actions[d] :
        LET a == part.actions[d][k]
            row == call.rows[a.token[1]]
            later == {u \in Answered(row) : u >= a.token[2]} IN
        /\ part.rows[d][a.seq] = a.token[1]
        /\ call.algo # "critic" => Tokens(part, d) = part.padded[d]
        /\ call.algo = "policy" => a.logprob = a.token /\ a.advantage = {<<0, a.token>>}
        /\ call.algo = "dpo" => a.ppo.ref = a.token
        /\ call.algo = "critic" => a.return = a.token /\ a.old = a.token
        /\ call.algo = "ppo" =>
              /\ a.logprob = a.token /\ a.ppo = [ref |-> a.token, value |-> a.token, return |-> a.token]
              /\ a.advantage = {<<u - a.token[2], <<a.token[1], u>>>> : u \in later}

\* SFT's normaliser is the number of tokens its optimizer step really trains, and the scale it
\* cancels is the one the training step divides by.
NormaliserMatches ==
    call.algo = "sft" => \A u \in DOMAIN updates :
        LET trained == UNION {Tokens(p, d) : p \in Range(updates[u]), d \in 0..call.dp-1} IN
        \A p \in Range(updates[u]) : p.total = Cardinality(trained) /\ p.group = Len(updates[u])

\* The optimizer steps of one call of TrainingManager.train make up the batch: each target
\* once, with its own signals, under the normaliser of its step.
StepsTrainTheBatch == TargetsTrainedOnce /\ SignalsAligned /\ NormaliserMatches

=============================================================================
