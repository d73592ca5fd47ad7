--------------------------- MODULE DataParallel ---------------------------
(***************************************************************************)
(* How the engine spreads the rows of one request over data-parallel ranks *)
(* and puts the answers together again (engine/api.py, runtime/common.py,  *)
(* runtime/rollout.py, roles.py, api/backend/areno/backend.py).            *)
(*                                                                         *)
(* A request is a batch of prompts to be sampled n times each, or of token *)
(* rows to be scored by a role.  A flat row is named by its index in the   *)
(* batch, its data is its length; an answer is named by what it answers.   *)
(* World ranks are laid out as dp_rank * tp_size + tp_rank.                *)
(***************************************************************************)
EXTENDS Integers, Sequences, FiniteSets, SequencesExt, FiniteSetsExt, Subsequences

CONSTANT Requests  \* records [op, lens, samples, running, longest, dp, tp, microbatch]

\* Without prompts the engine raises, without rows to score it returns at once; a scored row is
\* scored once, and an empty row has no last token to be rewarded at.
ASSUME RequestsAssumption ==
  \A q \in Requests :
    /\ q.op \in {"rollout", "rollout_async", "logprobs", "values", "rewards"}
    /\ q.lens \in Seq(Nat) /\ q.lens # << >>
    /\ {q.samples, q.dp, q.tp} \subseteq Nat \ {0}
    /\ q.op \in {"logprobs", "values", "rewards"} => q.samples = 1
    /\ q.op = "rewards" => \A i \in DOMAIN q.lens : q.lens[i] # 0

VARIABLES request,  \* the call being served
          start,    \* the cursor of the asynchronous path, modulo dp
          outputs,  \* one merged output per chunk
          result    \* what the caller gets, << >> before
dvars == <<request, start, outputs, result>>

None == "None"
CeilOf(a, b) == (a + b - 1) \div b

(*------------------------------ splitting -------------------------------*)
\* items[i] for i in I, in index order.
Pick(items, I) ==
    LET at == Kept([i \in DOMAIN items |-> i], I)
    IN [k \in DOMAIN at |-> items[at[k]]]

\* The plausible mistake: contiguous shares.
SplitInBlocks(items, dp, offset) ==
    [r \in 0..dp-1 |-> Pick(items, {i \in DOMAIN items : (i - 1) \div CeilOf(Len(items), dp) = r})]

\* _split_list_by_dp_with_offset; with offset 0 it is split_list_by_dp.
Split(items, dp, offset) ==
    [r \in 0..dp-1 |-> Pick(items, {i \in DOMAIN items : (i - 1 + offset) % dp = r})]

Indices(from, n) == [i \in 1..n |-> from + i]

\* rollout_batch: each prompt n_samples times, prompt by prompt.
Flat(req) == [i \in 1..(Len(req.lens) * req.samples) |-> req.lens[(i - 1) \div req.samples + 1]]

\* _chunk_prompts_for_prefill_budget, on the rows' indices: the next row fills the chunk up or
\* begins a new one.
Place(acc, i, lens, running, dp, budget) ==
    LET r == Len(acc.chunk) % dp
        flush == /\ acc.chunk # << >>
                 /\ \/ Len(acc.chunk) >= running
                    \/ acc.sums[r] > 0 /\ acc.sums[r] + lens[i] > budget
    IN IF flush
       THEN [done |-> Append(acc.done, acc.chunk), chunk |-> <<i>>,
             sums |-> [q \in 0..dp-1 |-> IF q = 0 THEN lens[i] ELSE 0]]
       ELSE [acc EXCEPT !.chunk = Append(@, i), !.sums[r] = @ + lens[i]]

Chunks(lens, running, dp, budget) ==
    LET placed[i \in 0..Len(lens)] ==
          IF i = 0 THEN [done |-> << >>, chunk |-> << >>, sums |-> [q \in 0..dp-1 |-> 0]]
          ELSE Place(placed[i - 1], i, lens, running, dp, budget)
        end == placed[Len(lens)]
    IN IF end.chunk = << >> THEN end.done ELSE Append(end.done, end.chunk)

RequestChunks(req) ==
    Chunks(Flat(req), req.running, req.dp, Max({CeilOf(req.running, req.dp), 1}) * req.longest)

(*------------------------------ the workers -----------------------------*)
\* Every rank of a TP group computes its group's share; only TP rank 0 returns it.
Results(req, answers) ==
    [rank \in 0..(req.dp * req.tp - 1) |->
        IF rank % req.tp = 0 THEN answers[rank \div req.tp] ELSE None]

Rank0(req, results) == [d \in 0..req.dp-1 |-> results[d * req.tp]]

\* What a role says of a row: of token i from the position before it, of the token read at i,
\* or of the whole row at its last token.
LogprobsOf(i, n) == [t \in 1..n |-> IF t = 1 THEN <<0, 0>> ELSE <<i, t>>]
Cells(i, n, width) == [t \in 1..width |-> IF t <= n THEN <<i, t>> ELSE <<0, 0>>]

\* _score_*_rows: microbatches padded to their longest row, every row cut to its own length.
ScoreShare(req, share) ==
    LET lens == Flat(req)
        Batch(b) == {share[k] : k \in {j \in DOMAIN share : (j - 1) \div req.microbatch = b}}
        Row(k) == LET i == share[k]
                      width == Max({lens[j] : j \in Batch((k - 1) \div req.microbatch)})
                  IN CASE req.op = "logprobs" -> LogprobsOf(i, lens[i])
                       [] req.op = "values"   -> SubSeq(Cells(i, lens[i], width), 1, lens[i])
                       [] req.op = "rewards"  -> <<Cells(i, lens[i], width)[Max({lens[i], 1})]>>
    IN [k \in DOMAIN share |-> Row(k)]

(*------------------------------- merging --------------------------------*)
\* _merge_dp_rollouts_in_input_order: undo the strided split.
MergeInOrder(outs, dp, total) ==
    [i \in 1..total |->
        LET out == outs[(i - 1) % dp]  k == (i - 1) \div dp + 1
        IN IF k \in DOMAIN out THEN out[k] ELSE None]

\* _merge_dp_rollouts_by_prompt_indices: each rank's rows go where its indices say.
MergeByIndices(outs, indices, from, total) ==
    [i \in 1..total |->
        LET at == {p \in (DOMAIN outs) \X (1..total) :
                     /\ p[2] \in DOMAIN indices[p[1]] /\ p[2] \in DOMAIN outs[p[1]]
                     /\ indices[p[1]][p[2]] = from + i}
        IN IF Cardinality(at) # 1 THEN None
           ELSE LET p == CHOOSE p \in at : TRUE IN outs[p[1]][p[2]]]

\* _merge_dp_rank0_strided_results: one of each rank in turn, while any has some left.
MergeStrided(outs, dp) ==
    LET longest == Max({Len(outs[d]) : d \in 0..dp-1})
        Round(k) == Pick([d \in 1..dp |-> IF k \in DOMAIN outs[d-1] THEN outs[d-1][k] ELSE None],
                         {d \in 1..dp : k \in DOMAIN outs[d-1]})
    IN FlattenSeq([k \in 1..longest |-> Round(k)])

\* _merge_rollouts, and the regrouping of backend.rollout_batch: sample j of prompt p.
Regroup(req, flat) ==
    [p \in DOMAIN req.lens |-> SubSeq(flat, (p - 1) * req.samples + 1, p * req.samples)]

(*------------------------------- the call -------------------------------*)
DInit == request \in Requests /\ start \in 0..request.dp-1 /\ outputs = << >> /\ result = << >>

Sampling == request.op \in {"rollout", "rollout_async"}
Served == Len(FlattenSeq(outputs))

\* One iteration of generate_rollout or _generate_rollout_async_once.
RolloutChunk ==
    /\ Sampling /\ result = << >> /\ Len(outputs) < Len(RequestChunks(request))
    /\ LET chunk == RequestChunks(request)[Len(outputs) + 1]
           offset == IF request.op = "rollout_async" THEN start ELSE 0
           shares == Split(chunk, request.dp, offset)
           indices == Split(Indices(Served, Len(chunk)), request.dp, offset)
           outs == Rank0(request, Results(request, shares))
           merged == IF request.op = "rollout_async"
                     THEN MergeByIndices(outs, indices, Served, Len(chunk))
                     ELSE MergeInOrder(outs, request.dp, Len(chunk))
       IN outputs' = Append(outputs, merged)
    /\ UNCHANGED <<request, start, result>>

RolloutDone ==
    /\ Sampling /\ result = << >> /\ Len(outputs) = Len(RequestChunks(request))
    /\ result' = Regroup(request, FlattenSeq(outputs))
    /\ UNCHANGED <<request, start, outputs>>

\* score_logprobs, score_values, score_rewards.
Score ==
    /\ ~Sampling /\ result = << >>
    /\ LET rows == Indices(0, Len(request.lens))
           shares == Split(rows, request.dp, 0)
           answers == [d \in 0..request.dp-1 |-> ScoreShare(request, shares[d])]
       IN result' = MergeStrided(Rank0(request, Results(request, answers)), request.dp)
    /\ UNCHANGED <<request, start, outputs>>

DNext == RolloutChunk \/ RolloutDone \/ Score
DSpec == DInit /\ [][DNext]_dvars

(***************************************************************************)
(* Properties.                                                             *)
(***************************************************************************)
\* Whatever the chunking, the split, the cursor and the microbatches, sample j of prompt p is
\* answered at [p][j], and row i is scored at [i] with the scores of its own tokens.
AnswersInInputOrder ==
    result # << >> =>
      IF Sampling
      THEN result = [p \in DOMAIN request.lens |->
                       [j \in 1..request.samples |-> (p - 1) * request.samples + j]]
      ELSE result = [i \in DOMAIN request.lens |->
                       LET n == request.lens[i] IN
                       CASE request.op = "logprobs" -> [t \in 1..n |-> IF t = 1 THEN <<0, 0>> ELSE <<i, t>>]
                         [] request.op = "values"   -> [t \in 1..n |-> <<i, t>>]
                         [] request.op = "rewards"  -> <<<<i, n>>>>]
=============================================================================
