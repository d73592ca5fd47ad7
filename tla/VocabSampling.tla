--------------------------- MODULE VocabSampling ---------------------------
(***************************************************************************)
(* Tokens on a vocabulary that is split over a tensor-parallel group: how  *)
(* the next token is picked from the shards (engine/data/sampling.py,      *)
(* engine/inference.py), and the log-probability of a chosen token that    *)
(* the rollout records, a role scores and the training step recomputes and *)
(* differentiates (engine/runtime/logprobs.py).                            *)
(*                                                                         *)
(* A model is a table: the logits that follow a token.  exp(x) is 2^x on   *)
(* integers, scaled by 2^Span, so a log-probability is the pair of the     *)
(* shifted target and the exp-sum it is divided by; the temperature is 0   *)
(* or 1.  Token ids start at 0, as in the code; ranks are 0..T-1.          *)
(***************************************************************************)
EXTENDS Integers, Sequences, FiniteSets, SequencesExt, FiniteSetsExt

CONSTANTS Tables,   \* functions [0..V-1 -> [0..V-1 -> Int]]
          Samplings, \* records [greedy, top_k, top_p (in tenths), suppress, eos, stop, min_new, max_new]
          Prompts,  \* sequences of rows of tokens
          Widths,   \* records [tp, chunk]: the ranks, and the sites of one all-reduce
          Span      \* no two logits that follow one token differ by more

VARIABLES table, sampling, prompts, width,
          generated, \* tokens, by row
          recorded,  \* their log-probabilities
          active,    \* the rows still decoded
          sample_step,
          returned,  \* << >>, or the rows as the caller gets them
          trained    \* << >>, or what the training step computed from them
svars == <<table, sampling, prompts, width, generated, recorded, active, sample_step, returned, trained>>

TPRanks(T) == 0..T-1
Added(S, f(_)) == MapThenSumSet(f, S)
NegInf == -1000
Vocab == DOMAIN table
LocalVocab(T) == Cardinality(Vocab) \div T
ShardOfLogits(logits, r, T) == [i \in 0..LocalVocab(T)-1 |-> logits[r * LocalVocab(T) + i]]

\* max(dim) and argmax: the first index of the largest value.
Largest(xs) == Max({xs[i] : i \in DOMAIN xs})
FirstMax(xs) == Min({i \in DOMAIN xs : xs[i] = Largest(xs)})
Masked(xs, ids) == [i \in DOMAIN xs |-> IF i \in ids THEN NegInf ELSE xs[i]]

(*-------------------------------- picking -------------------------------*)
\* The plausible bug: global ids used as indices of the shard.
LocalIdsUnshifted(ids, r, T) == ids \cap 0..LocalVocab(T)-1

\* _local_token_ids
LocalIds(ids, r, T) == {id - r * LocalVocab(T) : id \in ids} \cap 0..LocalVocab(T)-1

EarlyEos(step) == IF step < sampling.min_new THEN sampling.eos ELSE {}

\* _sample_greedy_sharded: only the best value and local id of every rank are gathered.
GreedyToken(logits, T) ==
    LET scores(r) == Masked(ShardOfLogits(logits, r, T),
                            LocalIds(sampling.suppress, r, T) \cup LocalIds(EarlyEos(sample_step), r, T))
        gathered_values == [r \in TPRanks(T) |-> Largest(scores(r))]
        gathered_ids == [r \in TPRanks(T) |-> FirstMax(scores(r))]
        best == FirstMax(gathered_values)
    IN best * LocalVocab(T) + gathered_ids[best]

\* all_gather_last_dim: the shards in rank order.
JoinedLogits(shards, T) == [v \in Vocab |-> shards[v \div LocalVocab(T)][v % LocalVocab(T)]]

\* softmax and _sanitize_probs: a row without mass has no weights.
Softmax(scores) ==
    [v \in DOMAIN scores |-> IF scores[v] = NegInf THEN 0 ELSE 2^(Span + scores[v] - Largest(scores))]

\* sort(descending): any order of equal weights.
Descending(w) == {o \in SetToSeqs(DOMAIN w) : \A i \in 1..Len(o)-1 : w[o[i]] >= w[o[i + 1]]}

\* The sorted positions top-k and top-p leave, the first if they leave none.
LeftBy(w, o) ==
    LET k == IF sampling.top_k = 0 THEN Len(o) ELSE sampling.top_k
        Ahead(i) == Added(1..i-1, LAMBDA j : w[o[j]])
        left == {i \in 1..Len(o) : /\ i <= k /\ w[o[i]] > 0
                                   /\ 10 * Ahead(i) <= sampling.top_p * Added(DOMAIN w, LAMBDA v : w[v])}
    IN IF left = {} THEN {1} ELSE left

\* _sample: the tokens a draw from the filtered distribution may give.
Candidates(logits) ==
    LET scores == Masked(logits, sampling.suppress \cup EarlyEos(sample_step))
        w == Softmax(scores)
    IN IF \A v \in Vocab : w[v] = 0 THEN {FirstMax(scores)}
       ELSE UNION {{o[i] : i \in LeftBy(w, o)} : o \in Descending(w)}

\* Both paths, as rank 0 broadcasts the result.
NextTokens(logits, T) ==
    IF sampling.greedy THEN {GreedyToken(logits, T)}
    ELSE Candidates(JoinedLogits([r \in TPRanks(T) |-> ShardOfLogits(logits, r, T)], T))

(*--------------------------- log-probabilities --------------------------*)
\* The label in the shard, clamped into it when another rank owns it.
SafeLabel(label, r, T) == Max({0, Min({LocalVocab(T) - 1, label - r * LocalVocab(T)})})
OwnsLabel(label, r, T) == label - r * LocalVocab(T) \in 0..LocalVocab(T)-1

\* The plausible bug: what a clamped label points at is added as well.
TargetUnmasked(shard, label, r, T) == shard[SafeLabel(label, r, T)]
Target(shard, label, r, T) == IF OwnsLabel(label, r, T) THEN shard[SafeLabel(label, r, T)] ELSE 0

\* _selected_logprobs_components: three all-reduces of one number each.
Components(logits, label, T) ==
    LET shard == [r \in TPRanks(T) |-> ShardOfLogits(logits, r, T)]
        global_max == Largest([r \in TPRanks(T) |-> Largest(shard[r])])
        exp_logits == [r \in TPRanks(T) |-> [i \in DOMAIN shard[r] |-> 2^(Span + shard[r][i] - global_max)]]
        local_sum(r) == Added(DOMAIN shard[r], LAMBDA i : exp_logits[r][i])
        exp_sum == Added(TPRanks(T), local_sum)
        target == Added(TPRanks(T), LAMBDA r : Target(shard[r], label, r, T))
    IN [selected |-> <<target - global_max, exp_sum>>, exp_logits |-> exp_logits, exp_sum |-> exp_sum]

\* vocab_parallel_selected_logprobs, without a gradient.
Selected(logits, label, T) == Components(logits, label, T).selected

\* The backward of a rank, times exp_sum: onehot on the rank that owns the label, minus softmax.
SelectedBackward(logits, label, r, T) ==
    LET c == Components(logits, label, T)
    IN [i \in 0..LocalVocab(T)-1 |->
          (IF OwnsLabel(label, r, T) /\ i = SafeLabel(label, r, T) THEN c.exp_sum ELSE 0) - c.exp_logits[r][i]]

\* Sites in chunks of width.chunk, one after the other.
ByChunk(sites, F(_)) ==
    LET starts == [c \in 1..(Len(sites) + width.chunk - 1) \div width.chunk |-> (c - 1) * width.chunk]
        OfChunk(from) == LET to == Min({from + width.chunk, Len(sites)})
                         IN [k \in 1..to - from |-> F(sites[from + k])]
    IN FlattenSeq([c \in DOMAIN starts |-> OfChunk(starts[c])])

\* packed_next_token_logprobs: every flat position but the last of each row, and the token after it.
PackedSites(rows) ==
    LET flat == FlattenSeq(rows)
        cu_seqlens == [k \in DOMAIN rows |-> Len(FlattenSeq(SubSeq(rows, 1, k)))]
        positions == SelectSeq([p \in DOMAIN flat |-> p], LAMBDA p : p \notin {cu_seqlens[k] : k \in DOMAIN rows})
    IN [k \in DOMAIN positions |-> [input |-> flat[positions[k]], label |-> flat[positions[k] + 1]]]

\* next_token_logprobs on rows padded to one length, and the first Len - 1 of each row.
PaddedLogprobs(rows, T) ==
    LET steps == Max({Len(rows[k]) : k \in DOMAIN rows}) - 1
        Pad(row) == [t \in 1..steps + 1 |-> IF t <= Len(row) THEN row[t] ELSE 0]
        Sites(row) == [t \in 1..steps |-> [input |-> Pad(row)[t], label |-> Pad(row)[t + 1]]]
        Score(site) == Selected(table[site.input], site.label, T)
    IN [k \in DOMAIN rows |-> SubSeq(ByChunk(Sites(rows[k]), Score), 1, Len(rows[k]) - 1)]

(*------------------------------- behaviour ------------------------------*)
StopTokens == sampling.eos \cup sampling.stop
History(k) == prompts[k] \o generated[k]

\* _truncate_generated: up to the first stop token, which stays.
Truncated(row) ==
    LET stops == {i \in DOMAIN row : row[i] \in StopTokens}
    IN IF stops = {} THEN [row |-> row, finish |-> "length"]
       ELSE [row |-> SubSeq(row, 1, Min(stops)), finish |-> "stop"]

SInit ==
    /\ table \in Tables /\ sampling \in Samplings /\ prompts \in Prompts /\ width \in Widths
    /\ generated = [k \in DOMAIN prompts |-> << >>] /\ recorded = generated
    /\ active = DOMAIN prompts /\ sample_step = 0 /\ returned = << >> /\ trained = << >>

\* A prefill or decode step of every active row: a token, and its log-probability from the raw logits.
SDecode ==
    /\ active # {}
    /\ \E next \in [active -> Vocab] :
         /\ \A k \in active : next[k] \in NextTokens(table[Last(History(k))], width.tp)
         /\ generated' = [k \in DOMAIN prompts |->
                IF k \in active THEN Append(generated[k], next[k]) ELSE generated[k]]
         /\ recorded' = [k \in DOMAIN prompts |->
                IF k \in active
                THEN Append(recorded[k], Selected(table[Last(History(k))], next[k], width.tp)) ELSE recorded[k]]
         /\ active' = {k \in active : next[k] \notin StopTokens /\ Len(generated[k]) + 1 < sampling.max_new}
    /\ sample_step' = sample_step + 1
    /\ UNCHANGED <<table, sampling, prompts, width, returned, trained>>

\* The rows as lists: truncated, with as many log-probabilities as tokens.
SReturn ==
    /\ active = {} /\ returned = << >>
    /\ returned' = [k \in DOMAIN prompts |->
         LET cut == Truncated(generated[k])
         IN [response |-> cut.row, logprobs |-> SubSeq(recorded[k], 1, Len(cut.row)), finish |-> cut.finish]]
    /\ UNCHANGED <<table, sampling, prompts, width, generated, recorded, active, sample_step, trained>>

\* A role scores the padded rows, and a training step packs them and goes back to the logits.
STrain ==
    /\ returned # << >> /\ trained = << >>
    /\ LET rows == [k \in DOMAIN prompts |-> prompts[k] \o returned[k].response]
           Site(s) == [logprob |-> Selected(table[s.input], s.label, width.tp),
                       grad |-> [r \in TPRanks(width.tp) |->
                                   SelectedBackward(table[s.input], s.label, r, width.tp)]]
       IN trained' = [scored |-> PaddedLogprobs(rows, width.tp), packed |-> ByChunk(PackedSites(rows), Site)]
    /\ UNCHANGED <<table, sampling, prompts, width, generated, recorded, active, sample_step, returned>>

SNext == SDecode \/ SReturn \/ STrain
SSpec == SInit /\ [][SNext]_svars

(*------------------------------ properties ------------------------------*)
\* What one device with the whole vocabulary means: a token not ruled out; the likeliest of them,
\* or one with fewer than top_k likelier ones that together hold at most the share top_p.
Open(step) == Vocab \ (sampling.suppress \cup EarlyEos(step))
Weight(logits, S) == Added(S, LAMBDA v : 2^(Span + logits[v]))
Allowed(logits, step) ==
    LET Likelier(v) == {u \in Open(step) : logits[u] > logits[v]}
        best == {v \in Open(step) : Likelier(v) = {}}
    IN IF Open(step) = {} THEN {0}
       ELSE IF sampling.greedy THEN {Min(best)}
       ELSE {v \in Open(step) :
               /\ sampling.top_k > 0 => Cardinality(Likelier(v)) < sampling.top_k
               /\ 10 * Weight(logits, Likelier(v)) <= sampling.top_p * Weight(logits, Open(step))}
LogSoftmax(logits, v) ==
    <<logits[v] - Largest(logits), Added(Vocab, LAMBDA u : 2^(Span + logits[u] - Largest(logits)))>>

Before(k, i) == Last(prompts[k] \o SubSeq(generated[k], 1, i - 1))
SampledAsWhole ==
    \A k \in DOMAIN generated : \A i \in DOMAIN generated[k] :
        generated[k][i] \in Allowed(table[Before(k, i)], i - 1)

\* A row ends at its first stop token, if it has one, and says so.
RowsEndAtTheirStop ==
    \A k \in DOMAIN returned :
        LET r == returned[k] IN
        /\ r.response = generated[k] /\ Len(r.logprobs) = Len(r.response)
        /\ \A i \in 1..Len(r.response)-1 : r.response[i] \notin StopTokens
        /\ (r.finish = "stop") <=> Last(r.response) \in StopTokens

\* Action a of the packed batch, found by its row and place in it.
ActionOf(k, t) == Added(1..k-1, LAMBDA j : Len(prompts[j]) + Len(returned[j].response) - 1) + t - 1
TrainedAsRecorded ==
    trained # << >> =>
      \A k \in DOMAIN prompts : \A i \in DOMAIN returned[k].response :
        LET t == Len(prompts[k]) + i
            a == trained.packed[ActionOf(k, t)]
            logits == table[Before(k, i)]
            token == generated[k][i]
            truth == LogSoftmax(logits, token)
        IN /\ returned[k].logprobs[i] = truth
           /\ a.logprob = truth /\ trained.scored[k][t - 1] = truth
           /\ \A r \in DOMAIN a.grad, j \in 0..LocalVocab(width.tp)-1 :
                LET v == r * LocalVocab(width.tp) + j IN
                a.grad[r][j] = (IF v = token THEN truth[2] ELSE 0) - 2^(Span + logits[v] - Largest(logits))

\* On every split of the vocabulary the tokens are those of one device with the whole of it, rows
\* end at their stop token, and rollout, scoring and training, each in its own layout, give a
\* sampled token the same log-probability - that of the full softmax - and its gradient.
SplitVocabularyIsWhole == SampledAsWhole /\ RowsEndAtTheirStop /\ TrainedAsRecorded

=============================================================================
