--------------------------- MODULE TrajectoryRows ---------------------------
(***************************************************************************)
(* How the turns an agent returns become training rows (api/agentic.py,    *)
(* api/trainers/policy_only.py).  A turn is one chat completion: the       *)
(* rendered context, the sampled tokens and their log-probabilities.       *)
(* Turns of one (prompt, sample) pair are merged into one trajectory; four *)
(* parallel rows - tokens, response mask, loss mask, rollout log-probs -   *)
(* must stay aligned through every merge.                                  *)
(* A log-probability is modelled by where it was sampled: <<turn, index>>; *)
(* Zero stands for the 0.0 of a context token.                             *)
(***************************************************************************)
EXTENDS Integers, Sequences, FiniteSets, SequencesExt, FiniteSetsExt, Subsequences

CONSTANTS Items,       \* the AgentItems the agent may name: records of prompt and sample
          Contexts,    \* the contexts a turn may be rendered to
          Responses,   \* the token sequences a turn may have sampled
          MaxTurns, MaxContext, Expected

ASSUME TokensAssumption == Contexts \subseteq Seq(Nat) /\ Responses \subseteq Seq(Nat)

VARIABLES turns, samples, stage, batch
rvars == <<turns, samples, stage, batch>>

Zero == <<0, 0>>
AllOf(v, n) == [i \in 1..n |-> v]

RInit == turns = << >> /\ samples = << >> /\ stage = "collecting" /\ batch = << >>

\* The plausible mistake: the log-probability row has no entries for the context.
RowOfUnpadded(turn, lps, k) ==
    [item |-> turn.item,
     token    |-> turn.context \o turn.response,
     response |-> AllOf(FALSE, Len(turn.context)) \o AllOf(TRUE, Len(turn.response)),
     loss     |-> AllOf(FALSE, Len(turn.context))
                    \o [i \in 1..Len(turn.response) |-> i <= turn.trained],
     logprob  |-> [i \in 1..Len(lps) |-> <<k, i>>] \o AllOf(Zero, Len(turn.context))]

\* _set_sample_training_row: context, then response; only the response may be trained.
\* A tool call is trained up to the marker of a tool response it may contain.
RowOf(turn, lps, k) ==
    [item |-> turn.item,
     token    |-> turn.context \o turn.response,
     response |-> AllOf(FALSE, Len(turn.context)) \o AllOf(TRUE, Len(turn.response)),
     loss     |-> AllOf(FALSE, Len(turn.context))
                    \o [i \in 1..Len(turn.response) |-> i <= turn.trained],
     logprob  |-> AllOf(Zero, Len(turn.context)) \o [i \in 1..Len(lps) |-> <<k, i>>]]

Alike(a, b, n) == n <= Len(a) /\ n <= Len(b) /\ \A i \in 1..n : a[i] = b[i]
CommonPrefixLen(a, b) == CHOOSE n \in 0..Len(b) : Alike(a, b, n) /\ ~Alike(a, b, n + 1)
Suffix(s, n) == SubSeq(s, n + 1, Len(s))

\* _append_sample_response: everything past the common prefix goes to the end of every row.
AppendRow(old, new) ==
    LET p == CommonPrefixLen(old.token, new.token) IN
    [old EXCEPT !.token    = @ \o Suffix(new.token, p),
                !.response = @ \o Suffix(new.response, p),
                !.loss     = @ \o Suffix(new.loss, p),
                !.logprob  = @ \o Suffix(new.logprob, p)]

\* _find_agent_sample: an item with a negative index is never merged.
Mergeable(item) == item.prompt >= 0 /\ item.sample >= 0
Existing(item) == {i \in DOMAIN samples : Mergeable(item) /\ samples[i].item = item}

\* The next turn in the order the agent returned them.  A turn built from a response carries
\* one log-probability per token; a hand-made one may carry none.
TakeTurn ==
    /\ stage = "collecting" /\ Len(turns) < MaxTurns
    /\ \E item \in Items, context \in Contexts, response \in Responses :
       \E trained \in {1, Len(response)}, lps \in {response, << >>} :
         LET turn == [item |-> item, context |-> context, response |-> response, trained |-> trained]
             row == RowOf(turn, lps, Len(turns) + 1) IN
         /\ turns' = Append(turns, turn)
         /\ samples' = IF Existing(item) = {} THEN Append(samples, row)
                       ELSE LET i == Min(Existing(item)) IN
                            [samples EXCEPT ![i] = AppendRow(@, row)]
    /\ UNCHANGED <<stage, batch>>

Short == Kept(samples, {s \in ToSet(samples) : Len(s.token) <= MaxContext})

\* The agent is done: overlong trajectories are dropped, the others must be all there.
Filter ==
    /\ stage = "collecting"
    /\ stage' = IF Len(samples) # Expected \/ Short = << >> THEN "error" ELSE "filtered"
    /\ samples' = Short
    /\ UNCHANGED <<turns, batch>>

Aligned(s) == Len(s.response) = Len(s.token) /\ Len(s.loss) = Len(s.token)
                /\ Len(s.logprob) = Len(s.token)

\* compute_group_advantages up to its positive scale: the reward against the group's mean.
Advantage(rewards, group, i) == Cardinality(group) * rewards[i] - SumFunctionOnSet(rewards, group)

\* The plausible mistake: groups are counted off by position, as if nothing was filtered.
GroupByPosition(i) == {j \in DOMAIN samples : (j - 1) \div 2 = (i - 1) \div 2}

Group(i) == {j \in DOMAIN samples : samples[j].item.prompt = samples[i].item.prompt}

\* _materialize_agentic_train_batch: rewards are whatever the reward function returns.
Materialize ==
    /\ stage = "filtered"
    /\ \E rewards \in [DOMAIN samples -> 0..1] :
         IF \A i \in DOMAIN samples : Aligned(samples[i])
         THEN /\ stage' = "built"
              /\ batch' = [i \in DOMAIN samples |->
                            [row |-> samples[i],
                             advantage |-> Advantage(rewards, Group(i), i)]]
         ELSE stage' = "error" /\ UNCHANGED batch
    /\ UNCHANGED <<turns, samples>>

RNext == TakeTurn \/ Filter \/ Materialize
RSpec == RInit /\ [][RNext]_rvars

(***************************************************************************)
(* Properties of a batch that was built.                                   *)
(***************************************************************************)
Trained(row) == {p \in DOMAIN row.token : row.loss[p]}

\* Every trained token was sampled in a turn of the row's own trajectory and carries the
\* log-probability recorded for it there.
TrainedTokensWereSampled ==
    stage = "built" => \A i \in DOMAIN batch :
        LET row == batch[i].row IN \A p \in Trained(row) :
            LET k == row.logprob[p][1]
                n == row.logprob[p][2] IN
            /\ row.response[p] /\ k \in DOMAIN turns
            /\ turns[k].item = row.item /\ turns[k].response[n] = row.token[p]

\* Advantages are normalised within the rows of one prompt, also after filtering.
AdvantagesSumToZero ==
    stage = "built" => \A i \in DOMAIN batch :
        SumFunctionOnSet([j \in DOMAIN batch |-> batch[j].advantage],
              {j \in DOMAIN batch : batch[j].row.item.prompt = batch[i].row.item.prompt}) = 0

\* However turns were merged and overlong rows filtered, a row of the batch trains what the
\* agent sampled, with an advantage over its own prompt (_materialize_agentic_train_batch).
RowsTellTheRollout == TrainedTokensWereSampled /\ AdvantagesSumToZero

=============================================================================
