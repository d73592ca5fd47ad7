--------------------------- MODULE MCDataPlan ---------------------------
(* How large a batch is and the three stages it passes through, each from   *)
(* all its small inputs: sizes searched before the run, requests spread     *)
(* over ranks, turns becoming rows, rows being trained.                     *)
EXTENDS DataParallel, TrajectoryRows, TrainPacks, AutoTune

VARIABLE part
mcvars == <<part, dvars, rvars, tvars, utvars>>

BatchesOf(S, ns) == UNION {[1..n -> S] : n \in ns}

(* DataParallel *)
MCLens == BatchesOf(1..3, 1..4)
MCRequests ==
  {q \in [op : {"rollout", "rollout_async"}, lens : MCLens, samples : {1, 2}, running : 1..4,
          longest : {2, 3}, dp : 1..3, tp : {1, 2}, microbatch : {1}] :
     (q.tp = 1 \/ q.samples = 1) /\ (q.samples = 2 => Len(q.lens) <= 3)}
  \cup [op : {"logprobs", "values", "rewards"}, lens : MCLens, samples : {1}, running : {1},
        longest : {1}, dp : 1..3, tp : {1, 2}, microbatch : 1..3]

(* TrajectoryRows *)
MCItems == {[prompt |-> 0, sample |-> 0], [prompt |-> 0, sample |-> 1],
            [prompt |-> 1, sample |-> 0], [prompt |-> -1, sample |-> 0]}
MCContexts == {<<1>>, <<1, 2, 3>>, <<1, 4>>}
MCResponses == {<<2>>, <<2, 2>>}

(* TrainPacks *)
Plain == {<<"c", "r">>, <<"c", "c", "r">>, <<"c", "r", "r">>}
Masked == {<<"c", "r">>, <<"c", "c", "r">>, <<"c", "r", "x">>, <<"c", "x", "r", "r">>}
Turned == {<<"c", "r", "c", "r">>, <<"c", "r">>}
Shape(algos, batches, minis) ==
  [algo : algos, rows : batches, mini : minis, accumulation : 0..2, dp : 1..3]
MCCalls == Shape({"policy", "ppo", "critic"}, BatchesOf(Masked, 1..3), 1..3)
             \cup Shape({"policy"}, BatchesOf(Turned, 1..3), 1..3)
             \cup Shape({"sft"}, BatchesOf(Plain, 1..4), 1..3)
             \cup Shape({"dpo"}, BatchesOf(Plain, {2, 4}), {2, 4})
Idle == [algo |-> "sft", rows |-> << >>, mini |-> 1, accumulation |-> 0, dp |-> 1]

(* AutoTune *)
Given == [tp_size |-> 2, batch_size |-> 3, n_samples |-> 2, mini_bs |-> 4, max_running_prompts |-> 0, adam_8bit |-> TRUE,
          keep_rollout_state |-> TRUE, max_prompt_tokens |-> 3, max_new_tokens |-> 4, max_context_len |-> 0]
MCConfigs ==
  {[Given EXCEPT !.n_samples = n, !.max_running_prompts = r, !.mini_bs = k, !.max_context_len = l] :
     n \in {1, 3}, r \in {0, 1, 6, -1}, k \in {1, 3, 4}, l \in {0, 1, 5}}
  \cup {[Given EXCEPT !.batch_size = 0], [Given EXCEPT !.mini_bs = 16, !.n_samples = 1, !.max_running_prompts = 40]}
MCCommandLines ==
  [smoke_infer : BOOLEAN, smoke_train : BOOLEAN, tune_params : BOOLEAN, requires_rollout : BOOLEAN,
   mem_frac : {1, 2}, tune_max_samples : {0, 3, 33}, config : MCConfigs]
Untuned == [config |-> Given, tune_params |-> FALSE, smoke_infer |-> FALSE, smoke_train |-> FALSE]

Rest(p) ==
  /\ part = p
  /\ p # "spread" => request = Idle /\ start = 0 /\ outputs = << >> /\ result = << >>
  /\ p # "rows" => RInit
  /\ p # "train" => call = Idle /\ index = 0 /\ window = << >> /\ updates = << >>
  /\ p # "sizes" => /\ options = Untuned /\ phase = "options" /\ trainer_config = Given
                    /\ template = << >> /\ untried = {} /\ measurements = {}
DataInit == \/ Rest("spread") /\ DInit
            \/ Rest("rows") /\ RInit
            \/ Rest("train") /\ TInit
            \/ Rest("sizes") /\ UTInit
DataNext == \/ part = "spread" /\ DNext /\ UNCHANGED <<part, rvars, tvars, utvars>>
            \/ part = "rows" /\ RNext /\ UNCHANGED <<part, dvars, tvars, utvars>>
            \/ part = "train" /\ TNext /\ UNCHANGED <<part, dvars, rvars, utvars>>
            \/ part = "sizes" /\ UTNext /\ UNCHANGED <<part, dvars, rvars, tvars>>
MCSpec == DataInit /\ [][DataNext]_mcvars

(*------------------------------- properties -----------------------------*)
\* A batch of the sizes that were promised, and every row of it trained once, with its own numbers: what
\* --tune-params promises of the sizes (cli/auto_tune.py), and what train_step does with a batch of them.
SizedAndTrained == TunedIsTheBest /\ StepsTrainTheBatch
=============================================================================
