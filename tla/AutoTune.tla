------------------------------ MODULE AutoTune ------------------------------
(***************************************************************************)
(* What `areno train` does before its run (cli/train.py, cli/auto_tune.py): *)
(* options that make no sense are refused, a smoke option makes one dummy   *)
(* run, and --tune-params searches the largest rollout concurrency, then    *)
(* the largest mini-batch, whose dummy run stays under a part of the memory.*)
(* What a dummy run does to a worker is in PolicyTrainer; here it yields a  *)
(* peak, or runs out of memory, or raises.  0 stands for an option that was *)
(* not given.                                                               *)
(***************************************************************************)
EXTENDS Integers, FiniteSets

CONSTANTS CommandLines, \* options of areno train, with the config they describe
          Full,         \* the memory of a device; peaks and mem_frac are parts of it
          Limit         \* rollout sizes that are probed at most

Configs ==
  [tp_size : Int, batch_size : Int, n_samples : Int, mini_bs : Int, max_running_prompts : Int, max_prompt_tokens : Int,
   max_new_tokens : Int, max_context_len : Int, adam_8bit : BOOLEAN, keep_rollout_state : BOOLEAN]
ASSUME TuneAssumption ==
  /\ Full \in Nat \ {0} /\ Limit \in Nat \ {0, 1}
  /\ CommandLines \subseteq
       [smoke_infer : BOOLEAN, smoke_train : BOOLEAN, tune_params : BOOLEAN, requires_rollout : BOOLEAN,
        mem_frac : Int, tune_max_samples : Int, config : Configs]

VARIABLES options,
          phase,          \* options, rollout, train, or how the command goes on
          trainer_config,
          template,       \* the candidate of which one size is searched
          untried,        \* sizes not probed yet
          measurements    \* of the probes that returned
utvars == <<options, phase, trainer_config, template, untried, measurements>>

Smaller(a, b) == IF a <= b THEN a ELSE b
Larger(a, b) == IF a <= b THEN b ELSE a
Smoke == options.smoke_infer \/ options.smoke_train

(*------------------------------- candidates -----------------------------*)
PowersOfTwo(value) == {1} \cup {p \in 1..value : \A d \in 2..p : p % d = 0 => d % 2 = 0}
FloorPowerOfTwo(value) == CHOOSE p \in PowersOfTwo(value) : \A r \in PowersOfTwo(value) : r <= p

\* round(a / b), halves to even.
Nearest(a, b) ==
  LET q == a \div b
      r == 2 * (a % b) IN
  IF r < b \/ (r = b /\ q % 2 = 0) THEN q ELSE q + 1

\* Sizes at Limit evenly spread places.
SparseSelect(sizes) ==
  LET last == Cardinality(sizes) - 1
      kept == {Nearest(i * last, Limit - 1) : i \in 0..Limit-1} IN
  IF Cardinality(sizes) <= Limit THEN sizes
  ELSE {v \in sizes : Cardinality({k \in sizes : k < v}) \in kept}

DefaultTemplate(c) ==
  [tp_size |-> c.tp_size, batch_size |-> FloorPowerOfTwo(c.batch_size), n_samples |-> Larger(c.n_samples, 1),
   mini_bs |-> 1, max_running_prompts |-> 1, adam_8bit |-> c.adam_8bit, keep_rollout_state |-> FALSE]

UserTemplate(c) == [DefaultTemplate(c) EXCEPT !.max_running_prompts = c.max_running_prompts]

RolloutSizes(o) == SparseSelect(PowersOfTwo(Larger(o.tune_max_samples, 1)))

TrainRows(t) == t.batch_size * t.n_samples

\* As many rows as one wave of rollouts, in a batch that is a power of two.
TrainTemplate(o, t) ==
  LET c == o.config
      max_rows == Larger(1, Smaller(o.tune_max_samples, t.max_running_prompts))
      batch == FloorPowerOfTwo(max_rows \div t.n_samples) IN
  [t EXCEPT !.batch_size = batch, !.mini_bs = Smaller(Larger(c.mini_bs, 1), batch * t.n_samples)]

MiniSizes(o, t) == {k \in {1, 2, 4, 8, 16} : k <= Smaller(Larger(o.config.mini_bs, 1), TrainRows(t))}

\* The lengths of the synthetic rows: a context limit is filled to the last token.
TokenBudgets(c) ==
  LET prompt == Larger(1, c.max_prompt_tokens)
      total == Larger(2, c.max_context_len) IN
  IF c.max_context_len = 0 THEN [prompt |-> prompt, response |-> Larger(1, c.max_new_tokens)]
  ELSE [prompt |-> Smaller(prompt, total - 1), response |-> total - Smaller(prompt, total - 1)]

(*--------------------------------- probes -------------------------------*)
Candidate(size) ==
  IF Smoke THEN template
  ELSE IF phase = "rollout" THEN [template EXCEPT !.max_running_prompts = size]
  ELSE [template EXCEPT !.mini_bs = size]

\* What train reports is the mean over the packs of each pack's own peak, of
\* which only the last takes a step: packs * forward and one stepping.
Reported(t, forward, stepping) ==
  LET packs == (TrainRows(t) + t.mini_bs - 1) \div t.mini_bs IN
  IF phase = "rollout" THEN [sum |-> stepping, over |-> 1]
  ELSE [sum |-> (packs - 1) * forward + stepping, over |-> packs]

Measurement(size, peak, ok) ==
  [stage |-> phase, candidate |-> Candidate(size), peak |-> peak, ok |-> ok,
   rows |-> IF phase = "train" THEN TrainRows(Candidate(size)) ELSE 0, tokens |-> TokenBudgets(options.config)]

\* Out of memory, or a tp_size the model cannot be split by, counts as a full device.
Outcomes(size) ==
  {Measurement(size, [sum |-> Full, over |-> 1], FALSE)}
    \cup {Measurement(size, Reported(Candidate(size), forward, stepping), TRUE) : forward, stepping \in 1..Full}

Fits(o, m) == m.ok /\ m.peak.sum <= o.mem_frac * m.peak.over

\* The largest size left is probed.
Probe(size, m) ==
  /\ phase \in {"rollout", "train"}
  /\ size \in untried /\ \A k \in untried : k <= size
  /\ m \in Outcomes(size)
  /\ measurements' = measurements \cup {m}
  /\ UNCHANGED options

(*------------------------------- the command ----------------------------*)
Refused(o) ==
  LET c == o.config IN
  \/ o.smoke_infer /\ o.smoke_train
  \/ ~o.requires_rollout /\ (o.tune_params \/ o.smoke_infer \/ o.smoke_train)
  \/ o.mem_frac \notin 1..Full \/ o.tune_max_samples < 1
  \/ \E f \in {"tp_size", "batch_size", "mini_bs", "max_prompt_tokens", "max_new_tokens"} : c[f] < 1
  \/ o.requires_rollout /\ (c.n_samples < 1 \/ c.max_running_prompts < 0)
  \/ c.max_context_len < 0

Proceed(next, t, sizes) ==
  /\ phase = "options"
  /\ phase' = next /\ template' = t /\ untried' = sizes
  /\ UNCHANGED <<options, trainer_config, measurements>>

Refuse == Refused(options) /\ Proceed("refused", template, {})

SmokeInfer ==
  LET c == options.config
      t == [DefaultTemplate(c) EXCEPT !.batch_size = 1, !.n_samples = 1,
              !.max_running_prompts = IF c.max_running_prompts # 0 THEN c.max_running_prompts
                                      ELSE Larger(c.batch_size * c.n_samples, 1)] IN
  ~Refused(options) /\ options.smoke_infer /\ Proceed("rollout", t, {1})

SmokeTrain ==
  LET mini == Larger(options.config.mini_bs, 1)
      t == [DefaultTemplate(options.config) EXCEPT !.batch_size = mini, !.n_samples = 1, !.mini_bs = mini] IN
  ~Refused(options) /\ options.smoke_train /\ Proceed("train", t, {1})

\* A concurrency that was given is not searched.
Tune ==
  LET c == options.config
      t == TrainTemplate(options, UserTemplate(c)) IN
  /\ ~Refused(options) /\ ~Smoke /\ options.tune_params
  /\ IF c.max_running_prompts = 0 THEN Proceed("rollout", DefaultTemplate(c), RolloutSizes(options))
                                  ELSE Proceed("train", t, MiniSizes(options, t))

RunUntuned == ~Refused(options) /\ ~Smoke /\ ~options.tune_params /\ Proceed("run", template, {})

SmokeEnds(size, m) ==
  /\ Smoke /\ Probe(size, m)
  /\ phase' = IF m.ok THEN "done" ELSE "failed"
  /\ UNCHANGED <<trainer_config, template, untried>>

RolloutFits(size, m) ==
  LET t == TrainTemplate(options, m.candidate) IN
  /\ ~Smoke /\ phase = "rollout" /\ Probe(size, m) /\ Fits(options, m)
  /\ phase' = "train" /\ template' = t /\ untried' = MiniSizes(options, t)
  /\ UNCHANGED trainer_config

\* replace(config, ...): adam_8bit is the config's own.
TrainFits(size, m) ==
  LET best == m.candidate IN
  /\ ~Smoke /\ phase = "train" /\ Probe(size, m) /\ Fits(options, m)
  /\ trainer_config' =
       [trainer_config EXCEPT !.tp_size = best.tp_size, !.batch_size = best.batch_size, !.n_samples = best.n_samples,
          !.mini_bs = best.mini_bs, !.max_running_prompts = best.max_running_prompts,
          !.keep_rollout_state = best.keep_rollout_state]
  /\ phase' = "run"
  /\ UNCHANGED <<template, untried>>

Rejected(size, m) ==
  /\ ~Smoke /\ Probe(size, m) /\ ~Fits(options, m)
  /\ untried' = untried \ {size}
  /\ phase' = IF untried' = {} THEN "failed" ELSE phase
  /\ UNCHANGED <<trainer_config, template>>

\* Any other exception of a probe ends the command.
ProbeRaises ==
  /\ phase \in {"rollout", "train"} /\ phase' = "raised"
  /\ UNCHANGED <<options, trainer_config, template, untried, measurements>>

UTInit ==
  /\ options \in CommandLines
  /\ phase = "options" /\ trainer_config = options.config
  /\ template = DefaultTemplate(options.config) /\ untried = {} /\ measurements = {}

UTNext ==
  \/ Refuse \/ SmokeInfer \/ SmokeTrain \/ Tune \/ RunUntuned \/ ProbeRaises
  \/ \E size \in untried : \E m \in Outcomes(size) :
       SmokeEnds(size, m) \/ RolloutFits(size, m) \/ TrainFits(size, m) \/ Rejected(size, m)
UTSpec == UTInit /\ [][UTNext]_utvars

(*------------------------------- properties -----------------------------*)
\* What a size has to be: its dummy run came to its end, within the part of the memory.
WithinMemory(m) == m.ok /\ m.peak.sum <= options.mem_frac * m.peak.over

\* Tuned: the sizes of the run were measured together in a train probe that fits, on as many
\* rows as a step will have, and every larger mini-batch, and every larger concurrency of the
\* search, was measured and does not fit.
SearchWasComplete ==
  LET c == trainer_config
      rows == c.batch_size * c.n_samples
      Found(s, fits, size, field) ==
        \E m \in measurements : m.stage = s /\ (WithinMemory(m) <=> fits) /\ m.candidate[field] = size IN
  phase = "run" /\ options.tune_params =>
    /\ \E m \in measurements :
         /\ m.stage = "train" /\ WithinMemory(m) /\ m.rows = rows
         /\ \A f \in DOMAIN m.candidate : m.candidate[f] = c[f]
    /\ \A k \in {1, 2, 4, 8, 16} :
         c.mini_bs < k /\ k <= rows /\ k <= options.config.mini_bs => Found("train", FALSE, k, "mini_bs")
    /\ options.config.max_running_prompts = 0 =>
         /\ Found("rollout", TRUE, c.max_running_prompts, "max_running_prompts")
         /\ \A k \in RolloutSizes(options) : k > c.max_running_prompts => Found("rollout", FALSE, k, "max_running_prompts")

\* What was given stays, and a command that does not start the run leaves the config alone.
OptionsAreKept ==
  LET c == options.config IN
  /\ phase # "run" \/ ~options.tune_params => trainer_config = c
  /\ \A f \in {"tp_size", "n_samples", "adam_8bit", "max_prompt_tokens", "max_new_tokens", "max_context_len"} :
       trainer_config[f] = c[f]
  /\ c.max_running_prompts # 0 => trainer_config.max_running_prompts = c.max_running_prompts
  /\ trainer_config.mini_bs <= c.mini_bs
  /\ phase = "refused" => measurements = {}

\* A search goes on only while a size is left, and one that fails has tried one sample at a time, or one row.
FailureIsReal ==
  /\ phase \in {"rollout", "train"} => untried # {}
  /\ phase = "failed" /\ ~Smoke =>
       /\ \A m \in measurements : m.stage = "train" => ~WithinMemory(m)
       /\ \/ \E m \in measurements : m.stage = "train" /\ m.candidate.mini_bs = 1
          \/ /\ \A m \in measurements : ~WithinMemory(m)
             /\ \E m \in measurements : m.stage = "rollout" /\ m.candidate.max_running_prompts = 1

\* The search begins within a factor of two of what is allowed; one wave of rollouts holds the samples
\* of the tuned batch, and not of twice that batch; dummy rows fill the context limit, or are as long
\* as a prompt and its answer where there is none.
SizesAreFilled ==
  LET c == trainer_config
      asked == options.config
      wave == Smaller(options.tune_max_samples, c.max_running_prompts)
      longest == asked.max_prompt_tokens + asked.max_new_tokens IN
  /\ phase = "run" /\ options.tune_params =>
       /\ c.batch_size = 1 \/ c.batch_size * c.n_samples <= wave
       /\ 2 * c.batch_size * c.n_samples > wave
  /\ options.tune_params /\ ~Smoke /\ (\E m \in measurements : m.stage = "rollout") =>
       \E m \in measurements : m.stage = "rollout" /\ 2 * m.candidate.max_running_prompts > options.tune_max_samples
  /\ \A m \in measurements :
       LET length == m.tokens.prompt + m.tokens.response IN
       /\ m.tokens.prompt >= 1 /\ m.tokens.response >= 1
       /\ length >= (IF asked.max_context_len = 0 THEN longest ELSE asked.max_context_len)
       /\ asked.max_context_len >= 2 => length <= asked.max_context_len

\* What --tune-params promises: the largest sizes that were measured to fit, or no run.
TunedIsTheBest == SearchWasComplete /\ OptionsAreKept /\ FailureIsReal /\ SizesAreFilled
=============================================================================
