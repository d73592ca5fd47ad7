# A TLA+ model of AReno

AReno is a local toolkit for reinforcement-learning post-training. Trainers drive an engine of worker
processes that generate rollouts with a continuous-batching loop over a paged KV cache, score them,
train on them and save checkpoints; agents and HTTP clients talk to the same engine. This directory
models that system from the coordinator down to the kernels' index arithmetic, model-checks it with
TLC, and proves with TLAPS what its concurrent state machines must keep for every size: the rollout
scheduler, the worker over it, the cluster with its ranks and callers, the worker's residency under
every training loop, and the fronts (session and proxy, server, console, terminal command).

All paths below are relative to `src/areno/` unless they start with `src/`. `PROJECT.json` maps every
definition to the lines it models.

## 1. The system

### Components

| Component | Code | State | Operations |
|---|---|---|---|
| trainers | `api/trainer.py`, `api/trainers/` | session depth, batch, phase | `fit`, rollout, score, train, save, close |
| backend | `api/backend/areno/backend.py` | packs | rollout, score, `train`, sessions |
| engine | `engine/api.py` | config, async DP cursor | `generate_rollout(_async)`, `step`, `score_*`, roles, sessions, checkpoint |
| coordinator | `engine/protocol.py` `TPCluster` | command queues, result queue, pending calls, send lock, pump thread | `start`, `call`, `call_async`, `_submit_call`, `_result_pump_loop`, `close` |
| worker process | `engine/protocol.py` `_worker_entry` | deferred commands, current request ids | take a command, run it, post results, fail, exit |
| worker | `engine/worker.py` | request rows, sent set; residency flags | `run_continuous_rollout_payload`, `_next_refill_command`, `handle` and the residency handlers |
| rollout loop | `engine/inference.py` | active rows, lengths, caches, graphs, step counter | admit, prefill, cancel, decode, free; allocate, offload and drop caches |
| rollout scheduler | `engine/data/rollout_state.py` | pending cursor, block pool, block tables | `build_prefill_payload`, `ensure_decode_blocks`, `append_prompts` |
| roles | `engine/roles.py` | role models and their placement | build, onload, offload, score, train values |
| training | `engine/training.py`, `engine/runtime/` | accumulated gradients, step counter | packs, gradient sync, step |
| trajectories | `api/agentic.py`, `api/trainers/policy_only.py`, `api/rewards.py` | samples | merge turns, mask, filter, advantages |
| parallel layers | `engine/layers/`, `engine/parallel/` | sharded weights | forward, backward, collectives |
| optimizers | `engine/optim/` | buckets, master weights, moments | step, gather, offload, state dict |
| checkpoints | `engine/checkpoints/`, `models/*/checkpoint.py` | staged copies, store, index | save, load from file or over NCCL |
| models and kernels | `models/`, `accel/`, `engine/layers/attention_backend/` | caches, expert rows | prefill, decode, train; dispatch |
| agentic proxy | `api/agentic.py` | sessions, in-flight requests | begin, serve, time out, close |
| serving | `cli/serve.py` | futures, tasks, watchers | request, disconnect, shutdown |
| agent | `agent/`, `cli/agent.py` | conversations, workspaces, one terminal | turns, tools, submit, judge |
| dashboard | `dashboard/server.py`, `cli/dashboard_registry.py`, `api/metrics.py` | job table, state file, registry, run files | start, stop, list, read, watch, restart; an operations agent |
| command line | `cli/train.py`, `cli/auto_tune.py` | the config, measurements of probes | refuse, smoke, tune, run |
| parsing and other commands | `cli/`, `api/tool_call_parser.py` | | sequential I/O |

### How they interact

A trainer's `fit` opens a rollout session and runs the phases of its algorithm one after the other:
rollout, scoring by the roles, training, checkpoint. Each phase is a call of the backend, which cuts
the batch into packs, and of the engine, which deals rows over data-parallel (DP) groups and merges
the answers. `TPCluster.call` registers a pending call and, under `_send_lock`, puts the command on one
queue per rank. Each rank serves its queue in `_worker_entry`, deferred commands first. A rollout runs
the loop of `inference.py`, which on every iteration calls back into the worker: `refill_waiting`
takes more commands off the queue and lets compatible rollouts join the running batch, and
`send_finished` answers every request whose rows are all done. The ranks of a tensor-parallel (TP)
group must decide alike at the same point, so rank 0 takes the command and broadcasts its identity,
and its siblings look for it in their own queues. All ranks put results on one shared queue; the pump
thread applies them to the pending calls and, when the queue is quiet, fails the calls that wait for a
dead process.

Between commands the worker moves state: the actor is offloaded while a role scores, its optimizer
state and training weights come back for a step, caches, graphs and fused inference weights are kept
or dropped. Two flags remember what is there, and several handlers rely on flags that others left.

An agent inside a session sends chat requests to a proxy whose handler threads schedule coroutines on
the trainer's event loop. The server does the same with one loop and no threads. The coding agent runs
turns of several items in lockstep, with tools in threads. The dashboard starts training and serving
processes, watches each from a thread, reads the files they write, and finds those started elsewhere
through a registry file that every `areno` process rewrites.

### What is hard

* The block pool is shared by rows that are admitted, grown, cancelled and released at different
  points of one iteration; prompts may be prefilled in chunks over several iterations.
* Commands are interleaved by threads, deferred, overtaken by joining rollouts, and replicated to
  ranks that consume them at their own pace; workers raise or are killed; callers time out.
* Residency: a long legal sequence of sessions, scoring, offloads and drops must leave flags and
  storage in step, and graphs captured over freed memory must never be replayed.
* A tensor exists in many layouts (row, column, fused, interleaved, replicated, bucketed, quantised)
  and every component converts between two of them; a wrong order trains without an error.
* Waiting is layered: a shielded rollout, a future with a timeout, a thread, a loop that is closing.
* A job's status is written by its launch, its watcher, scans, refreshes, a stop and a restored file,
  only partly under one lock.

### What makes each component correct

* scheduler and loop: each block in exactly one place, no exhaustion of a pool the engine sized, every
  row decoded into a block it owns, an answered row never touched again, and every rollout ends;
* worker: each request answered once with its own rows, other operations in submission order, nobody
  forgotten;
* coordinator and ranks: TP ranks in lockstep, a call succeeds only when every rank it waits for has
  reported, fails only when a worker is down, and always ends;
* residency and trainers: flags tell the truth, one model on the device, every pass finds its weights,
  and what is trained was sampled by the weights being trained;
* sizes: the largest that were measured to fit, and none that was not measured;
* data: answers in input order, rows that say what was sampled, every target in exactly one step;
* shards: the layout does not show in logits, gradients, updates or checkpoints;
* kernels and caches: a rollout reads for each token what training reads for it;
* sessions, serving, agent: rollouts inside sessions, answers that are genuine, nothing cut or left
  waiting, and trajectories that are what the model saw;
* dashboard: what it shows of a job is true, its own and shown once; a stop reaches the process.

## 2. The modules

| Module | Models | Uses |
|---|---|---|
| `RolloutScheduler` | `InferenceBatchState` and `_generate_rollout_tokens_no_sync` on one rank, sized as `generate_rollout` does | |
| `ContinuousRollout` | one worker process: `_worker_entry` and `run_continuous_rollout_payload` | EXTENDS `RolloutScheduler`, conjoins its actions with the callbacks of the same step |
| `Subsequences` | list comprehensions, as a recursive function that proofs can use | in the worker, the deal of rows, trajectory rows, optimizer shards, layer caches and the dashboard |
| `TPCluster` | coordinator threads, queues, pump, ranks of TP and DP groups, failures | `INSTANCE ClusterCalls` |
| `ClusterCalls` | abstract: what `call` and `call_async` promise | |
| `WorkerResidency` | `ArenoWorker.handle` and the managers' residency, roles, graphs, per model family | |
| `PolicyTrainer` | the `fit` loops and auto-tune's probes | EXTENDS `WorkerResidency`; `INSTANCE OnPolicy` |
| `OnPolicy` | abstract: an update uses only log-probabilities of the version it updates | |
| `AutoTune` | what `areno train` does before its run: options, smoke runs, the search for sizes | |
| `DataParallel` | dealing, chunking and merging of a request's rows | |
| `TrajectoryRows` | turns become rows, masks and advantages | |
| `TrainPacks` | rows become packs, windows, normalisers, steps | |
| `TensorParallel` | a decoder layer over a TP group with its gradient syncs | |
| `VocabSampling` | sampling on a split vocabulary, and the log-probabilities of what was sampled | |
| `OptimizerShards` | both AdamW optimizers over DP ranks | |
| `Checkpoints` | save and load; what each model family keeps | |
| `AttentionKernels`, `LinearKernels` | kernels as operators, with their references | |
| `KernelLaunches` | one launch, over every small shape | EXTENDS both |
| `RolloutCaches` | what layers store and read while a batch runs | EXTENDS `RolloutScheduler` and both kernel modules |
| `LayerCaches` | ownership and sharing of per-layer cache tensors | |
| `MoeDispatch` | routers, permutation, alignment, expert compute and gradients | |
| `AgenticSession` | the trainer's session and its proxy | |
| `ServeApp` | the server | |
| `WorkspaceTools`, `CodingAgent` | the agent's tools; its training loop | `CodingAgent` EXTENDS `WorkspaceTools` |
| `ToolCommand`, `AgentConsole` | a terminal command; the console with its judge | |
| `Dashboard`, `DashboardAgent` | the job table with its processes, files and restarts; the operations agent | `DashboardAgent` EXTENDS `Dashboard` |
| `MC*` | instances for TLC; several hold independent parts in one run | EXTENDS what they instantiate |
| `RolloutSchedulerProofs` | the scheduler's theorems | EXTENDS `RolloutScheduler` |
| `ContinuousRolloutProofs` | the worker's theorems | EXTENDS `ContinuousRollout`, `InductionFacts` |
| `TPClusterProofs` | the cluster's theorems, with the refinement of `ClusterCalls` | EXTENDS `TPCluster`, `InductionFacts` |
| `PolicyTrainerProofs` | the residency's, the trainers' and the search's theorems, with the refinement of `OnPolicy` | EXTENDS `PolicyTrainer`, `AutoTune`, `InductionFacts` |
| `DataPlanProofs` | the theorems about the answers of a request, trajectory rows and optimizer shards | EXTENDS `DataParallel`, `TrajectoryRows`, `OptimizerShards`, `InductionFacts` |
| `LayerProofs` | the theorems about layer caches and split layers | EXTENDS `LayerCaches`, `TensorParallel`, `InductionFacts` |
| `FrontProofs` | theorems about sessions, server, console, terminal command and dashboard | EXTENDS the five modules, `InductionFacts` |
| `InductionFacts` | induction in set form; lemmas about `Subsequences` and about sums over finite sets | EXTENDS `Subsequences` |

### RolloutScheduler and ContinuousRollout

Rows are numbered from 1; a row is its prompt length. `pc` names the point of the single-threaded
loop:

```
refill -> pack -> prefill -> (free_prefilled) -> cancel -> (free_cancelled) -> test
   ^                                                                            |
   +---------------------- (free_decoded) <-- ensure <--------------------------+--> done
```

`PackRow`, `EnsureRow` and `FreeRow` are one row of the loops of `build_prefill_payload`,
`ensure_decode_blocks` and `_free_rollout_rows`; the other actions are the statements between two such
loops. `RaiseCancel` is the caller writing a flag, enabled between any two steps. Tokens are "a stop
token or not", chosen freely where `sampling.py` permits. The initial state is either any share of a
chunk sized by `generate_rollout` (`EngineSized`; the longest prompt and the widest rank of the chunk
may be on another rank), or, with `GivenSizes`, the sizes a direct caller passes, as the repository's
tests do. `ContinuousRollout` adds the queue, the deferred commands, the request rows and the two
callbacks of a step; `key` stands for the payload fields that must be equal for two rollouts to share a
batch. A worker is here alone in its TP group.

### TPCluster and ClusterCalls

One variable per queue and per rank; `at[r]` is what rank `r` is doing. Submitting takes the lock and
puts to one rank per step. A collective is one joint step of a TP group, enabled when all members have
arrived. `Forward` stands for the rollout loop between two looks at the queue: any subset of the
current requests finishes. `PumpEmpty` and `PumpCheck` are separate because the code takes a snapshot
of the calls and then looks at exit codes. Results go through `outbox`, one `put` per step, so that a
rank can be killed between two. External behaviour: `PeerLost` (a collective with a dead peer raises),
`Killed`, the callers' timeouts. `ClusterCalls` knows only calls, who reported and who is down;
`KeepsPromise` is the refinement.

### WorkerResidency, PolicyTrainer and OnPolicy

`w` is what the worker keeps: where the actor, its training state, the KV cache and each role are, which
weight version each holds, the fused copy, captured graphs, the two flags. A handler is a function of
`w`; one that runs a pass over a model is two steps (`pass` is the pass under way), so that properties
speak of the state while it runs. A training call takes as many optimizer steps as its batch has
accumulation groups (`gradient_accumulation_steps`), each a step of the model: `pass.weights` is the
version the call began with, `pass.steps` what it has still to take. `cfg` chooses the model family,
`keep_rollout_state` and where each role's weights come from. `WNext` serves any command in any order;
`PolicyTrainer` sends the commands its algorithm sends, with its sessions, warm-up, saves, failures to
build a role and ends. `OnPolicy` sees only versions, the sources of a batch's log-probabilities and how
many updates the running call has made.

### AutoTune

One command line from its options to the run. A command that makes no sense is refused; a smoke option
makes one dummy run; `--tune-params` probes rollout concurrencies from the largest down, derives a batch
from the one that fits, and probes mini-batches of it from the largest down. What a dummy run does to a
worker is `PolicyTrainer`'s (`ProbeRolloutStage`, `ProbeTrainStage`); here it reports any peak, runs out
of memory, or raises. Memory is `Full` units, so that `mem_frac` and every peak are whole numbers.
`TunedIsTheBest` has four parts: the run is on sizes that were measured together and fit, and all larger
sizes of the search were measured and do not (`SearchWasComplete`); options that were given stay
(`OptionsAreKept`); a search goes on only while a size is left, and one that gives up has tried the smallest sizes (`FailureIsReal`); the batch is
the largest power of two in one wave of rollouts, the search starts within a factor of two of what is
allowed, and dummy rows fill the context (`SizesAreFilled`).

### DataParallel, TrajectoryRows and TrainPacks

The three stages of a batch, each a short state machine over all its small inputs. A row, a token and a
log-probability are named by where they come from, so any misplacement shows. `TrainPacks` keeps for
every trained token the signals (log-probability, reference, value, return, advantage) that meet there.

### TensorParallel, VocabSampling, OptimizerShards and Checkpoints

All on integers. `TensorParallel` keeps one linear decoder layer with hidden size one: which rank holds
which rows, which sums cross ranks, in both directions, over several accumulated microbatches; the
reference is the same net unsplit. A layout names the kind of branch: heads behind the column boundary,
heads of a delta net, whose scale is not marked for the synchronisation, or experts, which pass no
column boundary and so sum no gradient over ranks. The scales of norms, and scales shared by heads or
experts, are part of the net and of its gradients. Where the code sums a gradient too often or not at
all, so does the model, and `SplitLayerIsWhole` states, weight by weight, what that makes of it (§5). `VocabSampling` follows a token from the logits of the shards to its
gradient: the pick (greedy from the shards, or top-k and top-p on the gathered row), suppression, the
minimum length, the truncation at a stop token, and the log-probability that the rollout records, a
role scores and the training step recomputes. A model is a table from a token to the logits that follow
it; `exp` is a power of two, scaled by `Span`, so that every log-probability is an exact pair of
integers; the temperature is 0 or 1, where a random generator is a choice among the tokens it may
return. `OptimizerShards` keeps chunks, buckets, slices, the doubled master
weight that rounds when it is copied, quantised moments, offload and state dicts; the reference is one
rank, in buckets of its own, that is never stopped. `Checkpoints` executes a model family's list of tensor kinds on the ranks
of one TP group: local slicing, gathering in lockstep, host copies under a budget that land later, and
the loading of the result on any other TP size.

### Kernels and caches

Keys, tokens and taps are identities. A softmax is the exact unnormalised weight of every key read, in
powers of two, so that rescaling, splitting and masks are visible; a linear-attention state is the set
of tokens with their decay exponents; a convolution output the set of taps. `KernelLaunches` launches
each kernel on every small shape and compares it with its reference (forward, and backward where there
is one). `RolloutCaches` runs the scheduler and stores through those kernels what prefill and decode
store, paged keys, recurrent and convolution states, slots and padded lanes of captured graphs, and
compares with what the training forward reads. `LayerCaches` follows which tensor a layer holds through
set, offload, onload, reset and clear. `MoeDispatch` places routes in any order, as the atomics do, on
each rank of an expert group, and compares the output of training and of the fused path with the whole
mixture, and each rank's gradients with those of its own experts' part of it: the ranks' outputs are
summed, their gradients of tokens and route weights are not (§5).

### Sessions, server and agent

`AgenticSession` has the event loop, the accept thread and one handler thread per request; `loopJob` is
what blocks the loop, so that work scheduled meanwhile is served after it or never. `ServeApp` has per
client a handler, a task and a watcher on one loop. `CodingAgent` runs `run_agent_batch` with the
workspaces' threads, retried queries and tool threads; the tools are operators of `WorkspaceTools` on
files as sequences of lines. `ToolCommand` is the loop around a terminal command with the process, the
clock and the user moving at any step of it, `AgentConsole` the interactive session with its judge.

`Dashboard` has the threads of its HTTP server, one watcher per child, the processes, which outlive it,
the registry they enter themselves in, and the state file. A section under `DashboardState.lock` is one
step; `start` and `stop` do half of their work outside of it and are several, and so is the tool
`get_job`, which looks at the job a second time. A command is the set of its options: the keys of a
configuration that become options or flags are those of `build_train_command` and
`build_serve_command`, smoke runs among them, which write no metrics. A pid is not used twice.
A save is one step (that saves outside the lock can tear is in section 5). The registry and its
processes are one user's, so that no signal is refused; the settings an entry carries are left out. A process writes a fixed list
of events into its files; the dashboard reads their tails and merges them as `_load_metric_files` does.
Of the metrics only samples, state and scalars are kept; logs, configurations and texts are left out.
`DashboardAgent` adds conversations: a reply in pieces (a call's name in several, its index given or
not), its assembly, the tool calls and the next round.

## 3. The runs

| Run | What it asks | Bounds |
|---|---|---|
| `Scheduler_refill` | pool, decode precondition, served rows, termination | blocks of 6, 3 new tokens, prompts of 1, 3, 5 against a bound of 1, 1 or 2 running, 4 rows |
| `Scheduler_cancel` | cancellation at any moment, error paths of a pool that is too small | prompts of 1, 2, 4; 3 rows, 3 given sizes |
| `Continuous_refill` | answers once, own, in order, to everybody; joiners fit | 3 commands of 6 shapes, two rows at most each, cancellable ones among them |
| `Cluster_lockstep` | agreement of two TP ranks | 3 calls of 3 shapes, no faults |
| `Cluster_promise` | refinement of `ClusterCalls`, timeouts, late results | two DP groups, 2 calls of 3 shapes |
| `Cluster_faults` | every call ends under an exception, a kill or a late command | two TP ranks, 2 calls, 1 fault |
| `Training_phases` | residency and learning under every fit loop | 3 batches, 1 or 2 updates in a call and 6 at most, 2 rollout calls in a session, roles from copies and files, two cache sizes |
| `Agentic_session` | proxy, server, agent, console, terminal, patches, dashboard | 2 requests and threads, 2 clients, 2 items, 2 retries, 3 turns, 3 submits, 2 chunks; patches of 1-2 hunks over files of 0-3 lines; 2 handlers, 1 job at a start, 2 processes, 2 lives, 2 rounds |
| `Data_plan` | sizes, order, rows, targets | 7104 command lines, 2 units of memory, 3 probes of concurrencies up to 33; batches of 1-4, 1-3 DP ranks, 1-2 samples; 3 turns; packs of 1-4 rows (prompt, agentic, PPO, policy, SFT, DPO), accumulation 0-2 |
| `Shards` | layers, vocabulary, optimizers, checkpoints | dense layers (K/V hook on and off), delta nets and experts on TP 1, 2, 4 with 1, 2, 4 KV heads; a vocabulary of 4 on 2 and 4 ranks, chunks of 2 and 3 sites, 3 new tokens; DP 1-3, 2 updates; 15 model layouts, 2 saves |
| `Attention` | kernels, caches, layer caches, experts | batches of up to 5 tokens, 3 windows, tiles 1-3; 3 rows; 5 layer stacks; 2 ranks with 2 experts |
| `Chunked_prefill` | a counterexample: a prompt prefilled in pieces | as `Attention` |

Why they are enough to be interesting. A prompt of 5 with a budget of 2
is prefilled in chunks, the first of which takes the one block a row of 6 tokens needs; a
row of 8 needs its second block during decode; 4 rows with 2 running force admission after release and
reuse of blocks; and one running row with a prompt of more than one chunk reaches the state in which the
loop spins (section 5). Three commands are the least for one to run, one to
be deferred and one to join past it; three calls let a third reach the queues between the put of the
second to rank 0 and its arrival at rank 1. One fault at a time already reaches every pair (point of
death, point of the peers). Three batches let a stale copy survive one update and be read in the
next, two updates in a call are the least for one to be off the policy, and two rollout calls in a
session reuse a cache. DP 3 splits batches unevenly and replicates small ones; TP 4
over 1, 2 and 4 KV heads has copies, shares and whole heads. Bounds on counters are constants
(`MaxRows`, `MaxCommands`, `MaxCalls`, `MaxQuiet`, `MaxFaults`, `MaxVersion`, `MaxBatches`, `MaxTurns`,
`MaxSubmits`, `MaxChunks`, `MaxPacks`, `MaxUpdates`, `MaxSaves`, `MaxJobs`, `MaxProcs`, `MaxLives`,
`AgentRounds`); `sample_step` saturates at `MinNewTokens`, after which the code never looks at it.

`Agentic_session`, `Data_plan`, `Shards` and `Attention` hold parts that do not interact: the initial
state chooses one and the others rest. The dashboard takes part in four settings, each small where the
others are not: `races` (two handlers over one process), `files` (two processes that write into one
directory), `lives` (a second dashboard over the file of the first) and `talk` (the operations agent).
`TypeOK` of the scheduler is not an invariant of a run: it is proved. The runs of several parts switch
deadlock checking off because a finished part stops, as do a terminal command and a batch; the other
runs check deadlock.

### Fairness

The scheduler and the worker assume weak fairness of the one loop that runs whenever it can;
cancellation, failures and submission have none. In `TPCluster` each rank, each TP group's joint step,
the sender and the pump are threads or processes the operating system schedules; nothing makes a caller
call, a worker fail or a timeout expire. `EveryCallCompletes` holds with no timeout at all: the death of
a rank wakes its peers through `PeerLost` and the callers through the pump. `FitEnds` assumes that the
trainer, a sequential program, goes on. `EveryFrontAnswers` assumes that handlers, tasks and the drain
are run by their event loops, that the agent's threads run and its queries are answered or fail within
their timeouts, that the loop around a terminal command runs, and that its clock advances; clients,
disconnects, the command itself and shutdown have none. Of the dashboard it assumes, in `lives` and
`talk`, that the thread of a request and the watchers run and that the remote model answers or fails
within its timeout; processes, users and the end of the dashboard have none.

## 4. The proofs

### The scheduler: `RolloutSchedulerProofs`

For every block size, number of tokens, prompt lengths, batch and pool the named assumptions allow
(sizes are positive, modes are Booleans):

* `TypeCorrect`: `Spec => []TypeOK`. `TypeOK` is not inductive: a response stays within `MaxNewTokens`
  only because active rows have room for one more token, and a row being packed has not passed its
  prompt. The invariant is `TypeInv == TypeOK /\ RowsOK`.
* `BlocksAreConserved`: `Spec => []BlocksConserved`. The property quantifies over places; the
  induction uses `PoolOK`, its split into "the free list has no duplicate", "tables have none between
  them", "free and held are disjoint" and "every block is one or the other". Every action that touches
  the pool is a `Take` or a `Release`, so two lemmas carry the step (`PoolTake`, `PoolRelease`).
* `NeverExhausted`: `Spec => []NoExhaustion`. `BoundsOK` bounds each row's table by the width of a
  block table and the number of tables by the running rows; `Room` is a pigeonhole argument, by an
  injection of the held blocks into pairs (row, position): if every running row may fill its table,
  whatever a row still misses is free.
* `EngineNeverExhausts`: a batch sized by the engine satisfies the premise of `NoExhaustion` for ever.
* `RowsServedThroughout`: `Spec => []RowsAreServed`, from three more invariants. `CoveredOK`: a row's
  table covers what is cached of it, and one token more once `ensure_decode_blocks` has visited it (the
  arithmetic is in `NextTokenFits` and `CeilDivCovers`). `HoldersOK`: only rows being decoded, sampled
  for, prefilled or freed hold blocks. `SampledOK`: a row has a response exactly when its prompt was
  sampled for. At the end nobody is left to hold a block, so `PoolOK` makes the free list a bijection
  onto the pool (`AllFree`), and `SampledOK` gives every row its response.
* `AnswersAreFinal`: `Spec => ServedRowsStayServed`, and `CancelledRowsLeave`: `Spec =>
  CancelStopsDecoding`, the action properties. Both rest on `SampledOK`: the rows a step writes to are
  active or waiting for their first token, and an answered row is neither. The second also needs
  `HoldersOK`: when a row gets its next token, no row that left the batch holds blocks any more.

### The worker, its trainers and the search for sizes: `PolicyTrainerProofs`

For any set of roles with the three names, any request sizes and any bounds:

* `WorkerInvariant`: `WSpec => []WInv`, for a worker that is sent anything in any order. None of the
  residency properties is inductive. `WInv` says of the stored state (`Sound`) that it is typed, that
  the training flag implies the weights, that graphs are captured only over the storage that is there,
  and that the fused copy and the cache belong to the version they were prepared for; of the pass under
  way that its record agrees with the residency (`PassType`, `DecodeIsReady`, `TrainsWhole`); and that
  the actor is away while a role is on the device (`ActorAway`). Each residency function has a lemma
  that says what it keeps of `Sound`, so an action is a chain of cited lemmas.
* `TrainerDrivesWorker`: `TSpec => WSpec`. Every step of a trainer is a step of the free worker, or
  leaves it alone. What was proved of the worker therefore holds under every trainer.
* `TrainerInvariant`: `TSpec => []TInv`, with `TInv == WInv /\ LoopInv /\ plan \in Plans`. `LoopInv` ties
  the place of the loop to the pass under way, to the commands still queued, to the versions a batch's
  log-probabilities come from, to what a checkpoint saves, to the updates a training call has made and
  has still to make (`StepsOK`), to the critic's values and to the reference, which exists before the
  first update.
* `TrainerReadyMeansLoaded`, `TrainerOneModelOnDevice`, `TrainerPassesFindTheirModel`,
  `TrainerRolesKeepTheirPart`: the four invariants that `Training_phases` checks. The first says of
  `_train_state_ready` that it is set only while the actor is on the device with its training weights.
* `TrainerLearnsOnPolicy`: `TSpec => LearnsOnPolicy`, the refinement of `OnPolicy`: initial states map to
  initial states and each step to a `Sample`, a `Discard`, an `Update`, a `Return` or a stutter. A call
  uses only what the version it begins with produced; that is on-policy learning when a batch is one
  accumulation group, and otherwise up to the updates of one call (section 5).

The same module proves `TunedAlways`: `UTSpec => []TunedIsTheBest`, for any set of command lines, any
amount of memory and any number of probed sizes that is at least two (the code's is 16; with one,
`_sparse_select` would divide by zero). The invariant `TuneInv` says at each point of the search what is
known there: the measurements are of one stage and do not fit, the sizes that are left are the smallest
of the stage (`Searched`), the template is the one derived from a concurrency that fits or was given
(`WaveOf`, `Concurrency`), and a run is on what was measured (`Chosen`). Under it are three facts about
numbers: that the largest power of two up to `n`, defined as a number without an odd divisor, is more
than half of `n` (`FloorIsLargest`), that a sparse selection keeps the smallest and the largest size
(`SparseKeepsEnds`, where rounding halves to even meets both ends), and that one is always among the
sizes of a stage (`RolloutSizesFacts`, `WaveFacts`), without which a search could end with nothing tried.

### The worker's queue: `ContinuousRolloutProofs`

For any commands (`Shapes`), prompts, sizes and bounds:

* `CommandsAreAnsweredOnce`: `CSpec => []EachCommandOnce`. `WorkerInv` says where the commands of a live
  worker are: the queue, the deferred list, the requests of the running batch and the answers are
  disjoint, without duplicates, and make up what was submitted (`CommandPlaces`); the requests the
  process would fail if it raised (`current_ids`, kept by `_worker_entry`) are those of the batch that
  are not answered (`BatchIsCurrent`, kept by the callbacks); and the answers so far all succeeded. The
  two are separate variables updated at different places in the code, which is why the property is not
  inductive. When the worker raises, the failures it posts go to exactly the first kind, or, when there
  is none, to the running command, which then has been answered; `PlacesLeft` says where the commands of
  a dead worker are.
* `JoinersAlwaysFit`: `CSpec => []JoinersFit`. It extends the scheduler's proofs: a step of the batch that
  adds no rows is a step of `RolloutScheduler`, so its invariants carry over (`BatchStepKeepsSched`); a
  command that joins fits because `_rollout_payloads_compatible` compares its `max_cache_len`
  (`PayloadFits`, `JoinKeepsSched`); a rollout that starts gets a fresh pool with a full table for each
  running row (`FreshIsSched`); and `Room` does the rest.
* `AnswersAreOwn`: `CSpec => []OwnAnswer`. `OwnInv` adds, to be able to say that an answer assembled at
  the end of a row's life is still about the row it began with: that request `k` of the batch has one
  row per prompt, at which that prompt stands (`RowsBelong`); and, of the rows (`BatchInv`), that they
  are typed, that an inactive row which was sampled for has a response and a reason that agrees with its
  length, and what each place of the loop knows of the rows it has just handled. It repeats for a batch
  that grows by joining rollouts, between several owners, what `RolloutSchedulerProofs` has of one batch: the
  worker's steps are not those of `RolloutScheduler!Spec`, since rows come and go with commands.

### The cluster: `TPClusterProofs`

For any numbers of ranks, groups, calls, threads, faults and time-outs:

* `CallsKeepTheirPromise`: `Spec => KeepsPromise`, the refinement of `ClusterCalls`. A call's abstract
  outcome is what its caller was given, the abstract reports are the results that were put on the queue,
  and a rank is down once it starts to fail. `TypeInv` and `ReportsInv` (the pump has taken no report
  that was not posted, no error was posted by a rank that is up, and a rank that a call no longer waits
  for has reported) make every step one of the abstract ones or a stutter.
* `RanksOfAGroupAgree`: `Spec => []RanksAgree`. Ranks of a group consume their queues at their own pace,
  so the invariant compares two ranks by the *script* each still has to follow: what it has executed,
  what it has put off, then the rest of what was sent (`Script`). `GroupInv` says that the scripts of two
  live ranks are equal and that the one behind is at a place from which it reaches the other's without
  a collective in between (`SamePlace`, `Behind`); ranks that are down left a prefix. `QueueInv` ties
  each queue to the order in which calls were put under the lock. A joint step moves all members of a
  group at once, so it is the single steps (taking a command, the pop of a sibling, posting, failing)
  that need the argument.
* `OperationsRunInOrder`: `Spec => []OthersInOrder`. `OrderInv` says that what a rank has executed, has
  put off and has not taken yet, in this sequence, keeps the operations other than rollouts in the order
  of submission; only rollouts overtake.

### The fronts: `FrontProofs`

Each for any set of requests or clients and any limits:

* `SessionHoldsItsRollouts`, `AnswersMeanRollouts`: `SessionInv` says that the commands sent so far tell
  the phase of the session (`CommandsTellTheSession`), and of every request that its thread, coroutine,
  shielded task, answer, future and status are in one of the combinations the code allows
  (`RequestIsInOrder`). The request's pieces are moved by three threads; the invariant is what they
  agree on. The set of requests is assumed not to contain the names of the other commands
  (`ReqsAssumption`), as they are different calls in the code.
* `RolloutsAreNotCut`: the active set is the tasks that are not done, and from the moment requests are
  refused it lies inside the set that the shutdown waits for.
* `ConsoleIsJudged`, `CommandsTellTheTruth`: the console's newest submit and its verdict, and the way a
  command ended against what is reported of it.

* `EndsAndStopsAreTrue`: `EndedJobsAreTold` and `StopsReachTheirJob`, two of the four parts of
  `DashboardTellsTheTruth`, for any number of handlers, jobs and processes, and over any number of
  restarts. The two speak of a job's status, which scans, refreshes, watchers, readers of files and
  handlers all write. `DashInv` says who may: reading a job's files is a *steady* change
  (`Steady`: pid, process, watcher, being stopped and having ended stay), a launch is in the hands of one
  handler (`LaunchOk`), a job whose launch is over has the process its pid names (`LaunchedOk`), what a
  watcher saw end is gone for good, and of a job stopped there is a handler that still has to signal just
  this process unless it is over or was told (`StopOk`). The registry and the state file hold only what
  such jobs were (`RegistryOk`, `FileOk`), so that a new dashboard starts from it. Most steps are no part
  of a launch; one lemma (`CalmKeeps`) serves them all. `CapAssumption`: the registry keeps a positive
  number of entries (`cli/dashboard_registry.py:45`).

### Answers, trajectory rows and optimizer shards: `DataPlanProofs`

* `RowsTellTheRolloutAlways`: `RSpec => []RowsTellTheRollout`, for any contexts, responses and rewards and
  any number of turns. The property speaks of the batch only; `RowsInv` says of every row at every stage
  that it is *honest*: token, response and loss rows are equally long, the row of log-probabilities is not
  longer, and if it is as long, each trained position names the turn and the place where its token was
  sampled. Appending to a row a turn whose log-probabilities are missing makes it shorter for ever, which
  is why `Aligned` is enough to reject it at the end. That the advantages of a prompt add up to nothing is
  `SumLinear` of `InductionFacts`. `TokensAssumption` says that tokens are natural numbers.

* `AnswersComeInOrder`: `DSpec => []AnswersInInputOrder`, for any prompts, samples, ranks, chunk sizes,
  cursors and microbatches. Each operation is first shown for itself. `DealtTo`, by induction over the
  rows: what rank `r` of `d` is dealt is `r`, `r + d`, `r + 2d`, ... as long as there are rows; with it
  `MergeInOrderIs` finds row `i` at round `(i - 1) \div d` of its rank. With a cursor the deal begins
  elsewhere, and `AtOnce` says that each row is still at exactly one place, which is all that the merge by
  indices needs (`MergeByIndicesIs`). `MergeStridedIs`, by induction over the rounds: the ranks that have a
  row left are the first ones, so that every round continues the rows where the last one ended.
  `ShareIsScored`: a microbatch is padded to at least the length of each of its rows, and the padding is
  cut. `ChunksAreRows`: whatever running limit and budget, the chunks behind each other are the rows in
  order (`PlaceKeepsRows` for one row). `DInv` then says that the outputs so far are the chunks so far.
  `RequestsAssumption` is what the code makes of its calls: a rollout without prompts raises
  (`engine/api.py:243`, `:393`), scoring without rows returns at once (`engine/api.py:532`), and a row to be
  rewarded is not empty, as it would be scored at its padding otherwise.

* `ShardingIsHidden`: `OSpec => []ShardingDoesNotShow`, for any parameters on any devices, any number of
  ranks, chunks and buckets of any size, either optimizer, and any history of steps, moves to the host
  and back, clears, saves and reloads. A gradient is one integer for a whole parameter, as in the model.
  First the layout: `AllChunksAre` and `PackedIs`, an induction over the chunks, make every element of
  every parameter lie in exactly one chunk of exactly one bucket, and no chunk in two (`LayoutIsOk`);
  `OneKeeper` gives each offset of a bucket to exactly one rank, the last ranks having short or empty
  shards; `SliceElements` says that a rank's slice of a chunk is what the two have in common. Hence
  `GatherIs`: after `_all_gather_bucket` every rank has, of each element, what its one keeper wrote, and
  what is in no chunk that was gathered stays. That already makes the ranks agree, whatever each of them
  computes (`SteppedAgrees`).
  That what they agree on is what one rank would have computed needs an invariant about states that are
  laid out differently, so that they cannot be compared place by place. `OptimizerOk` says instead that
  there are two tables, `E` with a master and `A` with a moment for every element of every parameter, and
  that *both* optimizers hold them: the model is `E` rounded, and a bucket has either no state yet, where
  `E` is the widened weight and `A` is zero, or masters and moments that are the entries of the two tables
  at each rank's own places (`StateOk`, `AllHeld`, `BothHold`). The same for what was saved. A step
  changes the tables by the update rule (`SteppedHolds`, an induction over the buckets over one over the
  chunks, in the middle of which both are a mixture of old and new, `Mixed`); a chunk sweeps only its
  own elements (`Sweep`), and the gradient of a parameter is still there for its later chunks, in this
  bucket and in the next (`GradsStay`), which is where a release at the first chunk would break it. A
  clear rounds `E` and empties `A`; a move changes neither. The unsharded optimizer is one of these,
  with one rank and other chunks and buckets (`WholeIs`), so that each lemma serves both.
  `OptimizerAssumption`: parameters have lengths, and numbers of ranks, buckets and chunks are positive,
  as the constructor makes them (`engine/optim/adamw_fp32_master.py:79`, `:83`).

### Layers: `LayerProofs`

* `LayersKeepTheirCaches`: `LSpec => []LayersOwnTheirCaches`, for models of any number of layers. `LInv`:
  either nothing is bound, or each layer is bound to exactly one tensor, that of its writer, all on one
  device, and a tensor holds the tokens of its writer at most. Bailing numbers the caches of its softmax
  layers by a running index, so the lemma under it (`KeptAtItsCount`) is that the n-th kept layer is the
  one with n softmax layers up to it. `ModelsAssumption` is what `models/gemma4/model.py:946-959` makes of
  a shared layer: its source is an earlier layer with a cache of its own.
* `SplitLayersAreWhole`: `TPSpec => []SplitLayerIsWhole`, for any weights, any vocabulary, any sequence,
  any kind of layer, any number of microbatches and any number of ranks that divides the rows. First the
  ranges: `ShardFacts` says that the ranges of an even partition lie within the rows and that no two
  meet, and `SumOfShards`, an induction over the ranks, that what the ranks add up over their own ranges,
  summed over the ranks, is the sum over all rows. `RepAllReduce` turns this into a statement about
  tensors: where every rank holds the partial sum of its rows, the collective leaves a copy of the whole
  on every rank. With it, `ForwardIs` and `BackwardIs` give what `Forward` and `Backward` compute, step by
  step, as functions of the position, the row and the set of heads a rank learns from (`XOf`, `YOf`,
  `HeadRow`, `PreOf`, ...), in which the number of ranks does not occur: that set is all heads behind the
  column boundary and the rank's own (`Seen`) without it, and the unsplit layer is the case of one rank.
  What follows is about the sums that no collective forms: gradients of a scale add up over the ranks to
  the whole one or to as many of it as there are ranks (`GainsAddUp`, `PresAddUp`, `WholesAddUp`), and the
  parts of a key/value head's gradient add up over its copies (`KvAddUp`), because a head's readers are on
  the ranks that hold a copy of it (`KvAligned`, `KvHolders`). `EmbedLearns` says that a rank's rows of the
  embedding learn what the whole layer with that rank's experts alone would teach them. The invariant
  `SplitInv` (`Related`, `ScaleSums`, `ScalesSynced`) says all this of the accumulated gradients:
  `RelatedOne` of a microbatch, `RelatedMore` of one more, `RelatedSynced` of the synchronisation, which
  turns the sums over ranks into every rank's gradient of a marked scale.
  `LayoutsAssumption` and `NetsAssumption` say that the layer can be built: the ranges divide the rows,
  and key/value heads are split or replicated evenly, since `_shard_range` and `_kv_shard_range` raise
  otherwise (`engine/layers/linear.py:46-70`); `PacksAssumption` gives every position a gradient for
  every row of the vocabulary.

### Induction: `InductionFacts`

The library's induction theorems take a predicate as a parameter and cannot be used. `NatSetInduction`
puts a set in its place and follows from the well-foundedness of `<` alone. With it the module proves
what `Kept`, the recursive function behind the worker's list comprehensions, returns: a subsequence of
its argument, with exactly the elements wanted, in their order and without new duplicates. The proofs
of the worker and of the cluster rest on these lemmas.

The sum of the community modules is a `CHOOSE` of a recursive function over the subsets of a set. That
such a function exists (`SumExists`) is an induction over cardinalities; from it follow that integers
add up to an integer (`SumType`), that only the summands matter (`SumSame`), that any element can be
taken out (`SumOfOthers`, which is where the order of choice is shown not to matter), that two parts add
up to the whole (`SumOfParts`), and that sums are linear (`SumLinear`). The proofs about trajectory rows
and split layers rest on these.

### Model-checked only

* Liveness: `EveryRolloutEnds`, `EveryCommandAnswered`, `EveryCallCompletes`, `FitEnds`,
  `EveryFrontAnswers`. Fairness and `ENABLED` are out of this prover's reach.
* `TurnsAreWhatTheModelSaw` and `PatchesLandWhole`: their modules use `RECURSIVE` operators, which turn
  the prover's SMT backend off.
* Of `DashboardTellsTheTruth` the parts about the files of jobs and about the agent
  (`ShownDataIsTheJobs`, `AgentDoesWhatWasMeant`): what is shown is a sequence put together by reading
  tails of files again and again, and its order is the recursion itself.
* `StepsTrainTheBatch` (the other half of `SizedAndTrained`), `SplitVocabularyIsWhole`, `RoundTrip`, `RolloutReadsItsHistory`, `KernelsAgree`,
  `ExpertsAgree`: they compare computations by folds, `SelectSeq`, sorting and products with their
  references, and the operators of the community modules they are built from have recursive definitions. What these compute for every input is an induction over data; each
  needs an induction in set form of its own, as `DataPlanProofs` has for the layout of buckets.

## 5. Disagreements and observations

One run ends in a counterexample. `Chunked_prefill` / `PiecesContinue`: `accel/kernels/seg_la.py:8-11`
says that later chunks of a prompt continue from the stored state; `models/bailing/model.py:964` passes
the scale of a first chunk for every prefill, so that a prompt cut by `max_prefill_tokens` forgets its
prefix in the linear layers. The softmax layers read only the piece as well
(`engine/layers/attention_backend/infer.py`), and the gated delta nets of Qwen3.5 and MiniCPM start a
prefill from whatever their slot holds, the former row's state included (`models/qwen3_5/model.py:435`).
`RolloutReadsItsHistory` therefore speaks of prompts that fit one payload and, for delta nets, of slots
not used before; a payload in which every prompt is one token takes the decode kernel
(`accel/kernels/seg_la.py:155`) with the same effect.

Met while modelling, kept out of the runs' premises or described by the model as the code does it:

* *A long prompt can spin.* If a rank has one running row and the first chunk of its prompt takes every
  block, `engine/data/rollout_state.py:98` refuses to build because the free list is empty although the
  row needs no further block, and `engine/inference.py:402-405` loops. The property `EveryRolloutEnds`
  names that state, `HeadHoldsThePool`, as the one other way a rollout may go on for ever;
  `Scheduler_refill` reaches it.
* *An answer and then an error.* When the process dies after its whole batch has been answered, in the
  synchronize behind the last row, `_current_request_ids` is empty and `engine/protocol.py:547` falls back
  to the command that is running: it gets an error behind its answer. `AnsweredOnce` allows this one case.
  The coordinator drops the error when the call has ended; when other ranks are still to answer, the
  error fails a call that this rank had done (`engine/protocol.py:384-394`).
* *Siblings need not skip.* The comment at `engine/worker.py:292-295` expects a sibling of rank 0 to meet
  other commands in its queue before the announced one ("stale deferred commands after prior async
  returns"), and `_pop_matching_refill_command` puts these aside. The model has that loop as written,
  and the lemma `NextIsPicked` of `TPClusterProofs` shows that the case the comment describes does not
  arise: broadcasts hold a lock, so each rank is sent the same commands in the same order, and ranks of
  a group run and defer the same ones. No property checked by a run rests on it.
* *A request without an answer.* The handler of the proxy catches `json.JSONDecodeError` alone
  (`api/agentic.py:433-439`): a `Content-Length` that is no number, a body that is not UTF-8 or JSON that
  is no object raises out of it, and the connection is closed without a response. `HandlerDies` is that
  step; `EveryRequestAnswered` asks an answer of every other request, and the slot back of this one too.
* *`min_new_tokens` counts the batch.* The mask uses the batch's step counter
  (`engine/inference.py:333,419` against `engine/data/sampling.py:52-53`), so a row admitted by a refill
  may stop earlier.
* *A cancelled token is not overridden.* The sentinel is appended behind the token just written
  (`engine/inference.py:474-477` against the comment at `444-445`).
* *Exit race.* A worker that posts its traceback and exits between the pump's empty `get` and its look
  at exit codes is reported as one that reported nothing (`engine/protocol.py:414-418`); the call fails
  all the same.
* *Scoring with fused experts.* Roles of the fused mixture-of-experts families evaluate only with
  prepared inference weights (`models/bailing/model.py:253`, `models/qwen3_5/model.py:532`), which
  `score_logprobs` prepares for no role (`engine/roles.py:301`); the pass raises, and the model keeps
  that as an unprepared version.
* *Several updates in a call.* With `gradient_accumulation_steps` set (`cli/train.py:232-237`), a call
  steps the optimizer once per group (`engine/training.py:38-54`, `engine/roles.py:422-431`): the k-th
  update of the actor trains rows that were rolled out k - 1 versions earlier, and the critic's later
  groups are clipped around values of the version before the call. `LearnsOnPolicy` and
  `RolesKeepTheirPart` state that distance; it is zero for the default, one group.
* *DPO pairs.* The loss takes neighbouring rows as chosen and rejected (`api/loss_fns/dpo.py:19-21`);
  `slice_data_pack` deals single rows round-robin (`engine/runtime/common.py:94`), so on two DP ranks one
  gets the chosen rows and the other the rejected ones. `StepsTrainTheBatch` says nothing about pairs.
* *PPO over agentic rows.* The windows of values and returns (`api/trainers/ppo.py:342`,
  `api/backend/areno/backend.py:465`) assume one response per row; rows with several turns shift them.
* *SFT.* The token mean is averaged over ranks, not weighted by their tokens.
* *What a train probe reports.* Every microbatch resets the peak counters (`engine/training.py:73-75`)
  and reports its own peak, and the backend averages over microbatches
  (`api/backend/areno/backend.py:374-385`), of which only the last takes the optimizer step. A tuned
  mini-batch whose mean is below `mem_frac` may have a peak above it, which is not what
  `cli/auto_tune.py:67-72` says; `Fits` compares what is reported. Prompts of rollouts without an agent
  are not bounded by `max_context_len`, to which dummy rows are cut, so that real rows can be longer.
* *Gradients summed too often.* Every `RMSNorm` weight is marked for the sum over TP ranks
  (`engine/layers/norm.py:37`, `engine/training.py:171-182`, "TP-replicated actor gradients with
  shard-local contributions"). Of a norm outside the column boundary each rank has the whole gradient
  already when rows are packed, so that the sum is `tp` times it. `ScalesAreSummed` says so.
* *Gradients not summed.* `norm_weight` of a delta net is a plain parameter
  (`models/qwen3_5/model.py:275`, `models/minicpmv46/model.py:215`), and so are Gemma4's `q_norm` and
  `k_norm` (`models/gemma4/model.py:75`, `341-342`): each rank keeps the share of its own heads, and the
  replicas drift. The input of experts passes no column boundary (`models/qwen3/model.py:99-116`), so that
  the norm before them and every layer below learn on each rank from its own experts alone: the parts of
  the norm are summed, the rows of the embedding are not (`RowsAreWhole`).
* *Copies of K/V.* Where there are more ranks than key/value heads, `QKVParallelLinear` copies rows
  (`engine/layers/linear.py:188,195`) and marks them as parallel, so that nothing sums the copies'
  gradients: each is the part of the rank's own query heads, and the copies drift. The hook of Qwen3.5
  (`models/qwen3_5/model.py:231-238`) keeps them equal but averages where a sum is due.
  `CopiesShareTheGradient` says how the head's gradient is divided in either case.
* *Sequence parallelism.* `_reduce_scatter_sequence` narrows to the rank's slice before it reduces, so
  ranks add slices of different positions (`engine/parallel/collectives.py:240-241`).
  `SplitLayerIsWhole` speaks of packed rows, without sequence parallelism.
* *Tied heads.* With tied embeddings the head still has a weight of its own, which is trained but not
  saved (`engine/checkpoints/common.py:365`, `models/qwen3/model.py:243-246`): a load puts the embedding
  in its place. `Resumed` has that loss, and `RoundTrip` admits it.
* *Checkpoint loading over NCCL* broadcasts the tensor of rank 0, also where ranks hold different
  experts.
* *Values that are keys.* A full-attention layer of Gemma4 with `attention_k_eq_v` has key rows and value
  rows of its own (`models/gemma4/model.py:330-336`), loaded from the same tensor and trained apart;
  `save_gemma4_attention` saves the keys alone (`models/gemma4/checkpoint.py:213-215`), so that a run that
  starts from the checkpoint has the trained keys where the trained values were. `Resumed` has that loss
  too; `RoundTrip` admits no other.
* *Experts.* A route of weight zero is dropped (`accel/csrc/moe_permute.cu:123`), and with it the
  gradient of its weight; a rank without routes leaves the gradients of its experts and of the gate
  `None`, which the syncs over DP and over TP skip (`engine/training.py:157-182`) while other ranks enter
  them. The experts' ranks sum their outputs by `all_reduce`, whose backward is the identity
  (`engine/parallel/collectives.py:143-155`), and their input is never copied to the TP region
  (`models/qwen3/model.py:99-116`, `171-180`, `models/bailing/model.py:253-269`, `394-422`,
  `models/qwen3_5/model.py:532-547`): the gradients a rank has of its tokens and of the route weights are
  those of its own experts' part. The gate's parameters are marked and summed afterwards
  (`models/qwen3/model.py:158`, `models/bailing/model.py:139`, `models/gemma4/model.py:96`); what passes
  through the tokens to the layers below is not. `ExpertsAgree` says which part each rank has.
* *The agent.* `run_tool` promises to convert tool errors, but a null timeout raises through it
  (`agent/tools.py:311,352,363`) and ends the batch; workspaces made after one fails are never closed
  (`agent/agent_loop.py:235`); a multi-file patch stays applied up to its first bad file
  (`agent/tools.py:373-390`); hunks out of order duplicate lines (`408-410`, left out of the checked
  patches); the last output of a command is lost if it ends between the two polls (`652-655`); the
  judge's `"false"` counts as true (`cli/agent.py:471`).

* *The dashboard.* A stop that arrives between the start of a job and the launch of its process is
  overwritten by `running` (`dashboard/server.py:196` against `418`), and there is no process yet to
  signal; `StopsReachTheirJob` speaks of jobs that were launched. A scan of the registry turns
  `succeeded` and `failed` into `exited` (`563-564`). A job taken from the state file whose process is
  not in the registry stays as it was saved, `running` for ever, because it has neither a child to poll
  nor an entry to scan (`453-469`). A job without a pid reads the files of every process in its
  directory (`817-833`), and items that are written alike hide each other; `ShownDataIsTheJobs` excepts
  jobs read at that moment. Saves outside the lock share one temporary file (`199`, `439`, `585-587`).
  The registry is read, changed and written without a lock between processes, so that one of two
  entries made together is lost (`cli/dashboard_registry.py:20-45`).

## 6. Not modelled

* Numeric formulas: losses, rotary embedding, activations, normalisation, learning rates, precision.
  Their inputs (which tokens, which weights, which version) are what the models follow.
* String handling: tool-call and chat parsing, templates, tokenizers, prompts and wording. Their
  outcomes are inputs.
* Model definitions beyond residency, caches, experts and checkpoints: wiring of layers that are
  modelled one at a time. Sequence parallelism beyond the observation above.
* Process start-up and `close()` of the cluster; the cluster is up in the initial state.
* Of the dashboard the environment report, the file browser's tools, run configurations, logs and static
  pages; of sampling random generators, temperatures other than 0 and 1, NaN, and the text of a token.
* Reports, diagnostics, data sets and the options of `areno train` that do not concern sizes: I/O, and
  conditions on single values.
* The TP ranks' independent reads of a cancel flag: `Forward` is one step of the group.

Hazards without a property are in `PROJECT.json` with the reason.

## 7. What could follow

In this order: `ExpertsAgree` as a theorem, with the lemmas on sums and the deal; `close()` with calls pending; cancel flags read by each rank on its own.
