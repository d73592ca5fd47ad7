------------------------------ MODULE Dashboard ------------------------------
(***************************************************************************)
(* The job table of the dashboard (dashboard/server.py): handler threads   *)
(* that start, stop, list and read jobs, a watcher thread for each child,  *)
(* the processes themselves, which run on when the dashboard goes, the     *)
(* registry file in which every `areno` process enters itself, and the     *)
(* state file from which a new dashboard takes up the jobs of the old one. *)
(* Sections under DashboardState.lock are one step; start() and stop() do  *)
(* half of their work outside of it.  Pids are not used twice.             *)
(***************************************************************************)
EXTENDS Integers, FiniteSets, SequencesExt, Subsequences

CONSTANTS Handlers,     \* threads of the HTTP server
          Configs,      \* what can be asked for: a request (train, serve or a smoke run), its options
          Shells,       \* what is started in a shell
          Output,       \* what a training process writes into its files, in order; the tag
                        \* of a scalar is a segment of the step's time, "total" or "loss"
          DefaultDir,   \* DEFAULT_METRICS_LOG_DIR
          SampleTail,   \* the last 100 samples of a file are read
          ScalarTail,   \* the last 500 events of a tag are read
          RegistryCap,  \* 200, the length of the registry
          MaxJobs, MaxProcs, MaxLives   \* bounds: jobs when one is started, processes, dashboards

ASSUME CapAssumption == RegistryCap \in Nat \ {0}

VARIABLES up, lives,    \* the dashboard runs; how many have been started
          jobs,         \* STATE.jobs
          state_file,   \* .areno-dashboard-state.json
          procs,        \* the `areno` processes, by pid
          registry,     \* dashboard-jobs.json: pids in the order of entry
          handlers,
          stops         \* history: the jobs stopped in this life after their launch
dvars == <<up, lives, jobs, state_file, procs, registry, handlers, stops>>

NoPid  == 0
Absent == "None"
NoCode == 99     \* a returncode that is None

-----------------------------------------------------------------------------
(* Commands                                                                *)

bool_like(v) == v \in {"1", "true", "yes", "on"}
Given(v) == v \notin {Absent, ""}
\* config.get(k), where a config gives only some of its keys.
Get(config, k) == IF k \in DOMAIN config THEN config[k] ELSE Absent
Either(config, k, l) == IF Given(Get(config, k)) THEN Get(config, k) ELSE Get(config, l)

\* The keys of a config that become options (metrics_dir as --metrics-log-dir);
\* other keys are dropped.
ServeOptions ==
  {"model_hub", "host", "port", "world_size", "tp_size", "max_running_prompts", "default_max_tokens",
   "decode_progress_interval_s", "attn_backend"}
TrainOptions ==
  {"algo", "ckpt", "model_hub", "dataset_path", "dataset_loader_fn", "reward_fn_path", "ref_ckpt",
   "reward_ckpt", "critic_ckpt", "agent_fn", "world_size", "tp_size", "batch_size", "n_samples",
   "mini_bs", "score_micro_bs", "gradient_accumulation_steps", "epochs", "max_steps",
   "max_prompt_tokens", "max_context_len", "max_new_tokens", "max_running_prompts", "temperature",
   "top_k", "top_p", "lr", "min_lr", "lr_decay_steps", "lr_decay_style", "adam_beta1", "adam_beta2",
   "weight_decay", "grad_clip_norm", "attn_backend", "agent_timeout_s", "gspo_clip_eps",
   "grpo_clip_eps", "dpo_beta", "critic_warmup_steps", "critic_lr", "kl_loss_coef", "kl_loss_type",
   "clip_eps", "clip_ratio_c", "value_clip_eps", "value_loss_coef", "gamma", "lam", "save_interval",
   "metrics_dir", "mem_frac", "tune_max_samples"}
ServeFlags == {"eager_decode", "disable_thinking"}
TrainFlags == ServeFlags \union {"tune_params", "greedy", "adam_8bit", "drop_rollout_state", "train_tool_results"}
\* Given as --x or --no-x.
Switches == {"activation_checkpointing", "use_kl_loss"}

Options(config, keys) == {<<k, config[k]>> : k \in {k \in keys \intersect DOMAIN config : Given(config[k])}}
Option(k, v) == IF Given(v) THEN {<<k, v>>} ELSE {}
FlagsSet(config, keys) == {<<k, TRUE>> : k \in {k \in keys : bool_like(Get(config, k))}}

build_train_command(config) ==
  [verb  |-> "train",
   pairs |-> Options(config, TrainOptions) \union Option("save_path", Either(config, "save_path", "save_dir")),
   flags |-> FlagsSet(config, TrainFlags)
             \union {<<k, bool_like(config[k])>> : k \in {k \in Switches : Given(Get(config, k))}},
   extra |-> Get(config, "extra_args")]
Smoke(request) == {<<request, TRUE>>}
build_smoke_command(request, config) ==
  [build_train_command(config) EXCEPT !.flags = @ \union Smoke(request)]
build_serve_command(config) ==
  [verb  |-> "serve",
   pairs |-> Options(config, ServeOptions) \union Option("model_path", Either(config, "model_path", "ckpt")),
   flags |-> FlagsSet(config, ServeFlags),
   extra |-> Get(config, "extra_args")]

SmokeRequests == {"smoke_train", "smoke_infer"}
CommandOf(request, config) ==
  CASE request = "train" -> build_train_command(config)
    [] request = "serve" -> build_serve_command(config)
    [] request \in SmokeRequests -> build_smoke_command(request, config)
OnlySmokes(command) == \E request \in SmokeRequests : Smoke(request) \subseteq command.flags

\* Where a process writes its metrics: serving and smoke runs write none.  (No
\* extra argument is one of the options above.)
MetricsLogDir(command) ==
  LET dirs == {p[2] : p \in {p \in command.pairs : p[1] = "metrics_dir"}}
  IN  IF command.verb = "serve" \/ OnlySmokes(command) THEN Absent
      ELSE IF dirs = {} THEN DefaultDir ELSE CHOOSE v \in dirs : TRUE

-----------------------------------------------------------------------------
(* Jobs                                                                    *)

NewJob(kind, command, config, dir, pid) ==
  [kind |-> kind, command |-> command, launch_config |-> config,
   metrics_dir |-> dir, pid |-> pid, process |-> NoPid,
   status |-> "created", stage |-> 0, step |-> 0, returncode |-> NoCode,
   metrics |-> <<>>, samples |-> <<>>, timeperf |-> <<>>,
   watch |-> "none",     \* its _watch thread
   mixed |-> FALSE]      \* history: its files were read before it had a pid

\* What a job is after to_json and from_json: its process and what was read
\* from its files are gone.
Restored(job) == [job EXCEPT !.process = NoPid, !.watch = "none", !.mixed = FALSE,
                             !.metrics = <<>>, !.samples = <<>>, !.timeperf = <<>>]
SavedJobs == [j \in DOMAIN jobs' |-> Restored(jobs'[j])]
Save == state_file' = SavedJobs

Runs(p)  == procs[p].state \in {"boots", "registers", "works"}
\* os.kill(pid, 0) finds a process until it has been reaped.
pid_is_running(p) == procs[p].state # "gone"
ReturnCode(p) == IF p # NoPid /\ ~Runs(p) THEN procs[p].code ELSE NoCode
Reaped(ps) == [p \in DOMAIN procs |->
  IF p \in ps /\ procs[p].state = "zombie" THEN [procs[p] EXCEPT !.state = "gone"] ELSE procs[p]]
Ending(code) == IF code = 0 THEN "succeeded" ELSE "failed"

_refresh_job_status(job) ==
  LET code == ReturnCode(job.process)
  IN  IF job.process = NoPid THEN job
      ELSE IF job.status = "stopped"
           THEN IF code = NoCode THEN job ELSE [job EXCEPT !.returncode = code]
      ELSE IF code = NoCode THEN [job EXCEPT !.status = "running"]
      ELSE IF job.status = "running"
           THEN [job EXCEPT !.returncode = code, !.status = Ending(code)]
      ELSE job

-----------------------------------------------------------------------------
(* What is read from the files of a job                                    *)

\* The files of these processes are read: of all in the directory while the
\* job has no pid.
Sources(job) == {p \in DOMAIN procs : /\ job.metrics_dir # Absent
                                      /\ procs[p].dir = job.metrics_dir
                                      /\ job.pid \in {NoPid, p}}
Written(p, type) == {i \in 1 .. procs[p].wrote : Output[i].type = type}
TailOf(is, n) == {i \in is : Cardinality({k \in is : k > i}) < n}
Scalars(p) == UNION {TailOf({i \in Written(p, "scalar") : Output[i].tag = tag}, ScalarTail) :
                       tag \in {Output[i].tag : i \in Written(p, "scalar")}}
\* What is read of some files (of each, a set of its events), one after the other.
FileItems(files, read) ==
  FlattenSeq([n \in DOMAIN files |->
    LET found == SetToSortSeq(read[files[n]], <)
    IN  [k \in DOMAIN found |-> <<files[n], found[k]>>]])
\* An item is added once: it is known by what is written of it (a sample by its
\* step and place, a scalar by its tag, step and value), whoever wrote it.
Added(seen, items) ==
  FoldLeft(LAMBDA s, x : IF \A y \in ToSet(s) : Output[y[2]] # Output[x[2]] THEN Append(s, x) ELSE s,
           seen, items)
Latest(steps, step) == Max(steps \union {step})

\* The seconds a step spent, by segment: what is read last counts.  Its total is
\* the sum of them unless it is written; what they leave of it is spent otherwise.
Row(items, step) ==
  LET of == {n \in DOMAIN items : Output[items[n][2]].step = step /\ Output[items[n][2]].tag # "loss"}
      tag(n) == Output[items[n][2]].tag
      last(t) == Max({n \in of : tag(n) = t})
      seconds(t) == IF \E n \in of : tag(n) = t THEN Output[items[last(t)][2]].value ELSE 0
      segments == {t \in {tag(n) : n \in of} \ {"total"} : seconds(t) > 0}
      sum == FoldSet(LAMBDA t, n : n + seconds(t), 0, segments)
      total == IF \E n \in of : tag(n) = "total" THEN seconds("total") ELSE sum
  IN  [step |-> step, segments |-> {<<t, seconds(t)>> : t \in segments}, total |-> total,
       other |-> Max({total - seconds("rollout") - seconds("train"), 0})]
Rows(items) ==
  LET timed == {n \in DOMAIN items : Output[items[n][2]].tag # "loss"}
      steps == SetToSortSeq({Output[items[n][2]].step : n \in timed}, <)
  IN  SelectSeq([n \in DOMAIN steps |-> Row(items, steps[n])], LAMBDA row : row.total > 0)

_load_dashboard_state(job, ps) ==
  LET said == UNION {{Output[i].step : i \in TailOf(Written(p, "state"), 1)} : p \in ps}
  IN  IF said = {} THEN {job}
      ELSE {[job EXCEPT !.stage = step, !.step = Max({@, step}),
                        !.status = IF @ \in {"stopped", "failed", "succeeded", "exited"}
                                   THEN @ ELSE "running"] : step \in said}
\* The rows are counted anew from all events: the tags of a step arrive one by one.
_load_tensorboard_scalars(job, files) ==
  LET items == FileItems(files, [p \in ToSet(files) |-> Scalars(p)])
  IN  [job EXCEPT !.metrics = Added(@, items), !.timeperf = Rows(items),
                  !.step = Latest({Output[x[2]].step : x \in ToSet(items)}, @)]
_load_rollout_samples(job, files) ==
  LET items == FileItems(files, [p \in ToSet(files) |-> TailOf(Written(p, "sample"), SampleTail)])
  IN  [job EXCEPT !.samples = Added(@, items),
                  !.step = Latest({Output[x[2]].step : x \in ToSet(items)}, @)]

\* What _load_metric_files can make of a job.  Without a pid, the newest state in
\* the directory may be that of any process, and its files, which are read in
\* the order in which they were last written, may be in any order.
Loaded(job) ==
  LET ps == Sources(job)
      seen(j, files) == [_load_rollout_samples(_load_tensorboard_scalars(j, files), files)
                           EXCEPT !.mixed = @ \/ job.pid = NoPid]
  IN  IF ps = {} THEN {job}
      ELSE {seen(j, files) : j \in _load_dashboard_state(job, ps), files \in SetToSeqs(ps)}

-----------------------------------------------------------------------------
(* Handlers                                                                *)

AtRest == [at |-> "idle", job |-> 0, pid |-> NoPid, process |-> NoPid, items |-> <<>>]
To(h, place) == handlers' = [handlers EXCEPT ![h].at = place]
Answered(h) == handlers' = [handlers EXCEPT ![h] = AtRest]
Free(h) == up /\ handlers[h].at = "idle"
At(h, place) == up /\ handlers[h].at = place
Launching(j) == \E h \in Handlers : handlers[h].at \in {"spawn", "note", "launch"} /\ handlers[h].job = j

\* start(): the job is entered and saved under the lock, the rest is outside.
StartJob(h, request, config) ==
  /\ Free(h) /\ Len(jobs) < MaxJobs
  /\ LET serves == request = "serve"
     IN  jobs' = Append(jobs, NewJob(IF serves THEN "serve" ELSE "train", CommandOf(request, config), config,
                                     IF serves THEN Absent ELSE Get(config, "metrics_dir"), NoPid))
  /\ Save
  /\ handlers' = [handlers EXCEPT ![h].at = "spawn", ![h].job = Len(jobs')]
  /\ UNCHANGED <<up, lives, procs, registry, stops>>

NewProcess(command, child) ==
  [state |-> "boots", code |-> NoCode, child |-> child, command |-> command,
   dir |-> MetricsLogDir(command), wrote |-> 0, read |-> <<>>, term |-> FALSE]
Popen(h) ==
  /\ At(h, "spawn") /\ Len(procs) < MaxProcs
  /\ LET j == handlers[h].job
     IN  /\ procs' = Append(procs, NewProcess(jobs[j].command, TRUE))
         /\ jobs' = [jobs EXCEPT ![j].process = Len(procs')]
  /\ To(h, "note")
  /\ UNCHANGED <<up, lives, state_file, registry, stops>>
PopenFails(h) ==
  /\ At(h, "spawn")
  /\ jobs' = [jobs EXCEPT ![handlers[h].job].status = "failed"] /\ Save
  /\ Answered(h)
  /\ UNCHANGED <<up, lives, procs, registry, stops>>
NotePid(h) ==
  /\ At(h, "note")
  /\ jobs' = [jobs EXCEPT ![handlers[h].job].pid = jobs[handlers[h].job].process]
  /\ To(h, "launch")
  /\ UNCHANGED <<up, lives, state_file, procs, registry, stops>>
NoteRunning(h) ==
  /\ At(h, "launch")
  /\ jobs' = [jobs EXCEPT ![handlers[h].job].status = "running", ![handlers[h].job].watch = "waits"]
  /\ Save
  /\ Answered(h)
  /\ UNCHANGED <<up, lives, procs, registry, stops>>

\* stop(): the status under the lock, the signal and another save outside.  The
\* registry is that of one user, whose processes may all be sent a signal.
StopJob(h, j) ==
  /\ Free(h) /\ j \in DOMAIN jobs
  /\ jobs' = [jobs EXCEPT ![j].status = "stopped"] /\ Save
  /\ handlers' = [handlers EXCEPT ![h] = [AtRest EXCEPT !.at = "signal", !.job = j, !.pid = jobs[j].pid,
                                                        !.process = jobs[j].process]]
  /\ stops' = IF Launching(j) THEN stops ELSE stops \union {j}
  /\ UNCHANGED <<up, lives, procs, registry>>
Signal(h) ==
  /\ At(h, "signal")
  /\ LET p == IF handlers[h].process # NoPid THEN handlers[h].process ELSE handlers[h].pid
         found == Reaped({handlers[h].process})
     IN  procs' = [q \in DOMAIN procs |-> IF q = p /\ Runs(p) THEN [found[q] EXCEPT !.term = TRUE] ELSE found[q]]
  /\ handlers' = [handlers EXCEPT ![h] = [AtRest EXCEPT !.at = "stopped"]]
  /\ UNCHANGED <<up, lives, jobs, state_file, registry, stops>>
StopReturns(h) ==
  /\ At(h, "stopped")
  /\ state_file' = [j \in DOMAIN jobs |-> Restored(jobs[j])]
  /\ Answered(h)
  /\ UNCHANGED <<up, lives, jobs, procs, registry, stops>>

\* list_jobs(): the registry is read before the lock is taken, and the table
\* is refreshed under another lock than the scan's.
ReadRegistry(h) ==
  /\ Free(h)
  /\ handlers' = [handlers EXCEPT ![h].items = registry,
                                  ![h].at = IF registry = <<>> THEN "refresh" ELSE "scan"]
  /\ UNCHANGED <<up, lives, jobs, state_file, procs, registry, stops>>
Known(p) == {j \in DOMAIN jobs : jobs[j].pid = p}
ItemDir(p) == IF procs[p].command.verb = "serve" THEN Absent ELSE procs[p].dir
\* What an entry tells of the settings of its process is left out.
Registered(p) ==
  [NewJob(procs[p].command.verb, procs[p].command, <<>>,
          IF ItemDir(p) # Absent THEN ItemDir(p) ELSE DefaultDir, p)
     EXCEPT !.status = IF pid_is_running(p) THEN "running" ELSE "exited"]
\* The plausible bug: a scan believes what it finds, of a stopped job too.
ScannedOverStopped(job) ==
  [job EXCEPT !.metrics_dir = IF ItemDir(job.pid) # Absent THEN ItemDir(job.pid) ELSE @,
              !.status = IF pid_is_running(job.pid) THEN "running" ELSE "exited"]
ScannedAgain(job) ==
  [job EXCEPT !.metrics_dir = IF ItemDir(job.pid) # Absent THEN ItemDir(job.pid) ELSE @,
              !.status = IF @ = "stopped" THEN @
                         ELSE IF pid_is_running(job.pid) THEN "running" ELSE "exited"]
\* Entries made together lose one another, so that the others are in the order
\* in which they were created.
NewestFirst(items) == Reverse(items)
scan_registered_jobs(h) ==
  /\ At(h, "scan")
  /\ LET items == handlers[h].items
         new == Kept(NewestFirst(items), {p \in ToSet(items) : Known(p) = {}})
     IN  jobs' = [j \in DOMAIN jobs |-> IF jobs[j].pid \in ToSet(items) /\ j = Max(Known(jobs[j].pid))
                                        THEN ScannedAgain(jobs[j]) ELSE jobs[j]]
                 \o [n \in DOMAIN new |-> Registered(new[n])]
  /\ Save
  /\ handlers' = [handlers EXCEPT ![h] = [AtRest EXCEPT !.at = "refresh"]]
  /\ UNCHANGED <<up, lives, procs, registry, stops>>
ListReturns(h) ==
  /\ At(h, "refresh")
  /\ jobs' = [j \in DOMAIN jobs |-> _refresh_job_status(jobs[j])] /\ Save
  /\ procs' = Reaped({jobs[j].process : j \in DOMAIN jobs})
  /\ Answered(h)
  /\ UNCHANGED <<up, lives, registry, stops>>

\* get_job(), also for the pages of metrics: a refresh and a look at the files.
Look(j) ==
  /\ \E job \in Loaded(_refresh_job_status(jobs[j])) : jobs' = [jobs EXCEPT ![j] = job]
  /\ procs' = Reaped({jobs[j].process})
  /\ Save
GetJob(h, j) ==
  /\ Free(h) /\ j \in DOMAIN jobs /\ Look(j)
  /\ UNCHANGED <<up, lives, registry, handlers, stops>>
\* The tool of that name looks once more, for the summaries of the metrics.
GetJobTool(h, j) ==
  /\ Free(h) /\ j \in DOMAIN jobs /\ Look(j)
  /\ handlers' = [handlers EXCEPT ![h] = [AtRest EXCEPT !.at = "summaries", !.job = j]]
  /\ UNCHANGED <<up, lives, registry, stops>>
metric_summaries(h) ==
  /\ At(h, "summaries") /\ Look(handlers[h].job)
  /\ Answered(h)
  /\ UNCHANGED <<up, lives, registry, stops>>

Continues(h) ==
  \/ Popen(h) \/ PopenFails(h) \/ NotePid(h) \/ NoteRunning(h)
  \/ Signal(h) \/ StopReturns(h)
  \/ scan_registered_jobs(h) \/ ListReturns(h) \/ metric_summaries(h)
Asked(h) ==
  \/ \E c \in Configs : c.request \in {"train", "serve"} /\ StartJob(h, c.request, c.options)
  \/ \E j \in DOMAIN jobs : StopJob(h, j) \/ GetJob(h, j)
  \/ ReadRegistry(h)

-----------------------------------------------------------------------------
(* Watchers, processes, the life of the dashboard                          *)

\* _watch(): wait() returns, then the end is noted under the lock.
WaitReturns(j) ==
  /\ up /\ j \in DOMAIN jobs /\ jobs[j].watch = "waits" /\ ~Runs(jobs[j].process)
  /\ procs' = Reaped({jobs[j].process})
  /\ jobs' = [jobs EXCEPT ![j].watch = "reaped"]
  /\ UNCHANGED <<up, lives, state_file, registry, handlers, stops>>
Told(job) == [job EXCEPT !.returncode = procs[job.process].code, !.watch = "done",
                         !.status = IF @ = "running" THEN Ending(procs[job.process].code) ELSE @]
WatchEnds(j) ==
  /\ up /\ j \in DOMAIN jobs /\ jobs[j].watch = "reaped"
  /\ \E job \in Loaded(Told(jobs[j])) : jobs' = [jobs EXCEPT ![j] = job]
  /\ Save
  /\ UNCHANGED <<up, lives, procs, registry, handlers, stops>>

\* Somebody runs `areno` in a shell.
ShellStarts(request, config) ==
  /\ Len(procs) < MaxProcs
  /\ procs' = Append(procs, NewProcess(CommandOf(request, config), FALSE))
  /\ UNCHANGED <<up, lives, jobs, state_file, registry, handlers, stops>>
\* register_dashboard_job(): read, change, write, with no lock between processes.
ReadsRegistry(p) ==
  /\ procs[p].state = "boots" /\ ~OnlySmokes(procs[p].command)
  /\ procs' = [procs EXCEPT ![p].state = "registers", ![p].read = registry]
  /\ UNCHANGED <<up, lives, jobs, state_file, registry, handlers, stops>>
WritesRegistry(p) ==
  /\ procs[p].state = "registers"
  /\ registry' = LET all == Append(Kept(procs[p].read, ToSet(procs[p].read) \ {p}), p)
                 IN  SubSeq(all, Max({1, Len(all) - RegistryCap + 1}), Len(all))
  /\ procs' = [procs EXCEPT ![p].state = "works", ![p].read = <<>>]
  /\ UNCHANGED <<up, lives, jobs, state_file, handlers, stops>>
\* MetricsRecorder: events, samples and the state file, each under its own pid.
Records(p) ==
  /\ procs[p].state = "works" /\ procs[p].dir # Absent /\ procs[p].wrote < Len(Output)
  /\ procs' = [procs EXCEPT ![p].wrote = @ + 1]
  /\ UNCHANGED <<up, lives, jobs, state_file, registry, handlers, stops>>
\* A process ends by itself, or of the signal, which is a code other than 0 or a
\* shutdown in order.  A child stays a zombie until it
\* is waited for.
ProcessEnds(p, code) ==
  /\ Runs(p)
  /\ procs' = [procs EXCEPT ![p].code = code, ![p].read = <<>>,
                            ![p].state = IF procs[p].child THEN "zombie" ELSE "gone"]
  /\ UNCHANGED <<up, lives, jobs, state_file, registry, handlers, stops>>
ProcessStep(p) ==
  \/ ReadsRegistry(p) \/ WritesRegistry(p) \/ Records(p)
  \/ \E code \in {0, 1} : ProcessEnds(p, code)

\* dashboard --stop, or a crash: processes have sessions of their own and live on.
DashboardEnds ==
  /\ up /\ up' = FALSE
  /\ jobs' = <<>> /\ stops' = {} /\ handlers' = [h \in Handlers |-> AtRest]
  /\ procs' = [p \in DOMAIN procs |-> [Reaped(DOMAIN procs)[p] EXCEPT !.child = FALSE]]
  /\ UNCHANGED <<lives, state_file, registry>>
\* dashboard --start, when none is running; then _load_state().
DashboardStarts ==
  /\ ~up /\ lives < MaxLives
  /\ up' = TRUE /\ lives' = lives + 1 /\ jobs' = state_file
  /\ UNCHANGED <<state_file, procs, registry, handlers, stops>>

TInit == /\ up = TRUE /\ lives = 1 /\ jobs = <<>> /\ state_file = <<>> /\ procs = <<>>
         /\ registry = <<>> /\ handlers = [h \in Handlers |-> AtRest] /\ stops = {}

-----------------------------------------------------------------------------
(* What the dashboard promises                                             *)

\* A job whose end its watcher has seen is never again shown as running,
\* however scans, refreshes and reads of its files follow (_watch, _refresh_job_status).
EndedJobsAreTold == \A j \in DOMAIN jobs : jobs[j].watch = "done" => jobs[j].status # "running"

\* A job that was stopped after its launch stays stopped, and its process has
\* been told so once the stop has been answered (stop, scan_registered_jobs).
StopsReachTheirJob ==
  \A j \in stops :
    /\ jobs[j].status = "stopped"
    /\ \/ \E h \in Handlers : handlers[h].at = "signal" /\ handlers[h].job = j
       \/ jobs[j].pid = NoPid
       \/ ~Runs(jobs[j].pid) \/ procs[jobs[j].pid].term

\* What is shown of a job is shown once and is its own, if it had its pid when
\* its files were first read; and when its watcher has ended, its newest
\* events and samples are there, its times count every event, and it is at its
\* last step (_load_metric_files).
ShownDataIsTheJobs ==
  \A j \in DOMAIN jobs :
    LET job == jobs[j]
        p == job.pid
        own == Written(p, "scalar") \union Written(p, "sample")
    IN  /\ \A s \in {job.metrics, job.samples} : IsInjective([n \in DOMAIN s |-> Output[s[n][2]]])
        /\ (p # NoPid /\ ~job.mixed) => \A x \in ToSet(job.metrics \o job.samples) : x[1] = p
        /\ (job.watch = "done" /\ ~job.mixed /\ job.kind = "train" /\ ~OnlySmokes(job.command)
              /\ Get(job.launch_config, "metrics_dir") # Absent) =>
             /\ {<<p, i>> : i \in Scalars(p)} \subseteq ToSet(job.metrics)
             /\ {<<p, i>> : i \in TailOf(Written(p, "sample"), SampleTail)} \subseteq ToSet(job.samples)
             /\ job.timeperf = Rows(FileItems(<<p>>, (p :> Scalars(p))))
             /\ own # {} => job.step >= Max({Output[i].step : i \in own})

\* The end of every child is noted, unless the dashboard goes first (_watch).
EndsAreNoted ==
  \A j \in 1 .. MaxJobs :
    (j \in DOMAIN jobs /\ jobs[j].watch = "waits" /\ ~Runs(jobs[j].process))
      ~> (j \notin DOMAIN jobs \/ jobs[j].watch \notin {"waits", "reaped"})
=============================================================================
