--------------------------- MODULE ContinuousRollout ---------------------------
(***************************************************************************)
(* One worker process serving its command queue: the loop of _worker_entry *)
(* (engine/protocol.py) around ArenoWorker.run_continuous_rollout_payload  *)
(* (engine/worker.py), which joins compatible queued rollouts to the       *)
(* running batch and answers each of them as soon as its last row is done. *)
(*                                                                         *)
(* The worker is alone in its TP group, so it takes refill commands from   *)
(* its own queue; the TP handshake is the subject of TPCluster.            *)
(* The batch itself is RolloutScheduler, whose actions are conjoined here  *)
(* with what the worker's callbacks do in the same step.                   *)
(***************************************************************************)
EXTENDS RolloutScheduler, Subsequences

CONSTANTS
  Shapes,       \* what callers may submit: [op, lens, longest, widest, cancellable, key]
  MaxCommands   \* bound on the commands of one behaviour

\* `lens' are this rank's prompts of the chunk, `longest' the longest prompt of
\* the whole chunk, `widest' the rows of its widest rank, `cancellable' whether it has
\* cancel_flags, and `key' stands for the fields that must be equal for two payloads
\* to be compatible (sampling_params, eos_token_id, ...).
ASSUME ShapesAssumption ==
  /\ MaxCommands \in Nat
  /\ \A s \in Shapes :
       /\ s.op \in {"rollout", "other"}
       /\ s.lens \in Seq(PromptLens)
       /\ s.longest \in PromptLens
       /\ \A i \in 1..Len(s.lens) : s.lens[i] <= s.longest
       /\ s.widest \in 1..LocalMaxRunning
       /\ s.cancellable \in BOOLEAN /\ (s.cancellable => Cancellable)
       /\ Len(s.lens) <= s.widest

VARIABLES
  submitted,     \* every command put so far; a command's request_id is its index
  cmd_queue,     \* _cmd_queue: request ids not yet taken
  deferred,      \* _deferred_commands
  current_ids,   \* _current_request_ids
  rollout,       \* request id of the payload being run, 0 when there is none
  request_ids,   \* of the running batch, in joining order
  request_rows,  \* rows of each of those requests
  sent,          \* indices of the requests already answered
  results,       \* the worker's results, in the order it put them
  alive          \* FALSE after an exception has ended the process

queues == <<submitted, cmd_queue, deferred>>
batch  == <<rollout, request_ids, request_rows, sent>>
wvars  == <<queues, current_ids, batch, results, alive>>
allvars == <<vars, wvars>>

Op(id) == submitted[id].op
Lens(id) == submitted[id].lens

\* payload.max_cache_len, as generate_rollout_async computes it for the chunk.
PayloadCacheLen(id) ==
  MaxNewTokens + IF submitted[id].longest >= RolloutMaxPromptLen
                   THEN submitted[id].longest ELSE RolloutMaxPromptLen

WorkerInit ==
  /\ submitted = <<>>
  /\ cmd_queue = <<>>
  /\ deferred = <<>>
  /\ current_ids = <<>>
  /\ rollout = 0
  /\ request_ids = <<>>
  /\ request_rows = <<>>
  /\ sent = {}
  /\ results = <<>>
  /\ alive = TRUE

\* No batch exists yet; its variables get their values when a rollout starts.
CInit ==
  /\ max_running_seqs = 1 /\ max_cache_len = 1 /\ max_prefill_tokens = 1
  /\ num_cache_blocks = 1
  /\ prompts = <<>> /\ pending_seq_id = 1 /\ cursor = 0
  /\ free_blocks = <<0>> /\ seq_to_blocks = [r \in {} |-> <<>>]
  /\ packed = 0 /\ last_active = {} /\ active_rows = {}
  /\ response_lens = <<>> /\ cache_seqlens = <<>> /\ finish_reason = <<>>
  /\ cancel_flags = {} /\ sample_step = 1 /\ pc = "done" /\ todo = {}
  /\ WorkerInit

-----------------------------------------------------------------------------
(* Answers *)

Ok(id, rs, reasons) ==
  [id |-> id, ok |-> TRUE,
   lens |-> [i \in 1..Len(rs) |-> prompts[rs[i]]],
   tokens |-> [i \in 1..Len(rs) |-> response_lens'[rs[i]]],
   reasons |-> [i \in 1..Len(rs) |-> reasons[rs[i]]]]

Empty(id) == [id |-> id, ok |-> TRUE, lens |-> <<>>, tokens |-> <<>>, reasons |-> <<>>]
Failed(id) == [id |-> id, ok |-> FALSE, lens |-> <<>>, tokens |-> <<>>, reasons |-> <<>>]

\* The answers to the requests with an index in ks, in index order.
Answers(ks, reasons) ==
  LET order == Kept([k \in 1..Len(request_ids) |-> k], ks)
  IN  [i \in 1..Len(order) |->
         Ok(request_ids[order[i]], request_rows[order[i]], reasons)]

\* Mutant: a request is complete as soon as one of its rows is.
CompleteAny(reasons) ==
  {k \in (1..Len(request_ids)) \ sent :
     \E i \in 1..Len(request_rows[k]) : reasons[request_rows[k][i]] # "none"}

\* Requests not yet answered whose rows have all been reported.
Complete(reasons) ==
  {k \in (1..Len(request_ids)) \ sent :
     \A i \in 1..Len(request_rows[k]) : reasons[request_rows[k][i]] # "none"}

IdsOf(ks) == {request_ids[k] : k \in ks}

Without(ids, gone) == Kept(ids, {ids[i] : i \in 1..Len(ids)} \ gone)

\* send_finished, once with the rows that hit a stop token (when there are any)
\* and once with the final reasons: a request completed by the first call is
\* answered before a full row among its own is relabelled "length".
SendFinished(stopped) ==
  LET early  == [r \in Row |-> IF r \in stopped THEN "stop" ELSE finish_reason[r]]
      first  == IF stopped = {} THEN {} ELSE Complete(early)
      second == Complete(finish_reason') \ first
  IN  /\ results' = results \o Answers(first, early) \o Answers(second, finish_reason')
      /\ sent' = sent \cup first \cup second
      /\ current_ids' = Without(current_ids, IdsOf(first \cup second))
      /\ UNCHANGED <<queues, rollout, request_ids, request_rows, alive>>

-----------------------------------------------------------------------------
(* The worker loop between commands                                        *)

\* _deferred_commands.pop(0) if there are any, else cmd_q.get().
NextCommand(id) ==
  IF deferred # <<>>
    THEN id = Head(deferred) /\ deferred' = Tail(deferred) /\ UNCHANGED cmd_queue
    ELSE /\ cmd_queue # <<>>
         /\ id = Head(cmd_queue) /\ cmd_queue' = Tail(cmd_queue) /\ UNCHANGED deferred

Idle == alive /\ rollout = 0

\* Any other operation, and a rollout without rows for this rank, is answered
\* at once; an operation that raises ends the worker with an error answer.
Serve(id) ==
  /\ Idle
  /\ NextCommand(id)
  /\ Op(id) = "other" \/ Lens(id) = <<>>
  /\ results' = Append(results, Empty(id))
  /\ UNCHANGED <<vars, submitted, current_ids, batch, alive>>

ServeFails(id) ==
  /\ Idle
  /\ NextCommand(id)
  /\ Op(id) = "other"
  /\ results' = Append(results, Failed(id))
  /\ alive' = FALSE
  /\ UNCHANGED <<vars, submitted, current_ids, batch>>

StartRollout(id) ==
  /\ Idle
  /\ NextCommand(id)
  /\ Op(id) = "rollout"
  /\ Lens(id) # <<>>
  /\ max_running_seqs' = IF Continuous /\ ~submitted[id].cancellable
                           THEN LocalMaxRunning ELSE submitted[id].widest
  /\ max_cache_len' = PayloadCacheLen(id)
  /\ max_prefill_tokens' = LocalMaxRunning * RolloutMaxPromptLen
  /\ num_cache_blocks' = max_running_seqs' * CeilDiv(max_cache_len', BlockSize)
  /\ prompts' = Lens(id)
  /\ pending_seq_id' = 1
  /\ cursor' = 0
  /\ free_blocks' = [i \in 1..num_cache_blocks' |-> i - 1]
  /\ seq_to_blocks' = [r \in {} |-> <<>>]
  /\ response_lens' = Zeros(Len(Lens(id)))
  /\ cache_seqlens' = Zeros(Len(Lens(id)))
  /\ finish_reason' = Blanks(Len(Lens(id)))
  /\ cancel_flags' = {}
  /\ sample_step' = 1
  /\ pc' = "refill"
  /\ rollout' = id
  /\ request_ids' = <<id>>
  /\ request_rows' = <<[i \in 1..Len(Lens(id)) |-> i]>>
  /\ sent' = {}
  /\ current_ids' = <<id>>
  /\ UNCHANGED <<payload, active_rows, todo, submitted, results, alive>>

-----------------------------------------------------------------------------
(* refill_waiting: what the queue holds while a batch runs.                *)

Running == alive /\ rollout # 0

\* Mutant: rows longer than the batch was sized for are let in.
JoinableOfAnyLength(id) ==
  /\ Op(id) = "rollout"
  /\ ~submitted[id].cancellable /\ ~submitted[rollout].cancellable
  /\ submitted[id].key = submitted[rollout].key

\* _rollout_payloads_compatible, and the command is a rollout at all.
Joinable(id) ==
  /\ Op(id) = "rollout"
  /\ ~submitted[id].cancellable /\ ~submitted[rollout].cancellable
  /\ submitted[id].key = submitted[rollout].key
  /\ PayloadCacheLen(id) <= max_cache_len

Join(id) ==
  /\ request_ids' = Append(request_ids, id)
  /\ request_rows' = Append(request_rows, [i \in 1..Len(Lens(id)) |-> Len(prompts) + i])

JoinRollout ==
  /\ Running
  /\ cmd_queue # <<>>
  /\ LET id == Head(cmd_queue)
     IN  /\ Joinable(id)
         /\ Refill(Lens(id))
         /\ Join(id)
         /\ current_ids' = Append(current_ids, id)
  /\ cmd_queue' = Tail(cmd_queue)
  /\ UNCHANGED <<submitted, deferred, rollout, sent, results, alive>>

\* send_empty_requests answers a request without rows for this rank.
JoinEmpty ==
  /\ Running
  /\ pc = "refill"
  /\ cmd_queue # <<>>
  /\ LET id == Head(cmd_queue)
     IN  /\ Joinable(id)
         /\ Lens(id) = <<>>
         /\ Join(id)
         /\ sent' = sent \cup {Len(request_ids) + 1}
         /\ results' = Append(results, Empty(id))
  /\ cmd_queue' = Tail(cmd_queue)
  /\ UNCHANGED <<vars, submitted, deferred, current_ids, rollout, alive>>

DeferCommand ==
  /\ Running
  /\ cmd_queue # <<>>
  /\ ~Joinable(Head(cmd_queue))
  /\ RefillEnds
  /\ deferred' = Append(deferred, Head(cmd_queue))
  /\ cmd_queue' = Tail(cmd_queue)
  /\ UNCHANGED <<submitted, current_ids, batch, results, alive>>

QueueEmpty ==
  /\ Running
  /\ cmd_queue = <<>>
  /\ RefillEnds
  /\ UNCHANGED wvars

-----------------------------------------------------------------------------
(* The batch steps, with the callbacks they make.                          *)

PrefillAndSend ==
  /\ Running
  /\ \E stopped \in SUBSET last_active : PrefillSample(stopped) /\ SendFinished(stopped)

CancelAndSend ==
  /\ Running
  /\ CancelRows
  /\ SendFinished({})

DecodeAndSend ==
  /\ Running
  /\ \E stopped \in SUBSET active_rows : Decode(stopped) /\ SendFinished(stopped)

QuietStep ==
  /\ Running
  /\ \/ BuildEnds
     \/ PackRow
     \/ PrefillChunk
     \/ FreeRow
     \/ LoopTest
     \/ EnsureRow
  /\ UNCHANGED wvars

\* Mutant: only callbacks answer requests.
UnansweredNone == {}

Unanswered == (1..Len(request_ids)) \ sent

\* _split_rollout_output_by_rows: the requests no callback has answered, with
\* the reasons that _truncate_generated reads off their tokens.
FinishRollout ==
  /\ Running
  /\ pc = "done"
  /\ UNCHANGED vars
  /\ results' = results \o Answers(Unanswered, [r \in Row |-> "truncated"])
  /\ current_ids' = <<>>
  /\ rollout' = 0
  /\ request_ids' = <<>>
  /\ request_rows' = <<>>
  /\ sent' = {}
  /\ UNCHANGED <<queues, alive>>

\* Mutant: every request of the batch gets the error, those answered included.
FailedRequestsAll == request_ids

\* _current_request_ids, or the running command when all of its batch has been
\* answered: it then gets an error behind its answer.
FailedRequests == IF current_ids = <<>> THEN <<rollout>> ELSE current_ids

\* What the scheduler raises before a payload is run.
BuildRaises ==
  /\ pc = "pack" /\ ~PackStops
  /\ TooLong \/ (CanPack /\ packed = 0 /\ ChunkBlocks > Len(free_blocks))

\* An exception of the scheduler, in a forward pass, or in the synchronize after
\* the last one, ends the process with an error to every request concerned.
RolloutFails ==
  /\ Running
  /\ pc \in {"prefill", "ensure", "done"} \/ BuildRaises
  /\ results' = results \o [i \in 1..Len(FailedRequests) |-> Failed(FailedRequests[i])]
  /\ alive' = FALSE
  /\ UNCHANGED <<vars, queues, current_ids, batch>>

-----------------------------------------------------------------------------
(* The coordinator puts commands, the caller raises cancel flags.          *)

Submit ==
  /\ Len(submitted) < MaxCommands
  /\ \E s \in Shapes : submitted' = Append(submitted, s)
  /\ cmd_queue' = Append(cmd_queue, Len(submitted) + 1)
  /\ UNCHANGED <<vars, deferred, current_ids, batch, results, alive>>

Cancel ==
  /\ Running
  /\ submitted[rollout].cancellable
  /\ \E r \in Row : RaiseCancel(r)
  /\ UNCHANGED wvars

Waiting ==
  /\ ~alive \/ (Idle /\ cmd_queue = <<>> /\ deferred = <<>>)
  /\ Len(submitted) = MaxCommands
  /\ UNCHANGED allvars

WorkerStep ==
  \/ \E id \in 1..Len(submitted) : Serve(id) \/ StartRollout(id)
  \/ JoinRollout
  \/ JoinEmpty
  \/ DeferCommand
  \/ QueueEmpty
  \/ PrefillAndSend
  \/ CancelAndSend
  \/ DecodeAndSend
  \/ QuietStep
  \/ FinishRollout

CNext ==
  \/ WorkerStep
  \/ \E id \in 1..Len(submitted) : ServeFails(id)
  \/ RolloutFails
  \/ Submit
  \/ Cancel
  \/ Waiting

CSpec == CInit /\ [][CNext]_allvars

\* The worker is one process that runs whenever it has something to do.
CFairSpec == CSpec /\ WF_allvars(WorkerStep)

-----------------------------------------------------------------------------
(* Properties                                                              *)

Ids == 1..Len(submitted)
AnswersTo(id) == {i \in 1..Len(results) : results[i].id = id}
PlacesOf(ids, id) == {i \in 1..Len(ids) : ids[i] = id}

\* No request gets two successful answers or two errors.  The only one with both
\* is the command that the process was running when it died, and only when the
\* whole batch had been answered before (protocol.py, line 548).
AnsweredOnce ==
  \A i, j \in 1..Len(results) :
    i < j /\ results[i].id = results[j].id =>
      /\ results[i].ok /\ ~results[j].ok
      /\ ~alive /\ current_ids = <<>> /\ results[j].id = rollout /\ j = Len(results)

\* A command is waiting, deferred, being run or answered, and only one of these;
\* the process leaves none that it was running without an answer when it dies.
CommandInOnePlace ==
  \A id \in Ids :
    Cardinality(PlacesOf(cmd_queue, id)) + Cardinality(PlacesOf(deferred, id))
      + (IF alive THEN Cardinality(PlacesOf(current_ids, id)) ELSE 0)
      + (IF AnswersTo(id) # {} THEN 1 ELSE 0) = 1

\* Whatever joins, defers or finishes around it, a command is in one place and is
\* answered once.  When the process dies in the middle of a batch (_worker_entry)
\* every request still in the batch gets one error and no request answered before
\* gets any, but for the running command of a batch that was answered whole.
EachCommandOnce == CommandInOnePlace /\ AnsweredOnce

\* A batch is sized for the command that started it.  Whatever commands join it
\* (_rollout_payloads_compatible), none of its rows is longer than its cache, and
\* neither a piece of a prompt nor a decoded row ever asks for more blocks than
\* are free: no error of rollout_state.py ends the process and the others' requests.
JoinersFit ==
  Running =>
    /\ \A r \in Row : prompts[r] + MaxNewTokens <= max_cache_len
    /\ CanPack => ChunkBlocks <= Len(free_blocks)
    /\ pc = "ensure" => \A r \in todo : DecodeBlocks(r) <= Len(free_blocks)

\* A rollout is answered with its own prompts, in its own order, and only when
\* every one of its rows has a response, whoever shares the batch.
OwnAnswer ==
  \A i \in 1..Len(results) :
    results[i].ok /\ Op(results[i].id) = "rollout" =>
      /\ results[i].lens = Lens(results[i].id)
      /\ \A k \in DOMAIN results[i].tokens :
           /\ results[i].tokens[k] \in 1..MaxNewTokens
           /\ results[i].reasons[k] = "length" => results[i].tokens[k] = MaxNewTokens

\* Every command is answered, or the worker died while it was still waiting.
EveryCommandAnswered ==
  \A id \in 1..MaxCommands :
    (id \in Ids) ~> \/ AnswersTo(id) # {}
                    \/ ~alive /\ PlacesOf(cmd_queue \o deferred, id) # {}
=============================================================================
