---------------------------- MODULE RolloutScheduler ----------------------------
(***************************************************************************)
(* One rank's rollout loop over a paged KV cache: the scheduler state of   *)
(* InferenceBatchState (engine/data/rollout_state.py) driven by            *)
(* InferenceManager._generate_rollout_tokens_no_sync (engine/inference.py),*)
(* with the batch sizes that ArenoEngine computes for it (engine/api.py).  *)
(*                                                                         *)
(* A row is one prompt; its data is its length.  Tokens are abstracted to  *)
(* "is it a stop token".  `pc' names the point the single-threaded loop    *)
(* has reached; every loop over rows is one step per row.                  *)
(***************************************************************************)
EXTENDS Integers, Sequences, FiniteSets

CONSTANTS
  BlockSize,           \* runtime.kv_block_size
  MaxNewTokens,        \* max_new_tokens of the request
  MinNewTokens,        \* sampling_params.min_new_tokens
  RolloutMaxPromptLen, \* max_prompt_len given by the caller
  LocalMaxRunning,     \* ceil(max_running_prompts / dp_size)
  PromptLens,          \* the prompt lengths that are offered
  MaxRows,             \* bound on the rows of one rollout (the code has none)
  Continuous,          \* TRUE: generate_rollout_async, FALSE: generate_rollout
  Cancellable,         \* TRUE: the caller passed cancel_flags
  GivenSizes           \* sizes a direct caller of InferenceBatchState passes;
                       \* {}: the batch is sized by ArenoEngine

ASSUME SizesAssumption ==
  /\ BlockSize \in Nat \ {0}
  /\ MaxNewTokens \in Nat \ {0}
  /\ MinNewTokens \in Nat
  /\ RolloutMaxPromptLen \in Nat \ {0}
  /\ LocalMaxRunning \in Nat \ {0}
  /\ MaxRows \in Nat \ {0}
  /\ PromptLens \subseteq Nat \ {0}
  /\ GivenSizes \subseteq
       [running : Nat \ {0}, cache : Nat \ {0}, prefill : Nat \ {0}, blocks : Nat \ {0}]

ASSUME ModeAssumption ==
  /\ Continuous \in BOOLEAN
  /\ Cancellable \in BOOLEAN

VARIABLES
  max_running_seqs,  \* capacity of the batch, in rows
  max_cache_len,     \* capacity of one row, in tokens
  max_prefill_tokens, \* budget of one prefill payload, in tokens
  num_cache_blocks,  \* blocks of the pool
  prompts,           \* length of every row's prompt, in arrival order
  pending_seq_id,    \* first row whose prompt is not fully prefilled
  cursor,            \* _prefill_cursor_by_seq of that row, 0 if it has none
  free_blocks,       \* _free_blocks, a FIFO list
  seq_to_blocks,     \* _seq_to_blocks, row -> its blocks in position order
  packed,            \* len(input_ids) of the payload being built
  last_active,       \* active_ids of the payload being built
  active_rows,       \* rows being decoded
  response_lens,     \* tokens written to every row's response
  cache_seqlens,     \* tokens whose KV is cached, per row
  finish_reason,     \* reason reported by finished_callback, "none" ('') before
  cancel_flags,      \* shared-memory flags, set by the engine's caller
  sample_step,       \* decode-step counter of the batch
  pc,                \* point the loop has reached
  todo               \* rows the current per-row loop has still to visit

sizes     == <<max_running_seqs, max_cache_len, max_prefill_tokens, num_cache_blocks>>
pool      == <<free_blocks, seq_to_blocks>>
admission == <<pending_seq_id, cursor>>
payload   == <<packed, last_active>>
rows      == <<prompts, response_lens, cache_seqlens, finish_reason>>
vars == <<sizes, pool, admission, payload, rows, active_rows, cancel_flags,
          sample_step, pc, todo>>

-----------------------------------------------------------------------------
(* Sizing *)

CeilDiv(a, b) == (a + b - 1) \div b

MaxBlocksPerSeq == CeilDiv(max_cache_len, BlockSize)
Block           == 0 .. num_cache_blocks - 1

\* max_cache_len: the longest prompt of the chunk, which another rank may have,
\* but no less than the caller's own bound.
CacheCeilings(lens) ==
  {n + MaxNewTokens : n \in
     {l \in PromptLens \cup {RolloutMaxPromptLen} :
        /\ l >= RolloutMaxPromptLen
        /\ \A i \in 1..Len(lens) : lens[i] <= l}}

\* max_running_seqs of a chunk that runs alone: the rows of its widest rank;
\* the round-robin split leaves the others at most one row behind.
ChunkRunning(lens) == {n \in {Len(lens), Len(lens) + 1} : n <= LocalMaxRunning}

TokenSum(lens) ==
  LET sum[i \in 0..Len(lens)] == IF i = 0 THEN 0 ELSE lens[i] + sum[i - 1]
  IN  sum[Len(lens)]

Batches(n) == UNION {[1..k -> PromptLens] : k \in 0..n}

\* generate_rollout and its async variant: `lens' is one rank's share of one
\* chunk of _chunk_prompts_for_prefill_budget.
EngineSized(lens) ==
  /\ max_prefill_tokens = LocalMaxRunning * RolloutMaxPromptLen
  /\ Len(lens) <= LocalMaxRunning
  /\ Len(lens) = 1 \/ TokenSum(lens) <= max_prefill_tokens
  /\ max_cache_len \in CacheCeilings(lens)
  /\ max_running_seqs \in
       IF Continuous /\ ~Cancellable THEN {LocalMaxRunning} ELSE ChunkRunning(lens)
  /\ num_cache_blocks = max_running_seqs * MaxBlocksPerSeq

CallerSized ==
  \E s \in GivenSizes :
    /\ max_running_seqs = s.running
    /\ max_cache_len = s.cache
    /\ max_prefill_tokens = s.prefill
    /\ num_cache_blocks = s.blocks

Row == 1..Len(prompts)

Zeros(n) == [i \in 1..n |-> 0]
Blanks(n) == [i \in 1..n |-> "none"]

Init ==
  /\ prompts \in Batches(MaxRows) \ {<<>>}
  /\ IF GivenSizes = {} THEN EngineSized(prompts) ELSE CallerSized
  /\ pending_seq_id = 1
  /\ cursor = 0
  /\ free_blocks = [i \in 1..num_cache_blocks |-> i - 1]
  /\ seq_to_blocks = [r \in {} |-> <<>>]
  /\ packed = 0
  /\ last_active = {}
  /\ active_rows = {}
  /\ response_lens = Zeros(Len(prompts))
  /\ cache_seqlens = Zeros(Len(prompts))
  /\ finish_reason = Blanks(Len(prompts))
  /\ cancel_flags = {}
  /\ sample_step = 1
  /\ pc = "refill"
  /\ todo = {}

-----------------------------------------------------------------------------
(* The block pool *)

Held(r) == IF r \in DOMAIN seq_to_blocks THEN seq_to_blocks[r] ELSE <<>>

\* Pop `n' blocks from the front of the free list onto the end of row r's.
Take(r, n) ==
  /\ seq_to_blocks' =
       [q \in DOMAIN seq_to_blocks \cup {r} |->
          IF q = r THEN Held(r) \o SubSeq(free_blocks, 1, n) ELSE seq_to_blocks[q]]
  /\ free_blocks' = SubSeq(free_blocks, n + 1, Len(free_blocks))

Missing(r, required) ==
  IF required > Len(Held(r)) THEN required - Len(Held(r)) ELSE 0

\* Mutant: the row's blocks are freed but its table is not popped.
ReleaseKeepsTable(r) ==
  /\ free_blocks' = free_blocks \o Held(r)
  /\ UNCHANGED seq_to_blocks

Release(r) ==
  /\ free_blocks' = free_blocks \o Held(r)
  /\ seq_to_blocks' = [q \in DOMAIN seq_to_blocks \ {r} |-> seq_to_blocks[q]]

-----------------------------------------------------------------------------
(* refill_callback: the prompts of the commands that have arrived join the *)
(* batch, one command per step.                                            *)

AppendPrompts(lens) ==
  /\ prompts' = prompts \o lens
  /\ response_lens' = response_lens \o Zeros(Len(lens))
  /\ cache_seqlens' = cache_seqlens \o Zeros(Len(lens))
  /\ finish_reason' = finish_reason \o Blanks(Len(lens))

\* What _rollout_payloads_compatible ensures of the rows it lets in.
Fits(lens) == \A i \in 1..Len(lens) : lens[i] + MaxNewTokens <= max_cache_len

Refill(lens) ==
  /\ pc = "refill"
  /\ lens # <<>>
  /\ AppendPrompts(lens)
  /\ UNCHANGED <<sizes, pool, admission, payload, active_rows, cancel_flags,
                 sample_step, pc, todo>>

\* The queue is empty, or its next command cannot share the batch.
RefillEnds ==
  /\ pc = "refill"
  /\ pc' = "pack"
  /\ UNCHANGED <<sizes, pool, admission, payload, rows, active_rows,
                 cancel_flags, sample_step, todo>>

-----------------------------------------------------------------------------
(* build_prefill_payload, one step per iteration of its while loop.        *)

\* Mutant: off by one, the last prompt is never seen.
HasPendingButLast == pending_seq_id < Len(prompts)

HasPending == pending_seq_id <= Len(prompts)

Budget == max_prefill_tokens - packed

ChunkLen ==
  LET rest == prompts[pending_seq_id] - cursor
  IN  IF rest <= Budget THEN rest ELSE Budget

\* Mutant: off by one, one row too many is admitted.
RunningFullLate ==
  /\ pending_seq_id \notin DOMAIN seq_to_blocks
  /\ Cardinality(DOMAIN seq_to_blocks) > max_running_seqs

RunningFull ==
  /\ pending_seq_id \notin DOMAIN seq_to_blocks
  /\ Cardinality(DOMAIN seq_to_blocks) >= max_running_seqs

\* The checks that end the build without touching the pending row.  The free
\* list is looked at only on entry, where nothing is packed yet.
PackStops ==
  \/ ~HasPending
  \/ packed = 0 /\ free_blocks = <<>>
  \/ HasPending /\ RunningFull

TooLong == prompts[pending_seq_id] + MaxNewTokens > max_cache_len

BuildEnds ==
  /\ pc = "pack"
  /\ PackStops \/ (HasPending /\ ~TooLong /\ ChunkLen <= 0)
  /\ pc' = IF packed = 0 THEN "cancel" ELSE "prefill"
  /\ UNCHANGED <<sizes, pool, admission, payload, rows, active_rows,
                 cancel_flags, sample_step, todo>>

\* raise ValueError("request exceeds configured max_cache_len")
RejectTooLong ==
  /\ pc = "pack"
  /\ ~PackStops
  /\ TooLong
  /\ pc' = "cache_len_error"
  /\ UNCHANGED <<sizes, pool, admission, payload, rows, active_rows,
                 cancel_flags, sample_step, todo>>

ChunkBlocks == Missing(pending_seq_id, CeilDiv(cursor + ChunkLen, BlockSize))

CanPack == pc = "pack" /\ ~PackStops /\ ~TooLong /\ ChunkLen > 0

PackRow ==
  /\ CanPack
  /\ ChunkBlocks <= Len(free_blocks)
  /\ Take(pending_seq_id, ChunkBlocks)
  /\ packed' = packed + ChunkLen
  /\ IF cursor + ChunkLen >= prompts[pending_seq_id]
       THEN /\ last_active' = last_active \cup {pending_seq_id}
            /\ pending_seq_id' = pending_seq_id + 1
            /\ cursor' = 0
            /\ pc' = "pack"
       ELSE /\ cursor' = cursor + ChunkLen
            /\ pc' = "prefill"
            /\ UNCHANGED <<last_active, pending_seq_id>>
  /\ UNCHANGED <<sizes, rows, active_rows, cancel_flags, sample_step, todo>>

\* The free list runs out inside the allocation loop: the blocks popped so far
\* stay with the row; with nothing packed the build raises RuntimeError.
PackRunsOut ==
  /\ CanPack
  /\ ChunkBlocks > Len(free_blocks)
  /\ Take(pending_seq_id, Len(free_blocks))
  /\ pc' = IF packed = 0 THEN "prefill_exhausted" ELSE "prefill"
  /\ UNCHANGED <<sizes, admission, payload, rows, active_rows, cancel_flags,
                 sample_step, todo>>

-----------------------------------------------------------------------------
(* _admit_pending_rollout_rows: run the payload, sample for its full rows. *)

\* EOS ids are masked in the logits while sample_step < min_new_tokens.
MayStop(step) == step >= MinNewTokens

\* finished_callback is called with the stopped rows, then with the full ones.
MarkFinished(stopped, full) ==
  finish_reason' = [r \in Row |-> IF r \in full THEN "length"
                                  ELSE IF r \in stopped THEN "stop"
                                  ELSE finish_reason[r]]

\* A payload without a completed prompt writes KV only; the loop then builds
\* the next payload unless there are rows to decode.
PrefillChunk ==
  /\ pc = "prefill"
  /\ last_active = {}
  /\ packed' = 0
  /\ pc' = IF active_rows = {} THEN "pack" ELSE "cancel"
  /\ UNCHANGED <<sizes, pool, admission, last_active, rows, active_rows,
                 cancel_flags, sample_step, todo>>

FullAfterPrefill == IF MaxNewTokens <= 1 THEN last_active ELSE {}

PrefillSample(stopped) ==
  LET removed == stopped \cup FullAfterPrefill
  IN  /\ pc = "prefill"
      /\ last_active # {}
      /\ stopped \subseteq last_active
      /\ stopped # {} => MayStop(0)
      /\ response_lens' = [r \in Row |-> IF r \in last_active THEN 1 ELSE response_lens[r]]
      /\ cache_seqlens' = [r \in Row |-> IF r \in last_active THEN prompts[r] ELSE cache_seqlens[r]]
      /\ MarkFinished(stopped, FullAfterPrefill)
      /\ active_rows' = active_rows \cup (last_active \ removed)
      /\ packed' = 0
      /\ last_active' = {}
      /\ todo' = removed
      /\ pc' = IF removed = {} THEN "cancel" ELSE "free_prefilled"
      /\ UNCHANGED <<sizes, pool, admission, prompts, cancel_flags, sample_step>>

-----------------------------------------------------------------------------
(* The decode loop                                                         *)

\* _free_rollout_rows: one row per step, then on to the next point.
FreeRow ==
  /\ pc \in {"free_prefilled", "free_cancelled", "free_decoded"}
  /\ \E r \in todo :
       /\ \A q \in todo : r <= q
       /\ Release(r)
       /\ todo' = todo \ {r}
  /\ pc' = IF todo' # {} THEN pc
           ELSE CASE pc = "free_prefilled" -> "cancel"
                  [] pc = "free_cancelled" -> "test"
                  [] pc = "free_decoded"   -> "refill"
  /\ UNCHANGED <<sizes, admission, payload, rows, active_rows, cancel_flags,
                 sample_step>>

\* Mutant: every row of the tensors is looked up, not the active ones.
CancelledOfAllRows == Row \cap cancel_flags

\* _cancel_mask_for_active_rows: the flags as they are at this moment.
Cancelled == active_rows \cap cancel_flags

\* Mutant: the rows are cut and leave the batch, but are not freed.
CancelRowsKeepBlocks ==
  /\ pc = "cancel"
  /\ response_lens' = [r \in Row |-> IF r \in Cancelled THEN 1 ELSE response_lens[r]]
  /\ finish_reason' = [r \in Row |-> IF r \in Cancelled THEN "cancelled" ELSE finish_reason[r]]
  /\ active_rows' = active_rows \ Cancelled
  /\ pc' = "test"
  /\ UNCHANGED <<sizes, pool, admission, payload, prompts, cache_seqlens,
                 cancel_flags, sample_step, todo>>

\* Active rows whose flag is set are cut back to the one cancel token.
CancelRows ==
  /\ pc = "cancel"
  /\ response_lens' = [r \in Row |-> IF r \in Cancelled THEN 1 ELSE response_lens[r]]
  /\ finish_reason' = [r \in Row |-> IF r \in Cancelled THEN "cancelled" ELSE finish_reason[r]]
  /\ active_rows' = active_rows \ Cancelled
  /\ todo' = Cancelled
  /\ pc' = IF Cancelled = {} THEN "test" ELSE "free_cancelled"
  /\ UNCHANGED <<sizes, pool, admission, payload, prompts, cache_seqlens,
                 cancel_flags, sample_step>>

LoopTest ==
  /\ pc = "test"
  /\ pc' = IF active_rows # {} THEN "ensure" ELSE IF HasPending THEN "refill" ELSE "done"
  /\ todo' = active_rows
  /\ UNCHANGED <<sizes, pool, admission, payload, rows, active_rows,
                 cancel_flags, sample_step>>

\* Mutant: off by one, the block of the next token is not asked for.
DecodeBlocksShort(r) ==
  IF cache_seqlens[r] % BlockSize = 0
    THEN Missing(r, cache_seqlens[r] \div BlockSize)
    ELSE 0

\* ensure_decode_blocks looks at a row only when its next token starts a block.
DecodeBlocks(r) ==
  IF cache_seqlens[r] % BlockSize = 0
    THEN Missing(r, cache_seqlens[r] \div BlockSize + 1)
    ELSE 0

EnsureRow ==
  /\ pc = "ensure"
  /\ \E r \in todo :
       /\ \A q \in todo : r <= q
       /\ IF DecodeBlocks(r) <= Len(free_blocks)
            THEN /\ Take(r, DecodeBlocks(r))
                 /\ todo' = todo \ {r}
                 /\ pc' = pc
            ELSE /\ Take(r, Len(free_blocks))
                 /\ pc' = "decode_exhausted"
                 /\ UNCHANGED todo
  /\ UNCHANGED <<sizes, admission, payload, rows, active_rows, cancel_flags,
                 sample_step>>

FullAfterDecode == {r \in active_rows : response_lens[r] + 1 >= MaxNewTokens}

\* Length of a response of n tokens with the cancel token put at clamp(n).
WithCancelToken(n) == IF n >= MaxNewTokens THEN MaxNewTokens ELSE n + 1

\* One token for every active row; then the stop, length and cancel filters.
\* A row cancelled here gets the cancel token after the token just written
\* (over it when the response is full) and no finished_callback.
Decode(stopped) ==
  LET removed == stopped \cup FullAfterDecode \cup Cancelled
  IN  /\ pc = "ensure"
      /\ todo = {}
      /\ stopped \subseteq active_rows
      /\ stopped # {} => MayStop(sample_step)
      /\ sample_step' = IF MayStop(sample_step) THEN sample_step ELSE sample_step + 1
      /\ response_lens' =
           [r \in Row |-> IF r \in Cancelled THEN WithCancelToken(response_lens[r] + 1)
                          ELSE IF r \in active_rows THEN response_lens[r] + 1
                          ELSE response_lens[r]]
      /\ cache_seqlens' =
           [r \in Row |-> IF r \in active_rows THEN cache_seqlens[r] + 1 ELSE cache_seqlens[r]]
      /\ MarkFinished(stopped, FullAfterDecode)
      /\ active_rows' = active_rows \ removed
      /\ todo' = removed
      /\ pc' = IF removed = {} THEN "refill" ELSE "free_decoded"
      /\ UNCHANGED <<sizes, pool, admission, payload, prompts, cancel_flags>>

-----------------------------------------------------------------------------
(* The engine's caller may raise a row's cancel flag at any moment.        *)

RaiseCancel(r) ==
  /\ Cancellable
  /\ pc # "done"
  /\ r \notin cancel_flags
  /\ cancel_flags' = cancel_flags \cup {r}
  /\ UNCHANGED <<sizes, pool, admission, payload, rows, active_rows,
                 sample_step, pc, todo>>

Finished ==
  /\ pc \in {"done", "cache_len_error", "prefill_exhausted", "decode_exhausted"}
  /\ UNCHANGED vars

\* A payload with cancel flags never shares a batch.
RefillSome ==
  /\ ~Cancellable
  /\ \E lens \in Batches(MaxRows - Len(prompts)) \ {<<>>} : Fits(lens) /\ Refill(lens)
SampleSome == \E stopped \in SUBSET last_active : PrefillSample(stopped)
DecodeSome == \E stopped \in SUBSET active_rows : Decode(stopped)

LoopStep ==
  \/ RefillSome
  \/ RefillEnds
  \/ BuildEnds
  \/ RejectTooLong
  \/ PackRow
  \/ PackRunsOut
  \/ PrefillChunk
  \/ SampleSome
  \/ FreeRow
  \/ CancelRows
  \/ LoopTest
  \/ EnsureRow
  \/ DecodeSome

Next ==
  \/ LoopStep
  \/ \E r \in Row : RaiseCancel(r)
  \/ Finished

Spec == Init /\ [][Next]_vars

\* The loop is one thread of the worker process: it never stops by itself.
FairSpec == Spec /\ WF_vars(LoopStep)
-----------------------------------------------------------------------------
(* Properties                                                              *)

Stages ==
  {"refill", "pack", "prefill", "free_prefilled", "cancel", "free_cancelled",
   "test", "ensure", "free_decoded", "done",
   "cache_len_error", "prefill_exhausted", "decode_exhausted"}

\* Every variable of the loop has the type the code gives it.
TypeOK ==
  /\ max_running_seqs \in Nat \ {0}
  /\ max_cache_len \in Nat \ {0}
  /\ max_prefill_tokens \in Nat \ {0}
  /\ num_cache_blocks \in Nat \ {0}
  /\ prompts \in Seq(PromptLens)
  /\ pending_seq_id \in 1..Len(prompts) + 1
  /\ cursor \in Nat
  /\ free_blocks \in Seq(Block)
  /\ seq_to_blocks \in [DOMAIN seq_to_blocks -> Seq(Block)]
  /\ DOMAIN seq_to_blocks \subseteq Row
  /\ packed \in Nat
  /\ last_active \subseteq Row
  /\ active_rows \subseteq Row
  /\ response_lens \in [Row -> 0..MaxNewTokens]
  /\ cache_seqlens \in [Row -> Nat]
  /\ finish_reason \in [Row -> {"none", "stop", "length", "cancelled"}]
  /\ cancel_flags \subseteq Row
  /\ sample_step \in Nat
  /\ pc \in Stages
  /\ todo \subseteq Row

\* The places a block can be: a position of the free list or of a row's table.
Places == {<<0, i>> : i \in 1..Len(free_blocks)}
            \cup UNION {{<<r, i>> : i \in 1..Len(seq_to_blocks[r])} : r \in DOMAIN seq_to_blocks}
At(p) == IF p[1] = 0 THEN free_blocks[p[2]] ELSE seq_to_blocks[p[1]][p[2]]

\* Every KV block is in exactly one place: no two rows (or two positions of a
\* row) share a block, none is freed twice and none is lost, through chunked
\* prefill, decode growth, cancellation and refill.
BlocksConserved ==
  /\ \A p, q \in Places : At(p) = At(q) => p = q
  /\ \A b \in Block : \E p \in Places : At(p) = b

\* A pool with a full table for every running row never runs out: the two
\* RuntimeErrors of rollout_state.py cannot be raised, whatever the arrivals.
NoExhaustion ==
  num_cache_blocks >= max_running_seqs * MaxBlocksPerSeq
    => pc \notin {"prefill_exhausted", "decode_exhausted"}

\* When the batch is decoded, every active row owns the block its next token
\* is written to, and its table still fits the width of the block table.
DecodeOwnsItsBlock ==
  pc = "ensure" /\ todo = {} =>
    \A r \in active_rows : /\ cache_seqlens[r] < BlockSize * Len(Held(r))
                           /\ Len(Held(r)) <= MaxBlocksPerSeq

\* The loop ends only when every row, refilled ones included, has a response
\* and every block is back in the pool.
DoneMeansServed ==
  pc = "done" => /\ \A r \in Row : response_lens[r] >= 1
                 /\ Len(free_blocks) = num_cache_blocks

\* From its first token to its last a row is served: it decodes only into blocks
\* of its own (ensure_decode_blocks), and the loop of
\* _generate_rollout_tokens_no_sync leaves none behind, neither one that a refill
\* appended nor one half prefilled.
RowsAreServed == DecodeOwnsItsBlock /\ DoneMeansServed

Served(r) == response_lens[r] > 0 /\ r \notin active_rows

\* A row that left the batch stays out of it: its response, cached length and
\* reported reason never change, although its index stays in the tensors.
ServedRowsStayServed ==
  [][\A r \in Row : Served(r) =>
        /\ Served(r)'
        /\ response_lens'[r] = response_lens[r]
        /\ cache_seqlens'[r] = cache_seqlens[r]
        /\ finish_reason'[r] = finish_reason[r]]_vars

Advances ==
  \/ Len(free_blocks') < Len(free_blocks)
  \/ \E q \in Row : response_lens'[q] > response_lens[q]

\* A row whose cancel flag is up when a token is written to it leaves the batch
\* in that same step, and the blocks of a row that left, cancelled or finished
\* (_free_rollout_rows), are back in the pool before another row gets a token or
\* a block.
CancelStopsDecoding ==
  [][/\ \A r \in active_rows \cap cancel_flags :
          response_lens'[r] # response_lens[r] => r \notin active_rows'
     /\ Advances => \A r \in Row : Served(r) => r \notin DOMAIN seq_to_blocks]_vars

\* A row that runs alone and is prefilled in pieces owns the whole pool: the free
\* list is empty, so that build_prefill_payload builds nothing, and nothing is
\* being decoded that could end and free blocks.
HeadHoldsThePool ==
  /\ max_running_seqs = 1
  /\ active_rows = {}
  /\ HasPending /\ cursor > 0
  /\ Len(Held(pending_seq_id)) = num_cache_blocks
  /\ free_blocks = <<>>

\* Every rollout the engine starts ends with all of its rows served, or the loop
\* spins for ever (inference.py, line 402) on a rank with one running row, whose
\* prompt took all of the pool with its first pieces.
EveryRolloutEnds ==
  \/ <>(pc = "done" /\ \A r \in Row : response_lens[r] >= 1)
  \/ <>[](pc # "done" /\ HeadHoldsThePool)
=============================================================================
