----------------------------- MODULE MCAttention -----------------------------
(* The attention kernels, the caches a rollout fills through them, the       *)
(* per-layer cache tensors and the experts, one part per initial state.      *)
EXTENDS RolloutCaches, KernelLaunches, LayerCaches, MoeDispatch

VARIABLE part
avars == <<cvars, kvars, lvars, mvars, part>>

MCScore(x) == ((x[1] * 2) + x[2]) % 3
MCValue(x) == ((x[1] * 3) + (x[2] * 2)) % 5
NoGivenSizes == {}
MCBoundaries == {<<0, 1>>, <<0, 4>>, <<0, 1, 4>>, <<0, 3, 4>>, <<0, 2, 2, 5>>, <<0, 1, 2, 5>>}
MCWindows == {-1, 0, 2}
MCHeadPairs == {<<2, 1>>, <<4, 2>>}
MCTables == {<<<<1, 2>>>>, <<<<3, 0>>, <<1, 2>>>>, <<<<0, 2>>, <<3, 1>>>>}
MCMasks == {<<{1}, {1, 2}>>, <<{1}, {1, 2}, {1, 2, 3}>>, <<{1}, {1, 2}, {1, 3}>>, <<{1}, {1, 2}, {1, 3}, {1, 2, 4}>>}
Full == [kind |-> "softmax", source |-> 0]
Linear == [kind |-> "linear", source |-> 0]
SharedWith(l) == [kind |-> "shared", source |-> l]
MCModels == {<<Full, Full, SharedWith(1), SharedWith(2)>>, <<Full, Full, Full, SharedWith(2)>>,
             <<Linear, Full, Linear, Full>>, <<Linear, Linear, Full>>, <<Full, Full>>}

MCLogits == {<<1, 2, 3, 1>>, <<2, 2, 2, 2>>, <<0, 0, 1, 0>>, <<3, 1, 1, 3>>, <<1, 1, 2, 2>>}
MCBias == <<0, 1, 0, 0>>
MCSilu(x) == x * x
MCSlope(x) == 2 * x

Rest(p) ==
  /\ part = p
  /\ p # "kernels" => KInit
  /\ p # "layers" => model = << >> /\ bound = << >> /\ written = << >> /\ backend = {}
  /\ p # "caches" =>
       /\ max_running_seqs = 1 /\ max_cache_len = 1 /\ max_prefill_tokens = 1 /\ num_cache_blocks = 0
       /\ prompts = << >> /\ pending_seq_id = 1 /\ cursor = 0 /\ free_blocks = << >> /\ seq_to_blocks = << >>
       /\ packed = 0 /\ last_active = {} /\ active_rows = {} /\ response_lens = << >> /\ cache_seqlens = << >>
       /\ finish_reason = << >> /\ cancel_flags = {} /\ sample_step = 1 /\ pc = "finished" /\ todo = {}
       /\ CacheInit
RestMoe == router = "softmax" /\ limit = 0 /\ logits = << >> /\ MoeIdle
AttentionInit ==
  \/ Rest("caches") /\ CachesInit /\ RestMoe
  \/ Rest("kernels") /\ KInit /\ RestMoe
  \/ Rest("layers") /\ LInit /\ RestMoe
  \/ Rest("experts") /\ MoeInit
AttentionNext ==
  \/ part = "caches" /\ CachesNext /\ UNCHANGED <<part, kvars, lvars, mvars>>
  \/ part = "kernels" /\ call.kind = "none" /\ KNext /\ UNCHANGED <<part, cvars, lvars, mvars>>
  \/ part = "layers" /\ LNext /\ UNCHANGED <<part, cvars, kvars, mvars>>
  \/ part = "experts" /\ MoeNext /\ UNCHANGED <<part, cvars, kvars, lvars>>
MCSpec == AttentionInit /\ [][AttentionNext]_avars

(* A rollout whose prompts may exceed one prefill payload. *)
PiecesSpec == AttentionInit /\ part = "caches" /\ [][AttentionNext]_avars
=============================================================================
