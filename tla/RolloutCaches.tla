---------------------------- MODULE RolloutCaches ----------------------------
(***************************************************************************)
(* What the layers of a model read and leave in their caches while         *)
(* RolloutScheduler runs a batch: the payload of build_prefill_payload,    *)
(* the paged K/V cache of a softmax layer, the recurrent state of Bailing's*)
(* linear layers, the recurrent and convolution states of a gated delta    *)
(* net (Qwen3.5, MiniCPM), and the decode step, padded to a graph bucket.  *)
(*                                                                         *)
(* A token is <<row, position>>; `outputs' holds, for every token of the   *)
(* last forward pass, what each kind of layer read.                        *)
(***************************************************************************)
EXTENDS RolloutScheduler, AttentionKernels, LinearKernels

CONSTANTS
  Window,        \* window_left of the softmax layer, -1 for none
  ConvKernel,    \* linear_conv_kernel_dim
  SegBlock,      \* BLOCK of the seg_la prefill kernel
  KeyTile,       \* keys per shared-memory tile
  NumSplits,     \* splits of the paged decode kernel
  CapturedGraphs \* buckets with a captured decode graph

VARIABLES
  chunks,        \* the payload: [row, start, len] in packing order
  kv,            \* block -> offset -> token
  lin_state,     \* state_cache of a seg_la layer, by slot
  gdn_state,     \* state_cache of a gated delta net, by slot
  conv_state,    \* conv_cache of a gated delta net, by slot
  outputs,       \* token -> what each kind of layer read for it
  used_slots,    \* slots that a row of this batch has written
  reused,        \* rows admitted on a slot another row had used
  resumed        \* rows whose prompt was split over payloads
caches == <<chunks, kv, lin_state, gdn_state, conv_state, outputs, used_slots, reused, resumed>>
cvars == <<vars, caches>>

Scratch == num_cache_blocks
Slots == 0..num_cache_blocks
NoHistory == [i \in 1..(ConvKernel - 1) |-> Zero]

\* allocate_kv_caches and reset_kv_caches: the paged cache keeps its contents,
\* the states are zeroed.
CacheInit ==
  /\ chunks = << >>
  /\ kv = [b \in Slots |-> [o \in 0..(BlockSize - 1) |-> Zero]]
  /\ lin_state = [b \in Slots |-> {}]
  /\ gdn_state = [b \in Slots |-> {}]
  /\ conv_state = [b \in Slots |-> NoHistory]
  /\ outputs = << >>
  /\ used_slots = {} /\ reused = {} /\ resumed = {}

(*------------------------------- prefill --------------------------------*)
\* What PackRow adds to input_ids, position_ids and cu_seqlens.
PackChunk ==
  LET r == pending_seq_id
      slot == seq_to_blocks'[r][1]
  IN /\ chunks' = Append(chunks, [row |-> r, start |-> cursor, len |-> ChunkLen])
     /\ used_slots' = used_slots \cup {slot}
     /\ reused' = IF Held(r) = << >> /\ slot \in used_slots THEN reused \cup {r} ELSE reused
     /\ resumed' = IF cursor + ChunkLen < prompts[r] THEN resumed \cup {r} ELSE resumed
     /\ UNCHANGED <<kv, lin_state, gdn_state, conv_state, outputs>>

ChunkTokens(c) == [k \in 1..c.len |-> <<c.row, c.start + k - 1>>]
PayloadTokens == FlattenSeq([i \in DOMAIN chunks |-> ChunkTokens(chunks[i])])
CuSeqlens ==
  FoldLeft(LAMBDA cu, c : Append(cu, cu[Len(cu)] + c.len), <<0>>, chunks)
SlotOf(r) == seq_to_blocks[r][1]

\* _store_prefill_cache at the (block, offset) of every payload token.
StorePrefillByChunk ==
  FoldLeft(LAMBDA c, t : [c EXCEPT ![SlotOf(t[1])][t[2] % BlockSize] = t], kv, PayloadTokens)
StorePrefillCache ==
  FoldLeft(LAMBDA c, t : [c EXCEPT ![seq_to_blocks[t[1]][t[2] \div BlockSize + 1]][t[2] % BlockSize] = t],
           kv, PayloadTokens)

\* FlashAttnInferBackend.forward, prefill: the chunk's own K/V only.
SoftmaxPrefill ==
  LET flat == PayloadTokens
      cu == CuSeqlens
  IN [t \in ToSet(flat) |->
        VarlenRow([k \in 0..(Len(flat) - 1), g \in {0} |-> flat[k + 1]], cu, Window, KeyTile, 1, 1,
                  (CHOOSE i \in DOMAIN flat : flat[i] = t) - 1, 0)]

\* BailingLinearAttention._forward_prefill: every chunk from a zero state.
SegLaPrefill ==
  SegLaForward(lin_state,
               [i \in DOMAIN chunks |-> [slot |-> SlotOf(chunks[i].row), toks |-> ChunkTokens(chunks[i]), scale |-> 0]],
               "plain", << >>, SegBlock)

\* Qwen35GatedDeltaNet._forward_infer, prefill: from the state of the slot.
ChunkOfSlot(s) == CHOOSE i \in DOMAIN chunks : SlotOf(chunks[i].row) = s
PayloadSlots == {SlotOf(chunks[i].row) : i \in DOMAIN chunks}
GdnPrefill == [i \in DOMAIN chunks |-> Recurrence(gdn_state[SlotOf(chunks[i].row)], ChunkTokens(chunks[i]))]

\* _causal_conv_infer_prefill: each segment from zeros, its tail cached.
ConvTail(toks) ==
  LET n == LeastOf(Len(toks), ConvKernel - 1)
  IN [j \in 1..(ConvKernel - 1) |->
        IF j > ConvKernel - 1 - n THEN toks[Len(toks) - (ConvKernel - 1) + j] ELSE Zero]
ConvPrefill(toks, i) == {<<x[1], toks[x[2] + 1]>> : x \in DenseConv(ConvKernel, i - 1)}

\* _run_prefill_payload and _infer_next_token_tensor.
PrefillForward ==
  LET soft == SoftmaxPrefill
      lin == SegLaPrefill
      gdn == GdnPrefill
      token(i, k) == <<chunks[i].row, chunks[i].start + k - 1>>
      place(t) == CHOOSE i \in DOMAIN chunks : \E k \in 1..chunks[i].len : token(i, k) = t
  IN /\ kv' = StorePrefillCache
     /\ lin_state' = lin.pool
     /\ gdn_state' = [s \in Slots |-> IF s \in PayloadSlots THEN gdn[ChunkOfSlot(s)].state ELSE gdn_state[s]]
     /\ conv_state' = [s \in Slots |-> IF s \in PayloadSlots THEN ConvTail(ChunkTokens(chunks[ChunkOfSlot(s)]))
                                       ELSE conv_state[s]]
     /\ outputs' = [t \in ToSet(PayloadTokens) |->
          LET i == place(t)
              k == t[2] - chunks[i].start + 1
          IN [soft |-> soft[t], lin |-> lin.out[i][k], gdn |-> gdn[i].out[k],
              conv |-> ConvPrefill(ChunkTokens(chunks[i]), k)]]
     /\ chunks' = << >>
     /\ UNCHANGED <<used_slots, reused, resumed>>

(*-------------------------------- decode --------------------------------*)
ActiveInOrder == SetToSortSeq(active_rows, <)
\* _block_table_for_active_rows: padded with the row's last block.
BlockTable(r) ==
  [j \in 1..MaxBlocksPerSeq |-> IF j <= Len(Held(r)) THEN Held(r)[j] ELSE Held(r)[Len(Held(r))]]

\* _decode_graph_for_active_count; with no graph the step runs eagerly.
Bucket(n) == IF \E b \in CapturedGraphs : b >= n THEN Min({b \in CapturedGraphs : b >= n}) ELSE n

\* DecodeGraph.replay_tensors: live rows first, the rest padded with the
\* scratch block at length 0.
Lanes(n) ==
  [i \in 1..Bucket(n) |->
     IF i <= n
     THEN LET r == ActiveInOrder[i]
          IN [slot |-> BlockTable(r)[1], table |-> BlockTable(r), len |-> cache_seqlens[r],
              token |-> <<r, cache_seqlens[r]>>]
     ELSE [slot |-> Scratch, table |-> [j \in 1..MaxBlocksPerSeq |-> Scratch], len |-> 0, token |-> Zero]]

\* _native_decode: append to the cache, then the split softmax.
SoftmaxDecode(lanes) ==
  PagedDecode(kv, [i \in DOMAIN lanes |-> lanes[i].table], [i \in DOMAIN lanes |-> lanes[i].len],
              BlockSize, Window, NumSplits, [i \in DOMAIN lanes |-> lanes[i].token])
\* BailingLinearAttention._forward_decode.
SegLaDecode(lanes) ==
  SegLaForward(lin_state,
               [i \in DOMAIN lanes |-> [slot |-> lanes[i].slot, toks |-> <<lanes[i].token>>, scale |-> 1]],
               "plain", << >>, SegBlock)
\* The delta rule from the slot's state; the convolution over the cached
\* history and the token, and the history slid by one.
GdnDecode(lanes) == [i \in DOMAIN lanes |-> DKernel(gdn_state[lanes[i].slot], lanes[i].token)]
ConvDecode(lane) == [read |-> DecodeConv(ConvKernel, conv_state[lane.slot], lane.token),
                     history |-> Append(Tail(conv_state[lane.slot]), lane.token)]

\* _infer_decode_next_token_tensor: one token for every lane.
DecodeForward ==
  LET n == Cardinality(active_rows)
      lanes == Lanes(n)
      paged == SoftmaxDecode(lanes)
      lin == SegLaDecode(lanes)
      gdn == GdnDecode(lanes)
      laneOf(s) == CHOOSE i \in DOMAIN lanes : lanes[i].slot = s
      touched == {lanes[i].slot : i \in DOMAIN lanes}
  IN /\ kv' = paged.cache
     /\ lin_state' = lin.pool
     /\ gdn_state' = [s \in Slots |-> IF s \in touched THEN gdn[laneOf(s)].state ELSE gdn_state[s]]
     /\ conv_state' = [s \in Slots |-> IF s \in touched
                                       THEN ConvDecode(lanes[laneOf(s)]).history ELSE conv_state[s]]
     /\ outputs' = [t \in {lanes[i].token : i \in 1..n} |->
          LET i == laneOf(SlotOf(t[1]))
          IN [soft |-> paged.out[i], lin |-> lin.out[i][1], gdn |-> gdn[i].out[1],
              conv |-> ConvDecode(lanes[i]).read]]
     /\ UNCHANGED <<chunks, used_slots, reused, resumed>>

(*------------------------------ the machine -----------------------------*)
OtherSteps ==
  \/ RefillSome \/ RefillEnds \/ BuildEnds \/ RejectTooLong \/ PackRunsOut
  \/ FreeRow \/ CancelRows \/ LoopTest \/ EnsureRow
CachesInit == Init /\ CacheInit
CachesNext ==
  \/ PackRow /\ PackChunk
  \/ PrefillChunk /\ PrefillForward
  \/ SampleSome /\ PrefillForward
  \/ DecodeSome /\ DecodeForward
  \/ OtherSteps /\ UNCHANGED caches
  \/ Finished /\ UNCHANGED caches
CachesSpec == CachesInit /\ [][CachesNext]_cvars

(*------------------------------- training -------------------------------*)
\* The row up to and including t, packed behind another row's token, as the
\* training forward reads it: one NativeTrainRow, one lightning or delta
\* recurrence from nothing, one packed convolution.
Packed(t) == <<Zero>> \o [p \in 1..(t[2] + 1) |-> <<t[1], p - 1>>]
TrainCu(t) == <<0, 1, t[2] + 2>>
TrainSoftmax(t) ==
  NativeTrainRow([pos \in 0..(t[2] + 1), g \in {0} |-> Packed(t)[pos + 1]], TrainCu(t), Window, KeyTile,
                 1, 1, t[2] + 1, 0)
TrainLightning(t) == Recurrence({}, Tail(Packed(t))).out[t[2] + 1]
TrainConv(t) == {<<x[1], Packed(t)[x[2] + 1]>> : x \in PackedConv(ConvKernel, TrainCu(t), t[2] + 1)}

(*------------------------------ properties ------------------------------*)
\* Whatever blocks a row was given, whoever had them before and however the
\* decode batch was padded, each layer reads for a sampled token what the
\* trainer's forward reads when it scores the row (the premise of the
\* importance ratios): the layers' _forward_infer against _forward_train.  A
\* row whose prompt was split over payloads is left out, every kind of layer
\* forgets its earlier chunks; so is a delta net's row on a reused slot, its
\* prefill starts from what the former row left, and so does seg_la when every
\* prompt of the payload is one token.
RolloutReadsItsHistory ==
  \A t \in DOMAIN outputs :
    t[1] \notin resumed =>
      /\ SameSoftmax(outputs[t].soft, TrainSoftmax(t))
      /\ outputs[t].conv = TrainConv(t)
      /\ prompts[t[1]] > 1 \/ t[1] \notin reused => outputs[t].lin = TrainLightning(t)
      /\ t[1] \notin reused => outputs[t].gdn = TrainLightning(t)

\* seg_la.py: prefill can be split into pieces, later pieces resume from the
\* stored state.
PiecesContinue ==
  \A t \in DOMAIN outputs : t[1] \notin reused => outputs[t].lin = TrainLightning(t)
=============================================================================
