--------------------------- MODULE KernelLaunches ---------------------------
(***************************************************************************)
(* One launch of an attention, linear-attention or convolution kernel over *)
(* every small shape its wrapper accepts: `call' is what the wrapper was   *)
(* given, `result' what the kernel leaves.                                 *)
(***************************************************************************)
EXTENDS AttentionKernels, LinearKernels

CONSTANTS
  Boundaries,   \* cu_seqlens of packed batches
  Windows,      \* window_left values
  Tiles,        \* keys per tile, splits of a row, queries per chunk
  HeadPairs,    \* <<query heads, key heads>>
  Tables,       \* block tables: a sequence of blocks for each decode row
  KernelBlock,  \* positions per cache block
  Masks,        \* tree masks of speculative candidates
  Taps          \* convolution widths

VARIABLES call, result
kvars == <<call, result>>

KInit == call = [kind |-> "none"] /\ result = << >>

Tokens(cu) == 0..(cu[Len(cu)] - 1)
Key(pos, head) == <<pos, head>>

(*------------------------------- attention ------------------------------*)
PackedKeys(cu, kvheads) == [pos \in Tokens(cu), g \in 0..(kvheads - 1) |-> Key(pos, g)]
LaunchVarlen ==
  \E cu \in Boundaries, W \in Windows, n \in Tiles, hp \in HeadPairs :
    /\ VarlenLaunches(cu, hp[1], hp[2])
    /\ call' = [kind |-> "varlen", cu |-> cu, W |-> W, n |-> n, q |-> hp[1], kv |-> hp[2]]
    /\ result' =
         LET K == PackedKeys(cu, hp[2])
         IN [x \in Tokens(cu) \X (0..(hp[1] - 1)) |->
               LET out == VarlenRow(K, cu, W, n, hp[1], hp[2], x[1], x[2])
               IN [out |-> out,
                   grad |-> VarlenRowGradient(K, cu, W, hp[1], hp[2], x[1], x[2], out)]]

DenseKeys(klen) == [k \in 0..(klen - 1) |-> Key(k, 0)]
LaunchDense ==
  \E klen \in 1..4 : \E qlen \in 1..klen, W \in Windows, n \in Tiles : \E qstart \in 0..(klen - qlen) :
    /\ DenseLaunches(qstart, qlen, klen)
    /\ call' = [kind |-> "dense", klen |-> klen, qstart |-> qstart, W |-> W]
    /\ result' = [q \in 0..(qlen - 1) |->
         LET out == DenseRow(DenseKeys(klen), qstart, klen, W, n, q)
         IN [out |-> out, grad |-> DenseRowGradient(DenseKeys(klen), qstart, klen, W, q, out)]]

\* Each row's earlier tokens are where its table says; the rest of the cache
\* holds keys of nobody.
Stored(tables, lengths) ==
  [b \in 0..Max(UNION {ToSet(tables[i]) : i \in DOMAIN tables}) |->
     [o \in 0..(KernelBlock - 1) |->
        IF \E i \in DOMAIN tables : \E j \in DOMAIN tables[i] :
             tables[i][j] = b /\ (j - 1) * KernelBlock + o < lengths[i]
        THEN LET i == CHOOSE r \in DOMAIN tables : b \in ToSet(tables[r])
                 j == CHOOSE c \in DOMAIN tables[i] : tables[i][c] = b
             IN Key((j - 1) * KernelBlock + o, i)
        ELSE Key(7, 7)]]
LaunchPaged ==
  \E tables \in Tables, W \in Windows, n \in Tiles :
    \E lengths \in [DOMAIN tables -> 0..(KernelBlock * 2 - 1)] :
      LET run == PagedDecode(Stored(tables, lengths), tables, lengths, KernelBlock, W, n,
                             [i \in DOMAIN tables |-> Key(lengths[i], i)])
      IN /\ call' = [kind |-> "paged", tables |-> tables, lengths |-> lengths, W |-> W]
         /\ result' = run

(*---------------------------- linear attention --------------------------*)
\* Request i starts from slot slots[i], whose state holds one old token.
OldState == [s \in 0..3 |-> {<<<<0, s>>, s>>}]
Requests(lens, slots, scales) ==
  [i \in DOMAIN lens |-> [slot |-> slots[i], scale |-> scales[i], toks |-> [k \in 1..lens[i] |-> <<i, k>>]]]
LaunchSegLa ==
  \E lens \in {<<1>>, <<3>>, <<1, 1>>, <<3, 1>>, <<2, 2>>, <<1, 4>>}, n \in Tiles :
    \E slots \in [DOMAIN lens -> {-1, 0, 2, 3}], scales \in [DOMAIN lens -> {0, 1}] :
      /\ \A i, j \in DOMAIN lens : i # j => slots[i] # slots[j]
      /\ call' = [kind |-> "plain", reqs |-> Requests(lens, slots, scales)]
      /\ result' = SegLaForward(OldState, Requests(lens, slots, scales), "plain", << >>, n)
\* seg_la_kernel, kept as the reference of the others; prefill or one token.
LaunchReference ==
  \E len \in 1..4, n \in Tiles, slot \in {1, 2}, scale \in {0, 1} :
    /\ n = 1 => len = 1 /\ scale = 1
    /\ call' = [kind |-> "reference", len |-> len, slot |-> slot, scale |-> scale]
    /\ result' = GenericKernel(IF scale = 1 THEN OldState[slot] ELSE {}, [k \in 1..len |-> <<1, k>>], n)
LaunchSpeculative ==
  \E mask \in Masks, slot \in {-1, 1}, scale \in {0, 1} :
    LET reqs == Requests(<<Len(mask)>>, <<slot>>, <<scale>>)
    IN /\ call' = [kind |-> "mask", reqs |-> reqs, mask |-> mask]
       /\ result' = SegLaForward(OldState, reqs, "mask", mask, 1)
LaunchMultiToken ==
  \E step \in 2..3, slots \in {<<0, 1>>, <<2, -1>>} :
    LET reqs == Requests(<<step, step>>, slots, <<1, 1>>)
    IN /\ call' = [kind |-> "caches", reqs |-> reqs]
       /\ result' = SegLaForward(OldState, reqs, "caches", << >>, 1)

(*------------------------------ convolution -----------------------------*)
LaunchConv ==
  \E cu \in Boundaries, K \in Taps :
    /\ call' = [kind |-> "conv", cu |-> cu, K |-> K]
    /\ result' = [out |-> [t \in Tokens(cu) |-> PackedConv(K, cu, t)],
                  grad_input |-> [t \in Tokens(cu) |-> PackedConvGradInput(K, cu, t)],
                  grad_weight |-> [k \in 0..(K - 1) |-> PackedConvGradWeight(K, cu, k)]]
LaunchDenseConv ==
  \E len \in 1..5, K \in Taps :
    /\ call' = [kind |-> "dense_conv", cu |-> <<0, len>>, K |-> K]
    /\ result' = [out |-> [t \in 0..(len - 1) |-> DenseConv(K, t)],
                  grad_input |-> [t \in 0..(len - 1) |-> DenseConvGradInput(K, len, t)],
                  grad_weight |-> [k \in 0..(K - 1) |-> DenseConvGradWeight(K, len, k)]]

KNext ==
  \/ LaunchVarlen \/ LaunchDense \/ LaunchPaged
  \/ LaunchSegLa \/ LaunchReference \/ LaunchSpeculative \/ LaunchMultiToken
  \/ LaunchConv \/ LaunchDenseConv
KSpec == KInit /\ [][KNext]_kvars

(*------------------------------ properties ------------------------------*)
\* A gradient row matches a softmax row: grad_v weights are the forward
\* probabilities, and the score gradients of a row sum to nothing.
GradientOf(grad, out) ==
  /\ DOMAIN grad = DOMAIN out.acc
  /\ \A x \in DOMAIN grad : grad[x].p[1] * out.l = out.acc[x] * grad[x].p[2]
  /\ Total(DOMAIN grad, LAMBDA x : grad[x].ds[1]) = 0

\* Whatever the packing, the window, the tiling, the head grouping or the
\* split of a decode row, the CUDA kernels give the rows the training
\* backend's masked softmax and accel/attention.py's references give, and
\* backward differentiates the row forward wrote.
SoftmaxKernelsAgree ==
  /\ call.kind = "varlen" =>
       \A x \in DOMAIN result :
         LET ref == NativeTrainRow(PackedKeys(call.cu, call.kv), call.cu, call.W, call.n,
                                   call.q, call.kv, x[1], x[2])
         IN SameSoftmax(result[x].out, ref) /\ GradientOf(result[x].grad, ref)
  /\ call.kind = "dense" =>
       \A q \in DOMAIN result :
         LET ref == ReferenceRow(DenseKeys(call.klen), call.qstart, call.klen, call.W, q)
         IN SameSoftmax(result[q].out, ref) /\ GradientOf(result[q].grad, ref)
  /\ call.kind = "paged" =>
       \A i \in DOMAIN call.tables :
         LET n == call.lengths[i] + 1
             first == IF call.W >= 0 THEN Upper(n - 1 - call.W, 0) ELSE 0
         IN /\ SameSoftmax(result.out[i], SoftmaxOver({Key(k, i) : k \in first..(n - 1)}))
            /\ SameSoftmax(result.out[i],
                 PagedReference(result.cache, call.tables[i], n, KernelBlock, call.W))

\* A request's recurrence starts from its slot, or from nothing when it is
\* the first chunk of a longer prompt.
StartOf(i) ==
  IF call.reqs[i].scale = 0 /\ call.kind # "caches" /\ \E j \in DOMAIN call.reqs : Len(call.reqs[j].toks) > 1
  THEN {} ELSE OldState[call.reqs[i].slot]
Path(toks, mask, i) == {<<toks[j], Cardinality(mask[i]) - Cardinality(mask[j])>> : j \in mask[i]}

\* The blocked prefill, decode, speculative and multi-token kernels of
\* seg_la.py compute one recurrence, skip the slots marked -1 and leave the
\* others' states alone; the convolution of a packed batch never crosses a
\* boundary and its two gradients transpose its forward (conv.cu).
LinearKernelsAgree ==
  /\ call.kind \in {"plain", "caches", "mask"} =>
       /\ \A i \in DOMAIN call.reqs : call.reqs[i].slot # -1 =>
            LET run == Recurrence(StartOf(i), call.reqs[i].toks)
            IN CASE call.kind = "mask" ->
                    \A j \in DOMAIN call.mask :
                      result.out[i][j] = Path(call.reqs[i].toks, call.mask, j)
                                           \cup Decayed(StartOf(i), Cardinality(call.mask[j]))
                 [] call.kind = "caches" -> result.out[i] = run.out
                 [] OTHER -> result.out[i] = run.out /\ result.pool[call.reqs[i].slot] = run.state
       /\ \A s \in DOMAIN OldState :
            (call.kind # "plain" \/ \A i \in DOMAIN call.reqs : call.reqs[i].slot # s)
              => result.pool[s] = OldState[s]
  /\ call.kind = "reference" =>
       result = Recurrence(IF call.scale = 1 THEN OldState[call.slot] ELSE {}, [k \in 1..call.len |-> <<1, k>>])
  /\ call.kind \in {"conv", "dense_conv"} =>
       \A o \in DOMAIN result.out, k \in 0..(call.K - 1), t \in DOMAIN result.out :
         LET reads == /\ t = o + k - (call.K - 1)
                      /\ ~\E i \in DOMAIN call.cu : t < call.cu[i] /\ call.cu[i] <= o
         IN /\ reads <=> <<k, t>> \in result.out[o]
            /\ reads <=> <<k, o>> \in result.grad_input[t]
            /\ reads <=> <<o, t>> \in result.grad_weight[k]

\* Every kernel computes what its reference computes, whatever the launch: accel/attention.py
\* for softmax attention, the recurrence of seg_la.py, the convolution of conv.cu.
KernelsAgree == SoftmaxKernelsAgree /\ LinearKernelsAgree
=============================================================================
