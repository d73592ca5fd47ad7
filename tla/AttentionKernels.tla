-------------------------- MODULE AttentionKernels --------------------------
(***************************************************************************)
(* The attention, segmented linear attention and causal convolution        *)
(* kernels (accel/csrc/attention.cu, accel/csrc/conv.cu,                   *)
(* accel/kernels/seg_la.py, accel/attention.py, layers/attention_backend). *)
(*                                                                         *)
(* A key is an identity; Score gives its logit, as a power of two, and     *)
(* Value its value.  A softmax output is the unnormalised weight of every  *)
(* key it read, so a wrong mask, a key read twice or a wrong rescaling all *)
(* show.  A linear-attention state is a set <<token, decay exponent>>, a   *)
(* convolution output a set <<tap, token>>.  Tensors are indexed from 0.   *)
(***************************************************************************)
EXTENDS Integers, Sequences, FiniteSets, SequencesExt, FiniteSetsExt, Functions

CONSTANTS MaxScore, \* largest logit
          Score(_), \* logit of a key, in 0..MaxScore
          Value(_)  \* value of a key

ASSUME KernelAssumption == MaxScore \in Nat

CeilOf(a, b) == (a + b - 1) \div b
Lower(a, b) == IF a < b THEN a ELSE b
Upper(a, b) == IF a < b THEN b ELSE a
Total(S, f(_)) == FoldSet(LAMBDA x, acc : acc + f(x), 0, S)
NoWindow == -1

(*--------------------------- the online softmax -------------------------*)
Unit == 2 ^ MaxScore
Exp(d) == 2 ^ (MaxScore + d)   \* 2^d for d in -MaxScore..0, in Units
NoKeys == [m |-> -1, l |-> 0, acc |-> << >>]
Scaled(w, factor) == (w * factor) \div Unit
Weight(acc, x) == IF x \in DOMAIN acc THEN acc[x] ELSE 0

\* One key: the running maximum, the rescaled sum and the rescaled output.
OnlineNoRescale(st, x) ==
    LET top == Upper(st.m, Score(x))
        beta == Exp(Score(x) - top)
    IN [m |-> top, l |-> st.l + beta,
        acc |-> [y \in DOMAIN st.acc \cup {x} |-> Weight(st.acc, y) + (IF y = x THEN beta ELSE 0)]]
Online(st, x) ==
    LET top == Upper(st.m, Score(x))
        alpha == IF st.l = 0 THEN 0 ELSE Exp(st.m - top)
        beta == Exp(Score(x) - top)
    IN [m |-> top, l |-> Scaled(st.l, alpha) + beta,
        acc |-> [y \in DOMAIN st.acc \cup {x} |->
                   Scaled(Weight(st.acc, y), alpha) + (IF y = x THEN beta ELSE 0)]]
ReadAll(keys) == FoldLeft(Online, NoKeys, keys)

\* The same output, up to the scale of the weights.
SameSoftmax(a, b) ==
    /\ DOMAIN a.acc = DOMAIN b.acc
    /\ \A x \in DOMAIN a.acc : a.acc[x] * b.l = b.acc[x] * a.l

\* The positions first..last in tiles of n.
Tiled(first, last, n) ==
    FlattenSeq([i \in 1..CeilOf(last - first + 1, n) |->
      LET start == first + ((i - 1) * n)
      IN [j \in 1..Lower(n, last - start + 1) |-> start + j - 1]])

(*-------------------------- packed sequences ----------------------------*)
\* cu is the sequence of boundaries; the result counts sequences from 0.
FindSequence(cu, token) ==
    LET n == Len(cu) - 1
        find[lo \in 0..n, hi \in 0..n] ==
          IF lo + 1 >= hi THEN lo
          ELSE LET mid == (lo + hi) \div 2
               IN IF cu[mid + 1] <= token THEN find[mid, hi] ELSE find[lo, mid]
    IN find[0, n]

KvHead(h, qheads, kvheads) == h \div (qheads \div kvheads)

FirstKey(cu, W, t) ==
    LET start == cu[FindSequence(cu, t) + 1]
    IN IF W >= 0 /\ t - start > W THEN t - W ELSE start

\* One (token, head) of the packed forward kernel; K maps a position and
\* a key head to the key stored there.
VarlenRow(K, cu, W, tile, qheads, kvheads, t, h) ==
    LET keys == Tiled(FirstKey(cu, W, t), t, tile)
    IN ReadAll([i \in DOMAIN keys |-> K[keys[i], KvHead(h, qheads, kvheads)]])

\* The gradients one row of the packed backward kernel leaves at every key:
\* the probability (for grad_v) and the score gradient (for grad_q, grad_k),
\* each a fraction.  `out' is the row's saved forward output.
RowGradient(keys, out) ==
    LET top == FoldLeft(LAMBDA m, x : Upper(m, Score(x)), -1, keys)
        denom == FoldLeft(LAMBDA d, x : d + Exp(Score(x) - top), 0, keys)
        read == Total(DOMAIN out.acc, LAMBDA x : out.acc[x] * Value(x))
    IN [x \in ToSet(keys) |->
          [p |-> <<Exp(Score(x) - top), denom>>,
           ds |-> <<Exp(Score(x) - top) * ((Value(x) * out.l) - read), denom * out.l>>]]
VarlenRowGradient(K, cu, W, qheads, kvheads, t, h, out) ==
    LET first == FirstKey(cu, W, t)
    IN RowGradient([i \in 1..(t - first + 1) |-> K[first + i - 1, KvHead(h, qheads, kvheads)]], out)

(*-------------------------------- dense ---------------------------------*)
DenseValid(W, absq, k) == k <= absq /\ (W < 0 \/ k >= absq - W)
\* Every tile is read; an invalid key leaves the accumulator as it is.
DenseRow(K, qstart, klen, W, tile, q) ==
    FoldLeft(LAMBDA st, k : IF DenseValid(W, qstart + q, k) THEN Online(st, K[k]) ELSE st,
             NoKeys, Tiled(0, klen - 1, tile))
DenseRowGradient(K, qstart, klen, W, q, out) ==
    LET keys == SelectSeq([i \in 1..klen |-> i - 1], LAMBDA k : DenseValid(W, qstart + q, k))
    IN RowGradient([i \in DOMAIN keys |-> K[keys[i]]], out)
\* TORCH_CHECKs of the launch.
DenseLaunches(qstart, qlen, klen) == qstart >= 0 /\ qstart + qlen <= klen
VarlenLaunches(cu, qheads, kvheads) == Len(cu) >= 2 /\ qheads % kvheads = 0

(*------------------------------ paged decode ----------------------------*)
\* The cache is [block -> [offset -> key]]; a table is a sequence of blocks.
PagedUpdate(cache, table, length, block, key) ==
    LET col == length \div block
    IN [cache EXCEPT ![table[col + 1]][length - (col * block)] = key]

\* One split of one row over cache positions; length counts the new token.
SplitRow(cache, table, length, block, W, splits, split) ==
    LET absq == length - 1
        first == IF W >= 0 THEN Upper(absq - W, 0) ELSE 0
        size == CeilOf(length, splits)
        start == Upper(split * size, first)
        end == Lower((split * size) + size, length)
    IN ReadAll([i \in 1..Upper(end - start, 0) |->
                  LET k == start + i - 1 IN cache[table[(k \div block) + 1]][k % block]])

\* The splits of a row; one that read nothing (part_l = 0) is skipped.
ReduceSplits(parts) ==
    FoldLeft(LAMBDA st, part :
               IF part.l = 0 THEN st
               ELSE LET top == Upper(st.m, part.m)
                        alpha == IF st.l = 0 THEN 0 ELSE Exp(st.m - top)
                        beta == Exp(part.m - top)
                    IN [m |-> top, l |-> Scaled(st.l, alpha) + Scaled(part.l, beta),
                        acc |-> [y \in DOMAIN st.acc \cup DOMAIN part.acc |->
                                   Scaled(Weight(st.acc, y), alpha) + Scaled(Weight(part.acc, y), beta)]],
             NoKeys, parts)

\* The launch: update every row, then split and reduce every row.
PagedDecode(cache, tables, lengths, block, W, splits, keys) ==
    LET updated == FoldLeft(LAMBDA c, b : PagedUpdate(c, tables[b], lengths[b], block, keys[b]),
                            cache, [b \in DOMAIN tables |-> b])
    IN [cache |-> updated,
        out |-> [b \in DOMAIN tables |->
                   ReduceSplits([s \in 1..splits |->
                     SplitRow(updated, tables[b], lengths[b] + 1, block, W, splits, s - 1)])]]

(*------------------------- reference and training -----------------------*)
\* Softmax over the keys of a set.
SoftmaxOver(keys) ==
    [m |-> IF keys = {} THEN -1 ELSE Max({Score(x) : x \in keys}),
     l |-> Total(keys, LAMBDA x : 2 ^ Score(x)),
     acc |-> [x \in keys |-> 2 ^ Score(x)]]
\* _reference_attention: the mask over absolute positions, then the softmax.
ReferenceRow(K, qstart, klen, W, q) ==
    LET seen(j) == j <= qstart + q /\ (W >= 0 => j >= qstart + q - W)
    IN SoftmaxOver({K[k] : k \in {j \in 0..(klen - 1) : seen(j)}})
\* _reference_paged_decode_attention: gather by position first.
PagedReference(cache, table, length, block, W) ==
    ReferenceRow([k \in 0..(length - 1) |-> cache[table[(k \div block) + 1]][k % block]],
                 length - 1, length, W, 0)

\* _causal_window_mask of a chunk of queries that starts at qstart.
SdpaMask(W, qstart, row, col) == col <= qstart + row /\ (W >= 0 => col >= qstart + row - W)
\* One sequence: queries in chunks, every chunk against all the keys.
SdpaRow(K, len, W, chunk, q) ==
    LET qstart == IF len > chunk THEN (q \div chunk) * chunk ELSE 0
    IN SoftmaxOver({K[k] : k \in {j \in 0..(len - 1) : SdpaMask(W, qstart, q - qstart, j)}})
\* _native_train over packed sequences: each non-empty (start, end) of cu on
\* its own, with the key heads repeated up to the query heads.
ExpandedHead(h, qheads, kvheads) == CHOOSE g \in 0..(kvheads - 1) :
    \E copy \in 0..((qheads \div kvheads) - 1) : h = (g * (qheads \div kvheads)) + copy
NativeTrainRow(K, cu, W, chunk, qheads, kvheads, t, h) ==
    LET i == CHOOSE j \in 1..(Len(cu) - 1) : cu[j] <= t /\ t < cu[j + 1]
    IN SdpaRow([k \in 0..(cu[i + 1] - cu[i] - 1) |-> K[cu[i] + k, ExpandedHead(h, qheads, kvheads)]],
               cu[i + 1] - cu[i], W, chunk, t - cu[i])
=============================================================================
