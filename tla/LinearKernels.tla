---------------------------- MODULE LinearKernels ----------------------------
(***************************************************************************)
(* Segmented linear attention (accel/kernels/seg_la.py) and the depthwise  *)
(* causal convolution (accel/csrc/conv.cu, accel/conv.py).                 *)
(*                                                                         *)
(* A recurrent state is a set of pairs <<token, n>>: the outer product of  *)
(* the token's key and value, decayed n times.  An output is the set it    *)
(* reads.  A convolution output is the set of pairs <<tap, token>>.        *)
(***************************************************************************)
EXTENDS Integers, Sequences, FiniteSets, SequencesExt, FiniteSetsExt, Functions

Decayed(S, n) == {<<x[1], x[2] + n>> : x \in S}
LeastOf(a, b) == IF a < b THEN a ELSE b
Blocks(len, block) == [i \in 1..((len + block - 1) \div block) |-> (i - 1) * block]

(*-------------------------------- prefill -------------------------------*)
\* One block of b tokens after position n.  Q is scaled by the inverse decay
\* of its offset from the block's end and K by its own; lanes past the length
\* are loaded as zero.
PBlock(st, toks, n, block) ==
    LET b == LeastOf(block, Len(toks) - n)
        offs(i) == b - 1 - i
        row(i) == {<<toks[n + j + 1], offs(j) - offs(i)>> : j \in 0..i}
                    \cup Decayed(st.state, b - offs(i))
    IN [state |-> Decayed(st.state, b) \cup {<<toks[n + j + 1], offs(j)>> : j \in 0..(b - 1)},
        out |-> st.out \o [i \in 1..b |-> row(i - 1)]]
PKernel(state, toks, block) ==
    FoldLeft(LAMBDA st, n : PBlock(st, toks, n, block), [state |-> state, out |-> << >>],
             Blocks(Len(toks), block))

\* The generic kernel folds the decay into the score grid instead; its BLOCK
\* of one is the decode step.
GenericBlock(st, toks, n, block) ==
    LET b == LeastOf(block, Len(toks) - n)
        row(i) == {<<toks[n + j + 1], i - j>> : j \in 0..i} \cup Decayed(st.state, i + 1)
    IN [state |-> Decayed(st.state, b) \cup {<<toks[n + j + 1], b - 1 - j>> : j \in 0..(b - 1)},
        out |-> st.out \o [i \in 1..b |-> row(i - 1)]]

\* Single-token decode.
DKernelUndecayed(state, tok) ==
    [state |-> state \cup {<<tok, 0>>}, out |-> <<state \cup {<<tok, 0>>}>>]
DKernel(state, tok) ==
    LET next == Decayed(state, 1) \cup {<<tok, 0>>} IN [state |-> next, out |-> <<next>>]
GenericKernel(state, toks, block) ==
    IF block = 1 THEN DKernel(state, toks[1])
    ELSE FoldLeft(LAMBDA st, n : GenericBlock(st, toks, n, block), [state |-> state, out |-> << >>],
                  Blocks(Len(toks), block))

(*------------------- speculation and multi-token steps ------------------*)
\* mask[i] is the set of candidates i sees, itself included; a candidate's
\* depth is the size of that set less one.  The state is only read.
SKernel(state, toks, mask) ==
    LET depth(i) == Cardinality(mask[i]) - 1
        deepest == Max({depth(i) : i \in DOMAIN toks})
        offs(i) == deepest - depth(i)
    IN [out |-> [i \in DOMAIN toks |->
                   {<<toks[j], offs(j) - offs(i)>> : j \in mask[i]}
                     \cup Decayed(state, deepest + 1 - offs(i))]]

\* `step' decode-like updates; the state after each goes to the caches, the
\* persistent state is not written.
Recurrence(state, toks) ==
    FoldLeft(LAMBDA st, t : LET d == DKernel(st.state, t)
                            IN [state |-> d.state, out |-> Append(st.out, d.out[1])],
             [state |-> state, out |-> << >>], toks)
MtpKernel(state, toks) ==
    LET run == Recurrence(state, toks)
    IN [out |-> run.out, snapshots |-> run.out]

\* seg_la_fwd: requests [slot, toks, scale] over the packed tokens; the
\* average length picks the kernel.  `mode' is "caches", "mask" or "plain";
\* a slot of -1 is skipped.
SegLaForward(pool, reqs, mode, mask, block) ==
    LET length == Len(FlattenSeq([i \in DOMAIN reqs |-> reqs[i].toks]))
        widest == (length + Len(reqs) - 1) \div Len(reqs)
        packed == FlattenSeq([i \in DOMAIN reqs |-> reqs[i].toks])
        step == length \div Len(reqs)
        loaded(i) == IF reqs[i].scale > 0 THEN pool[reqs[i].slot] ELSE {}
        one(i) ==
          IF reqs[i].slot = -1 THEN [state |-> {}, out |-> << >>]
          ELSE IF widest <= 1 THEN DKernel(pool[reqs[i].slot], packed[i])
          ELSE IF mode = "caches"
               THEN MtpKernel(pool[reqs[i].slot], SubSeq(packed, ((i - 1) * step) + 1, i * step))
          ELSE IF mode = "mask" THEN SKernel(loaded(i), reqs[i].toks, mask)
          ELSE PKernel(loaded(i), reqs[i].toks, block)
        runs == [i \in DOMAIN reqs |-> one(i)]
        writes == widest <= 1 \/ mode = "plain"
    IN [pool |-> [s \in DOMAIN pool |->
                    IF writes /\ \E i \in DOMAIN reqs : reqs[i].slot = s
                    THEN runs[CHOOSE i \in DOMAIN reqs : reqs[i].slot = s].state ELSE pool[s]],
        out |-> [i \in DOMAIN reqs |-> runs[i].out]]

(*------------------------------ convolution -----------------------------*)
\* Tap k of K reads the token k - (K - 1) away; tokens count from 0.
ConvRow(K, start, t) == {<<k, t + k - (K - 1)>> : k \in {j \in 0..(K - 1) : t + j - (K - 1) >= start}}
DenseConv(K, t) == ConvRow(K, 0, t)

FindSegment(cu, token) ==
    LET n == Len(cu) - 1
        find[lo \in 0..n, hi \in 0..n] ==
          IF lo + 1 >= hi THEN lo
          ELSE LET mid == (lo + hi) \div 2
               IN IF cu[mid + 1] <= token THEN find[mid, hi] ELSE find[lo, mid]
    IN find[0, n]
PackedConv(K, cu, t) ==
    LET start == cu[FindSegment(cu, t) + 1]
        local == t - start
    IN {<<k, start + local + k - (K - 1)>> : k \in {j \in 0..(K - 1) : local + j - (K - 1) >= 0}}

\* One new token after a history of K - 1, padded with Zero.
Zero == <<0, 0>>
DecodeConv(K, history, current) ==
    {<<k, history[k + 1]>> : k \in {j \in 0..(K - 2) : history[j + 1] # Zero}} \cup {<<K - 1, current>>}

\* The gradient of input token t: pairs <<tap, output token>>.
DenseConvGradInput(K, len, t) ==
    {<<t - o + K - 1, o>> : o \in t..LeastOf(len - 1, t + K - 1)}
PackedConvGradInput(K, cu, t) ==
    LET seq == FindSegment(cu, t) + 1
        local == t - cu[seq]
        last == LeastOf(cu[seq + 1] - cu[seq] - 1, local + K - 1)
    IN {<<local - o + K - 1, cu[seq] + o>> : o \in local..last}
\* The gradient of tap k: pairs <<output token, input token>>.
DenseConvGradWeight(K, len, k) ==
    {<<o, o + k - (K - 1)>> : o \in {u \in 0..(len - 1) : u + k - (K - 1) >= 0}}
PackedConvGradWeight(K, cu, k) ==
    UNION {{<<o, o + k - (K - 1)>> : o \in {u \in cu[s]..(cu[s + 1] - 1) : u + k - (K - 1) >= cu[s]}} :
             s \in 1..(Len(cu) - 1)}
=============================================================================
