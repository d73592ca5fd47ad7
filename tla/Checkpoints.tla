---------------------------- MODULE Checkpoints ----------------------------
(***************************************************************************)
(* Loading and saving a tensor-parallel model as Hugging Face files        *)
(* (engine/checkpoints/*.py, models/*/checkpoint.py).  A tensor is a       *)
(* sequence of rows, a row a sequence of columns (one but where a layer is *)
(* split by columns).  A model is a sequence of ops: records               *)
(*   kind   how the local weight relates to the tensors of the file        *)
(*   keys   the tensors of the file                                        *)
(*   rows   of each part of the weight (heads for "ranged", "kshared")     *)
(*   shift  what loading adds to a norm and saving takes off               *)
(*   given  which of the keys the source has                               *)
(* Only the ranks of data-parallel rank 0 save; they are 0..T-1.           *)
(***************************************************************************)
EXTENDS Integers, Sequences, FiniteSets, SequencesExt, FiniteSetsExt, Functions

CONSTANTS Models,     \* sequences of ops
          Sizes,      \* tensor-parallel sizes tried
          HeadDim,    \* rows of a head
          CopyBudget, \* rows copied to the host at once
          MaxSaves    \* bound on the saves

VARIABLES model, tp,
          local,    \* by rank, by op: the rank's weight
          truth,    \* by op: the parts the ranks' weights stand for
          source,   \* the tensors of the checkpoint last loaded
          op,       \* the next op to stage while saving; 0 when not saving
          crc,      \* stands for the hash that gives a key its owner
          store,    \* staged: by rank, by key
          copies,   \* device-to-host copies not waited for, by rank
          files,    \* written: by rank, by key
          index,    \* model.safetensors.index.json: key to rank or "source"
          saves
cvars == <<model, tp, local, truth, source, op, crc, store, copies, files, index, saves>>

Torn == <<"torn">>    \* host memory read before the copy landed
Group(T) == 0..T-1
\* _checkpoint_tensor_owner of tensor k of op i.
Owner(i, k) == (i + k + crc) % tp

(*------------------------------- shards ---------------------------------*)
Bounds(size, r, T) == <<(r * (size \div T)) + 1, (r + 1) * (size \div T)>>
\* _kv_shard_range
KvRange(heads, r, T) ==
    IF heads % T = 0 THEN Bounds(heads * HeadDim, r, T)
    ELSE LET h == r \div (T \div heads) IN <<(h * HeadDim) + 1, (h + 1) * HeadDim>>

\* Gemma4's fused queries, keys and values; "keqv" where the file has no values because they
\* are the keys (attention_k_eq_v of a full-attention layer).
KShared == {"kshared", "keqv"}
ByHeads(o) == o.kind \in {"ranged", "firstcopy"} \cup KShared
RowsOf(o, p) == IF ByHeads(o) THEN o.rows[p] * HeadDim ELSE o.rows[p]
RangeOf(o, p, r, T) ==
    IF ByHeads(o) /\ p > 1 THEN KvRange(o.rows[p], r, T) ELSE Bounds(RowsOf(o, p), r, T)
Split(o) == o.kind # "rep"

(*------------------------ from the file to a rank -----------------------*)
Add(a, b) == a + b
Shifted(t, n) == [i \in DOMAIN t |-> [c \in DOMAIN t[i] |-> t[i][c] + n]]
Halves(t) == <<SubSeq(t, 1, Len(t) \div 2), SubSeq(t, Len(t) \div 2 + 1, Len(t))>>
Zeros(o, p) == [i \in 1..RowsOf(o, p) |-> <<0>>]
Cut(t, sizes) ==
    [p \in DOMAIN sizes |-> LET at == FoldLeft(Add, 0, SubSeq(sizes, 1, p - 1))
                            IN SubSeq(t, at + 1, at + sizes[p])]
\* _split_q_gate_by_head: heads of query rows and gate rows alternate.
ByHead(t, which) ==
    [i \in 1..Len(t) \div 2 |-> t[(2 * HeadDim * ((i - 1) \div HeadDim)) + ((which - 1) * HeadDim) + ((i - 1) % HeadDim) + 1]]
AlternateSwapped(q, g) == q \o g
Alternate(q, g) ==
    [i \in 1..2 * Len(q) |->
       LET h == (i - 1) \div (2 * HeadDim)
           off == (i - 1) % (2 * HeadDim)
       IN IF off < HeadDim THEN q[(h * HeadDim) + off + 1] ELSE g[(h * HeadDim) + off - HeadDim + 1]]

\* load_k_shared_qkv_column_spec: V is K where the file has no V.
KSharedParts(o, file) ==
    LET has(p) == o.keys[p] \in DOMAIN file
    IN IF ~has(2) THEN <<file[o.keys[1]], Zeros(o, 2), Zeros(o, 3)>>
       ELSE <<file[o.keys[1]], file[o.keys[2]], file[o.keys[IF has(3) THEN 3 ELSE 2]]>>

\* The parts of an op read from a file.
PartsOf(o, file) ==
    LET t(p) == IF o.keys[p] \in DOMAIN file THEN file[o.keys[p]] ELSE Zeros(o, p)
    IN CASE o.kind \in KShared -> KSharedParts(o, file)
         [] o.kind = "fused" -> Cut(t(1), o.rows)
         [] o.kind = "qgate" -> <<ByHead(t(1), 1), ByHead(t(1), 2)>>
         [] o.kind = "packed" ->
              <<[e \in DOMAIN t(1) |-> Halves(t(1)[e])[1]], [e \in DOMAIN t(1) |-> Halves(t(1)[e])[2]], t(2)>>
         [] o.kind = "experts" ->
              [p \in 1..3 |-> [e \in 1..o.rows[p] |-> file[o.keys[(3 * (e - 1)) + p]]]]
         [] OTHER -> [p \in DOMAIN o.keys |-> Shifted(t(p), IF o.keys[p] \in DOMAIN file THEN o.shift ELSE 0)]

\* What one rank keeps of a part; a "row" layer keeps columns of every row.
Slice(o, parts, p, r, T) ==
    LET g == RangeOf(o, p, r, T)
    IN IF ~Split(o) THEN parts[p]
       ELSE IF o.kind = "row"
            THEN LET c == Bounds(Len(parts[p][1]), r, T)
                 IN [i \in DOMAIN parts[p] |-> SubSeq(parts[p][i], c[1], c[2])]
            ELSE SubSeq(parts[p], g[1], g[2])
LocalOf(o, parts, r, T) ==
    FlattenSeq([p \in DOMAIN parts |-> Slice(o, parts, p, r, T)])

Parts(m, file) == [i \in DOMAIN m |-> PartsOf(m[i], file)]
Loaded(m, file, T) ==
    [r \in Group(T) |-> [i \in DOMAIN m |-> LocalOf(m[i], PartsOf(m[i], file), r, T)]]

(*----------------------- from the ranks to the file ---------------------*)
LocalSizes(o, r, T) ==
    [p \in DOMAIN o.rows |-> IF ~Split(o) THEN RowsOf(o, p)
       ELSE IF o.kind = "row" THEN o.rows[p]
       ELSE LET g == RangeOf(o, p, r, T) IN g[2] - g[1] + 1]

\* One part put together from every rank's piece of it.
GatheredByColumns(pieces) ==
    [i \in DOMAIN pieces[0] |-> FlattenSeq([q \in 1..Cardinality(DOMAIN pieces) |-> pieces[q - 1][i]])]
GatheredRanges(o, p, T, pieces) ==
    FoldLeft(LAMBDA t, q : LET g == RangeOf(o, p, q - 1, T)
                           IN [i \in DOMAIN t |-> IF i \in g[1]..g[2] THEN pieces[q - 1][i - g[1] + 1] ELSE t[i]],
             Zeros(o, p), [q \in 1..T |-> q])
GatheredHeads(o, p, T, pieces) ==   \* _gather_replicated_kv_heads: the first copy
    FlattenSeq([h \in 1..o.rows[p] |-> pieces[(h - 1) * (T \div o.rows[p])]])
GatheredInOrder(o, p, T, pieces) == FlattenSeq([q \in 1..T |-> pieces[q - 1]])
Gathered(o, p, T, pieces) ==
    IF ~Split(o) THEN pieces[0]
    ELSE IF o.kind = "row" THEN GatheredByColumns(pieces)
    ELSE IF o.kind \in {"ranged"} \cup KShared THEN GatheredRanges(o, p, T, pieces)
    ELSE IF o.kind = "firstcopy" /\ p > 1 /\ o.rows[p] < T THEN GatheredHeads(o, p, T, pieces)
    ELSE GatheredInOrder(o, p, T, pieces)

WholeParts(o, i) ==
    LET pieces(p) == [r \in Group(tp) |-> Cut(local[r][i], LocalSizes(o, r, tp))[p]]
    IN [p \in DOMAIN o.rows |-> Gathered(o, p, tp, pieces(p))]

\* The tensors an op stages, in the order of its keys.
PackedTensors(parts) == <<[e \in DOMAIN parts[1] |-> parts[1][e] \o parts[2][e]], parts[3]>>
ExpertTensors(o, parts) == [k \in DOMAIN o.keys |-> parts[((k - 1) % 3) + 1][((k - 1) \div 3) + 1]]
Tensors(o, parts) ==
    CASE o.kind = "fused" -> <<FlattenSeq(parts)>>
      [] o.kind = "qgate" -> <<Alternate(parts[1], parts[2])>>
      [] o.kind = "packed" -> PackedTensors(parts)
      [] o.kind = "experts" -> ExpertTensors(o, parts)
      [] o.kind = "keqv" -> <<parts[1], parts[2]>>
      [] o.kind = "tied" -> << >>
      [] OTHER -> [p \in DOMAIN parts |-> Shifted(parts[p], -o.shift)]

\* Which ranks stage a tensor: rank 0 what is replicated (everything, on one
\* rank), every rank what _gather_ranged_column_tensors rebuilt, else the owner.
Stagers(o, i, k) ==
    IF tp = 1 \/ ~Split(o) THEN {0}
    ELSE IF o.kind \in {"ranged"} \cup KShared THEN Group(tp) ELSE {Owner(i, k)}

(*---------------------------- host copies -------------------------------*)
Bytes(c) == c.rows
Pending(q) == FoldLeft(LAMBDA n, c : n + Bytes(c), 0, q)
\* _sync_pending_cpu_copies: the shortest prefix that frees enough is waited for.
SyncCount(q, room) ==
    IF Pending(q) <= room THEN 0
    ELSE Min({n \in 1..Len(q) : Pending(SubSeq(q, 1, n)) >= Pending(q) - room})
Synced(q, room) == SubSeq(q, SyncCount(q, room) + 1, Len(q))
\* _tensor_to_cpu: make room, then start the copy.
Copied(q, c) ==
    Append(Synced(q, IF CopyBudget > Bytes(c) THEN CopyBudget - Bytes(c) ELSE 0), c)
Keys(q) == {q[i].key : i \in DOMAIN q}

(*------------------- the families' checkpoints as ops --------------------*)
\* Every family's layer appears once, with one tensor of each kind it has.
Op(kind, keys, rows) ==
    [kind |-> kind, keys |-> keys, rows |-> rows, shift |-> 0, given |-> DOMAIN keys]
Absent(o) == [o EXCEPT !.given = {}]
Plus1(o) == [o EXCEPT !.shift = 1]   \* norms stored less one

(*------------------- pieces the families have in common -----------------*)
Top(embed) == <<Op("col", <<embed>>, <<4>>), Op("rep", <<"norm">>, <<2>>), Op("head", <<"lm_head">>, <<4>>)>>
\* A tied head is loaded from the embedding into a weight of its own, and is not saved.
TiedTop(embed) == <<Top(embed)[1], Top(embed)[2], Absent(Op("tied", <<embed>>, <<4>>))>>
Norms == <<Op("rep", <<"input_layernorm">>, <<2>>)>>
Qkv(kind, kv) == Op(kind, <<"q_proj", "k_proj", "v_proj">>, <<4, kv, kv>>)
QkvBias == Absent(Op("merged", <<"q_proj.bias", "k_proj.bias", "v_proj.bias">>, <<8, 8, 8>>))
QkNorms == <<Op("rep", <<"q_norm">>, <<2>>), Absent(Op("rep", <<"k_norm">>, <<2>>))>>
ORow == <<Op("row", <<"o_proj">>, <<3>>)>>
DenseMlp == <<Op("merged", <<"gate_proj", "up_proj">>, <<4, 4>>), Op("row", <<"down_proj">>, <<3>>)>>
ExpertKeys == <<"experts.0.gate", "experts.0.up", "experts.0.down", "experts.1.gate", "experts.1.up",
                "experts.1.down", "experts.2.gate", "experts.2.up", "experts.2.down", "experts.3.gate",
                "experts.3.up", "experts.3.down">>
Experts == Op("experts", ExpertKeys, <<4, 4, 4>>)
PackedExperts == Op("packed", <<"experts.gate_up_proj", "experts.down_proj">>, <<4, 4, 4>>)
Router == <<Op("rep", <<"gate">>, <<4>>)>>

(*-------------------------------- families ------------------------------*)
Llama == Top("embed_tokens") \o Norms \o <<Qkv("merged", 4), QkvBias>> \o ORow \o DenseMlp
Qwen3 == Top("embed_tokens") \o Norms \o <<Qkv("ranged", 2), QkvBias>> \o QkNorms \o ORow \o DenseMlp
Qwen3Moe == Top("embed_tokens") \o Norms \o <<Qkv("ranged", 1)>> \o ORow \o Router \o <<Experts>>
Olmo2 == Top("embed_tokens") \o Norms \o <<Qkv("ranged", 4), Op("col", <<"q_norm">>, <<4>>)>> \o ORow \o DenseMlp

\* Fused query, key and value rows, a router bias, experts and a shared expert.
BailingAttention == <<Op("fused", <<"query_key_value">>, <<8, 4, 4>>), Op("rep", <<"query_layernorm">>, <<2>>),
                      Op("row", <<"dense">>, <<3>>), Absent(Op("rep", <<"dense.bias">>, <<3>>))>>
LinearAttention == <<Op("fused", <<"query_key_value">>, <<4, 4, 4>>), Op("col", <<"g_proj">>, <<4>>),
                     Op("row", <<"dense">>, <<3>>), Op("col", <<"g_norm">>, <<4>>)>>
LatentAttention == <<Op("col", <<"q_proj">>, <<8>>), Op("col", <<"kv_b_proj">>, <<8>>),
                     Op("rep", <<"kv_a_proj_with_mqa">>, <<3>>), Op("rep", <<"kv_a_layernorm">>, <<2>>),
                     Op("row", <<"dense">>, <<3>>)>>
BailingMoe == Router \o <<Op("rep", <<"expert_bias">>, <<4>>), Experts,
                          Op("merged", <<"shared.gate_proj", "shared.up_proj">>, <<4, 4>>),
                          Op("row", <<"shared.down_proj">>, <<3>>)>>
Bailing(attention) == Top("word_embeddings") \o Norms \o attention \o BailingMoe

\* Layers that share key and value rows, or have only queries.
Gemma4Attention(given) == <<[Op("kshared", <<"q_proj", "k_proj", "v_proj">>, <<4, 2, 2>>) EXCEPT !.given = given]>>
Gemma4KeqV == <<[Op("keqv", <<"q_proj", "k_proj", "v_proj">>, <<4, 2, 2>>) EXCEPT !.given = {1, 2}]>>
Gemma4Moe == Router \o <<Op("rep", <<"per_expert_scale">>, <<4>>), PackedExperts>>
Gemma4(attention, experts) ==
    TiedTop("embed_tokens") \o <<Op("rep", <<"per_layer_projection_norm">>, <<2>>)>> \o Norms \o attention
      \o QkNorms \o ORow \o DenseMlp \o experts

\* Norms are stored less one; linear-attention layers keep fused projections.
ShiftedNorms(ops) == [i \in DOMAIN ops |-> IF i = 2 THEN Plus1(ops[i]) ELSE ops[i]]
DeltaNet == <<Op("fused", <<"in_proj_qkv">>, <<4, 4, 4>>), Op("merged", <<"in_proj_z">>, <<4>>),
              Op("merged", <<"in_proj_b", "in_proj_a">>, <<4, 4>>), Op("fused", <<"conv1d">>, <<4, 4, 4>>),
              Op("col", <<"dt_bias">>, <<4>>), Op("rep", <<"linear_norm">>, <<2>>), Op("row", <<"out_proj">>, <<3>>)>>
Qwen35Attention(kv) == <<Qkv("firstcopy", kv)>> \o ORow \o <<Plus1(Op("rep", <<"q_norm">>, <<2>>))>>
Qwen35Moe == Router \o <<PackedExperts, Op("merged", <<"shared.gate_proj", "shared.up_proj">>, <<4, 4>>),
                         Op("row", <<"shared.down_proj">>, <<3>>), Op("rep", <<"shared_expert_gate">>, <<1>>)>>
Qwen35(attention, mlp) == ShiftedNorms(Top("embed_tokens")) \o <<Plus1(Norms[1])>> \o attention \o mlp

\* Query and gate rows alternate by head in the file.
MiniCPMAttention == <<Op("qgate", <<"q_proj">>, <<8, 8>>), Op("merged", <<"k_proj", "v_proj">>, <<4, 4>>)>>
                      \o ORow \o <<Plus1(Op("rep", <<"q_norm">>, <<2>>))>>
MiniCPM(attention) == ShiftedNorms(TiedTop("embed_tokens")) \o <<Plus1(Norms[1])>> \o DenseMlp \o attention

(*------------------------------ behaviour -------------------------------*)
\* A source tensor per key: rows no two tensors share.
Numbered(o, i) ==
    LET n == 1000 * i
        whole(p) == [x \in 1..RowsOf(o, p) |-> [c \in 1..(IF o.kind = "row" THEN 4 ELSE 1) |->
                                                  n + (100 * p) + (10 * x) + c]]
    IN IF o.kind \in {"fused", "qgate"} THEN <<[x \in 1..FoldLeft(Add, 0, o.rows) |-> <<n + x>>]>>
       ELSE IF o.kind = "packed"
            THEN <<[e \in 1..o.rows[1] |-> <<n + (10 * e), n + (10 * e) + 1>>], [e \in 1..o.rows[1] |-> <<n + 500 + e>>]>>
       ELSE IF o.kind = "experts" THEN [k \in DOMAIN o.keys |-> <<n + (10 * k)>>]
       ELSE [p \in DOMAIN o.keys |-> whole(p)]
SourceOf(m) ==
    LET tensors == UNION {{<<m[i].keys[k], Numbered(m[i], i)[k]>> : k \in m[i].given} : i \in DOMAIN m}
    IN [k \in {t[1] : t \in tensors} \cup {"vision"} |->
          IF k = "vision" THEN <<7>> ELSE (CHOOSE t \in tensors : t[1] = k)[2]]

KInit ==
    /\ model \in Models /\ tp \in Sizes
    /\ source = SourceOf(model)
    /\ truth = Parts(model, source) /\ local = Loaded(model, source, tp)
    /\ op = 0 /\ crc = 0 /\ saves = 0 /\ index = << >>
    /\ store = [r \in Group(tp) |-> << >>] /\ files = store /\ copies = store

\* Training moves every weight, each part's by another amount; the next
\* checkpoint then replaces the last.
Moved(parts, i) == [p \in DOMAIN parts |-> Shifted(parts[p], (17 * i) + p)]
KTrain ==
    /\ op = 0 /\ saves < MaxSaves /\ truth = Parts(model, source) /\ index' = << >>
    /\ truth' = [i \in DOMAIN truth |-> Moved(truth[i], i)]
    /\ local' = [r \in DOMAIN local |-> [i \in DOMAIN model |->
                    FlattenSeq(Moved(Cut(local[r][i], LocalSizes(model[i], r, tp)), i))]]
    /\ UNCHANGED <<model, tp, source, op, crc, store, copies, files, saves>>

SaveBegin ==
    /\ op = 0 /\ saves < MaxSaves
    /\ op' = 1 /\ crc' \in Group(tp) /\ saves' = saves + 1
    /\ store' = [r \in Group(tp) |-> << >>] /\ files' = store' /\ index' = << >>
    /\ UNCHANGED <<model, tp, local, truth, source, copies>>

\* One op staged by all ranks, which meet in its collectives.  The query and
\* gate rows of "qgate" are merged on the host, after waiting for all copies.
Stage ==
    /\ op \in DOMAIN model
    /\ LET o == model[op]
           ts == Tensors(o, WholeParts(o, op))
           mine(r) == SelectSeq([k \in DOMAIN ts |-> k], LAMBDA k : r \in Stagers(o, op, k))
           queue(r) == FoldLeft(LAMBDA q, k : Copied(q, [key |-> o.keys[k], rows |-> Len(ts[k])]),
                                copies[r], mine(r))
           waits(r) == o.kind = "qgate" /\ mine(r) # << >>
       IN /\ store' = [r \in DOMAIN store |->
                         [k \in {o.keys[x] : x \in Range(mine(r))} |->
                            ts[CHOOSE x \in Range(mine(r)) : o.keys[x] = k]] @@ store[r]]
          /\ copies' = [r \in DOMAIN copies |-> IF waits(r) THEN << >> ELSE queue(r)]
    /\ op' = op + 1
    /\ UNCHANGED <<model, tp, local, truth, source, crc, files, index, saves>>

\* write_hf_safetensors_checkpoint on one rank: wait for the copies, then
\* write what is staged.  A copy not waited for has happened or it has not.
BeforeWrite(q) == Synced(q, 0)
WriteShard ==
    /\ op = Len(model) + 1 /\ index = << >>
    /\ \E r \in {q \in DOMAIN files : files[q] = << >> /\ store[q] # << >>} :
         /\ copies' = [copies EXCEPT ![r] = BeforeWrite(@)]
         /\ \E late \in SUBSET Keys(BeforeWrite(copies[r])) :
              files' = [files EXCEPT ![r] = [k \in DOMAIN store[r] |-> IF k \in late THEN Torn ELSE store[r][k]]]
    /\ UNCHANGED <<model, tp, local, truth, source, op, crc, store, index, saves>>

\* Rank 0 merges the maps of all ranks, later ranks over earlier ones, and
\* adds the source's tensors that are outside the trunk and not written.
Through == {k \in DOMAIN source : k = "vision"}
MergedMap ==
    LET last(k) == Max({r \in DOMAIN files : k \in DOMAIN files[r]})
        mine == UNION {DOMAIN files[r] : r \in DOMAIN files}
    IN [k \in mine \cup Through |-> IF k \in mine THEN last(k) ELSE -1]
MergeIndex ==
    /\ op = Len(model) + 1 /\ index = << >>
    /\ \A r \in DOMAIN files : store[r] # << >> => files[r] # << >>
    /\ index' = MergedMap /\ op' = 0
    /\ UNCHANGED <<model, tp, local, truth, source, crc, store, copies, files, saves>>

Saved == [k \in DOMAIN index |-> IF index[k] = -1 THEN source[k] ELSE files[index[k]][k]]
\* What a run that starts from a checkpoint has of the weights that were trained.  Two kinds of
\* weight are trained but not saved: the value rows of "keqv" start again from the keys, a tied
\* head from the embedding, which is the first op.
Resumed(m, parts) ==
    [i \in DOMAIN parts |-> CASE m[i].kind = "keqv" -> <<parts[i][1], parts[i][2], parts[i][2]>>
                              [] m[i].kind = "tied" -> parts[1]
                              [] OTHER -> parts[i]]

\* A run on any number of ranks starts from the checkpoint.
Reload ==
    /\ op = 0 /\ index # << >>
    /\ \E T \in Sizes :
         /\ tp' = T /\ source' = Saved
         /\ local' = Loaded(model, Saved, T)
         /\ store' = [r \in Group(T) |-> << >>] /\ files' = store' /\ copies' = store'
    /\ truth' = Resumed(model, truth)
    /\ index' = << >> /\ op' = 0
    /\ UNCHANGED <<model, crc, saves>>

KNext == KTrain \/ SaveBegin \/ Stage \/ WriteShard \/ MergeIndex \/ Reload
KSpec == KInit /\ [][KNext]_cvars

(*------------------------------ properties ------------------------------*)
\* What is trained, saved and loaded again, on any number of ranks, is what was trained: every
\* piece of every layer is where the ranks that start from the checkpoint look for it, whoever
\* owned it and whenever its copy landed.  The one loss is that of Resumed: value rows trained
\* apart from the keys they are saved as, and a head trained apart from its embedding.
RoundTrip ==
    /\ local = [r \in Group(tp) |-> [i \in DOMAIN model |-> LocalOf(model[i], truth[i], r, tp)]]
    /\ "vision" \in DOMAIN source

=============================================================================
