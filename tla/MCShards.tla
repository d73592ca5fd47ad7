------------------------------ MODULE MCShards ------------------------------
(* A layer and a vocabulary split over a tensor-parallel group, optimizer state split over a *)
(* data-parallel group, and the files a model is saved to and loaded from.   *)
EXTENDS TensorParallel, OptimizerShards, Checkpoints, VocabSampling

VARIABLE part
mcvars == <<part, tpvars, ovars, cvars, svars>>

(* TensorParallel *)
MCNets ==
  {[embed |-> <<1, 2, 1, 3>>, head |-> <<2, 1, 3, 1>>, pre |-> a, post |-> 3, gain |-> 2, up |-> u, down |-> <<1, 2, 2, 1>>, kv |-> k] :
     a \in {1, 2}, u \in {<<1, 2, 3, 1>>, <<2, 1, 1, 1>>}, k \in {<<1>>, <<1, 2>>, <<1, 2, 2, 1>>}}
Uniform == [s \in 1..4 |-> <<1, 0, 2, 1>>]
Varied == [s \in 1..4 |-> [v \in 1..4 |-> (s + v) % 3]]
MCPacks ==
  {[tokens |-> <<1, 2, 3, 4>>, upstream |-> Uniform, routes |-> <<2, 2, 1, 2>>],
   [tokens |-> <<2, 2, 4, 1>>, upstream |-> Varied, routes |-> <<1, 2, 3, 4>>],
   [tokens |-> <<3, 1, 1, 1>>, upstream |-> Varied, routes |-> <<4, 4, 4, 4>>]}
MCLayouts ==
  {l \in [tp : {1, 2, 4}, kind : {"dense", "delta", "moe"}, hook : BOOLEAN] :
     l.kind # "dense" => ~l.hook}

(* OptimizerShards *)
P(n, d) == [numel |-> n, device |-> d]
MCShapes == {<<P(3, 0), P(4, 0)>>, <<P(4, 0), P(2, 1)>>}
MCGradients == {<<1>>}
MCShardings == [kind : {"fp32", "8bit"}, dp : {1, 2, 3}, bucket : {5}, chunk : {2, 4}]

(* Checkpoints *)
MCModels ==
  {Llama, Qwen3, Qwen3Moe, Olmo2, Bailing(BailingAttention), Bailing(LinearAttention), Bailing(LatentAttention),
   Gemma4(Gemma4Attention({1, 2, 3}), << >>), Gemma4(Gemma4KeqV, Gemma4Moe),
   Gemma4(Gemma4Attention({1}), << >>), Qwen35(Qwen35Attention(2), Qwen35Moe), Qwen35(Qwen35Attention(4), DenseMlp),
   Qwen35(DeltaNet, DenseMlp), MiniCPM(MiniCPMAttention), MiniCPM(DeltaNet)}

(* VocabSampling *)
Rows4(a, b, c, d) == [t \in 0..3 |-> [v \in 0..3 |-> (<<a, b, c, d>>[t + 1])[v + 1]]]
MCTables == {Rows4(<<0, 2, 1, 2>>, <<3, 0, 2, 1>>, <<1, 1, 1, 1>>, <<0, 1, 3, 3>>),
             Rows4(<<2, 0, 0, 1>>, <<0, 1, 3, 2>>, <<1, 3, 3, 0>>, <<2, 2, 0, 0>>)}
Plain == [greedy |-> FALSE, top_k |-> 0, top_p |-> 10, suppress |-> {}, eos |-> {3}, stop |-> {}, min_new |-> 0, max_new |-> 2]
Greedy == [Plain EXCEPT !.greedy = TRUE, !.max_new = 3]
MCSamplings ==
  {Plain, [Plain EXCEPT !.top_k = 2, !.stop = {0}], [Plain EXCEPT !.top_p = 5, !.min_new = 1],
   [Plain EXCEPT !.top_k = 3, !.top_p = 6, !.suppress = {1, 9}], [Plain EXCEPT !.suppress = 0..3, !.eos = {}],
   Greedy, [Greedy EXCEPT !.min_new = 2, !.eos = {2, 3}], [Greedy EXCEPT !.suppress = {2, 3}, !.stop = {0}],
   [Greedy EXCEPT !.suppress = 0..3]}
MCPrompts == {<< <<1>>, <<0, 2>> >>, << <<2, 3, 0>> >>}
MCWidths == {[tp |-> 2, chunk |-> 2], [tp |-> 4, chunk |-> 3]}

NoNet == [embed |-> << >>, kv |-> << >>, up |-> << >>]
NoLayout == [tp |-> 1, kind |-> "dense", hook |-> FALSE]
Rest(p) ==
  /\ part = p
  /\ p # "layer" => /\ net = NoNet /\ layout = NoLayout
                    /\ logits = << >> /\ grads = << >> /\ packs = << >> /\ phase = "accumulate"
  /\ p # "tokens" => /\ table = << >> /\ sampling = << >> /\ prompts = << >> /\ width = [tp |-> 1] /\ sample_step = 0
                     /\ generated = << >> /\ recorded = << >> /\ active = {} /\ returned = << >> /\ trained = << >>
  /\ p # "optimizer" => /\ shape = << >> /\ sharding = [kind |-> "none"] /\ saved = << >> /\ updates = 0
                        /\ ranks = [model |-> << >>] /\ whole = [model |-> << >>]
  /\ p # "checkpoint" => /\ model = << >> /\ tp = 1 /\ local = [r \in {0} |-> << >>] /\ truth = << >>
                         /\ source = [k \in {"vision"} |-> << >>] /\ op = 0 /\ crc = 0 /\ store = << >>
                         /\ copies = << >> /\ files = << >> /\ index = << >> /\ saves = 0
ShardsInit == \/ Rest("layer") /\ TPInit
              \/ Rest("optimizer") /\ OInit
              \/ Rest("checkpoint") /\ KInit
              \/ Rest("tokens") /\ SInit
ShardsNext == \/ part = "layer" /\ TPNext /\ UNCHANGED <<part, ovars, cvars, svars>>
              \/ part = "optimizer" /\ ONext /\ UNCHANGED <<part, tpvars, cvars, svars>>
              \/ part = "checkpoint" /\ KNext /\ UNCHANGED <<part, tpvars, ovars, svars>>
              \/ part = "tokens" /\ SNext /\ UNCHANGED <<part, tpvars, ovars, cvars>>
MCSpec == ShardsInit /\ [][ShardsNext]_mcvars
=============================================================================
