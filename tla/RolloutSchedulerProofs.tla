------------------------ MODULE RolloutSchedulerProofs ------------------------
(***************************************************************************)
(* Theorems about RolloutScheduler, for every value of its constants.      *)
(***************************************************************************)
EXTENDS RolloutScheduler, SequenceTheorems, FiniteSetTheorems, TLAPS

-----------------------------------------------------------------------------
(* Arithmetic                                                              *)

LEMMA Constants ==
  /\ BlockSize \in Nat \ {0}
  /\ MaxNewTokens \in Nat \ {0}
  /\ \A n \in PromptLens : n \in Nat \ {0}
BY SizesAssumption

LEMMA ProductPositive ==
  ASSUME NEW a \in Nat \ {0}, NEW b \in Nat \ {0}
  PROVE  a * b \in Nat \ {0}
BY Z3

LEMMA DivFacts ==
  ASSUME NEW a \in Nat, NEW b \in Nat \ {0}
  PROVE  /\ a \div b \in Nat
         /\ a = b * (a \div b) + (a % b)
         /\ a % b \in 0..b-1
BY Z3

LEMMA ProductMonotone ==
  ASSUME NEW a \in Nat, NEW b \in Nat, NEW c \in Nat, a <= b
  PROVE  a * c <= b * c
BY Z3

LEMMA DivMonotone ==
  ASSUME NEW a \in Nat, NEW b \in Nat, NEW d \in Nat \ {0}, a <= b
  PROVE  a \div d <= b \div d
<1>1. SUFFICES ASSUME b \div d + 1 <= a \div d PROVE FALSE
  BY DivFacts
<1>2. (b \div d + 1) * d <= (a \div d) * d
  BY <1>1, DivFacts, ProductMonotone
<1> QED BY <1>2, DivFacts, Z3

LEMMA CeilDivFacts ==
  ASSUME NEW a \in Nat, NEW d \in Nat \ {0}
  PROVE  /\ CeilDiv(a, d) \in Nat
         /\ a # 0 => CeilDiv(a, d) # 0
         /\ \A b \in Nat : b <= a => CeilDiv(b, d) <= CeilDiv(a, d)
         /\ \A b \in Nat : b < a => b \div d + 1 <= CeilDiv(a, d)
<1>1. a + d - 1 \in Nat
  OBVIOUS
<1>2. CeilDiv(a, d) \in Nat
  BY <1>1, DivFacts DEF CeilDiv
<1>3. ASSUME NEW b \in Nat, b <= a PROVE CeilDiv(b, d) <= CeilDiv(a, d)
  BY <1>1, <1>3, DivMonotone DEF CeilDiv
<1>4. ASSUME NEW b \in Nat, b < a PROVE b \div d + 1 <= CeilDiv(a, d)
  <2>1. (b + d) \div d = b \div d + 1
    BY Z3
  <2>2. (b + d) \div d <= (a + d - 1) \div d
    BY <1>4, DivMonotone
  <2> QED BY <2>1, <2>2 DEF CeilDiv
<1>5. a # 0 => CeilDiv(a, d) # 0
  BY <1>4, <1>2, DivFacts
<1> QED BY <1>2, <1>3, <1>4, <1>5

-----------------------------------------------------------------------------
(* Sequences                                                               *)

LEMMA SubSeqType ==
  ASSUME NEW S, NEW s \in Seq(S), NEW n \in 0..Len(s)
  PROVE  /\ SubSeq(s, 1, n) \in Seq(S)
         /\ Len(SubSeq(s, 1, n)) = n
         /\ \A i \in 1..n : SubSeq(s, 1, n)[i] = s[i]
         /\ SubSeq(s, n + 1, Len(s)) \in Seq(S)
         /\ Len(SubSeq(s, n + 1, Len(s))) = Len(s) - n
         /\ \A i \in 1..Len(s) - n : SubSeq(s, n + 1, Len(s))[i] = s[n + i]
BY SubSeqProperties, ElementOfSeq, LenProperties

LEMMA ConcatFacts ==
  ASSUME NEW S, NEW s \in Seq(S), NEW t \in Seq(S)
  PROVE  /\ s \o t \in Seq(S)
         /\ Len(s \o t) = Len(s) + Len(t)
         /\ \A i \in 1..Len(s) : (s \o t)[i] = s[i]
         /\ \A i \in 1..Len(t) : (s \o t)[Len(s) + i] = t[i]
OBVIOUS

-----------------------------------------------------------------------------
(* Types.  A response never outgrows its row because a row that is still   *)
(* active has room for one more token, which needs to know where rows are. *)

\* Which rows can be where, and what is known of the rows being decoded.
RowsOK ==
  /\ active_rows \cup last_active \subseteq 1..pending_seq_id - 1
  /\ active_rows \cap last_active = {}
  /\ pc \notin {"pack", "prefill", "cache_len_error"} => last_active = {}
  /\ packed = 0 => last_active = {}
  /\ pc = "ensure" => todo \subseteq active_rows
  /\ pc \in {"free_prefilled", "free_cancelled", "free_decoded"} => todo \cap active_rows = {}
  /\ \A r \in active_rows : /\ response_lens[r] < MaxNewTokens
                            /\ cache_seqlens[r] = prompts[r] + response_lens[r] - 1
  /\ \A r \in active_rows \cup last_active : prompts[r] + MaxNewTokens <= max_cache_len

TypeInv == TypeOK /\ RowsOK

\* The initial sizes are positive, whichever of the two ways they are chosen.
LEMMA InitSizes ==
  ASSUME Init
  PROVE  /\ max_running_seqs \in Nat \ {0}
         /\ max_cache_len \in Nat \ {0}
         /\ max_prefill_tokens \in Nat \ {0}
         /\ num_cache_blocks \in Nat \ {0}
         /\ prompts \in Seq(PromptLens)
         /\ Len(prompts) \in Nat \ {0}
<1>1. PICK k \in 0..MaxRows : prompts \in [1..k -> PromptLens]
  BY DEF Init, Batches
<1>2. /\ prompts \in Seq(PromptLens)
      /\ Len(prompts) = k
  BY <1>1, IsASeq, SizesAssumption
<1>3. k # 0
  BY <1>1, <1>2, EmptySeq DEF Init
<1>4. CASE GivenSizes = {}
  <2>1. max_cache_len \in Nat \ {0}
    <3>1. PICK n \in PromptLens \cup {RolloutMaxPromptLen} :
            max_cache_len = n + MaxNewTokens
      BY <1>4 DEF Init, EngineSized, CacheCeilings
    <3> QED BY <3>1, SizesAssumption
  <2>2. max_running_seqs \in Nat \ {0}
    BY <1>2, <1>3, <1>4, SizesAssumption DEF Init, EngineSized, ChunkRunning
  <2>3. max_prefill_tokens \in Nat \ {0}
    BY <1>4, SizesAssumption, ProductPositive DEF Init, EngineSized
  <2>4. MaxBlocksPerSeq \in Nat \ {0}
    BY <2>1, CeilDivFacts, SizesAssumption DEF MaxBlocksPerSeq
  <2>5. num_cache_blocks \in Nat \ {0}
    BY <1>4, <2>2, <2>4, ProductPositive DEF Init, EngineSized
  <2> QED BY <1>2, <1>3, <2>1, <2>2, <2>3, <2>5
<1>5. CASE GivenSizes # {}
  BY <1>2, <1>3, <1>5, SizesAssumption DEF Init, CallerSized
<1> QED BY <1>4, <1>5

LEMMA InitType == Init => TypeInv
<1> SUFFICES ASSUME Init PROVE TypeInv
  OBVIOUS
<1>1. TypeOK
  <2>1. free_blocks \in Seq(Block)
    BY InitSizes, IsASeq DEF Init, Block
  <2>2. /\ response_lens \in [Row -> 0..MaxNewTokens]
        /\ cache_seqlens \in [Row -> Nat]
        /\ finish_reason \in [Row -> {"none", "stop", "length", "cancelled"}]
    BY SizesAssumption DEF Init, Row, Zeros, Blanks
  <2>3. /\ seq_to_blocks \in [DOMAIN seq_to_blocks -> Seq(Block)]
        /\ DOMAIN seq_to_blocks = {}
    BY DEF Init
  <2> QED BY InitSizes, <2>1, <2>2, <2>3 DEF Init, TypeOK, Stages
<1>2. RowsOK
  BY DEF Init, RowsOK
<1> QED BY <1>1, <1>2 DEF TypeInv

\* Blocks move between the free list and the tables; nothing else is there.
LEMMA TakeType ==
  ASSUME TypeOK, NEW r \in Row, NEW n \in 0..Len(free_blocks), Take(r, n)
  PROVE  /\ free_blocks' \in Seq(Block)
         /\ seq_to_blocks' \in [DOMAIN seq_to_blocks' -> Seq(Block)]
         /\ DOMAIN seq_to_blocks' = DOMAIN seq_to_blocks \cup {r}
<1>1. Held(r) \in Seq(Block)
  BY DEF TypeOK, Held
<1>2. /\ SubSeq(free_blocks, 1, n) \in Seq(Block)
      /\ SubSeq(free_blocks, n + 1, Len(free_blocks)) \in Seq(Block)
  BY SubSeqType DEF TypeOK
<1> QED BY <1>1, <1>2, ConcatProperties DEF TypeOK, Take

LEMMA ReleaseType ==
  ASSUME TypeOK, NEW r \in Row, Release(r)
  PROVE  /\ free_blocks' \in Seq(Block)
         /\ seq_to_blocks' \in [DOMAIN seq_to_blocks' -> Seq(Block)]
         /\ DOMAIN seq_to_blocks' = DOMAIN seq_to_blocks \ {r}
<1>1. Held(r) \in Seq(Block)
  BY DEF TypeOK, Held
<1> QED BY <1>1, ConcatProperties DEF TypeOK, Release

\* What the pending row asks for is a number of blocks.
LEMMA ChunkFacts ==
  ASSUME TypeOK, pc = "pack", HasPending
  PROVE  /\ pending_seq_id \in Row
         /\ prompts[pending_seq_id] \in Nat
         /\ ChunkLen \in Int
         /\ cursor + ChunkLen <= prompts[pending_seq_id]
<1>1. pending_seq_id \in Row
  BY DEF TypeOK, HasPending, Row
<1>2. prompts[pending_seq_id] \in PromptLens
  BY <1>1, ElementOfSeq DEF TypeOK, Row
<1>3. prompts[pending_seq_id] \in Nat
  BY <1>2, SizesAssumption
<1>4. Budget \in Int /\ cursor \in Nat
  BY DEF TypeOK, Budget
<1> QED BY <1>1, <1>3, <1>4 DEF ChunkLen

LEMMA MissingFacts ==
  ASSUME TypeOK, NEW r \in Row, NEW n \in Nat
  PROVE  /\ Missing(r, n) \in Nat
         /\ n <= Len(Held(r)) + Missing(r, n)
         /\ Len(Held(r)) \in Nat
BY SMTT(30) DEF TypeOK, Held, Missing

\* The function `new' on 1..m has the values of `old' on 1..n.
Extends(old, n, new, m, S) ==
  /\ new \in [1..m -> S]
  /\ \A i \in 1..n : new[i] = old[i]

LEMMA ExtendFunction ==
  ASSUME NEW S, NEW n \in Nat, NEW k \in Nat, NEW f \in [1..n -> S], NEW g \in [1..k -> S]
  PROVE  Extends(f, n, f \o g, n + k, S)
<1>1. /\ f \in Seq(S) /\ Len(f) = n
      /\ g \in Seq(S) /\ Len(g) = k
  OBVIOUS
<1>2. /\ f \o g \in Seq(S)
      /\ Len(f \o g) = n + k
      /\ \A i \in 1..n : (f \o g)[i] = f[i]
  BY <1>1, ConcatFacts
<1> QED BY <1>2, LenProperties DEF Extends

\* Appending a command's prompts extends every per-row variable.
LEMMA AppendType ==
  ASSUME TypeOK, NEW lens \in Seq(PromptLens), AppendPrompts(lens)
  PROVE  /\ prompts' \in Seq(PromptLens)
         /\ Len(prompts') = Len(prompts) + Len(lens)
         /\ \A i \in Row : prompts'[i] = prompts[i]
         /\ response_lens' \in [Row' -> 0..MaxNewTokens]
         /\ cache_seqlens' \in [Row' -> Nat]
         /\ finish_reason' \in [Row' -> {"none", "stop", "length", "cancelled"}]
         /\ \A i \in Row : /\ response_lens'[i] = response_lens[i]
                           /\ cache_seqlens'[i] = cache_seqlens[i]
                           /\ finish_reason'[i] = finish_reason[i]
<1>1. /\ prompts \o lens \in Seq(PromptLens)
      /\ Len(prompts \o lens) = Len(prompts) + Len(lens)
      /\ \A i \in 1..Len(prompts) : (prompts \o lens)[i] = prompts[i]
  BY ConcatFacts DEF TypeOK
<1>2. prompts' = prompts \o lens
  BY DEF AppendPrompts
<1>3. /\ prompts' \in Seq(PromptLens)
      /\ Len(prompts') = Len(prompts) + Len(lens)
      /\ \A i \in Row : prompts'[i] = prompts[i]
  BY <1>1, <1>2, Zenon DEF Row
<1>4. Len(prompts) \in Nat /\ Len(lens) \in Nat
  BY DEF TypeOK
<1>5. Row' = 1..Len(prompts) + Len(lens)
  BY <1>3 DEF Row
<1>6. Extends(response_lens, Len(prompts), response_lens', Len(prompts) + Len(lens), 0..MaxNewTokens)
  <2>1. response_lens \in [1..Len(prompts) -> 0..MaxNewTokens]
    BY DEF TypeOK, Row
  <2>2. Zeros(Len(lens)) \in [1..Len(lens) -> 0..MaxNewTokens]
    BY SizesAssumption DEF Zeros
  <2>3. response_lens' = response_lens \o Zeros(Len(lens))
    BY DEF AppendPrompts
  <2> QED BY <2>1, <2>2, <2>3, <1>4, ExtendFunction
<1>7. Extends(cache_seqlens, Len(prompts), cache_seqlens', Len(prompts) + Len(lens), Nat)
  <2>1. cache_seqlens \in [1..Len(prompts) -> Nat]
    BY DEF TypeOK, Row
  <2>2. Zeros(Len(lens)) \in [1..Len(lens) -> Nat]
    BY SizesAssumption DEF Zeros
  <2>3. cache_seqlens' = cache_seqlens \o Zeros(Len(lens))
    BY DEF AppendPrompts
  <2> QED BY <2>1, <2>2, <2>3, <1>4, ExtendFunction
<1>8. Extends(finish_reason, Len(prompts), finish_reason', Len(prompts) + Len(lens), {"none", "stop", "length", "cancelled"})
  <2>1. finish_reason \in [1..Len(prompts) -> {"none", "stop", "length", "cancelled"}]
    BY DEF TypeOK, Row
  <2>2. Blanks(Len(lens)) \in [1..Len(lens) -> {"none", "stop", "length", "cancelled"}]
    BY SizesAssumption DEF Blanks
  <2>3. finish_reason' = finish_reason \o Blanks(Len(lens))
    BY DEF AppendPrompts
  <2> QED BY <2>1, <2>2, <2>3, <1>4, ExtendFunction
<1> QED BY <1>3, <1>5, <1>6, <1>7, <1>8, Zenon DEF Extends, Row

\* New rows join behind the others.
LEMMA RefillType ==
  ASSUME TypeInv, NEW lens \in Seq(PromptLens), Refill(lens)
  PROVE  TypeInv'
<1>1. /\ AppendPrompts(lens)
      /\ UNCHANGED <<sizes, pool, admission, payload, active_rows, cancel_flags, sample_step, pc, todo>>
      /\ pc = "refill"
  BY DEF Refill
<1>2. /\ prompts' \in Seq(PromptLens)
      /\ Len(prompts) \in Nat
      /\ Len(prompts) <= Len(prompts')
  BY <1>1, AppendType, SMTT(30) DEF TypeInv, TypeOK
<1>3. \A i \in Row : /\ prompts'[i] = prompts[i]
                     /\ response_lens'[i] = response_lens[i]
                     /\ cache_seqlens'[i] = cache_seqlens[i]
  BY <1>1, AppendType DEF TypeInv
<1>4. /\ response_lens' \in [Row' -> 0..MaxNewTokens]
      /\ cache_seqlens' \in [Row' -> Nat]
      /\ finish_reason' \in [Row' -> {"none", "stop", "length", "cancelled"}]
  BY <1>1, AppendType DEF TypeInv
<1>5. Row \subseteq Row'
  BY <1>2 DEF Row
<1>6. TypeOK'
  BY <1>1, <1>2, <1>4, <1>5, SMTT(30) DEF TypeInv, TypeOK, Block, sizes, pool, admission, payload
<1>7. RowsOK'
  BY <1>1, <1>2, <1>3 DEF TypeInv, TypeOK, RowsOK, Row, sizes, admission, payload
<1> QED BY <1>6, <1>7 DEF TypeInv

\* Every action preserves TypeOK and RowsOK.
LEMMA NextType == TypeInv /\ [Next]_vars => TypeInv'
<1> SUFFICES ASSUME TypeInv, [Next]_vars PROVE TypeInv'
  OBVIOUS
<1>1. ASSUME RefillSome PROVE TypeInv'
  <2>1. PICK lens \in Batches(MaxRows - Len(prompts)) : Refill(lens)
    BY <1>1 DEF RefillSome
  <2>2. lens \in Seq(PromptLens)
    <3>1. PICK k \in 0..MaxRows - Len(prompts) : lens \in [1..k -> PromptLens]
      BY <2>1 DEF Batches
    <3>2. k \in Nat
      BY SizesAssumption DEF TypeInv, TypeOK
    <3> QED BY <3>1, <3>2
  <2> QED BY <2>1, <2>2, RefillType
<1>2. ASSUME RefillEnds PROVE TypeInv'
  BY <1>2 DEF TypeInv, TypeOK, RowsOK, RefillEnds, Stages, Row, Block, sizes, pool, admission, payload, rows
<1>3. ASSUME BuildEnds PROVE TypeInv'
  BY <1>3 DEF TypeInv, TypeOK, RowsOK, BuildEnds, Stages, Row, Block, sizes, pool, admission, payload, rows
<1>4. ASSUME RejectTooLong PROVE TypeInv'
  BY <1>4 DEF TypeInv, TypeOK, RowsOK, RejectTooLong, Stages, Row, Block, sizes, pool, admission, payload, rows
<1>7. ASSUME PrefillChunk PROVE TypeInv'
  BY <1>7 DEF TypeInv, TypeOK, RowsOK, PrefillChunk, Stages, Row, Block, sizes, pool, admission, payload, rows
<1>11. ASSUME LoopTest PROVE TypeInv'
  BY <1>11 DEF TypeInv, TypeOK, RowsOK, LoopTest, Stages, Row, Block, sizes, pool, admission, payload, rows
<1>14. ASSUME Finished PROVE TypeInv'
  BY <1>14 DEF TypeInv, TypeOK, RowsOK, Finished, Stages, Row, Block, vars, sizes, pool, admission, payload, rows
<1>5. ASSUME PackRow PROVE TypeInv'
  <2>1. pc = "pack" /\ HasPending /\ ~TooLong /\ ChunkLen > 0
    BY <1>5 DEF PackRow, CanPack, PackStops
  <2>2. /\ pending_seq_id \in Row
        /\ prompts[pending_seq_id] \in Nat
        /\ ChunkLen \in Int
        /\ cursor \in Nat
        /\ packed \in Nat
    BY <2>1, ChunkFacts DEF TypeInv, TypeOK
  <2>3. cursor + ChunkLen \in Nat /\ packed + ChunkLen \in Nat \ {0}
    BY <2>1, <2>2
  <2>4. ChunkBlocks \in Nat
    <3>1. CeilDiv(cursor + ChunkLen, BlockSize) \in Nat
      BY <2>3, CeilDivFacts, Constants
    <3> QED BY <2>2, <3>1, MissingFacts DEF ChunkBlocks, TypeInv
  <2>5. Take(pending_seq_id, ChunkBlocks) /\ ChunkBlocks \in 0..Len(free_blocks)
    BY <1>5, <2>4 DEF PackRow, TypeInv, TypeOK
  <2>6. /\ free_blocks' \in Seq(Block)
        /\ seq_to_blocks' \in [DOMAIN seq_to_blocks' -> Seq(Block)]
        /\ DOMAIN seq_to_blocks' \subseteq Row
    BY <2>2, <2>5, TakeType DEF TypeInv, TypeOK
  <2>7. UNCHANGED <<sizes, rows, active_rows, cancel_flags, sample_step, todo>>
    BY <1>5 DEF PackRow
  <2>8. /\ pending_seq_id' \in 1..Len(prompts) + 1
        /\ pending_seq_id <= pending_seq_id'
        /\ cursor' \in Nat
        /\ packed' \in Nat \ {0}
        /\ last_active \subseteq last_active'
        /\ last_active' \subseteq last_active \cup {pending_seq_id}
        /\ pending_seq_id \in last_active' => pending_seq_id < pending_seq_id' \/ pending_seq_id \in last_active
        /\ pc' \in {"pack", "prefill"}
    BY <1>5, <2>2, <2>3 DEF PackRow, Row
  <2>9. TypeOK'
    BY <2>6, <2>7, <2>8, <2>2 DEF TypeInv, TypeOK, Stages, Row, Block, sizes, rows
  <2>10. RowsOK'
    <3>1. prompts[pending_seq_id] + MaxNewTokens <= max_cache_len
      <4>1. max_cache_len \in Nat /\ MaxNewTokens \in Nat
        BY Constants DEF TypeInv, TypeOK
      <4>2. ~(prompts[pending_seq_id] + MaxNewTokens > max_cache_len)
        BY <2>1 DEF TooLong
      <4> QED BY <2>2, <4>1, <4>2
    <3>2. pending_seq_id \notin active_rows
      BY <2>2 DEF TypeInv, RowsOK, Row, TypeOK
    <3>3. active_rows' \cup last_active' \subseteq 1..pending_seq_id' - 1
      <4>1. /\ active_rows \cup last_active \subseteq 1..pending_seq_id - 1
            /\ pending_seq_id \in Nat
            /\ active_rows' = active_rows
        BY <2>2, <2>7 DEF TypeInv, RowsOK, Row
      <4>2. pending_seq_id' \in Nat
        BY <2>8, <2>2, SMTT(30) DEF TypeInv, TypeOK
      <4> QED BY <2>2, <2>8, <4>1, <4>2 DEF Row
    <3> QED BY <2>7, <2>8, <3>1, <3>2, <3>3 DEF TypeInv, RowsOK, sizes, rows
  <2> QED BY <2>9, <2>10 DEF TypeInv
<1>6. ASSUME PackRunsOut PROVE TypeInv'
  <2>1. pending_seq_id \in Row
    BY <1>6, ChunkFacts DEF PackRunsOut, CanPack, PackStops, TypeInv
  <2>2. Take(pending_seq_id, Len(free_blocks)) /\ Len(free_blocks) \in 0..Len(free_blocks)
    BY <1>6 DEF PackRunsOut, TypeInv, TypeOK
  <2>3. /\ free_blocks' \in Seq(Block)
        /\ seq_to_blocks' \in [DOMAIN seq_to_blocks' -> Seq(Block)]
        /\ DOMAIN seq_to_blocks' \subseteq Row
    BY <2>1, <2>2, TakeType DEF TypeInv, TypeOK
  <2>4. TypeOK'
    BY <1>6, <2>3 DEF TypeInv, TypeOK, PackRunsOut, CanPack, Stages, Row, Block, sizes, admission, payload, rows
  <2>5. RowsOK'
    BY <1>6 DEF TypeInv, TypeOK, RowsOK, PackRunsOut, CanPack, sizes, admission, payload, rows
  <2> QED BY <2>4, <2>5 DEF TypeInv
<1>8. ASSUME SampleSome PROVE TypeInv'
  <2>1. PICK stopped \in SUBSET last_active : PrefillSample(stopped)
    BY <1>8 DEF SampleSome
  <2>2. UNCHANGED <<sizes, pool, admission, prompts, cancel_flags, sample_step>>
    BY <2>1 DEF PrefillSample
  <2> DEFINE removed == stopped \cup FullAfterPrefill
  <2>3. /\ removed \subseteq last_active
        /\ last_active \subseteq Row
        /\ MaxNewTokens <= 1 => removed = last_active
    BY <2>1 DEF FullAfterPrefill, TypeInv, TypeOK
  <2>4. /\ active_rows' = active_rows \cup (last_active \ removed)
        /\ packed' = 0
        /\ last_active' = {}
        /\ todo' = removed
        /\ pc' = IF removed = {} THEN "cancel" ELSE "free_prefilled"
    BY <2>1 DEF PrefillSample
  <2>5. /\ response_lens' \in [Row -> 0..MaxNewTokens]
        /\ cache_seqlens' \in [Row -> Nat]
        /\ \A r \in Row \ last_active : /\ response_lens'[r] = response_lens[r]
                                        /\ cache_seqlens'[r] = cache_seqlens[r]
        /\ \A r \in last_active : /\ response_lens'[r] = 1
                                  /\ cache_seqlens'[r] = prompts[r]
    <3>1. \A r \in Row : prompts[r] \in Nat
      BY Constants, ElementOfSeq DEF TypeInv, TypeOK, Row
    <3>2. /\ response_lens' = [r \in Row |-> IF r \in last_active THEN 1 ELSE response_lens[r]]
          /\ cache_seqlens' = [r \in Row |-> IF r \in last_active THEN prompts[r] ELSE cache_seqlens[r]]
      BY <2>1 DEF PrefillSample
    <3>3. /\ \A r \in Row : response_lens[r] \in 0..MaxNewTokens /\ cache_seqlens[r] \in Nat
          /\ 1 \in 0..MaxNewTokens
      BY Constants DEF TypeInv, TypeOK
    <3> QED BY <2>3, <3>1, <3>2, <3>3
  <2>6. finish_reason' \in [Row -> {"none", "stop", "length", "cancelled"}]
    BY <2>1 DEF PrefillSample, MarkFinished, TypeInv, TypeOK
  <2>7. TypeOK'
    BY <2>2, <2>3, <2>4, <2>5, <2>6 DEF TypeInv, TypeOK, Stages, Row, Block, sizes, pool, admission
  <2>8. \A r \in active_rows' : /\ response_lens'[r] < MaxNewTokens
                                /\ cache_seqlens'[r] = prompts'[r] + response_lens'[r] - 1
                                /\ prompts'[r] + MaxNewTokens <= max_cache_len'
    <3>1. CASE MaxNewTokens <= 1
      BY <2>2, <2>3, <2>4, <2>5, <3>1 DEF TypeInv, TypeOK, RowsOK, sizes
    <3>2. CASE MaxNewTokens > 1
      <4>1. \A r \in Row : prompts[r] \in Nat
        BY Constants, ElementOfSeq DEF TypeInv, TypeOK, Row
      <4> QED BY <2>2, <2>3, <2>4, <2>5, <3>2, <4>1, SMTT(30) DEF TypeInv, TypeOK, RowsOK, sizes
    <3> QED BY <3>1, <3>2, Constants
  <2>9. RowsOK'
    BY <2>2, <2>3, <2>4, <2>8 DEF TypeInv, TypeOK, RowsOK, sizes, admission
  <2> QED BY <2>7, <2>9 DEF TypeInv
<1>9. ASSUME FreeRow PROVE TypeInv'
  <2>1. PICK r \in todo : Release(r) /\ todo' = todo \ {r}
    BY <1>9 DEF FreeRow
  <2>2. /\ free_blocks' \in Seq(Block)
        /\ seq_to_blocks' \in [DOMAIN seq_to_blocks' -> Seq(Block)]
        /\ DOMAIN seq_to_blocks' \subseteq Row
    BY <2>1, ReleaseType DEF TypeInv, TypeOK
  <2>3. TypeOK'
    BY <1>9, <2>1, <2>2 DEF TypeInv, TypeOK, FreeRow, Stages, Row, Block, sizes, admission, payload, rows
  <2>4. RowsOK'
    BY <1>9, <2>1 DEF TypeInv, TypeOK, RowsOK, FreeRow, sizes, admission, payload, rows
  <2> QED BY <2>3, <2>4 DEF TypeInv
<1>10. ASSUME CancelRows PROVE TypeInv'
  <2>1. TypeOK'
    <3>1. /\ response_lens' \in [Row -> 0..MaxNewTokens]
          /\ finish_reason' \in [Row -> {"none", "stop", "length", "cancelled"}]
      BY <1>10, Constants, SMTT(30) DEF TypeInv, TypeOK, CancelRows
    <3> QED BY <1>10, <3>1 DEF TypeInv, TypeOK, CancelRows, Cancelled, Stages, Row, Block, sizes, pool, admission, payload
  <2>2. RowsOK'
    BY <1>10 DEF TypeInv, TypeOK, RowsOK, CancelRows, Cancelled, Row, sizes, admission, payload
  <2> QED BY <2>1, <2>2 DEF TypeInv
<1>12. ASSUME EnsureRow PROVE TypeInv'
  <2>1. PICK r \in todo : /\ IF DecodeBlocks(r) <= Len(free_blocks)
                               THEN /\ Take(r, DecodeBlocks(r))
                                    /\ todo' = todo \ {r}
                                    /\ pc' = pc
                               ELSE /\ Take(r, Len(free_blocks))
                                    /\ pc' = "decode_exhausted"
                                    /\ UNCHANGED todo
    BY <1>12 DEF EnsureRow
  <2>2. DecodeBlocks(r) \in Nat
    <3>1. r \in Row /\ cache_seqlens[r] \in Nat
      BY DEF TypeInv, TypeOK
    <3>2. cache_seqlens[r] \div BlockSize + 1 \in Nat
      BY <3>1, DivFacts, SizesAssumption
    <3> QED BY <3>1, <3>2, MissingFacts DEF DecodeBlocks, TypeInv
  <2>3. PICK n \in 0..Len(free_blocks) : Take(r, n)
    BY <2>1, <2>2 DEF TypeInv, TypeOK
  <2>4. /\ free_blocks' \in Seq(Block)
        /\ seq_to_blocks' \in [DOMAIN seq_to_blocks' -> Seq(Block)]
        /\ DOMAIN seq_to_blocks' \subseteq Row
    <3>1. r \in Row
      BY DEF TypeInv, TypeOK
    <3> QED BY <2>3, <3>1, TakeType DEF TypeInv, TypeOK
  <2>5. TypeOK'
    BY <1>12, <2>1, <2>4 DEF TypeInv, TypeOK, EnsureRow, Stages, Row, Block, sizes, admission, payload, rows
  <2>6. RowsOK'
    BY <1>12, <2>1 DEF TypeInv, TypeOK, RowsOK, EnsureRow, sizes, admission, payload, rows
  <2> QED BY <2>5, <2>6 DEF TypeInv
<1>13. ASSUME DecodeSome PROVE TypeInv'
  <2>1. PICK stopped \in SUBSET active_rows : Decode(stopped)
    BY <1>13 DEF DecodeSome
  <2>2. UNCHANGED <<sizes, pool, admission, payload, prompts, cancel_flags>>
    BY <2>1 DEF Decode
  <2> DEFINE removed == stopped \cup FullAfterDecode \cup Cancelled
  <2>3. /\ removed \subseteq active_rows
        /\ active_rows \subseteq Row
        /\ \A r \in active_rows : response_lens[r] + 1 >= MaxNewTokens => r \in removed
        /\ \A r \in active_rows : r \in Cancelled => r \in removed
    BY <2>1 DEF FullAfterDecode, Cancelled, TypeInv, TypeOK
  <2>4. /\ active_rows' = active_rows \ removed
        /\ todo' = removed
        /\ pc' = IF removed = {} THEN "refill" ELSE "free_decoded"
        /\ sample_step' \in Nat
        /\ pc = "ensure"
    BY <2>1 DEF Decode, TypeInv, TypeOK
  <2>5. response_lens' \in [Row -> 0..MaxNewTokens]
    <3>1. \A r \in active_rows : response_lens[r] + 1 \in 0..MaxNewTokens
      <4>1. \A r \in active_rows : response_lens[r] < MaxNewTokens /\ response_lens[r] \in 0..MaxNewTokens
        BY <2>3 DEF TypeInv, TypeOK, RowsOK
      <4> QED BY <4>1, Constants
    <3>2. \A n \in 0..MaxNewTokens : WithCancelToken(n) \in 0..MaxNewTokens
      BY Constants DEF WithCancelToken
    <3>3. \A r \in Cancelled : WithCancelToken(response_lens[r] + 1) \in 0..MaxNewTokens
      BY <3>1, <3>2 DEF Cancelled
    <3> HIDE DEF removed
    <3> QED BY <2>1, <3>1, <3>3 DEF Decode, TypeInv, TypeOK
  <2>6. cache_seqlens' \in [Row -> Nat]
    BY <2>1, SMTT(30) DEF Decode, TypeInv, TypeOK
  <2>7. finish_reason' \in [Row -> {"none", "stop", "length", "cancelled"}]
    BY <2>1 DEF Decode, MarkFinished, TypeInv, TypeOK
  <2>8. TypeOK'
    BY <2>2, <2>3, <2>4, <2>5, <2>6, <2>7 DEF TypeInv, TypeOK, Stages, Row, Block, sizes, pool, admission, payload
  <2>9. \A r \in active_rows' : /\ response_lens'[r] = response_lens[r] + 1
                                /\ cache_seqlens'[r] = cache_seqlens[r] + 1
    BY <2>1, <2>3, <2>4 DEF Decode
  <2>10. \A r \in active_rows' : /\ response_lens'[r] < MaxNewTokens
                                 /\ cache_seqlens'[r] = prompts[r] + response_lens'[r] - 1
    <3>1. \A r \in Row : prompts[r] \in Nat /\ response_lens[r] \in Nat /\ cache_seqlens[r] \in Nat
      BY Constants, ElementOfSeq, SMTT(30) DEF TypeInv, TypeOK, Row
    <3>2. \A r \in active_rows' : response_lens[r] + 1 < MaxNewTokens
      BY <2>3, <2>4, <3>1, Constants
    <3> QED BY <2>3, <2>4, <2>9, <3>1, <3>2 DEF TypeInv, RowsOK
  <2>11. RowsOK'
    BY <2>2, <2>3, <2>4, <2>10 DEF TypeInv, RowsOK, sizes, admission, payload
  <2> QED BY <2>8, <2>11 DEF TypeInv
<1>15. ASSUME NEW r \in Row, RaiseCancel(r) PROVE TypeInv'
  BY <1>15 DEF TypeInv, TypeOK, RowsOK, RaiseCancel, Row, Block, sizes, pool, admission, payload, rows
<1>16. CASE UNCHANGED vars
  BY <1>16 DEF TypeInv, TypeOK, RowsOK, vars, Row, Block, sizes, pool, admission, payload, rows
<1> QED BY <1>1, <1>2, <1>3, <1>4, <1>5, <1>6, <1>7, <1>8, <1>9, <1>10, <1>11, <1>12, <1>13,
           <1>14, <1>15, <1>16 DEF Next, LoopStep

\* Every reachable state has its type, whatever the sizes, the arrivals, the
\* samples and the cancellations: in particular no response outgrows its row.
THEOREM TypeCorrect == Spec => []TypeOK
<1>1. TypeInv => TypeOK
  BY DEF TypeInv
<1> QED BY InitType, NextType, <1>1, PTL DEF Spec

-----------------------------------------------------------------------------
(* The block pool.  BlocksConserved, spelled out for the free list and the *)
(* tables, is inductive given the types.                                   *)

FreeDistinct ==
  \A i, j \in 1..Len(free_blocks) : free_blocks[i] = free_blocks[j] => i = j
HeldDistinct ==
  \A r, s \in DOMAIN seq_to_blocks :
    \A i \in 1..Len(seq_to_blocks[r]), j \in 1..Len(seq_to_blocks[s]) :
      seq_to_blocks[r][i] = seq_to_blocks[s][j] => r = s /\ i = j
FreeNotHeld ==
  \A i \in 1..Len(free_blocks), r \in DOMAIN seq_to_blocks :
    \A j \in 1..Len(seq_to_blocks[r]) : free_blocks[i] # seq_to_blocks[r][j]
FreeOrHeld ==
  \A b \in Block : \/ \E i \in 1..Len(free_blocks) : free_blocks[i] = b
                   \/ \E r \in DOMAIN seq_to_blocks :
                        \E j \in 1..Len(seq_to_blocks[r]) : seq_to_blocks[r][j] = b
PoolOK == FreeDistinct /\ HeldDistinct /\ FreeNotHeld /\ FreeOrHeld

LEMMA PoolConserved ==
  ASSUME TypeOK, PoolOK
  PROVE  BlocksConserved
<1>1. 0 \notin DOMAIN seq_to_blocks
  BY DEF TypeOK, Row
<1>2. \A p \in Places : \/ \E i \in 1..Len(free_blocks) : p = <<0, i>> /\ At(p) = free_blocks[i]
                        \/ \E r \in DOMAIN seq_to_blocks :
                             \E i \in 1..Len(seq_to_blocks[r]) : p = <<r, i>> /\ At(p) = seq_to_blocks[r][i]
  BY <1>1 DEF Places, At
<1>3. \A p, q \in Places : At(p) = At(q) => p = q
  BY <1>2 DEF PoolOK, FreeDistinct, HeldDistinct, FreeNotHeld
<1>4. ASSUME NEW b \in Block PROVE \E p \in Places : At(p) = b
  <2>1. CASE \E i \in 1..Len(free_blocks) : free_blocks[i] = b
    <3>1. PICK i \in 1..Len(free_blocks) : free_blocks[i] = b
      BY <2>1
    <3>2. <<0, i>> \in Places /\ At(<<0, i>>) = b
      BY <3>1 DEF Places, At
    <3> QED BY <3>2
  <2>2. CASE \E r \in DOMAIN seq_to_blocks :
               \E j \in 1..Len(seq_to_blocks[r]) : seq_to_blocks[r][j] = b
    <3>1. PICK r \in DOMAIN seq_to_blocks :
                 \E j \in 1..Len(seq_to_blocks[r]) : seq_to_blocks[r][j] = b
      BY <2>2
    <3>3. PICK j \in 1..Len(seq_to_blocks[r]) : seq_to_blocks[r][j] = b
      BY <3>1
    <3>2. <<r, j>> \in Places /\ At(<<r, j>>) = b
      BY <1>1, <3>3 DEF Places, At
    <3> QED BY <3>2
  <2> QED BY <2>1, <2>2 DEF PoolOK, FreeOrHeld
<1> QED BY <1>3, <1>4 DEF BlocksConserved

\* u is s followed by t; u is the first n elements of s; u is what follows them.
IsConcat(u, s, t) ==
  /\ Len(u) = Len(s) + Len(t)
  /\ \A i \in 1..Len(s) : u[i] = s[i]
  /\ \A i \in 1..Len(t) : u[Len(s) + i] = t[i]
IsFront(u, s, n) == Len(u) = n /\ \A i \in 1..n : u[i] = s[i]
IsRest(u, s, n) == Len(u) = Len(s) - n /\ \A i \in 1..Len(s) - n : u[i] = s[n + i]

LEMMA SplitFacts ==
  ASSUME NEW S, NEW s \in Seq(S), NEW n \in 0..Len(s)
  PROVE  /\ SubSeq(s, 1, n) \in Seq(S)
         /\ IsFront(SubSeq(s, 1, n), s, n)
         /\ IsRest(SubSeq(s, n + 1, Len(s)), s, n)
BY SubSeqType DEF IsFront, IsRest

LEMMA JoinFacts ==
  ASSUME NEW S, NEW s \in Seq(S), NEW t \in Seq(S)
  PROVE  IsConcat(s \o t, s, t)
BY ConcatFacts DEF IsConcat

\* Take moves the first n free blocks behind the blocks of row r.
LEMMA TakeFacts ==
  ASSUME TypeOK, NEW r \in Row, NEW n \in 0..Len(free_blocks), Take(r, n)
  PROVE  /\ Held(r) \in Seq(Block)
         /\ IsRest(free_blocks', free_blocks, n)
         /\ \E front \in Seq(Block) : /\ IsFront(front, free_blocks, n)
                                      /\ IsConcat(seq_to_blocks'[r], Held(r), front)
         /\ \A q \in DOMAIN seq_to_blocks \ {r} : seq_to_blocks'[q] = seq_to_blocks[q]
<1>1. Held(r) \in Seq(Block)
  BY DEF TypeOK, Held
<1>2. /\ SubSeq(free_blocks, 1, n) \in Seq(Block)
      /\ IsFront(SubSeq(free_blocks, 1, n), free_blocks, n)
      /\ IsRest(SubSeq(free_blocks, n + 1, Len(free_blocks)), free_blocks, n)
  BY SplitFacts DEF TypeOK
<1>3. /\ free_blocks' = SubSeq(free_blocks, n + 1, Len(free_blocks))
      /\ seq_to_blocks'[r] = Held(r) \o SubSeq(free_blocks, 1, n)
      /\ \A q \in DOMAIN seq_to_blocks \ {r} : seq_to_blocks'[q] = seq_to_blocks[q]
  BY DEF Take
<1>4. IsConcat(seq_to_blocks'[r], Held(r), SubSeq(free_blocks, 1, n))
  BY <1>1, <1>2, <1>3, JoinFacts
<1> QED BY <1>1, <1>2, <1>3, <1>4

\* Release moves the blocks of row r behind the free ones.
LEMMA ReleaseFacts ==
  ASSUME TypeOK, NEW r \in Row, Release(r)
  PROVE  /\ Held(r) \in Seq(Block)
         /\ IsConcat(free_blocks', free_blocks, Held(r))
         /\ \A q \in DOMAIN seq_to_blocks \ {r} : seq_to_blocks'[q] = seq_to_blocks[q]
<1>1. Held(r) \in Seq(Block) /\ free_blocks \in Seq(Block)
  BY DEF TypeOK, Held
<1>2. free_blocks' = free_blocks \o Held(r)
  BY DEF Release
<1>3. IsConcat(free_blocks', free_blocks, Held(r))
  BY <1>1, <1>2, JoinFacts
<1> QED BY <1>1, <1>3 DEF Release

\* The block at position i of row r's table, wherever it comes from, is a free
\* block or one the row held already.
LEMMA PoolTake ==
  ASSUME TypeOK, PoolOK, NEW r \in Row, NEW n \in 0..Len(free_blocks), Take(r, n),
         UNCHANGED num_cache_blocks
  PROVE  PoolOK'
<1> DEFINE k == Len(free_blocks)
           h == Len(Held(r))
<1>1. /\ k \in Nat /\ h \in Nat
      /\ Len(free_blocks') = k - n
      /\ \A i \in 1..k - n : free_blocks'[i] = free_blocks[n + i]
      /\ Len(seq_to_blocks'[r]) = h + n
      /\ \A i \in 1..h : seq_to_blocks'[r][i] = Held(r)[i]
      /\ \A i \in 1..n : seq_to_blocks'[r][h + i] = free_blocks[i]
  <2>1. PICK front \in Seq(Block) : /\ IsFront(front, free_blocks, n)
                                    /\ IsConcat(seq_to_blocks'[r], Held(r), front)
    BY TakeFacts
  <2>2. k \in Nat /\ h \in Nat
    <3>1. Held(r) \in Seq(Block) /\ free_blocks \in Seq(Block)
      BY TakeFacts DEF TypeOK
    <3> QED BY <3>1
  <2> QED BY <2>1, <2>2, TakeFacts DEF IsFront, IsConcat, IsRest
<1>2. DOMAIN seq_to_blocks' = DOMAIN seq_to_blocks \cup {r}
  BY TakeType
<1>3. Held(r) = IF r \in DOMAIN seq_to_blocks THEN seq_to_blocks[r] ELSE <<>>
  BY DEF Held
<1>4. \A q \in DOMAIN seq_to_blocks \ {r} : seq_to_blocks'[q] = seq_to_blocks[q]
  BY TakeFacts
<1>5. ASSUME NEW q \in DOMAIN seq_to_blocks', NEW i \in 1..Len(seq_to_blocks'[q])
      PROVE  \/ q = r /\ i - h \in 1..n /\ seq_to_blocks'[q][i] = free_blocks[i - h]
             \/ /\ q \in DOMAIN seq_to_blocks
                /\ i \in 1..Len(seq_to_blocks[q])
                /\ seq_to_blocks'[q][i] = seq_to_blocks[q][i]
                /\ q = r => i <= h
  <2>1. CASE q # r
    BY <1>2, <1>4, <2>1
  <2>2. CASE q = r /\ i <= h
    <3>1. h # 0
      BY <1>1, <2>2
    <3>2. r \in DOMAIN seq_to_blocks
      BY <1>3, <3>1
    <3> QED BY <1>1, <1>3, <2>2, <3>2
  <2>3. CASE q = r /\ i > h
    <3>1. i - h \in 1..n /\ h + (i - h) = i
      BY <1>1, <2>3
    <3> QED BY <1>1, <2>3, <3>1
  <2> QED BY <1>1, <2>1, <2>2, <2>3
<1>6. FreeDistinct'
  <2>1. ASSUME NEW i \in 1..k - n, NEW j \in 1..k - n, free_blocks'[i] = free_blocks'[j]
        PROVE  i = j
    <3>1. n + i \in 1..k /\ n + j \in 1..k
      BY <1>1
    <3>2. free_blocks[n + i] = free_blocks[n + j]
      BY <1>1, <2>1
    <3>3. n + i = n + j
      BY <3>1, <3>2 DEF PoolOK, FreeDistinct
    <3> QED BY <1>1, <3>3
  <2> QED BY <1>1, <2>1 DEF FreeDistinct
<1>7. ASSUME NEW q \in DOMAIN seq_to_blocks', NEW s \in DOMAIN seq_to_blocks',
             NEW i \in 1..Len(seq_to_blocks'[q]), NEW j \in 1..Len(seq_to_blocks'[s]),
             seq_to_blocks'[q][i] = seq_to_blocks'[s][j]
      PROVE  q = s /\ i = j
  <2> DEFINE New(x, m) == x = r /\ m - h \in 1..n /\ seq_to_blocks'[x][m] = free_blocks[m - h]
             Old(x, m) == /\ x \in DOMAIN seq_to_blocks
                          /\ m \in 1..Len(seq_to_blocks[x])
                          /\ seq_to_blocks'[x][m] = seq_to_blocks[x][m]
  <2>1. (New(q, i) \/ Old(q, i)) /\ (New(s, j) \/ Old(s, j))
    BY <1>5
  <2>2. 1..n \subseteq 1..k
    BY <1>1
  <2>3. CASE New(q, i) /\ New(s, j)
    <3>1. i - h = j - h
      BY <1>7, <2>2, <2>3 DEF PoolOK, FreeDistinct
    <3> QED BY <1>1, <2>3, <3>1
  <2>4. CASE Old(q, i) /\ Old(s, j)
    <3>1. seq_to_blocks[q][i] = seq_to_blocks[s][j]
      BY <1>7, <2>4
    <3> QED BY <2>4, <3>1 DEF PoolOK, HeldDistinct
  <2>5. CASE New(q, i) /\ Old(s, j)
    <3>1. free_blocks[i - h] = seq_to_blocks[s][j] /\ i - h \in 1..k
      BY <1>7, <2>2, <2>5
    <3> QED BY <2>5, <3>1 DEF PoolOK, FreeNotHeld
  <2>6. CASE Old(q, i) /\ New(s, j)
    <3>1. free_blocks[j - h] = seq_to_blocks[q][i] /\ j - h \in 1..k
      BY <1>7, <2>2, <2>6
    <3> QED BY <2>6, <3>1 DEF PoolOK, FreeNotHeld
  <2> QED BY <2>1, <2>3, <2>4, <2>5, <2>6
<1>8. ASSUME NEW i \in 1..Len(free_blocks'), NEW q \in DOMAIN seq_to_blocks',
             NEW j \in 1..Len(seq_to_blocks'[q])
      PROVE  free_blocks'[i] # seq_to_blocks'[q][j]
  <2>1. n + i \in 1..k /\ free_blocks'[i] = free_blocks[n + i]
    BY <1>1
  <2>2. CASE q = r /\ j - h \in 1..n /\ seq_to_blocks'[q][j] = free_blocks[j - h]
    <3>1. n + i # j - h /\ j - h \in 1..k
      BY <1>1, <2>1, <2>2, SMTT(30)
    <3> QED BY <2>1, <2>2, <3>1 DEF PoolOK, FreeDistinct
  <2>3. CASE /\ q \in DOMAIN seq_to_blocks
             /\ j \in 1..Len(seq_to_blocks[q])
             /\ seq_to_blocks'[q][j] = seq_to_blocks[q][j]
    BY <2>1, <2>3 DEF PoolOK, FreeNotHeld
  <2> QED BY <1>5, <2>2, <2>3
<1>9. ASSUME NEW b \in Block
      PROVE  \/ \E i \in 1..Len(free_blocks') : free_blocks'[i] = b
             \/ \E q \in DOMAIN seq_to_blocks' :
                  \E j \in 1..Len(seq_to_blocks'[q]) : seq_to_blocks'[q][j] = b
  <2>1. CASE \E i \in 1..k : free_blocks[i] = b
    <3>1. PICK i \in 1..k : free_blocks[i] = b
      BY <2>1
    <3>2. CASE i <= n
      <4>1. h + i \in 1..Len(seq_to_blocks'[r]) /\ seq_to_blocks'[r][h + i] = b
        <5>1. i \in 1..n /\ h \in Nat /\ Len(seq_to_blocks'[r]) = h + n
          BY <1>1, <3>2
        <5>2. seq_to_blocks'[r][h + i] = free_blocks[i]
          BY <1>1, <5>1
        <5> QED BY <3>1, <5>1, <5>2
      <4> QED BY <1>2, <4>1
    <3>3. CASE i > n
      <4>1. i - n \in 1..k - n /\ n + (i - n) = i
        BY <1>1, <3>3
      <4>2. i - n \in 1..Len(free_blocks') /\ free_blocks'[i - n] = b
        BY <1>1, <3>1, <4>1
      <4> QED BY <4>2
    <3> QED BY <1>1, <3>2, <3>3
  <2>2. CASE \E q \in DOMAIN seq_to_blocks :
               \E j \in 1..Len(seq_to_blocks[q]) : seq_to_blocks[q][j] = b
    <3>1. PICK q \in DOMAIN seq_to_blocks :
                 \E j \in 1..Len(seq_to_blocks[q]) : seq_to_blocks[q][j] = b
      BY <2>2
    <3>2. PICK j \in 1..Len(seq_to_blocks[q]) : seq_to_blocks[q][j] = b
      BY <3>1
    <3>3. CASE q = r
      <4>1. j \in 1..h /\ Held(r)[j] = b
        BY <1>3, <3>2, <3>3
      <4>2. j \in 1..Len(seq_to_blocks'[r]) /\ seq_to_blocks'[r][j] = b
        BY <1>1, <4>1
      <4> QED BY <1>2, <4>2
    <3>4. CASE q # r
      BY <1>2, <1>4, <3>2, <3>4
    <3> QED BY <3>3, <3>4
  <2> QED BY <2>1, <2>2 DEF PoolOK, FreeOrHeld
<1>10. Block' = Block
  BY DEF Block
<1>11. HeldDistinct'
  BY <1>7 DEF HeldDistinct
<1>12. FreeNotHeld'
  BY <1>8 DEF FreeNotHeld
<1>13. FreeOrHeld'
  BY <1>9, <1>10 DEF FreeOrHeld
<1> QED BY <1>6, <1>11, <1>12, <1>13 DEF PoolOK, FreeDistinct
\* The released blocks are free at the end of the list, and nowhere else.
LEMMA PoolRelease ==
  ASSUME TypeOK, PoolOK, NEW r \in Row, Release(r), UNCHANGED num_cache_blocks
  PROVE  PoolOK'
<1> DEFINE k == Len(free_blocks)
           h == Len(Held(r))
<1>1. /\ k \in Nat /\ h \in Nat
      /\ Len(free_blocks') = k + h
      /\ \A i \in 1..k : free_blocks'[i] = free_blocks[i]
      /\ \A i \in 1..h : free_blocks'[k + i] = Held(r)[i]
  <2>1. Held(r) \in Seq(Block) /\ free_blocks \in Seq(Block)
    BY ReleaseFacts DEF TypeOK
  <2>2. k \in Nat /\ h \in Nat
    BY <2>1
  <2> QED BY <2>2, ReleaseFacts DEF IsConcat
<1>2. /\ DOMAIN seq_to_blocks' = DOMAIN seq_to_blocks \ {r}
      /\ \A q \in DOMAIN seq_to_blocks' : seq_to_blocks'[q] = seq_to_blocks[q]
  BY ReleaseType, ReleaseFacts
<1>3. \A i \in 1..h : r \in DOMAIN seq_to_blocks /\ Held(r) = seq_to_blocks[r]
  BY <1>1 DEF Held
<1>4. ASSUME NEW i \in 1..Len(free_blocks')
      PROVE  \/ i \in 1..k /\ free_blocks'[i] = free_blocks[i]
             \/ /\ r \in DOMAIN seq_to_blocks
                /\ h = Len(seq_to_blocks[r])
                /\ i - k \in 1..h
                /\ free_blocks'[i] = seq_to_blocks[r][i - k]
  <2>1. CASE i <= k
    BY <1>1, <2>1
  <2>2. CASE i > k
    <3>1. i - k \in 1..h /\ k + (i - k) = i
      BY <1>1, <2>2
    <3>2. free_blocks'[i] = Held(r)[i - k]
      BY <1>1, <3>1
    <3> QED BY <1>3, <3>1, <3>2
  <2> QED BY <1>1, <2>1, <2>2
<1>5. FreeDistinct'
  <2>1. ASSUME NEW i \in 1..Len(free_blocks'), NEW j \in 1..Len(free_blocks'),
               free_blocks'[i] = free_blocks'[j]
        PROVE  i = j
    <3> DEFINE Was(m) == m \in 1..k /\ free_blocks'[m] = free_blocks[m]
               Now(m) == /\ r \in DOMAIN seq_to_blocks
                         /\ h = Len(seq_to_blocks[r])
                         /\ m - k \in 1..h
                         /\ free_blocks'[m] = seq_to_blocks[r][m - k]
    <3>1. (Was(i) \/ Now(i)) /\ (Was(j) \/ Now(j))
      BY <1>4
    <3>2. CASE Was(i) /\ Was(j)
      BY <2>1, <3>2 DEF PoolOK, FreeDistinct
    <3>3. CASE Now(i) /\ Now(j)
      <4>1. seq_to_blocks[r][i - k] = seq_to_blocks[r][j - k]
        BY <2>1, <3>3
      <4>2. i - k = j - k
        BY <3>3, <4>1, SMTT(30) DEF PoolOK, HeldDistinct
      <4> QED BY <1>1, <4>2
    <3>4. CASE Was(i) /\ Now(j)
      <4>1. free_blocks[i] = seq_to_blocks[r][j - k]
        BY <2>1, <3>4
      <4> QED BY <3>4, <4>1 DEF PoolOK, FreeNotHeld
    <3>5. CASE Now(i) /\ Was(j)
      <4>1. free_blocks[j] = seq_to_blocks[r][i - k]
        BY <2>1, <3>5
      <4> QED BY <3>5, <4>1 DEF PoolOK, FreeNotHeld
    <3> QED BY <3>1, <3>2, <3>3, <3>4, <3>5
  <2> QED BY <2>1 DEF FreeDistinct
<1>6. HeldDistinct'
  BY <1>2 DEF PoolOK, HeldDistinct
<1>7. FreeNotHeld'
  <2>1. ASSUME NEW i \in 1..Len(free_blocks'), NEW q \in DOMAIN seq_to_blocks',
               NEW j \in 1..Len(seq_to_blocks'[q])
        PROVE  free_blocks'[i] # seq_to_blocks'[q][j]
    <3>1. q \in DOMAIN seq_to_blocks /\ q # r /\ seq_to_blocks'[q] = seq_to_blocks[q]
      BY <1>2
    <3>2. CASE i \in 1..k /\ free_blocks'[i] = free_blocks[i]
      BY <3>1, <3>2 DEF PoolOK, FreeNotHeld
    <3>3. CASE /\ r \in DOMAIN seq_to_blocks
               /\ h = Len(seq_to_blocks[r])
               /\ i - k \in 1..h
               /\ free_blocks'[i] = seq_to_blocks[r][i - k]
      <4>1. seq_to_blocks[r][i - k] # seq_to_blocks[q][j]
        BY <3>1, <3>3 DEF PoolOK, HeldDistinct
      <4> QED BY <3>1, <3>3, <4>1
    <3> QED BY <1>4, <3>2, <3>3
  <2> QED BY <2>1 DEF FreeNotHeld
<1>8. FreeOrHeld'
  <2>1. ASSUME NEW b \in Block
        PROVE  \/ \E i \in 1..Len(free_blocks') : free_blocks'[i] = b
               \/ \E q \in DOMAIN seq_to_blocks' :
                    \E j \in 1..Len(seq_to_blocks'[q]) : seq_to_blocks'[q][j] = b
    <3>1. CASE \E i \in 1..k : free_blocks[i] = b
      BY <1>1, <3>1
    <3>2. CASE \E q \in DOMAIN seq_to_blocks :
                 \E j \in 1..Len(seq_to_blocks[q]) : seq_to_blocks[q][j] = b
      <4>1. PICK q \in DOMAIN seq_to_blocks :
                   \E j \in 1..Len(seq_to_blocks[q]) : seq_to_blocks[q][j] = b
        BY <3>2
      <4>2. PICK j \in 1..Len(seq_to_blocks[q]) : seq_to_blocks[q][j] = b
        BY <4>1
      <4>3. CASE q = r
        <5>1. j \in 1..h /\ Held(r)[j] = b
          BY <4>2, <4>3 DEF Held
        <5>2. k + j \in 1..Len(free_blocks') /\ free_blocks'[k + j] = b
          BY <1>1, <5>1
        <5> QED BY <5>2
      <4>4. CASE q # r
        BY <1>2, <4>2, <4>4
      <4> QED BY <4>3, <4>4
    <3> QED BY <3>1, <3>2 DEF PoolOK, FreeOrHeld
  <2>2. Block' = Block
    BY DEF Block
  <2> QED BY <2>1, <2>2 DEF FreeOrHeld
<1> QED BY <1>5, <1>6, <1>7, <1>8 DEF PoolOK

LEMMA InitPool == Init => PoolOK
<1> SUFFICES ASSUME Init PROVE PoolOK
  OBVIOUS
<1>1. /\ num_cache_blocks \in Nat
      /\ free_blocks = [i \in 1..num_cache_blocks |-> i - 1]
      /\ DOMAIN seq_to_blocks = {}
  BY InitSizes DEF Init
<1>2. Len(free_blocks) = num_cache_blocks
  BY <1>1
<1>3. FreeDistinct
  BY <1>1, <1>2 DEF FreeDistinct
<1>4. HeldDistinct /\ FreeNotHeld
  BY <1>1 DEF HeldDistinct, FreeNotHeld
<1>5. FreeOrHeld
  <2>1. ASSUME NEW b \in Block PROVE \E i \in 1..Len(free_blocks) : free_blocks[i] = b
    <3>1. b + 1 \in 1..num_cache_blocks /\ (b + 1) - 1 = b
      BY <1>1 DEF Block
    <3>2. free_blocks[b + 1] = b
      BY <1>1, <3>1
    <3> QED BY <1>2, <3>1, <3>2
  <2> QED BY <2>1 DEF FreeOrHeld
<1> QED BY <1>3, <1>4, <1>5 DEF PoolOK
\* A step leaves the pool alone, takes blocks for one row or releases one row.
LEMMA PoolMoves ==
  ASSUME TypeInv, [Next]_vars
  PROVE  /\ UNCHANGED sizes
         /\ \/ UNCHANGED pool
            \/ \E r \in Row : \E n \in 0..Len(free_blocks) : Take(r, n)
            \/ \E r \in Row : Release(r)
<1>1. CASE PackRow
  <2>1. pc = "pack" /\ HasPending /\ ChunkLen > 0
    BY <1>1 DEF PackRow, CanPack, PackStops
  <2>2. /\ pending_seq_id \in Row
        /\ cursor + ChunkLen \in Nat
    <3>1. ChunkLen \in Int /\ cursor \in Nat
      BY <2>1, ChunkFacts DEF TypeInv, TypeOK
    <3> QED BY <2>1, <3>1, ChunkFacts DEF TypeInv
  <2>3. CeilDiv(cursor + ChunkLen, BlockSize) \in Nat
    BY <2>2, CeilDivFacts, Constants
  <2>4. ChunkBlocks \in Nat
    BY <2>2, <2>3, MissingFacts DEF ChunkBlocks, TypeInv
  <2> QED BY <1>1, <2>2, <2>4 DEF PackRow, TypeInv, TypeOK
<1>2. CASE PackRunsOut
  <2>1. pending_seq_id \in Row
    BY <1>2, ChunkFacts DEF PackRunsOut, CanPack, PackStops, TypeInv
  <2>2. Len(free_blocks) \in 0..Len(free_blocks)
    BY DEF TypeInv, TypeOK
  <2> QED BY <1>2, <2>1, <2>2 DEF PackRunsOut
<1>3. CASE EnsureRow
  <2>1. PICK r \in todo : \/ DecodeBlocks(r) <= Len(free_blocks) /\ Take(r, DecodeBlocks(r))
                          \/ Take(r, Len(free_blocks))
    BY <1>3 DEF EnsureRow
  <2>2. r \in Row /\ cache_seqlens[r] \in Nat
    BY DEF TypeInv, TypeOK
  <2>3. cache_seqlens[r] \div BlockSize + 1 \in Nat
    BY <2>2, DivFacts, Constants
  <2>4. DecodeBlocks(r) \in Nat
    BY <2>2, <2>3, MissingFacts DEF DecodeBlocks, TypeInv
  <2>5. Len(free_blocks) \in Nat
    BY DEF TypeInv, TypeOK
  <2>6. UNCHANGED sizes
    BY <1>3 DEF EnsureRow
  <2> QED BY <2>1, <2>2, <2>4, <2>5, <2>6
<1>4. CASE FreeRow
  BY <1>4 DEF FreeRow, TypeInv, TypeOK
<1>5. CASE RefillSome \/ RefillEnds \/ BuildEnds \/ RejectTooLong \/ PrefillChunk \/ CancelRows \/ LoopTest
  BY <1>5 DEF RefillSome, Refill, RefillEnds, BuildEnds, RejectTooLong, PrefillChunk, CancelRows, LoopTest
<1>6. CASE SampleSome \/ DecodeSome
  BY <1>6 DEF SampleSome, PrefillSample, DecodeSome, Decode
<1>7. CASE (\E r \in Row : RaiseCancel(r)) \/ Finished \/ UNCHANGED vars
  BY <1>7 DEF RaiseCancel, Finished, vars
<1> QED BY <1>1, <1>2, <1>3, <1>4, <1>5, <1>6, <1>7 DEF Next, LoopStep

LEMMA NextPool == TypeInv /\ PoolOK /\ [Next]_vars => PoolOK'
<1> SUFFICES ASSUME TypeInv, PoolOK, [Next]_vars PROVE PoolOK'
  OBVIOUS
<1>1. TypeOK /\ UNCHANGED num_cache_blocks
  BY PoolMoves DEF TypeInv, sizes
<1>2. CASE UNCHANGED pool
  <2>1. UNCHANGED <<free_blocks, seq_to_blocks, Block>>
    BY <1>1, <1>2 DEF pool, Block
  <2> QED BY <2>1 DEF PoolOK, FreeDistinct, HeldDistinct, FreeNotHeld, FreeOrHeld
<1> QED BY <1>1, <1>2, PoolMoves, PoolTake, PoolRelease

\* Every block is always in exactly one place, whatever the sizes (also those
\* that run out), the arrivals, the samples and the cancellations.
THEOREM BlocksAreConserved == Spec => []BlocksConserved
<1>1. TypeInv /\ PoolOK => BlocksConserved
  BY PoolConserved DEF TypeInv
<1> QED BY InitType, NextType, InitPool, NextPool, <1>1, PTL DEF Spec

-----------------------------------------------------------------------------
(* A loop over rows ends with no row left to visit.                        *)

QuietOK ==
  /\ pc \notin {"ensure", "free_prefilled", "free_cancelled", "free_decoded", "decode_exhausted"} => todo = {}
  /\ pc = "done" => active_rows = {}

LEMMA NextQuiet == QuietOK /\ [Next]_vars => QuietOK'
<1> SUFFICES ASSUME QuietOK, [Next]_vars PROVE QuietOK'
  OBVIOUS
<1>1. CASE RefillSome \/ RefillEnds \/ BuildEnds \/ RejectTooLong \/ PackRow \/ PackRunsOut \/ PrefillChunk
  BY <1>1 DEF QuietOK, RefillSome, Refill, RefillEnds, BuildEnds, RejectTooLong, PackRow, CanPack,
              PackRunsOut, PrefillChunk
<1>2. CASE SampleSome
  BY <1>2 DEF QuietOK, SampleSome, PrefillSample
<1>3. CASE FreeRow
  BY <1>3 DEF QuietOK, FreeRow
<1>4. CASE CancelRows
  BY <1>4 DEF QuietOK, CancelRows
<1>5. CASE LoopTest
  BY <1>5 DEF QuietOK, LoopTest
<1>6. CASE EnsureRow
  BY <1>6 DEF QuietOK, EnsureRow
<1>7. CASE DecodeSome
  BY <1>7 DEF QuietOK, DecodeSome, Decode
<1>8. CASE (\E r \in Row : RaiseCancel(r)) \/ Finished \/ UNCHANGED vars
  BY <1>8 DEF QuietOK, RaiseCancel, Finished, vars
<1> QED BY <1>1, <1>2, <1>3, <1>4, <1>5, <1>6, <1>7, <1>8 DEF Next, LoopStep

-----------------------------------------------------------------------------
(* A pool with a full table for every running row never runs out.          *)

\* No more rows hold blocks than may run, none holds more than a full table,
\* and a row that is decoded, or about to be, holds its blocks.
BoundsOK ==
  /\ Cardinality(DOMAIN seq_to_blocks) <= max_running_seqs
  /\ \A r \in DOMAIN seq_to_blocks : Len(seq_to_blocks[r]) <= MaxBlocksPerSeq
  /\ active_rows \cup last_active \subseteq DOMAIN seq_to_blocks

LEMMA HoldersFinite ==
  ASSUME TypeOK
  PROVE  /\ IsFiniteSet(DOMAIN seq_to_blocks)
         /\ Cardinality(DOMAIN seq_to_blocks) \in Nat
         /\ \A r \in Row : /\ IsFiniteSet(DOMAIN seq_to_blocks \cup {r})
                           /\ r \notin DOMAIN seq_to_blocks =>
                                Cardinality(DOMAIN seq_to_blocks \cup {r})
                                  = Cardinality(DOMAIN seq_to_blocks) + 1
                           /\ Cardinality(DOMAIN seq_to_blocks \ {r}) <= Cardinality(DOMAIN seq_to_blocks)
<1>1. IsFiniteSet(Row)
  <2>1. Len(prompts) \in Nat
    BY DEF TypeOK
  <2> QED BY <2>1, FS_Interval DEF Row
<1>2. IsFiniteSet(DOMAIN seq_to_blocks)
  BY <1>1, FS_Subset DEF TypeOK
<1> QED BY <1>2, FS_CardinalityType, FS_AddElement, FS_Subset

\* The blocks of the pool, counted at their places: with n blocks still due to
\* row r and fewer than n free, all of them fit in the tables of max_running_seqs
\* rows with a slot to spare, so the pool has fewer blocks than those tables.
LEMMA Room ==
  ASSUME TypeOK, PoolOK, NEW r \in Row, NEW n \in Nat,
         Cardinality(DOMAIN seq_to_blocks \cup {r}) <= max_running_seqs,
         \A q \in DOMAIN seq_to_blocks : Len(seq_to_blocks[q]) <= MaxBlocksPerSeq,
         MaxBlocksPerSeq \in Nat,
         Len(Held(r)) + n <= MaxBlocksPerSeq,
         num_cache_blocks >= max_running_seqs * MaxBlocksPerSeq
  PROVE  n <= Len(free_blocks)
<1> DEFINE D == DOMAIN seq_to_blocks \cup {r}
           M == MaxBlocksPerSeq
           h == Len(Held(r))
           k == Len(free_blocks)
           T == (D \X (1..M)) \ {<<r, M>>}
<1> SUFFICES ASSUME k < n PROVE FALSE
  BY DEF TypeOK
<1>1. k \in Nat /\ h \in Nat /\ M \in Nat
  BY SMTT(30) DEF TypeOK, Held
<1>2. M > 0 /\ <<r, M>> \in D \X (1..M)
  BY <1>1
<1> DEFINE FreeAt(b, p) == \E i \in 1..k : free_blocks[i] = b /\ p = <<r, h + i>>
           HeldAt(b, p) == \E q \in DOMAIN seq_to_blocks :
                             \E j \in 1..Len(seq_to_blocks[q]) : seq_to_blocks[q][j] = b /\ p = <<q, j>>
<1>3. \A b \in Block : \E p \in T : FreeAt(b, p) \/ HeldAt(b, p)
  <2>1. ASSUME NEW b \in Block, NEW i \in 1..k, free_blocks[i] = b PROVE \E p \in T : FreeAt(b, p)
    <3>1. h + i \in 1..M /\ h + i # M
      BY <1>1
    <3> WITNESS <<r, h + i>> \in T
    <3> QED BY <2>1
  <2>2. ASSUME NEW b \in Block, NEW q \in DOMAIN seq_to_blocks, NEW j \in 1..Len(seq_to_blocks[q]),
               seq_to_blocks[q][j] = b
        PROVE  \E p \in T : HeldAt(b, p)
    <3>1. j \in 1..M
      BY <1>1
    <3>2. q = r => j # M
      BY <1>1 DEF Held
    <3>3. <<q, j>> \in T
      BY <3>1, <3>2
    <3> WITNESS <<q, j>> \in T
    <3> QED BY <2>2
  <2> QED BY <2>1, <2>2 DEF PoolOK, FreeOrHeld
<1> HIDE DEF FreeAt, HeldAt, T
<1> DEFINE place == [b \in Block |-> CHOOSE p \in T : FreeAt(b, p) \/ HeldAt(b, p)]
<1>4. \A b \in Block : place[b] \in T /\ (FreeAt(b, place[b]) \/ HeldAt(b, place[b]))
  <2>1. ASSUME NEW b \in Block
        PROVE  LET p == CHOOSE p \in T : FreeAt(b, p) \/ HeldAt(b, p)
               IN  p \in T /\ (FreeAt(b, p) \/ HeldAt(b, p))
    BY <1>3, Zenon
  <2> QED BY <2>1
<1> HIDE DEF place
<1>5. \A b, c \in Block : place[b] = place[c] => b = c
  <2> SUFFICES ASSUME NEW b \in Block, NEW c \in Block, NEW p, FreeAt(b, p) \/ HeldAt(b, p),
                      FreeAt(c, p) \/ HeldAt(c, p)
               PROVE  b = c
    BY <1>4
  <2>1. CASE FreeAt(b, p) /\ FreeAt(c, p)
    BY <1>1, <2>1 DEF FreeAt
  <2>2. CASE HeldAt(b, p) /\ HeldAt(c, p)
    BY <2>2 DEF HeldAt
  <2>3. ASSUME NEW x, NEW y, FreeAt(x, p), HeldAt(y, p) PROVE FALSE
    <3>1. PICK i \in 1..k : p = <<r, h + i>>
      BY <2>3 DEF FreeAt
    <3>2. PICK q \in DOMAIN seq_to_blocks : \E j \in 1..Len(seq_to_blocks[q]) : p = <<q, j>>
      BY <2>3 DEF HeldAt
    <3>3. q = r /\ h + i \in 1..Len(seq_to_blocks[q])
      BY <3>1, <3>2
    <3> QED BY <1>1, <3>3 DEF Held
  <2> QED BY <2>1, <2>2, <2>3
<1>6. place \in Injection(Block, T)
  BY <1>4, <1>5 DEF Injection, IsInjective, place
<1>7. IsFiniteSet(D \X (1..M)) /\ Cardinality(D \X (1..M)) = Cardinality(D) * M
  <2>1. IsFiniteSet(D)
    BY HoldersFinite
  <2>2. IsFiniteSet(1..M) /\ Cardinality(1..M) = M
    BY <1>1, <1>2, FS_Interval
  <2> HIDE DEF D, M
  <2> QED BY <2>1, <2>2, FS_Product
<1>8. IsFiniteSet(T) /\ Cardinality(T) = Cardinality(D) * M - 1
  <2> DEFINE all == D \X (1..M)
  <2>1. IsFiniteSet(all) /\ Cardinality(all) = Cardinality(D) * M /\ <<r, M>> \in all
    BY <1>2, <1>7
  <2>2. T = all \ {<<r, M>>}
    BY DEF T
  <2> HIDE DEF all
  <2>3. /\ IsFiniteSet(all \ {<<r, M>>})
        /\ Cardinality(all \ {<<r, M>>}) = Cardinality(all) - 1
    BY <2>1, FS_RemoveElement
  <2> QED BY <2>1, <2>2, <2>3
<1>9. IsFiniteSet(Block) /\ Cardinality(Block) = num_cache_blocks
  <2>1. num_cache_blocks \in Nat \ {0}
    BY DEF TypeOK
  <2>2. num_cache_blocks - 1 \in Int /\ 0 \in Int
    BY <2>1
  <2>3. /\ IsFiniteSet(0..num_cache_blocks - 1)
        /\ Cardinality(0..num_cache_blocks - 1) =
             IF 0 > num_cache_blocks - 1 THEN 0 ELSE (num_cache_blocks - 1) - 0 + 1
    BY <2>2, FS_Interval
  <2> QED BY <2>1, <2>3 DEF Block
<1>10. num_cache_blocks <= Cardinality(D) * M - 1
  BY <1>6, <1>8, <1>9, FS_Injection
<1>11. Cardinality(D) * M <= max_running_seqs * M
  BY <1>1, HoldersFinite, FS_CardinalityType, ProductMonotone DEF TypeOK
<1> QED
  <2>1. Cardinality(D) * M \in Int /\ max_running_seqs * M \in Int
    <3>1. Cardinality(D) \in Nat /\ max_running_seqs \in Nat
      BY HoldersFinite, FS_CardinalityType DEF TypeOK
    <3> QED BY <1>1, <3>1
  <2>2. num_cache_blocks \in Int
    BY DEF TypeOK
  <2> QED BY <1>10, <1>11, <2>1, <2>2
LEMMA TableWidth ==
  ASSUME TypeOK
  PROVE  /\ MaxBlocksPerSeq \in Nat
         /\ \A n \in Nat : n <= max_cache_len => CeilDiv(n, BlockSize) \in Nat /\ CeilDiv(n, BlockSize) <= MaxBlocksPerSeq
         /\ \A n \in Nat : n < max_cache_len => n \div BlockSize + 1 <= MaxBlocksPerSeq
<1>1. max_cache_len \in Nat
  BY DEF TypeOK
<1> QED BY <1>1, CeilDivFacts, Constants DEF MaxBlocksPerSeq

\* What the pending row asks for fits in its table, and it may run.
LEMMA ChunkFits ==
  ASSUME TypeInv, BoundsOK, CanPack
  PROVE  /\ pending_seq_id \in Row
         /\ ChunkBlocks \in Nat
         /\ Len(Held(pending_seq_id)) \in Nat
         /\ Len(Held(pending_seq_id)) + ChunkBlocks <= MaxBlocksPerSeq
         /\ Cardinality(DOMAIN seq_to_blocks \cup {pending_seq_id}) <= max_running_seqs
<1>1. pc = "pack" /\ HasPending /\ ~TooLong /\ ChunkLen > 0 /\ ~RunningFull
  BY DEF CanPack, PackStops
<1>2. /\ pending_seq_id \in Row
      /\ prompts[pending_seq_id] \in Nat
      /\ ChunkLen \in Int
      /\ cursor \in Nat
      /\ cursor + ChunkLen <= prompts[pending_seq_id]
  BY <1>1, ChunkFacts DEF TypeInv, TypeOK
<1>3. cursor + ChunkLen \in Nat /\ cursor + ChunkLen <= max_cache_len
  <2>1. max_cache_len \in Nat /\ MaxNewTokens \in Nat
    BY Constants DEF TypeInv, TypeOK
  <2>2. ~(prompts[pending_seq_id] + MaxNewTokens > max_cache_len)
    BY <1>1 DEF TooLong
  <2> QED BY <1>1, <1>2, <2>1, <2>2
<1> DEFINE required == CeilDiv(cursor + ChunkLen, BlockSize)
<1>4. required \in Nat /\ required <= MaxBlocksPerSeq /\ MaxBlocksPerSeq \in Nat
  BY <1>3, TableWidth DEF TypeInv
<1>5. Len(Held(pending_seq_id)) \in Nat /\ Len(Held(pending_seq_id)) <= MaxBlocksPerSeq
  <2>1. CASE pending_seq_id \in DOMAIN seq_to_blocks
    BY <2>1, <1>2, MissingFacts DEF Held, BoundsOK, TypeInv, TypeOK
  <2>2. CASE pending_seq_id \notin DOMAIN seq_to_blocks
    BY <2>2, <1>4 DEF Held
  <2> QED BY <2>1, <2>2
<1>6. ChunkBlocks \in Nat /\ Len(Held(pending_seq_id)) + ChunkBlocks <= MaxBlocksPerSeq
  <2> HIDE DEF required
  <2>1. ChunkBlocks = Missing(pending_seq_id, required)
    BY DEF ChunkBlocks, required
  <2> QED BY <1>4, <1>5, <2>1 DEF Missing
<1>7. Cardinality(DOMAIN seq_to_blocks \cup {pending_seq_id}) <= max_running_seqs
  <2>1. CASE pending_seq_id \in DOMAIN seq_to_blocks
    <3>1. DOMAIN seq_to_blocks \cup {pending_seq_id} = DOMAIN seq_to_blocks
      BY <2>1
    <3> QED BY <3>1 DEF BoundsOK
  <2>2. CASE pending_seq_id \notin DOMAIN seq_to_blocks
    <3>1. ~(Cardinality(DOMAIN seq_to_blocks) >= max_running_seqs)
      BY <1>1, <2>2 DEF RunningFull
    <3>2. /\ Cardinality(DOMAIN seq_to_blocks) \in Nat
          /\ max_running_seqs \in Nat
          /\ Cardinality(DOMAIN seq_to_blocks \cup {pending_seq_id}) = Cardinality(DOMAIN seq_to_blocks) + 1
      BY <1>2, <2>2, HoldersFinite DEF TypeInv, TypeOK
    <3> QED BY <3>1, <3>2
  <2> QED BY <2>1, <2>2
<1> QED BY <1>2, <1>5, <1>6, <1>7

\* What a decoded row asks for fits in its table.
LEMMA DecodeFits ==
  ASSUME TypeInv, BoundsOK, NEW r \in active_rows
  PROVE  /\ r \in DOMAIN seq_to_blocks
         /\ DecodeBlocks(r) \in Nat
         /\ Len(Held(r)) \in Nat
         /\ Len(Held(r)) + DecodeBlocks(r) <= MaxBlocksPerSeq
<1>1. r \in DOMAIN seq_to_blocks /\ r \in Row
  BY DEF BoundsOK, TypeInv, TypeOK
<1>2. cache_seqlens[r] \in Nat /\ cache_seqlens[r] < max_cache_len
  <2>1. prompts[r] \in Nat
    BY <1>1, Constants, ElementOfSeq DEF TypeInv, TypeOK, Row
  <2>2. /\ cache_seqlens[r] \in Nat
        /\ response_lens[r] \in Nat
        /\ max_cache_len \in Nat
    BY <1>1 DEF TypeInv, TypeOK
  <2>3. /\ response_lens[r] < MaxNewTokens
        /\ cache_seqlens[r] = prompts[r] + response_lens[r] - 1
        /\ prompts[r] + MaxNewTokens <= max_cache_len
    BY DEF TypeInv, RowsOK
  <2> QED BY <2>1, <2>2, <2>3, Constants
<1> DEFINE required == cache_seqlens[r] \div BlockSize + 1
<1>3. required \in Nat /\ required <= MaxBlocksPerSeq /\ MaxBlocksPerSeq \in Nat
  <2>1. required <= MaxBlocksPerSeq /\ MaxBlocksPerSeq \in Nat
    BY <1>2, TableWidth DEF TypeInv
  <2>2. cache_seqlens[r] \div BlockSize \in Nat
    BY <1>2, DivFacts, Constants
  <2> QED BY <2>1, <2>2
<1>4. Len(Held(r)) \in Nat /\ Len(Held(r)) <= MaxBlocksPerSeq
  BY <1>1, MissingFacts DEF Held, BoundsOK, TypeInv, TypeOK
<1>5. DecodeBlocks(r) \in {0, Missing(r, required)}
  BY DEF DecodeBlocks
<1> HIDE DEF required
<1> QED BY <1>1, <1>3, <1>4, <1>5 DEF Missing

\* Taking no more than fits keeps the bounds.
LEMMA BoundsTake ==
  ASSUME TypeInv, BoundsOK, NEW r \in Row, NEW n \in 0..Len(free_blocks), Take(r, n),
         UNCHANGED sizes,
         Cardinality(DOMAIN seq_to_blocks \cup {r}) <= max_running_seqs,
         Len(Held(r)) + n <= MaxBlocksPerSeq,
         active_rows' \cup last_active' \subseteq active_rows \cup last_active \cup {r}
  PROVE  BoundsOK'
<1>1. DOMAIN seq_to_blocks' = DOMAIN seq_to_blocks \cup {r}
  BY TakeType DEF TypeInv
<1>2. UNCHANGED <<max_running_seqs, MaxBlocksPerSeq>>
  BY DEF sizes, MaxBlocksPerSeq
<1>3. Len(seq_to_blocks'[r]) = Len(Held(r)) + n
  BY TakeFacts DEF TypeInv, IsFront, IsConcat
<1>4. \A q \in DOMAIN seq_to_blocks \ {r} : seq_to_blocks'[q] = seq_to_blocks[q]
  BY TakeFacts DEF TypeInv
<1>5. \A q \in DOMAIN seq_to_blocks' : Len(seq_to_blocks'[q]) <= MaxBlocksPerSeq
  BY <1>1, <1>3, <1>4 DEF BoundsOK
<1> QED BY <1>1, <1>2, <1>5 DEF BoundsOK

LEMMA NextBounds == TypeInv /\ BoundsOK /\ [Next]_vars => BoundsOK'
<1> SUFFICES ASSUME TypeInv, BoundsOK, [Next]_vars PROVE BoundsOK'
  OBVIOUS
<1>1. UNCHANGED sizes
  BY PoolMoves
<1>2. ASSUME UNCHANGED pool, active_rows' \cup last_active' \subseteq active_rows \cup last_active
      PROVE  BoundsOK'
  BY <1>1, <1>2 DEF BoundsOK, pool, sizes, MaxBlocksPerSeq
<1>3. CASE PackRow
  <2>1. /\ CanPack
        /\ ChunkBlocks <= Len(free_blocks)
        /\ Take(pending_seq_id, ChunkBlocks)
        /\ active_rows' = active_rows
        /\ last_active' \subseteq last_active \cup {pending_seq_id}
    BY <1>3 DEF PackRow
  <2>2. ChunkBlocks \in 0..Len(free_blocks)
    BY <2>1, ChunkFits DEF TypeInv, TypeOK
  <2> QED BY <1>1, <2>1, <2>2, ChunkFits, BoundsTake
<1>4. CASE PackRunsOut
  <2>1. /\ CanPack
        /\ ChunkBlocks > Len(free_blocks)
        /\ Take(pending_seq_id, Len(free_blocks))
        /\ active_rows' = active_rows
        /\ last_active' = last_active
    BY <1>4 DEF PackRunsOut, payload
  <2>2. Len(free_blocks) \in 0..Len(free_blocks) /\ MaxBlocksPerSeq \in Nat
    BY TableWidth DEF TypeInv, TypeOK
  <2>3. Len(Held(pending_seq_id)) + Len(free_blocks) <= MaxBlocksPerSeq
    BY <2>1, <2>2, ChunkFits
  <2> QED BY <1>1, <2>1, <2>2, <2>3, ChunkFits, BoundsTake
<1>5. CASE EnsureRow
  <2>1. PICK r \in todo : \/ DecodeBlocks(r) <= Len(free_blocks) /\ Take(r, DecodeBlocks(r))
                          \/ DecodeBlocks(r) > Len(free_blocks) /\ Take(r, Len(free_blocks))
    <3>1. PICK r \in todo : IF DecodeBlocks(r) <= Len(free_blocks)
                              THEN Take(r, DecodeBlocks(r)) ELSE Take(r, Len(free_blocks))
      BY <1>5 DEF EnsureRow
    <3>2. r \in active_rows
      BY <1>5 DEF EnsureRow, TypeInv, RowsOK
    <3>3. DecodeBlocks(r) \in Nat /\ Len(free_blocks) \in Nat
      BY <3>2, DecodeFits, SMTT(30) DEF TypeInv, TypeOK
    <3> QED BY <3>1, <3>3
  <2>2. r \in active_rows /\ r \in Row /\ pc = "ensure"
    BY <1>5 DEF EnsureRow, TypeInv, TypeOK, RowsOK
  <2>3. /\ Len(free_blocks) \in Nat
        /\ MaxBlocksPerSeq \in Nat
        /\ DecodeBlocks(r) \in Nat
        /\ Len(Held(r)) \in Nat
        /\ Len(Held(r)) + DecodeBlocks(r) <= MaxBlocksPerSeq
    <3>1. Len(free_blocks) \in Nat /\ MaxBlocksPerSeq \in Nat
      BY TableWidth, SMTT(30) DEF TypeInv, TypeOK
    <3> QED BY <2>2, <3>1, DecodeFits
  <2>4. PICK n \in 0..Len(free_blocks) : Take(r, n) /\ Len(Held(r)) + n <= MaxBlocksPerSeq
    BY <2>1, <2>3
  <2>5. DOMAIN seq_to_blocks \cup {r} = DOMAIN seq_to_blocks
    BY <2>2, DecodeFits
  <2>6. Cardinality(DOMAIN seq_to_blocks \cup {r}) <= max_running_seqs
    BY <2>5 DEF BoundsOK
  <2>7. active_rows' = active_rows /\ last_active' = last_active
    BY <1>5 DEF EnsureRow, payload
  <2> QED BY <1>1, <2>2, <2>4, <2>6, <2>7, BoundsTake
<1>6. CASE FreeRow
  <2>1. PICK r \in todo : Release(r)
    BY <1>6 DEF FreeRow
  <2>2. r \in Row /\ r \notin active_rows /\ last_active = {}
    BY <1>6 DEF FreeRow, TypeInv, TypeOK, RowsOK
  <2>3. /\ DOMAIN seq_to_blocks' = DOMAIN seq_to_blocks \ {r}
        /\ \A q \in DOMAIN seq_to_blocks' : seq_to_blocks'[q] = seq_to_blocks[q]
    BY <2>1, <2>2, ReleaseType, ReleaseFacts DEF TypeInv
  <2>4. Cardinality(DOMAIN seq_to_blocks') <= max_running_seqs
    <3>1. /\ Cardinality(DOMAIN seq_to_blocks \ {r}) <= Cardinality(DOMAIN seq_to_blocks)
          /\ Cardinality(DOMAIN seq_to_blocks) \in Nat
      BY <2>2, HoldersFinite DEF TypeInv
    <3>2. Cardinality(DOMAIN seq_to_blocks \ {r}) \in Nat
      BY <2>2, HoldersFinite, FS_Subset, FS_CardinalityType DEF TypeInv
    <3>3. max_running_seqs \in Nat
      BY DEF TypeInv, TypeOK
    <3> QED BY <2>3, <3>1, <3>2, <3>3 DEF BoundsOK
  <2>5. active_rows' = active_rows /\ last_active' = last_active
    BY <1>6 DEF FreeRow, payload
  <2>6. UNCHANGED <<max_running_seqs, MaxBlocksPerSeq>>
    BY <1>1 DEF sizes, MaxBlocksPerSeq
  <2> QED BY <2>2, <2>3, <2>4, <2>5, <2>6 DEF BoundsOK
<1>7. CASE RefillSome \/ RefillEnds \/ BuildEnds \/ RejectTooLong \/ PrefillChunk \/ CancelRows \/ LoopTest
  BY <1>2, <1>7 DEF RefillSome, Refill, RefillEnds, BuildEnds, RejectTooLong, PrefillChunk, CancelRows, LoopTest, payload
<1>8. CASE SampleSome \/ DecodeSome
  BY <1>2, <1>8 DEF SampleSome, PrefillSample, DecodeSome, Decode, payload
<1>9. CASE (\E r \in Row : RaiseCancel(r)) \/ Finished \/ UNCHANGED vars
  BY <1>2, <1>9 DEF RaiseCancel, Finished, vars, payload
<1> QED BY <1>3, <1>4, <1>5, <1>6, <1>7, <1>8, <1>9 DEF Next, LoopStep

LEMMA InitBounds == Init => BoundsOK
<1> SUFFICES ASSUME Init PROVE BoundsOK
  OBVIOUS
<1>1. DOMAIN seq_to_blocks = {} /\ active_rows = {} /\ last_active = {}
  BY DEF Init
<1>2. Cardinality(DOMAIN seq_to_blocks) = 0
  BY <1>1, FS_EmptySet
<1> QED BY <1>1, <1>2, InitSizes DEF BoundsOK

LEMMA NextExhaustion ==
  TypeInv /\ PoolOK /\ BoundsOK /\ NoExhaustion /\ [Next]_vars => NoExhaustion'
<1> SUFFICES ASSUME TypeInv, PoolOK, BoundsOK, NoExhaustion, [Next]_vars,
                    num_cache_blocks' >= max_running_seqs' * MaxBlocksPerSeq'
             PROVE  pc' \notin {"prefill_exhausted", "decode_exhausted"}
  BY DEF NoExhaustion
<1>1. num_cache_blocks >= max_running_seqs * MaxBlocksPerSeq
  BY PoolMoves DEF sizes, MaxBlocksPerSeq
<1>2. pc \notin {"prefill_exhausted", "decode_exhausted"}
  BY <1>1 DEF NoExhaustion
<1>3. ~PackRunsOut
  <2> SUFFICES ASSUME PackRunsOut PROVE FALSE
    OBVIOUS
  <2>1. CanPack /\ ChunkBlocks > Len(free_blocks)
    BY DEF PackRunsOut
  <2>2. MaxBlocksPerSeq \in Nat /\ Len(free_blocks) \in Nat
    BY TableWidth DEF TypeInv, TypeOK
  <2>3. ChunkBlocks <= Len(free_blocks)
    BY <1>1, <2>1, <2>2, ChunkFits, Room DEF TypeInv, BoundsOK
  <2> QED BY <2>1, <2>2, <2>3, ChunkFits
<1>4. CASE EnsureRow
  <2>1. PICK r \in todo : DecodeBlocks(r) <= Len(free_blocks) => pc' = pc
    BY <1>4 DEF EnsureRow
  <2>2. r \in active_rows /\ r \in Row
    BY <1>4 DEF EnsureRow, TypeInv, TypeOK, RowsOK
  <2>3. Cardinality(DOMAIN seq_to_blocks \cup {r}) <= max_running_seqs
    <3>1. DOMAIN seq_to_blocks \cup {r} = DOMAIN seq_to_blocks
      BY <2>2, DecodeFits
    <3> QED BY <3>1 DEF BoundsOK
  <2>4. DecodeBlocks(r) <= Len(free_blocks)
    BY <1>1, <2>2, <2>3, DecodeFits, TableWidth, Room DEF TypeInv, BoundsOK
  <2> QED BY <1>2, <2>1, <2>4
<1>5. CASE PackRow
  BY <1>5 DEF PackRow
<1>6. CASE FreeRow
  BY <1>2, <1>6 DEF FreeRow
<1>7. CASE RefillSome \/ RefillEnds \/ BuildEnds \/ RejectTooLong \/ PrefillChunk \/ CancelRows \/ LoopTest
  BY <1>2, <1>7 DEF RefillSome, Refill, RefillEnds, BuildEnds, RejectTooLong, PrefillChunk, CancelRows, LoopTest
<1>8. CASE SampleSome \/ DecodeSome
  BY <1>8 DEF SampleSome, PrefillSample, DecodeSome, Decode
<1>9. CASE (\E r \in Row : RaiseCancel(r)) \/ Finished \/ UNCHANGED vars
  BY <1>2, <1>9 DEF RaiseCancel, Finished, vars
<1> QED BY <1>3, <1>4, <1>5, <1>6, <1>7, <1>8, <1>9 DEF Next, LoopStep

\* With a full table for every running row neither RuntimeError of
\* rollout_state.py can be raised.
THEOREM NeverExhausted == Spec => []NoExhaustion
<1>1. Init => NoExhaustion
  BY DEF Init, NoExhaustion
<1> QED BY InitType, NextType, InitPool, NextPool, InitBounds, NextBounds, NextExhaustion, <1>1, PTL DEF Spec
\* The sizes that generate_rollout and its async variant compute are such: a
\* rollout started by the engine never runs out of blocks.
THEOREM EngineNeverExhausts ==
  GivenSizes = {} => (Spec => [](pc \notin {"prefill_exhausted", "decode_exhausted"}))
<1> SUFFICES ASSUME GivenSizes = {}
             PROVE  Spec => [](pc \notin {"prefill_exhausted", "decode_exhausted"})
  OBVIOUS
<1> DEFINE Sized == num_cache_blocks >= max_running_seqs * MaxBlocksPerSeq
<1>1. Init => Sized
  <2> SUFFICES ASSUME Init PROVE Sized
    OBVIOUS
  <2>1. num_cache_blocks = max_running_seqs * MaxBlocksPerSeq
    BY DEF Init, EngineSized
  <2> QED BY <2>1, InitSizes
<1>2. TypeInv /\ Sized /\ [Next]_vars => Sized'
  BY PoolMoves DEF sizes, MaxBlocksPerSeq
<1>3. Sized /\ NoExhaustion => pc \notin {"prefill_exhausted", "decode_exhausted"}
  BY DEF NoExhaustion
<1> QED BY InitType, NextType, <1>1, <1>2, <1>3, NeverExhausted, PTL DEF Spec

-----------------------------------------------------------------------------
(***************************************************************************)
(* The rows: which are served, and what no later step does to them.        *)
(***************************************************************************)

-----------------------------------------------------------------------------
(* A row has a response exactly when its prompt was sampled for.           *)

SampledOK ==
  /\ \A r \in Row : r \in last_active \/ pending_seq_id <= r => response_lens[r] = 0
  /\ \A r \in Row \ last_active : r < pending_seq_id => response_lens[r] >= 1

\* Steps that neither write responses nor admit rows.
LEMMA SampledKept ==
  ASSUME SampledOK, UNCHANGED <<prompts, response_lens, last_active, pending_seq_id>>
  PROVE  SampledOK'
BY DEF SampledOK, Row

LEMMA InitSampled == Init => SampledOK
<1> SUFFICES ASSUME Init PROVE SampledOK
  OBVIOUS
<1>1. prompts \in Seq(PromptLens) /\ last_active = {} /\ pending_seq_id = 1
  BY InitSizes DEF Init
<1>2. response_lens = Zeros(Len(prompts))
  BY DEF Init
<1> QED BY <1>1, <1>2 DEF SampledOK, Row, Zeros

\* The second part of two functions put one behind the other.
LEMMA ConcatSecond ==
  ASSUME NEW S, NEW n \in Nat, NEW k \in Nat, NEW f \in [1..n -> S], NEW g \in [1..k -> S],
         NEW i \in 1..k
  PROVE  (f \o g)[n + i] = g[i]
<1>1. f \in Seq(S) /\ Len(f) = n /\ g \in Seq(S) /\ Len(g) = k
  OBVIOUS
<1>2. IsConcat(f \o g, f, g)
  BY <1>1, JoinFacts
<1> QED BY <1>1, <1>2 DEF IsConcat

\* What a refill does: new rows without a response behind the old ones.
LEMMA RefillFacts ==
  ASSUME TypeInv, RefillSome
  PROVE  /\ Len(prompts) \in Nat /\ Len(prompts') \in Nat /\ Len(prompts) <= Len(prompts')
         /\ \A r \in Row : /\ prompts'[r] = prompts[r]
                           /\ response_lens'[r] = response_lens[r]
                           /\ cache_seqlens'[r] = cache_seqlens[r]
                           /\ finish_reason'[r] = finish_reason[r]
         /\ \A r \in Row' \ Row : response_lens'[r] = 0
         /\ pc = "refill"
         /\ UNCHANGED <<sizes, pool, admission, payload, active_rows, cancel_flags, sample_step, pc, todo>>
<1>1. PICK lens \in Batches(MaxRows - Len(prompts)) : Refill(lens)
  BY DEF RefillSome
<1>2. lens \in Seq(PromptLens)
  <2>1. PICK k \in 0..MaxRows - Len(prompts) : lens \in [1..k -> PromptLens]
    BY <1>1 DEF Batches
  <2>2. k \in Nat
    BY SizesAssumption DEF TypeInv, TypeOK
  <2> QED BY <2>1, <2>2
<1>3. /\ AppendPrompts(lens) /\ pc = "refill"
      /\ UNCHANGED <<sizes, pool, admission, payload, active_rows, cancel_flags, sample_step, pc, todo>>
  BY <1>1 DEF Refill
<1>4. /\ Len(prompts) \in Nat /\ Len(lens) \in Nat /\ Len(prompts') = Len(prompts) + Len(lens)
      /\ \A r \in Row : /\ prompts'[r] = prompts[r]
                        /\ response_lens'[r] = response_lens[r]
                        /\ cache_seqlens'[r] = cache_seqlens[r]
                        /\ finish_reason'[r] = finish_reason[r]
  BY <1>2, <1>3, AppendType, SMTT(30) DEF TypeInv, TypeOK
<1>5. ASSUME NEW r \in Row' \ Row PROVE response_lens'[r] = 0
  <2>1. response_lens \in [1..Len(prompts) -> 0..MaxNewTokens]
    BY DEF TypeInv, TypeOK, Row
  <2>2. Zeros(Len(lens)) \in [1..Len(lens) -> 0..MaxNewTokens]
    BY SizesAssumption DEF Zeros
  <2>3. response_lens' = response_lens \o Zeros(Len(lens))
    BY <1>3 DEF AppendPrompts
  <2>4. r - Len(prompts) \in 1..Len(lens) /\ Len(prompts) + (r - Len(prompts)) = r
    BY <1>4 DEF Row
  <2>5. response_lens'[Len(prompts) + (r - Len(prompts))] = Zeros(Len(lens))[r - Len(prompts)]
    BY <1>4, <2>1, <2>2, <2>3, <2>4, ConcatSecond
  <2> QED BY <2>4, <2>5 DEF Zeros
<1> QED BY <1>3, <1>4, <1>5

LEMMA NextSampled == TypeInv /\ SampledOK /\ [Next]_vars => SampledOK'
<1> SUFFICES ASSUME TypeInv, SampledOK, [Next]_vars PROVE SampledOK'
  OBVIOUS
<1>1. CASE RefillSome
  <2>1. UNCHANGED <<last_active, pending_seq_id>>
    BY <1>1, RefillFacts DEF payload, admission
  <2>2. pending_seq_id \in Nat /\ pending_seq_id <= Len(prompts) + 1
    BY DEF TypeInv, TypeOK
  <2>3. last_active \subseteq Row /\ Row \subseteq Row' /\ \A r \in Row' \ Row : r > Len(prompts)
    <3>1. Len(prompts) \in Nat /\ Len(prompts') \in Nat /\ Len(prompts) <= Len(prompts')
      BY <1>1, RefillFacts
    <3> QED BY <3>1 DEF TypeInv, TypeOK, Row
  <2> QED BY <1>1, <2>1, <2>2, <2>3, RefillFacts DEF SampledOK, Row
<1>2. CASE PackRow
  <2>1. /\ UNCHANGED <<prompts, response_lens>>
        /\ \/ last_active' = last_active \cup {pending_seq_id} /\ pending_seq_id' = pending_seq_id + 1
           \/ UNCHANGED <<last_active, pending_seq_id>>
    BY <1>2 DEF PackRow, rows
  <2>2. pending_seq_id \in Nat
    BY DEF TypeInv, TypeOK
  <2> QED BY <2>1, <2>2 DEF SampledOK, Row
<1>3. CASE SampleSome
  <2>1. /\ response_lens' = [r \in Row |-> IF r \in last_active THEN 1 ELSE response_lens[r]]
        /\ last_active' = {} /\ UNCHANGED <<prompts, pending_seq_id>>
    BY <1>3 DEF SampleSome, PrefillSample, admission
  <2>2. last_active \subseteq 1..pending_seq_id - 1 /\ pending_seq_id \in Nat
    BY DEF TypeInv, TypeOK, RowsOK
  <2> QED BY <2>1, <2>2 DEF SampledOK, Row
<1>4. CASE CancelRows
  <2>1. /\ response_lens' = [r \in Row |-> IF r \in Cancelled THEN 1 ELSE response_lens[r]]
        /\ UNCHANGED <<prompts, last_active, pending_seq_id>>
    BY <1>4 DEF CancelRows, admission, payload
  <2>2. Cancelled \subseteq 1..pending_seq_id - 1 /\ Cancelled \cap last_active = {} /\ pending_seq_id \in Nat
    BY DEF TypeInv, TypeOK, RowsOK, Cancelled
  <2> QED BY <2>1, <2>2 DEF SampledOK, Row
<1>5. CASE DecodeSome
  <2>1. /\ response_lens' = [r \in Row |-> IF r \in Cancelled THEN WithCancelToken(response_lens[r] + 1)
                                          ELSE IF r \in active_rows THEN response_lens[r] + 1
                                          ELSE response_lens[r]]
        /\ UNCHANGED <<prompts, last_active, pending_seq_id>>
    BY <1>5 DEF DecodeSome, Decode, admission, payload
  <2>2. /\ active_rows \subseteq 1..pending_seq_id - 1 /\ active_rows \cap last_active = {}
        /\ Cancelled \subseteq active_rows /\ pending_seq_id \in Nat
    BY DEF TypeInv, TypeOK, RowsOK, Cancelled
  <2>3. \A r \in Row : response_lens[r] \in Nat /\ WithCancelToken(response_lens[r] + 1) \in Nat \ {0}
    <3>1. \A r \in Row : response_lens[r] \in Nat
      BY Constants DEF TypeInv, TypeOK
    <3>2. \A n \in Nat : WithCancelToken(n + 1) \in Nat \ {0}
      BY Constants DEF WithCancelToken
    <3> QED BY <3>1, <3>2
  <2>4. \A r \in Row : /\ r \notin active_rows => response_lens'[r] = response_lens[r]
                       /\ r \in active_rows => response_lens'[r] >= 1
    <3> TAKE r \in Row
    <3>1. CASE r \notin active_rows
      BY <3>1, <2>1, <2>2
    <3>2. CASE r \in Cancelled
      <4>1. response_lens'[r] = WithCancelToken(response_lens[r] + 1) /\ r \in active_rows
        BY <3>2, <2>1, <2>2
      <4>2. WithCancelToken(response_lens[r] + 1) \in Nat \ {0}
        BY <2>3
      <4> QED BY <4>1, <4>2
    <3>3. CASE r \in active_rows /\ r \notin Cancelled
      <4>1. response_lens'[r] = response_lens[r] + 1
        BY <3>3, <2>1
      <4> QED BY <3>3, <4>1, <2>3
    <3> QED BY <3>1, <3>2, <3>3
  <2> QED BY <2>1, <2>2, <2>4 DEF SampledOK, Row
<1>6. CASE RefillEnds \/ BuildEnds \/ RejectTooLong \/ PackRunsOut \/ PrefillChunk \/ FreeRow \/ LoopTest \/ EnsureRow
  <2>1. UNCHANGED <<prompts, response_lens, last_active, pending_seq_id>>
    BY <1>6 DEF RefillEnds, BuildEnds, RejectTooLong, PackRunsOut, PrefillChunk, FreeRow, LoopTest, EnsureRow,
                rows, admission, payload
  <2> QED BY <2>1, SampledKept
<1>7. CASE (\E r \in Row : RaiseCancel(r)) \/ Finished \/ UNCHANGED vars
  <2>1. UNCHANGED <<prompts, response_lens, last_active, pending_seq_id>>
    BY <1>7 DEF RaiseCancel, Finished, vars, rows, admission, payload
  <2> QED BY <2>1, SampledKept
<1> QED BY <1>1, <1>2, <1>3, <1>4, <1>5, <1>6, <1>7 DEF Next, LoopStep

-----------------------------------------------------------------------------
(* What a step does to a row that was served, and to one that is cancelled. *)

ServedStep ==
  \A r \in Row : Served(r) => /\ Served(r)'
                              /\ response_lens'[r] = response_lens[r]
                              /\ cache_seqlens'[r] = cache_seqlens[r]
                              /\ finish_reason'[r] = finish_reason[r]
CancelStep ==
  \A r \in active_rows \cap cancel_flags :
    response_lens'[r] # response_lens[r] => r \notin active_rows'

\* Steps that write no response and admit no row to decoding.
LEMMA RowsKept ==
  ASSUME UNCHANGED <<response_lens, cache_seqlens, finish_reason, active_rows>>
  PROVE  ServedStep /\ CancelStep
BY DEF ServedStep, CancelStep, Served

\* Rows that were served are neither active nor being sampled for, and these are
\* the only rows that a step writes to.
LEMMA StepKeepsServed == TypeInv /\ SampledOK /\ [Next]_vars => ServedStep /\ CancelStep
<1> SUFFICES ASSUME TypeInv, SampledOK, [Next]_vars PROVE ServedStep /\ CancelStep
  OBVIOUS
<1>0. /\ active_rows \subseteq Row /\ last_active \subseteq Row /\ active_rows \cap last_active = {}
      /\ Cancelled = active_rows \cap cancel_flags
      /\ \A r \in Row : response_lens[r] \in Nat
      /\ \A r \in Row : Served(r) => r \notin active_rows /\ r \notin last_active
  BY DEF TypeInv, TypeOK, RowsOK, Cancelled, SampledOK, Served
<1>1. CASE RefillSome
  BY <1>0, <1>1, RefillFacts DEF ServedStep, CancelStep, Served
<1>2. CASE SampleSome
  <2>1. PICK stopped \in SUBSET last_active : PrefillSample(stopped)
    BY <1>2 DEF SampleSome
  <2>2. /\ response_lens' = [r \in Row |-> IF r \in last_active THEN 1 ELSE response_lens[r]]
        /\ cache_seqlens' = [r \in Row |-> IF r \in last_active THEN prompts[r] ELSE cache_seqlens[r]]
        /\ finish_reason' = [r \in Row |-> IF r \in FullAfterPrefill THEN "length"
                                           ELSE IF r \in stopped THEN "stop" ELSE finish_reason[r]]
        /\ active_rows' \subseteq active_rows \cup last_active
    BY <2>1 DEF PrefillSample, MarkFinished
  <2>3. FullAfterPrefill \subseteq last_active
    BY DEF FullAfterPrefill
  <2> QED BY <1>0, <2>2, <2>3 DEF ServedStep, CancelStep, Served
<1>3. CASE CancelRows
  <2>1. /\ response_lens' = [r \in Row |-> IF r \in Cancelled THEN 1 ELSE response_lens[r]]
        /\ finish_reason' = [r \in Row |-> IF r \in Cancelled THEN "cancelled" ELSE finish_reason[r]]
        /\ active_rows' = active_rows \ Cancelled /\ UNCHANGED cache_seqlens
    BY <1>3 DEF CancelRows
  <2> QED BY <1>0, <2>1 DEF ServedStep, CancelStep, Served
<1>4. CASE DecodeSome
  <2>1. PICK stopped \in SUBSET active_rows : Decode(stopped)
    BY <1>4 DEF DecodeSome
  <2>2. /\ response_lens' = [r \in Row |-> IF r \in Cancelled THEN WithCancelToken(response_lens[r] + 1)
                                          ELSE IF r \in active_rows THEN response_lens[r] + 1
                                          ELSE response_lens[r]]
        /\ cache_seqlens' = [r \in Row |-> IF r \in active_rows THEN cache_seqlens[r] + 1 ELSE cache_seqlens[r]]
        /\ finish_reason' = [r \in Row |-> IF r \in FullAfterDecode THEN "length"
                                           ELSE IF r \in stopped THEN "stop" ELSE finish_reason[r]]
        /\ active_rows' = active_rows \ (stopped \cup FullAfterDecode \cup Cancelled)
    BY <2>1 DEF Decode, MarkFinished
  <2>3. FullAfterDecode \subseteq active_rows
    BY DEF FullAfterDecode
  <2> QED BY <1>0, <2>2, <2>3 DEF ServedStep, CancelStep, Served
<1>5. CASE RefillEnds \/ BuildEnds \/ RejectTooLong \/ PackRow \/ PackRunsOut \/ PrefillChunk \/ FreeRow \/ LoopTest \/ EnsureRow
  <2>1. UNCHANGED <<response_lens, cache_seqlens, finish_reason, active_rows>>
    BY <1>5 DEF RefillEnds, BuildEnds, RejectTooLong, PackRow, PackRunsOut, PrefillChunk, FreeRow, LoopTest,
                EnsureRow, rows
  <2> QED BY <2>1, RowsKept
<1>6. CASE (\E r \in Row : RaiseCancel(r)) \/ Finished \/ UNCHANGED vars
  <2>1. UNCHANGED <<response_lens, cache_seqlens, finish_reason, active_rows>>
    BY <1>6 DEF RaiseCancel, Finished, vars, rows
  <2> QED BY <2>1, RowsKept
<1> QED BY <1>1, <1>2, <1>3, <1>4, <1>5, <1>6 DEF Next, LoopStep

\* An answer that was given is never touched again (the row indices that stay in
\* the tensors of _generate_rollout_tokens_no_sync).
THEOREM AnswersAreFinal == Spec => ServedRowsStayServed
<1>1. TypeInv /\ SampledOK /\ [Next]_vars
        => [\A r \in Row : Served(r) => /\ Served(r)'
                                        /\ response_lens'[r] = response_lens[r]
                                        /\ cache_seqlens'[r] = cache_seqlens[r]
                                        /\ finish_reason'[r] = finish_reason[r]]_vars
  BY StepKeepsServed DEF ServedStep
<1> QED BY InitType, NextType, InitSampled, NextSampled, <1>1, PTL DEF Spec, ServedRowsStayServed

-----------------------------------------------------------------------------
(* The block of the next token.                                            *)

RoomOf(r) == BlockSize * Len(seq_to_blocks[r])

\* A row's table covers what is cached of it, and one token more once
\* ensure_decode_blocks has visited it.
CoveredOK ==
  /\ \A r \in active_rows : cache_seqlens[r] <= RoomOf(r)
  /\ \A r \in last_active : prompts[r] <= RoomOf(r)
  /\ pc = "ensure" => \A r \in active_rows \ todo : cache_seqlens[r] < RoomOf(r)

LEMMA CeilDivCovers ==
  ASSUME NEW a \in Nat, NEW d \in Nat \ {0}
  PROVE  a <= d * CeilDiv(a, d)
<1>1. a + d - 1 \in Nat
  OBVIOUS
<1>2. /\ a + d - 1 = d * ((a + d - 1) \div d) + ((a + d - 1) % d)
      /\ (a + d - 1) % d \in 0..d-1
      /\ (a + d - 1) \div d \in Nat
  BY <1>1, DivFacts
<1>3. d * ((a + d - 1) \div d) \in Nat
  BY <1>2, Z3
<1> QED BY <1>2, <1>3 DEF CeilDiv

\* More blocks cover more tokens.
LEMMA RoomGrows ==
  ASSUME NEW d \in Nat, NEW m \in Nat, NEW n \in Nat, m <= n
  PROVE  d * m \in Nat /\ d * n \in Nat /\ d * m <= d * n
BY Z3

\* m blocks of d tokens hold the token after the first c: when they are as many
\* as ensure_decode_blocks asks for, and when c tokens do not fill a block.
LEMMA NextTokenFits ==
  ASSUME NEW d \in Nat \ {0}, NEW c \in Nat, NEW m \in Nat
  PROVE  /\ c \div d + 1 <= m => c < d * m
         /\ c % d # 0 /\ c <= d * m => c < d * m
<1>1. /\ c \div d \in Nat /\ c % d \in 0..d-1
      /\ c = d * (c \div d) + (c % d)
  BY DivFacts
<1>2. ASSUME NEW k \in Nat, k + 1 <= m PROVE d * k + d <= d * m
  <2>1. (k + 1) * d <= m * d
    BY <1>2, ProductMonotone
  <2> QED BY <2>1, Z3
<1>3. c \div d + 1 <= m => c < d * m
  <2> SUFFICES ASSUME c \div d + 1 <= m PROVE c < d * m
    OBVIOUS
  <2>1. d * (c \div d) + d <= d * m
    BY <1>1, <1>2
  <2>2. d * (c \div d) \in Nat /\ d * m \in Nat
    BY <1>1, RoomGrows
  <2> QED BY <1>1, <2>1, <2>2
<1>4. (d * m) % d = 0
  BY Z3
<1>5. d * m \in Nat
  BY Z3
<1> QED BY <1>3, <1>4, <1>5

\* A row outside the tables that change keeps its room; taking blocks adds some.
LEMMA TakeRoom ==
  ASSUME TypeOK, NEW r \in Row, NEW n \in 0..Len(free_blocks), Take(r, n)
  PROVE  /\ Len(Held(r)) \in Nat
         /\ RoomOf(r)' = BlockSize * (Len(Held(r)) + n)
         /\ \A q \in DOMAIN seq_to_blocks : /\ RoomOf(q) \in Nat /\ RoomOf(q)' \in Nat
                                            /\ RoomOf(q) <= RoomOf(q)'
<1>1. /\ Held(r) \in Seq(Block)
      /\ Len(seq_to_blocks'[r]) = Len(Held(r)) + n
      /\ \A q \in DOMAIN seq_to_blocks \ {r} : seq_to_blocks'[q] = seq_to_blocks[q]
  BY TakeFacts DEF IsFront, IsConcat
<1>2. Len(Held(r)) \in Nat /\ BlockSize \in Nat
  BY <1>1, Constants
<1>3. ASSUME NEW q \in DOMAIN seq_to_blocks
      PROVE  RoomOf(q) \in Nat /\ RoomOf(q)' \in Nat /\ RoomOf(q) <= RoomOf(q)'
  <2>1. Len(seq_to_blocks[q]) \in Nat
    BY DEF TypeOK
  <2>2. Len(seq_to_blocks'[q]) \in Nat /\ Len(seq_to_blocks[q]) <= Len(seq_to_blocks'[q])
    BY <1>1, <1>2, <2>1 DEF Held
  <2> QED BY <1>2, <2>1, <2>2, RoomGrows DEF RoomOf
<1> QED BY <1>1, <1>2, <1>3 DEF RoomOf

\* What the visit of ensure_decode_blocks leaves a row with.
LEMMA DecodeRoom ==
  ASSUME TypeInv, BoundsOK, NEW r \in active_rows, cache_seqlens[r] <= RoomOf(r),
         DecodeBlocks(r) <= Len(free_blocks), Take(r, DecodeBlocks(r))
  PROVE  cache_seqlens[r] < RoomOf(r)'
<1>1. /\ r \in DOMAIN seq_to_blocks /\ r \in Row
      /\ DecodeBlocks(r) \in 0..Len(free_blocks)
      /\ cache_seqlens[r] \in Nat
      /\ Held(r) = seq_to_blocks[r]
  BY DecodeFits, SMTT(30) DEF TypeInv, TypeOK, Held
<1>2. Len(Held(r)) \in Nat /\ BlockSize \in Nat \ {0}
  BY DecodeFits, Constants
<1>3. /\ RoomOf(r) = BlockSize * Len(Held(r))
      /\ RoomOf(r)' = BlockSize * (Len(Held(r)) + DecodeBlocks(r))
  BY <1>1, TakeRoom DEF TypeInv, RoomOf
<1>4. CASE cache_seqlens[r] % BlockSize = 0
  <2>1. DecodeBlocks(r) = Missing(r, cache_seqlens[r] \div BlockSize + 1)
    BY <1>4 DEF DecodeBlocks
  <2>2. cache_seqlens[r] \div BlockSize \in Nat
    BY <1>1, <1>2, DivFacts
  <2>3. cache_seqlens[r] \div BlockSize + 1 <= Len(Held(r)) + DecodeBlocks(r)
    BY <2>1, <1>1, <2>2, MissingFacts DEF TypeInv
  <2>4. Len(Held(r)) + DecodeBlocks(r) \in Nat
    BY <1>1, <1>2
  <2> QED BY <1>1, <1>2, <1>3, <2>3, <2>4, NextTokenFits
<1>5. CASE cache_seqlens[r] % BlockSize # 0
  <2>1. DecodeBlocks(r) = 0
    BY <1>5 DEF DecodeBlocks
  <2>2. Len(Held(r)) + DecodeBlocks(r) = Len(Held(r))
    BY <1>2, <2>1
  <2>3. cache_seqlens[r] < BlockSize * Len(Held(r))
    BY <1>1, <1>2, <1>3, <1>5, NextTokenFits
  <2> QED BY <1>3, <2>2, <2>3
<1> QED BY <1>4, <1>5

\* What packing the last piece of a prompt leaves its row with.
LEMMA ChunkRoom ==
  ASSUME TypeInv, BoundsOK, CanPack, ChunkBlocks <= Len(free_blocks),
         Take(pending_seq_id, ChunkBlocks), cursor + ChunkLen >= prompts[pending_seq_id]
  PROVE  prompts[pending_seq_id] <= BlockSize * Len(seq_to_blocks'[pending_seq_id])
<1>1. pc = "pack" /\ HasPending /\ ChunkLen > 0
  BY DEF CanPack, PackStops
<1>2. /\ pending_seq_id \in Row /\ prompts[pending_seq_id] \in Nat
      /\ ChunkLen \in Int /\ cursor \in Nat
  BY <1>1, ChunkFacts DEF TypeInv, TypeOK
<1> DEFINE t == cursor + ChunkLen
           required == CeilDiv(t, BlockSize)
           h == Len(Held(pending_seq_id))
<1>3. t \in Nat /\ BlockSize \in Nat \ {0}
  BY <1>1, <1>2, Constants
<1>4. required \in Nat /\ t <= BlockSize * required
  BY <1>3, CeilDivFacts, CeilDivCovers
<1>5. ChunkBlocks \in 0..Len(free_blocks) /\ h \in Nat /\ required <= h + ChunkBlocks
  <2>1. ChunkBlocks \in Nat /\ required <= h + ChunkBlocks /\ h \in Nat
    BY <1>2, <1>4, MissingFacts DEF ChunkBlocks, TypeInv
  <2> QED BY <2>1 DEF TypeInv, TypeOK
<1>6. Len(seq_to_blocks'[pending_seq_id]) = h + ChunkBlocks
  BY <1>2, <1>5, TakeFacts DEF TypeInv, IsFront, IsConcat
<1>7. /\ BlockSize * required <= BlockSize * (h + ChunkBlocks)
      /\ BlockSize * required \in Nat /\ BlockSize * (h + ChunkBlocks) \in Nat
  BY <1>3, <1>4, <1>5, RoomGrows
<1>8. prompts[pending_seq_id] <= t
  OBVIOUS
<1> HIDE DEF t, required, h
<1> QED BY <1>2, <1>3, <1>4, <1>6, <1>7, <1>8

\* Tables that only grow keep every row covered.
LEMMA CoveredGrows ==
  ASSUME TypeInv, BoundsOK, CoveredOK,
         NEW r \in Row, NEW n \in 0..Len(free_blocks), Take(r, n),
         UNCHANGED <<prompts, cache_seqlens, active_rows, last_active>>, pc' # "ensure"
  PROVE  CoveredOK'
<1>1. \A q \in active_rows \cup last_active : /\ RoomOf(q) \in Nat /\ RoomOf(q)' \in Nat
                                              /\ RoomOf(q) <= RoomOf(q)'
  BY TakeRoom DEF TypeInv, BoundsOK
<1>2. /\ \A q \in active_rows : cache_seqlens[q] \in Nat
      /\ \A q \in last_active : prompts[q] \in Nat
  BY Constants, ElementOfSeq DEF TypeInv, TypeOK, Row
<1> QED BY <1>1, <1>2 DEF CoveredOK

\* Steps that move no block and write nothing.
LEMMA CoveredKept ==
  ASSUME CoveredOK, UNCHANGED <<prompts, cache_seqlens, seq_to_blocks, active_rows, last_active>>,
         pc' # "ensure" \/ todo' = active_rows \/ UNCHANGED <<pc, todo>>
  PROVE  CoveredOK'
BY DEF CoveredOK, RoomOf

LEMMA NextCovered == TypeInv /\ BoundsOK /\ CoveredOK /\ [Next]_vars => CoveredOK'
<1> SUFFICES ASSUME TypeInv, BoundsOK, CoveredOK, [Next]_vars PROVE CoveredOK'
  OBVIOUS
<1>0. /\ active_rows \subseteq Row /\ last_active \subseteq Row
      /\ active_rows \cup last_active \subseteq DOMAIN seq_to_blocks
      /\ \A r \in Row : cache_seqlens[r] \in Nat /\ prompts[r] \in Nat
      /\ \A r \in DOMAIN seq_to_blocks : RoomOf(r) \in Nat
  <2>1. \A r \in Row : cache_seqlens[r] \in Nat /\ prompts[r] \in Nat
    BY Constants, ElementOfSeq DEF TypeInv, TypeOK, Row
  <2>2. ASSUME NEW r \in DOMAIN seq_to_blocks PROVE RoomOf(r) \in Nat
    <3>1. Len(seq_to_blocks[r]) \in Nat
      BY DEF TypeInv, TypeOK
    <3> QED BY <3>1, Constants, RoomGrows DEF RoomOf
  <2> QED BY <2>1, <2>2 DEF TypeInv, TypeOK, BoundsOK
<1>1. CASE RefillSome
  <2>1. /\ UNCHANGED <<active_rows, last_active, seq_to_blocks, pc>> /\ pc = "refill"
        /\ \A r \in Row : prompts'[r] = prompts[r] /\ cache_seqlens'[r] = cache_seqlens[r]
    BY <1>1, RefillFacts DEF payload, pool
  <2> QED BY <1>0, <2>1 DEF CoveredOK, RoomOf
<1>2. CASE PackRow
  <2>1. /\ CanPack /\ ChunkBlocks <= Len(free_blocks) /\ Take(pending_seq_id, ChunkBlocks)
        /\ UNCHANGED <<prompts, cache_seqlens, active_rows>> /\ pc' # "ensure"
        /\ \/ cursor + ChunkLen >= prompts[pending_seq_id] /\ last_active' = last_active \cup {pending_seq_id}
           \/ UNCHANGED last_active
    BY <1>2 DEF PackRow, rows
  <2>2. pending_seq_id \in Row /\ ChunkBlocks \in 0..Len(free_blocks)
    BY <2>1, ChunkFits DEF TypeInv, TypeOK
  <2>3. \A q \in active_rows \cup last_active : RoomOf(q)' \in Nat /\ RoomOf(q) <= RoomOf(q)'
    BY <1>0, <2>1, <2>2, TakeRoom DEF TypeInv
  <2>4. cursor + ChunkLen >= prompts[pending_seq_id] => prompts[pending_seq_id] <= BlockSize * Len(seq_to_blocks'[pending_seq_id])
    BY <2>1, ChunkRoom
  <2>5. \A q \in active_rows : cache_seqlens'[q] <= RoomOf(q)'
    BY <1>0, <2>1, <2>3 DEF CoveredOK
  <2>6. \A q \in last_active : prompts'[q] <= RoomOf(q)'
    BY <1>0, <2>1, <2>3 DEF CoveredOK
  <2>7. \A q \in last_active' : prompts'[q] <= RoomOf(q)'
    <3>1. CASE UNCHANGED last_active
      BY <2>6, <3>1
    <3>2. CASE cursor + ChunkLen >= prompts[pending_seq_id] /\ last_active' = last_active \cup {pending_seq_id}
      <4>1. ASSUME NEW q \in last_active' PROVE prompts'[q] <= RoomOf(q)'
        <5>1. CASE q = pending_seq_id
          BY <2>1, <2>4, <3>2, <5>1 DEF RoomOf
        <5>2. CASE q # pending_seq_id
          BY <2>6, <3>2, <4>1, <5>2
        <5> QED BY <5>1, <5>2
      <4> QED BY <4>1
    <3> QED BY <2>1, <3>1, <3>2
  <2> QED BY <2>1, <2>5, <2>7 DEF CoveredOK
<1>3. CASE PackRunsOut
  <2>1. /\ CanPack /\ Take(pending_seq_id, Len(free_blocks)) /\ pc' # "ensure"
        /\ UNCHANGED <<prompts, cache_seqlens, active_rows, last_active>>
    BY <1>3 DEF PackRunsOut, rows, payload
  <2>2. pending_seq_id \in Row /\ Len(free_blocks) \in 0..Len(free_blocks)
    BY <2>1, ChunkFits DEF TypeInv, TypeOK
  <2> QED BY <2>1, <2>2, CoveredGrows
<1>4. CASE SampleSome
  <2>1. /\ cache_seqlens' = [r \in Row |-> IF r \in last_active THEN prompts[r] ELSE cache_seqlens[r]]
        /\ active_rows' \subseteq active_rows \cup last_active
        /\ last_active' = {} /\ pc' # "ensure" /\ UNCHANGED <<prompts, seq_to_blocks>>
    BY <1>4 DEF SampleSome, PrefillSample, pool
  <2> QED BY <1>0, <2>1 DEF CoveredOK, RoomOf
<1>5. CASE FreeRow
  <2>1. PICK r \in todo : Release(r)
    BY <1>5 DEF FreeRow
  <2>2. /\ r \in Row /\ r \notin active_rows /\ last_active = {}
        /\ UNCHANGED <<prompts, cache_seqlens, active_rows, last_active>> /\ pc' # "ensure"
    BY <1>5 DEF FreeRow, rows, payload, TypeInv, TypeOK, RowsOK
  <2>3. \A q \in active_rows : seq_to_blocks'[q] = seq_to_blocks[q]
    BY <1>0, <2>1, <2>2, ReleaseFacts DEF TypeInv
  <2> QED BY <2>2, <2>3 DEF CoveredOK, RoomOf
<1>6. CASE CancelRows
  <2>1. /\ active_rows' \subseteq active_rows /\ pc' # "ensure"
        /\ UNCHANGED <<prompts, cache_seqlens, seq_to_blocks, last_active>>
    BY <1>6 DEF CancelRows, pool, payload
  <2> QED BY <2>1 DEF CoveredOK, RoomOf
<1>7. CASE EnsureRow
  <2>1. PICK r \in todo : IF DecodeBlocks(r) <= Len(free_blocks)
                            THEN Take(r, DecodeBlocks(r)) /\ todo' = todo \ {r} /\ pc' = pc
                            ELSE Take(r, Len(free_blocks)) /\ pc' = "decode_exhausted"
    BY <1>7 DEF EnsureRow
  <2>2. /\ r \in active_rows /\ r \in Row /\ pc = "ensure"
        /\ UNCHANGED <<prompts, cache_seqlens, active_rows, last_active>>
    BY <1>7 DEF EnsureRow, rows, payload, TypeInv, TypeOK, RowsOK
  <2>3. DecodeBlocks(r) \in Nat /\ Len(free_blocks) \in Nat
    BY <2>2, DecodeFits, SMTT(30) DEF TypeInv, TypeOK
  <2>4. CASE DecodeBlocks(r) <= Len(free_blocks)
    <3>1. Take(r, DecodeBlocks(r)) /\ todo' = todo \ {r} /\ pc' = pc /\ DecodeBlocks(r) \in 0..Len(free_blocks)
      BY <2>1, <2>3, <2>4
    <3>2. \A q \in active_rows \cup last_active : RoomOf(q)' \in Nat /\ RoomOf(q) <= RoomOf(q)'
      BY <1>0, <2>2, <3>1, TakeRoom DEF TypeInv
    <3>3. cache_seqlens[r] < RoomOf(r)'
      BY <2>2, <2>4, <3>1, DecodeRoom DEF CoveredOK
    <3>4. \A q \in active_rows : cache_seqlens'[q] <= RoomOf(q)'
      BY <1>0, <2>2, <3>2 DEF CoveredOK
    <3>5. \A q \in last_active : prompts'[q] <= RoomOf(q)'
      BY <1>0, <2>2, <3>2 DEF CoveredOK
    <3>6. \A q \in active_rows \ todo' : cache_seqlens'[q] < RoomOf(q)'
      <4>1. \A q \in active_rows \ todo : cache_seqlens'[q] < RoomOf(q)'
        BY <1>0, <2>2, <3>2 DEF CoveredOK
      <4> QED BY <2>2, <3>1, <3>3, <4>1
    <3> QED BY <2>2, <3>4, <3>5, <3>6 DEF CoveredOK
  <2>5. CASE ~(DecodeBlocks(r) <= Len(free_blocks))
    BY <2>1, <2>2, <2>3, <2>5, CoveredGrows
  <2> QED BY <2>4, <2>5
<1>8. CASE DecodeSome
  <2>1. /\ pc = "ensure" /\ todo = {} /\ pc' # "ensure"
        /\ cache_seqlens' = [r \in Row |-> IF r \in active_rows THEN cache_seqlens[r] + 1 ELSE cache_seqlens[r]]
        /\ active_rows' \subseteq active_rows
        /\ UNCHANGED <<prompts, seq_to_blocks, last_active>>
    BY <1>8 DEF DecodeSome, Decode, pool, payload
  <2>2. \A r \in active_rows : /\ cache_seqlens'[r] = cache_seqlens[r] + 1
                               /\ cache_seqlens[r] < RoomOf(r)
                               /\ RoomOf(r) \in Nat /\ cache_seqlens[r] \in Nat
                               /\ RoomOf(r)' = RoomOf(r)
    BY <1>0, <2>1 DEF CoveredOK, RoomOf
  <2>3. \A r \in active_rows' : cache_seqlens'[r] <= RoomOf(r)'
    BY <2>1, <2>2
  <2> QED BY <2>1, <2>3 DEF CoveredOK, RoomOf
<1>9. CASE RefillEnds \/ BuildEnds \/ RejectTooLong \/ PrefillChunk \/ LoopTest
  <2>1. /\ UNCHANGED <<prompts, cache_seqlens, seq_to_blocks, active_rows, last_active>>
        /\ pc' # "ensure" \/ todo' = active_rows
    BY <1>9 DEF RefillEnds, BuildEnds, RejectTooLong, PrefillChunk, LoopTest, rows, pool, payload
  <2> QED BY <2>1, CoveredKept
<1>10. CASE (\E r \in Row : RaiseCancel(r)) \/ Finished \/ UNCHANGED vars
  <2>1. UNCHANGED <<prompts, cache_seqlens, seq_to_blocks, active_rows, last_active, pc, todo>>
    BY <1>10 DEF RaiseCancel, Finished, vars, rows, pool, payload
  <2> QED BY <2>1, CoveredKept
<1> QED BY <1>1, <1>2, <1>3, <1>4, <1>5, <1>6, <1>7, <1>8, <1>9, <1>10 DEF Next, LoopStep

-----------------------------------------------------------------------------
(* The end of the loop.                                                    *)

\* Who may hold blocks, and what LoopTest has seen.
HoldersOK ==
  /\ DOMAIN seq_to_blocks \subseteq
       active_rows \cup last_active \cup {pending_seq_id}
         \cup (IF pc \in {"free_prefilled", "free_cancelled", "free_decoded"} THEN todo ELSE {})
  /\ pc = "done" => active_rows = {} /\ Len(prompts) < pending_seq_id

\* Steps that leave the tables and the rows that may hold them alone.
LEMMA HoldersKept ==
  ASSUME HoldersOK,
         UNCHANGED <<prompts, pending_seq_id, active_rows, last_active>>,
         DOMAIN seq_to_blocks' \subseteq DOMAIN seq_to_blocks \cup {pending_seq_id} \cup active_rows,
         pc \notin {"free_prefilled", "free_cancelled", "free_decoded"},
         pc' # "done"
  PROVE  HoldersOK'
BY DEF HoldersOK

LEMMA NextHolders == TypeInv /\ HoldersOK /\ [Next]_vars => HoldersOK'
<1> SUFFICES ASSUME TypeInv, HoldersOK, [Next]_vars PROVE HoldersOK'
  OBVIOUS
<1>1. CASE RefillSome
  <2>1. UNCHANGED <<active_rows, last_active, seq_to_blocks, pc, pending_seq_id>> /\ pc = "refill"
    BY <1>1, RefillFacts DEF payload, pool, admission
  <2> QED BY <2>1 DEF HoldersOK
<1>2. CASE PackRow
  <2>1. /\ pc = "pack" /\ pc' \in {"pack", "prefill"}
        /\ DOMAIN seq_to_blocks' = DOMAIN seq_to_blocks \cup {pending_seq_id}
        /\ UNCHANGED active_rows
        /\ \/ last_active' = last_active \cup {pending_seq_id}
           \/ UNCHANGED <<last_active, pending_seq_id>>
    BY <1>2 DEF PackRow, CanPack, Take
  <2> QED BY <2>1 DEF HoldersOK
<1>3. CASE PackRunsOut
  <2>1. /\ pc = "pack" /\ pc' \in {"prefill", "prefill_exhausted"}
        /\ DOMAIN seq_to_blocks' = DOMAIN seq_to_blocks \cup {pending_seq_id}
        /\ UNCHANGED <<prompts, active_rows, last_active, pending_seq_id>>
    BY <1>3 DEF PackRunsOut, CanPack, Take, rows, payload, admission
  <2> QED BY <2>1, HoldersKept
<1>4. CASE SampleSome
  <2>1. PICK stopped \in SUBSET last_active : PrefillSample(stopped)
    BY <1>4 DEF SampleSome
  <2>2. /\ pc = "prefill" /\ UNCHANGED <<seq_to_blocks, pending_seq_id>>
        /\ last_active \subseteq active_rows' \cup todo' /\ active_rows \subseteq active_rows'
        /\ IF todo' = {} THEN pc' = "cancel" ELSE pc' = "free_prefilled"
    BY <2>1 DEF PrefillSample, pool, admission
  <2> QED BY <2>2 DEF HoldersOK
<1>5. CASE FreeRow
  <2>1. PICK r \in todo : Release(r) /\ todo' = todo \ {r}
    BY <1>5 DEF FreeRow
  <2>2. /\ DOMAIN seq_to_blocks' = DOMAIN seq_to_blocks \ {r}
        /\ UNCHANGED <<active_rows, last_active, pending_seq_id>>
        /\ pc \in {"free_prefilled", "free_cancelled", "free_decoded"}
        /\ todo' # {} => pc' = pc
        /\ pc' # "done"
    <3>1. /\ UNCHANGED <<active_rows, last_active, pending_seq_id>>
          /\ pc \in {"free_prefilled", "free_cancelled", "free_decoded"}
          /\ pc' = IF todo' # {} THEN pc
                   ELSE CASE pc = "free_prefilled" -> "cancel"
                          [] pc = "free_cancelled" -> "test"
                          [] pc = "free_decoded"   -> "refill"
      BY <1>5 DEF FreeRow, payload, admission
    <3>2. DOMAIN seq_to_blocks' = DOMAIN seq_to_blocks \ {r}
      BY <2>1 DEF Release
    <3>3. CASE todo' # {}
      BY <3>1, <3>2, <3>3
    <3>4. CASE todo' = {}
      BY <3>1, <3>2, <3>4
    <3> QED BY <3>3, <3>4
  <2>3. DOMAIN seq_to_blocks' \subseteq active_rows \cup last_active \cup {pending_seq_id} \cup todo'
    BY <2>1, <2>2 DEF HoldersOK
  <2>4. CASE todo' = {}
    BY <2>2, <2>3, <2>4 DEF HoldersOK
  <2>5. CASE todo' # {}
    BY <2>2, <2>3, <2>5 DEF HoldersOK
  <2> QED BY <2>4, <2>5
<1>6. CASE CancelRows
  <2>1. /\ pc = "cancel" /\ UNCHANGED <<seq_to_blocks, pending_seq_id, last_active>>
        /\ active_rows' = active_rows \ Cancelled /\ todo' = Cancelled
        /\ pc' = IF Cancelled = {} THEN "test" ELSE "free_cancelled"
    BY <1>6 DEF CancelRows, pool, admission, payload
  <2> QED BY <2>1 DEF HoldersOK
<1>7. CASE LoopTest
  <2>1. /\ pc = "test" /\ UNCHANGED <<prompts, seq_to_blocks, pending_seq_id, last_active, active_rows>>
        /\ pc' = IF active_rows # {} THEN "ensure" ELSE IF HasPending THEN "refill" ELSE "done"
    BY <1>7 DEF LoopTest, pool, admission, payload, rows
  <2>2. pending_seq_id \in Nat /\ Len(prompts) \in Nat
    BY DEF TypeInv, TypeOK
  <2> QED BY <2>1, <2>2 DEF HoldersOK, HasPending
<1>8. CASE EnsureRow
  <2>1. PICK r \in todo : /\ DOMAIN seq_to_blocks' = DOMAIN seq_to_blocks \cup {r}
                          /\ pc' \in {pc, "decode_exhausted"}
    BY <1>8 DEF EnsureRow, Take
  <2>2. /\ r \in active_rows /\ pc = "ensure"
        /\ UNCHANGED <<prompts, active_rows, last_active, pending_seq_id>>
    BY <1>8 DEF EnsureRow, TypeInv, RowsOK, rows, payload, admission
  <2> QED BY <2>1, <2>2, HoldersKept
<1>9. CASE DecodeSome
  <2>1. PICK stopped \in SUBSET active_rows : Decode(stopped)
    BY <1>9 DEF DecodeSome
  <2>2. /\ pc = "ensure" /\ UNCHANGED <<seq_to_blocks, pending_seq_id, last_active>>
        /\ active_rows \subseteq active_rows' \cup todo'
        /\ IF todo' = {} THEN pc' = "refill" ELSE pc' = "free_decoded"
    BY <2>1 DEF Decode, pool, admission, payload
  <2> QED BY <2>2 DEF HoldersOK
<1>10. CASE RefillEnds \/ BuildEnds \/ RejectTooLong \/ PrefillChunk
  <2>1. /\ pc \in {"refill", "pack", "prefill"} /\ pc' # "done"
        /\ UNCHANGED <<prompts, seq_to_blocks, active_rows, last_active, pending_seq_id>>
    BY <1>10 DEF RefillEnds, BuildEnds, RejectTooLong, PrefillChunk, rows, pool, payload, admission
  <2> QED BY <2>1, HoldersKept
<1>11. CASE (\E r \in Row : RaiseCancel(r)) \/ Finished \/ UNCHANGED vars
  <2>1. UNCHANGED <<prompts, seq_to_blocks, active_rows, last_active, pending_seq_id, pc, todo>>
    BY <1>11 DEF RaiseCancel, Finished, vars, rows, pool, payload, admission
  <2> QED BY <2>1 DEF HoldersOK
<1> QED BY <1>1, <1>2, <1>3, <1>4, <1>5, <1>6, <1>7, <1>8, <1>9, <1>10, <1>11 DEF Next, LoopStep

-----------------------------------------------------------------------------
(* Rows that left the batch hold nothing when it advances.                 *)

\* Outside the freeing loops only rows without an answer hold blocks.
LEMMA HoldersUnserved ==
  ASSUME TypeInv, SampledOK, HoldersOK, pc \notin {"free_prefilled", "free_cancelled", "free_decoded"},
         NEW r \in Row, Served(r)
  PROVE  r \notin DOMAIN seq_to_blocks
<1>1. response_lens[r] > 0 /\ r \notin active_rows
  BY DEF Served
<1>2. r \notin last_active /\ r # pending_seq_id
  <2>1. pending_seq_id \in Nat
    BY DEF TypeInv, TypeOK
  <2> QED BY <1>1, <2>1 DEF SampledOK
<1> QED BY <1>1, <1>2 DEF HoldersOK

\* The freeing loops only lengthen the free list.
LEMMA FreeingTakesNothing ==
  ASSUME TypeInv, FreeRow \/ (\E r \in Row : RaiseCancel(r)) \/ Finished \/ UNCHANGED vars
  PROVE  ~Advances
<1>1. UNCHANGED response_lens
  BY DEF FreeRow, RaiseCancel, Finished, vars, rows
<1>2. \A r \in Row : response_lens[r] \in Nat
  BY DEF TypeInv, TypeOK
<1>3. Len(free_blocks) \in Nat
  BY DEF TypeInv, TypeOK
<1>4. CASE FreeRow
  <2>1. PICK r \in todo : free_blocks' = free_blocks \o Held(r)
    BY <1>4 DEF FreeRow, Release
  <2>2. Held(r) \in Seq(Block) /\ free_blocks \in Seq(Block)
    <3>1. free_blocks \in Seq(Block) /\ seq_to_blocks \in [DOMAIN seq_to_blocks -> Seq(Block)]
      BY DEF TypeInv, TypeOK
    <3> QED BY <3>1 DEF Held
  <2>3. Len(free_blocks') = Len(free_blocks) + Len(Held(r)) /\ Len(Held(r)) \in Nat
    BY <2>1, <2>2
  <2> QED BY <1>1, <1>2, <1>3, <2>3 DEF Advances
<1>5. CASE (\E r \in Row : RaiseCancel(r)) \/ Finished \/ UNCHANGED vars
  <2>1. UNCHANGED free_blocks
    BY <1>5 DEF RaiseCancel, Finished, vars, pool
  <2> QED BY <1>1, <1>2, <1>3, <2>1 DEF Advances
<1> QED BY <1>4, <1>5

\* Every other step starts where no row that was served holds blocks.
LEMMA AdvanceStep ==
  ASSUME TypeInv, SampledOK, HoldersOK, [Next]_vars, Advances
  PROVE  \A r \in Row : Served(r) => r \notin DOMAIN seq_to_blocks
<1>1. ~(FreeRow \/ (\E r \in Row : RaiseCancel(r)) \/ Finished \/ UNCHANGED vars)
  BY FreeingTakesNothing
<1>2. RefillSome \/ RefillEnds \/ BuildEnds \/ RejectTooLong \/ PackRow \/ PackRunsOut \/ PrefillChunk
        \/ SampleSome \/ CancelRows \/ LoopTest \/ EnsureRow \/ DecodeSome
  BY <1>1 DEF Next, LoopStep
<1>3. pc \in {"refill", "pack", "prefill", "cancel", "test", "ensure"}
  BY <1>2 DEF RefillSome, Refill, RefillEnds, BuildEnds, RejectTooLong, PackRow, PackRunsOut, CanPack, PrefillChunk,
              SampleSome, PrefillSample, CancelRows, LoopTest, EnsureRow, DecodeSome, Decode
<1> QED BY <1>3, HoldersUnserved

\* A row with its cancel flag up gets at most the token that takes it out of the
\* batch (_cancel_mask_for_active_rows at both of its places), and no other row
\* gets a token or a block before the blocks of those that left are free again.
THEOREM CancelledRowsLeave == Spec => CancelStopsDecoding
<1>1. Init => HoldersOK
  BY DEF Init, HoldersOK
<1>2. TypeInv /\ SampledOK /\ HoldersOK /\ [Next]_vars
        => [/\ \A r \in active_rows \cap cancel_flags :
                 response_lens'[r] # response_lens[r] => r \notin active_rows'
            /\ Advances => \A r \in Row : Served(r) => r \notin DOMAIN seq_to_blocks]_vars
  BY StepKeepsServed, AdvanceStep DEF CancelStep
<1> QED BY InitType, NextType, InitSampled, NextSampled, NextHolders, <1>1, <1>2, PTL DEF Spec, CancelStopsDecoding

\* A pool without holders is all on the free list, each block once.
LEMMA AllFree ==
  ASSUME TypeOK, PoolOK, DOMAIN seq_to_blocks = {}
  PROVE  Len(free_blocks) = num_cache_blocks
<1> DEFINE k == Len(free_blocks)
<1>1. k \in Nat /\ num_cache_blocks \in Nat /\ free_blocks \in [1..k -> Block]
  BY DEF TypeOK
<1>2. /\ \A i, j \in 1..k : free_blocks[i] = free_blocks[j] => i = j
      /\ \A b \in Block : \E i \in 1..k : free_blocks[i] = b
  BY DEF PoolOK, FreeDistinct, FreeOrHeld
<1>3. ExistsBijection(1..k, Block)
  <2> HIDE DEF k
  <2>1. free_blocks \in Bijection(1..k, Block)
    BY <1>1, <1>2 DEF Injection, IsInjective, Surjection, Bijection
  <2> QED BY <2>1 DEF ExistsBijection
<1>4. IsFiniteSet(1..k) /\ Cardinality(1..k) = k
  <2> HIDE DEF k
  <2> QED BY <1>1, FS_Interval
<1>5. Cardinality(Block) = num_cache_blocks
  <2>1. num_cache_blocks \in Nat \ {0} /\ num_cache_blocks - 1 \in Int /\ 0 \in Int
    BY DEF TypeOK
  <2>2. Cardinality(0..num_cache_blocks - 1) =
          IF 0 > num_cache_blocks - 1 THEN 0 ELSE (num_cache_blocks - 1) - 0 + 1
    BY <2>1, FS_Interval
  <2> QED BY <2>1, <2>2 DEF Block
<1> QED BY <1>3, <1>4, <1>5, FS_Bijection

\* The three invariants say what RowsAreServed says.
LEMMA ServedFromParts ==
  ASSUME TypeInv, PoolOK, BoundsOK, SampledOK, CoveredOK, HoldersOK
  PROVE  RowsAreServed
<1>1. DecodeOwnsItsBlock
  BY DEF DecodeOwnsItsBlock, CoveredOK, RoomOf, Held, BoundsOK
<1>2. DoneMeansServed
  <2> SUFFICES ASSUME pc = "done"
               PROVE  /\ \A r \in Row : response_lens[r] >= 1
                      /\ Len(free_blocks) = num_cache_blocks
    BY DEF DoneMeansServed
  <2>1. active_rows = {} /\ last_active = {} /\ Len(prompts) < pending_seq_id
    BY DEF HoldersOK, TypeInv, RowsOK
  <2>2. Len(prompts) \in Nat /\ pending_seq_id \in Nat
    BY DEF TypeInv, TypeOK
  <2>3. \A r \in Row : r < pending_seq_id
    BY <2>1, <2>2 DEF Row
  <2>4. DOMAIN seq_to_blocks = {}
    <3>1. DOMAIN seq_to_blocks \subseteq {pending_seq_id}
      BY <2>1 DEF HoldersOK
    <3>2. DOMAIN seq_to_blocks \subseteq Row
      BY DEF TypeInv, TypeOK
    <3>3. pending_seq_id \notin Row
      BY <2>2, <2>3
    <3> QED BY <3>1, <3>2, <3>3
  <2>5. Len(free_blocks) = num_cache_blocks
    BY <2>4, AllFree DEF TypeInv
  <2>6. \A r \in Row : response_lens[r] >= 1
    BY <2>1, <2>3 DEF SampledOK
  <2> QED BY <2>5, <2>6
<1> QED BY <1>1, <1>2 DEF RowsAreServed

\* Every token is decoded into a block of its own row, and the loop ends only
\* with every row answered and every block back in the pool, for every pool,
\* arrival order, sample and cancellation.
THEOREM RowsServedThroughout == Spec => []RowsAreServed
<1>1. Init => CoveredOK /\ HoldersOK
  BY DEF Init, CoveredOK, HoldersOK
<1> QED BY InitType, NextType, InitPool, NextPool, InitBounds, NextBounds, InitSampled, NextSampled,
           NextCovered, NextHolders, ServedFromParts, <1>1, PTL DEF Spec
=============================================================================
