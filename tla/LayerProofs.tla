----------------------------- MODULE LayerProofs -----------------------------
(***************************************************************************)
(* Layers, for every model.                                                *)
(*                                                                         *)
(* Their cache tensors: any number of layers, softmax, linear and shared   *)
(* in any order.  Either nothing is bound, or every layer is bound to one  *)
(* tensor, that of the layer that writes it, and all are on one device.    *)
(*                                                                         *)
(* A layer split over a tensor-parallel group: any weights, any number of  *)
(* ranks that divides their rows.  A tensor that the code replicates is    *)
(* one copy per rank; a collective over partial sums leaves each rank with *)
(* the whole sum because every row is held by one rank.  What is computed  *)
(* is then a function of the rows, the same for one rank as for many; what *)
(* no collective sums is a function of the rows of the rank, and its sum   *)
(* over the ranks is that of all rows.                                     *)
(***************************************************************************)
EXTENDS LayerCaches, TensorParallel, InductionFacts, FiniteSetTheorems

-----------------------------------------------------------------------------
(* The softmax layers, counted                                             *)

Upto(S, i) == {k \in 1 .. i : k \in S}

\* The place of a number among the kept ones is the number of those up to it.
LEMMA KeptAtItsCount ==
  ASSUME NEW n \in Nat, NEW ids \in Seq(Nat), Len(ids) = n, \A i \in 1 .. n : ids[i] = i,
         NEW S, NEW l \in 1 .. n, l \in S
  PROVE  /\ Cardinality(Upto(S, l)) \in 1 .. Len(Kept(ids, S))
         /\ Kept(ids, S)[Cardinality(Upto(S, l))] = l
<1>1. PICK f : KeptUpTo(f, ids, S, n) /\ Kept(ids, S) = f[n] BY KeptExists
<1>2. \A i \in 0 .. n : f[i] = IF i = 0 THEN << >>
                               ELSE IF ids[i] \in S THEN Append(f[i - 1], ids[i]) ELSE f[i - 1]
  BY <1>1 DEF KeptUpTo
<1> DEFINE Good(m) ==
      /\ f[m] \in Seq(Nat) /\ IsFiniteSet(Upto(S, m))
      /\ Len(f[m]) = Cardinality(Upto(S, m))
      /\ \A i \in 1 .. m : i \in S => /\ Cardinality(Upto(S, i)) \in 1 .. Len(f[m])
                                      /\ f[m][Cardinality(Upto(S, i))] = i
<1> DEFINE T == {m \in 0 .. n : Good(m)}
<1>3. 0 \in T
  <2>1. f[0] = << >> BY <1>2
  <2>2. << >> \in Seq(Nat) /\ Len(<< >>) = 0 /\ 1 .. 0 = {} OBVIOUS
  <2>3. Upto(S, 0) = {} BY <2>2 DEF Upto
  <2>4. IsFiniteSet({}) /\ Cardinality({}) = 0 BY FS_EmptySet
  <2> HIDE <1>1, <1>2
  <2>5. Good(0) BY <2>1, <2>2, <2>3, <2>4
  <2> QED BY <2>5
<1>4. ASSUME NEW m \in 0 .. n - 1, m \in T PROVE m + 1 \in T
  <2>0. /\ m \in Nat /\ m + 1 \in 1 .. n /\ m + 1 \in 0 .. n /\ m + 1 # 0 /\ (m + 1) - 1 = m
        /\ 1 .. m + 1 = 1 .. m \cup {m + 1} /\ m + 1 \notin 1 .. m
    OBVIOUS
  <2>1. Good(m) BY <1>4
  <2>2. f[m + 1] = IF m + 1 \in S THEN Append(f[m], m + 1) ELSE f[m] BY <1>2, <2>0
  <2>3. CASE m + 1 \notin S
    <3>1. f[m + 1] = f[m] /\ Upto(S, m + 1) = Upto(S, m) BY <2>0, <2>2, <2>3 DEF Upto
    <3> HIDE <1>1, <1>2
    <3>2. Good(m + 1) BY <2>0, <2>1, <2>3, <3>1
    <3> QED BY <2>0, <3>2
  <2>4. CASE m + 1 \in S
    <3> DEFINE a == f[m]  b == f[m + 1]
    <3>1. b = Append(a, m + 1) /\ a \in Seq(Nat) BY <2>1, <2>2, <2>4
    <3>2. /\ b \in Seq(Nat) /\ Len(b) = Len(a) + 1 /\ Len(a) \in Nat /\ b[Len(a) + 1] = m + 1
          /\ \A j \in 1 .. Len(a) : b[j] = a[j]
      BY <2>0, <3>1
    <3>3. Upto(S, m + 1) = Upto(S, m) \cup {m + 1} /\ m + 1 \notin Upto(S, m)
      BY <2>0, <2>4 DEF Upto
    <3>4. IsFiniteSet(Upto(S, m + 1)) /\ Cardinality(Upto(S, m + 1)) = Cardinality(Upto(S, m)) + 1
      BY <2>1, <3>3, FS_AddElement
    <3>5. ASSUME NEW i \in 1 .. m + 1, i \in S
          PROVE  Cardinality(Upto(S, i)) \in 1 .. Len(b) /\ b[Cardinality(Upto(S, i))] = i
      <4>1. CASE i \in 1 .. m
        <5>1. Cardinality(Upto(S, i)) \in 1 .. Len(a) /\ a[Cardinality(Upto(S, i))] = i BY <2>1, <3>5, <4>1
        <5>2. PICK c \in 1 .. Len(a) : c = Cardinality(Upto(S, i)) /\ a[c] = i BY <5>1
        <5>3. b[c] = i BY ONLY <3>2, <5>2
        <5>4. c \in 1 .. Len(b) BY ONLY <3>2, <5>2
        <5> QED BY <5>2, <5>3, <5>4
      <4>2. CASE i = m + 1
        <5>1. Cardinality(Upto(S, i)) = Len(a) + 1 BY <2>1, <3>4, <4>2
        <5> QED BY <3>2, <4>2, <5>1
      <4> QED BY <2>0, <4>1, <4>2
    <3>6. Len(b) = Cardinality(Upto(S, m + 1)) BY <2>1, <3>2, <3>4
    <3>7. Good(m + 1) BY ONLY <3>2, <3>4, <3>5, <3>6
    <3> QED BY <2>0, <3>7
  <2> QED BY <2>3, <2>4
<1> HIDE DEF T
<1>5. 0 .. n \subseteq T BY <1>3, <1>4, IntervalInduction
<1>6. Good(n) BY <1>5 DEF T
<1> HIDE DEF Good
<1>7. Cardinality(Upto(S, l)) \in 1 .. Len(f[n]) /\ f[n][Cardinality(Upto(S, l))] = l BY <1>6 DEF Good
<1> QED BY <1>1, <1>7

-----------------------------------------------------------------------------
(* The inductive invariant                                                 *)

\* The kind of tensor a layer holds.
KindOf(l) == IF HasState(l) /\ ~Gemma4 THEN "state" ELSE "kv"
\* Every layer is bound to the tensor of its writer.
BoundTo(b, d) == b = [l \in Layers |-> {<<Writer(l), d, KindOf(l)>>}]
Unbound == [l \in Layers |-> {}]

LInv ==
  /\ model \in Models
  /\ bound = Unbound \/ \E d \in {"gpu", "cpu"} : BoundTo(bound, d)
  /\ DOMAIN written = Alive(bound)
  /\ \A t \in DOMAIN written : written[t] \subseteq {t[1]}

\* What is assumed of a model, layer by layer.
LEMMA ModelFacts ==
  ASSUME model \in Models
  PROVE  /\ model \in Seq([kind : {"softmax", "shared", "linear"}, source : Nat])
         /\ Layers = 1 .. Len(model) /\ Len(model) \in Nat
         /\ \A l \in Layers : IsShared(l) =>
              /\ model[l].source \in Layers /\ model[l].source # l
              /\ ~IsShared(model[l].source) /\ ~HasState(model[l].source) /\ ~HasState(l)
<1>1. /\ model \in Seq([kind : {"softmax", "shared", "linear"}, source : Nat])
      /\ \A l \in DOMAIN model : model[l].kind = "shared" =>
           model[l].source \in 1 .. l - 1 /\ model[model[l].source].kind = "softmax"
  BY ModelsAssumption
<1>2. Layers = 1 .. Len(model) /\ Len(model) \in Nat BY <1>1 DEF Layers
<1>3. ASSUME NEW l \in Layers, IsShared(l)
      PROVE  /\ model[l].source \in Layers /\ model[l].source # l
             /\ ~IsShared(model[l].source) /\ ~HasState(model[l].source) /\ ~HasState(l)
  <2>1. model[l].source \in 1 .. l - 1 /\ model[model[l].source].kind = "softmax" /\ l \in 1 .. Len(model)
    BY <1>1, <1>2, <1>3 DEF IsShared, Layers
  <2>2. model[l].source \in Layers /\ model[l].source # l BY <1>2, <2>1
  <2> QED BY <1>3, <2>1, <2>2 DEF IsShared, HasState
<1> QED BY <1>1, <1>2, <1>3

\* Writers are layers with a cache of their own.
LEMMA WriterFacts ==
  ASSUME model \in Models, NEW l \in Layers
  PROVE  /\ Writer(l) \in Layers /\ ~IsShared(Writer(l)) /\ Writer(Writer(l)) = Writer(l)
         /\ KindOf(Writer(l)) = KindOf(l)
BY ModelFacts DEF Writer, KindOf

-----------------------------------------------------------------------------
(* Allocation                                                              *)

\* Every layer that is not shared gets an entry of its own from allocate_kv_caches.
LEMMA Gemma4Entries ==
  ASSUME model \in Models, NEW l \in Layers, ~IsShared(l)
  PROVE  AllocateGemma4[l] = Kv(l)
<1> DEFINE Entries(f) == f = [k \in Layers |-> IF IsShared(k) THEN f[model[k].source] ELSE Kv(k)]
           g == [k \in Layers |-> Kv(Writer(k))]
           c == CHOOSE f : Entries(f)
<1>1. Entries(g)
  <2>1. ASSUME NEW k \in Layers
        PROVE  g[k] = IF IsShared(k) THEN g[model[k].source] ELSE Kv(k)
    BY ModelFacts DEF Writer
  <2>2. g = [k \in Layers |-> g[k]] OBVIOUS
  <2> HIDE DEF g
  <2> QED BY <2>1, <2>2
<1>2. Entries(c)
  <2>1. \E f : Entries(f) BY <1>1
  <2> HIDE DEF Entries
  <2> QED BY <2>1
<1>3. AllocateGemma4 = c BY DEF AllocateGemma4
<1> HIDE DEF c
<1> QED BY <1>2, <1>3

\* Binding them gives every layer the tensor of its writer.
LEMMA Gemma4Bound ==
  ASSUME model \in Models, Gemma4
  PROVE  BoundTo(SetGemma4(AllocateGemma4), "gpu")
<1>1. ASSUME NEW l \in Layers
      PROVE  {AllocateGemma4[IF IsShared(l) THEN model[l].source ELSE l]} = {<<Writer(l), "gpu", KindOf(l)>>}
  <2>1. AllocateGemma4[Writer(l)] = Kv(Writer(l)) BY WriterFacts, Gemma4Entries
  <2> QED BY <2>1 DEF Writer, Kv, KindOf
<1> QED BY <1>1 DEF BoundTo, SetGemma4

\* The running index of set_kv_caches finds, for a softmax layer, the entry that was
\* allocated for it.
LEMMA IndexBound ==
  ASSUME model \in Models, ~Gemma4
  PROVE  BoundTo(SetByIndex(AllocateSoftmax), "gpu")
<1> DEFINE n == Len(model)  ids == [k \in Layers |-> k]  S == {k \in Layers : ~HasState(k)}
<1>1. Layers = 1 .. n /\ n \in Nat /\ \A l \in Layers : ~IsShared(l) BY ModelFacts DEF Gemma4
<1>2. ids \in Seq(Nat) /\ Len(ids) = n /\ \A i \in 1 .. n : ids[i] = i
  <2>1. PICK m \in Nat : m = n BY <1>1
  <2>2. ids \in [1 .. m -> Nat] BY <1>1, <2>1
  <2> QED BY <1>1, <2>1, <2>2, SeqOfFunction
<1>3. ASSUME NEW l \in Layers, ~HasState(l)
      PROVE  AllocateSoftmax[Cardinality({k \in 1 .. l : ~HasState(k)})] = Kv(l)
  <2> DEFINE order == Kept(ids, S)  c == Cardinality({k \in 1 .. l : ~HasState(k)})
  <2>1. Upto(S, l) = {k \in 1 .. l : ~HasState(k)} BY <1>1 DEF Upto
  <2>2. l \in 1 .. n /\ l \in S BY <1>1, <1>3
  <2> HIDE DEF ids, S, n
  <2>3. order[c] = l /\ c \in 1 .. Len(order)
    <3>1. Cardinality(Upto(S, l)) \in 1 .. Len(Kept(ids, S)) /\ Kept(ids, S)[Cardinality(Upto(S, l))] = l
      BY <1>1, <1>2, <2>2, KeptAtItsCount
    <3> QED BY <2>1, <3>1
  <2>4. c \in DOMAIN order
    <3>1. order \in Seq(Nat) BY <1>2, KeptFacts
    <3> QED BY <2>3, <3>1
  <2>5. AllocateSoftmax = [i \in DOMAIN order |-> Kv(order[i])] BY DEF AllocateSoftmax, ids, S
  <2> QED BY <2>3, <2>4, <2>5
<1> QED BY <1>1, <1>3 DEF BoundTo, SetByIndex, Writer, KindOf, State, Kv

-----------------------------------------------------------------------------
(* The steps                                                               *)

\* Fresh tensors of one device satisfy the invariant.
LEMMA FreshKept ==
  ASSUME model \in Models, NEW b, BoundTo(b, "gpu"),
         model' = model, bound' = b, written' = Fresh(b)
  PROVE  LInv'
<1>1. Layers' = Layers /\ Alive(bound)' = Alive(b) /\ BoundTo(bound, "gpu")'
  BY DEF Layers, Alive, BoundTo, Writer, IsShared, KindOf, HasState, Gemma4
<1>2. DOMAIN written' = Alive(bound)' /\ \A t \in DOMAIN written' : written'[t] = {} BY <1>1 DEF Fresh
<1> QED BY <1>1, <1>2 DEF LInv

\* Moving a binding to a device and rebinding the shared layers gives a binding.
LEMMA MovedBound ==
  ASSUME LInv, NEW d \in {"gpu", "cpu"}
  PROVE  \/ bound = Unbound /\ Rebind(MovedTo(d)) = Unbound
         \/ BoundTo(Rebind(MovedTo(d)), d)
<1> USE DEF LInv
<1>1. CASE bound = Unbound
  <2>1. MovedTo(d) = Unbound BY <1>1 DEF MovedTo, To, Unbound
  <2>2. Rebind(Unbound) = Unbound BY ModelFacts DEF Rebind, Unbound
  <2> QED BY <1>1, <2>1, <2>2
<1>2. ASSUME NEW e \in {"gpu", "cpu"}, BoundTo(bound, e) PROVE BoundTo(Rebind(MovedTo(d)), d)
  <2>1. ASSUME NEW l \in Layers PROVE bound[l] = {<<Writer(l), e, KindOf(l)>>} BY <1>2 DEF BoundTo
  <2>2. ASSUME NEW l \in Layers, ~IsShared(l) PROVE MovedTo(d)[l] = {<<l, d, KindOf(l)>>}
    <3>1. MovedTo(d)[l] = To({<<l, e, KindOf(l)>>}, d) BY <2>1, <2>2 DEF MovedTo, Writer
    <3> QED BY <3>1 DEF To
  <2>3. ASSUME NEW l \in Layers PROVE Rebind(MovedTo(d))[l] = {<<Writer(l), d, KindOf(l)>>}
    <3>1. Rebind(MovedTo(d))[l] = MovedTo(d)[Writer(l)] BY DEF Rebind, Writer
    <3> QED BY <2>2, <3>1, WriterFacts
  <2>4. Rebind(MovedTo(d)) = [l \in Layers |-> Rebind(MovedTo(d))[l]] BY DEF Rebind
  <2> QED BY <2>3, <2>4 DEF BoundTo
<1> QED BY <1>1, <1>2

\* What a tensor holds moves with it.
LEMMA MovedKept ==
  ASSUME LInv, NEW d \in {"gpu", "cpu"}, model' = model,
         bound' = Rebind(MovedTo(d)), written' = Moved(bound')
  PROVE  LInv'
<1> DEFINE b == Rebind(MovedTo(d))
<1> HIDE DEF b
<1>1. bound' = b /\ written' = Moved(b) BY DEF b
<1>2. Layers' = Layers /\ Alive(bound)' = Alive(b) /\ Unbound' = Unbound
      /\ (BoundTo(b, d) => BoundTo(bound, d)')
  BY <1>1 DEF Layers, Alive, BoundTo, Writer, IsShared, KindOf, HasState, Gemma4, Unbound
<1>3. bound' = Unbound' \/ \E e \in {"gpu", "cpu"} : BoundTo(bound, e)'
  BY <1>1, <1>2, MovedBound DEF b
<1>4. DOMAIN written' = Alive(bound)' BY <1>1, <1>2 DEF Moved
<1>5. ASSUME NEW t \in DOMAIN written' PROVE written'[t] \subseteq {t[1]}
  <2>1. t \in Alive(b) BY <1>2, <1>4
  <2> DEFINE same == {o \in DOMAIN written : o[1] = t[1] /\ o[3] = t[3]}
             old == CHOOSE o \in DOMAIN written : o[1] = t[1] /\ o[3] = t[3]
  <2>2. CASE t \in DOMAIN written BY <1>1, <2>1, <2>2 DEF Moved, LInv
  <2>3. CASE t \notin DOMAIN written /\ same # {}
    <3>1. old \in DOMAIN written /\ old[1] = t[1] BY <2>3
    <3>2. written'[t] = written[old] BY <1>1, <2>1, <2>3 DEF Moved
    <3> HIDE DEF old
    <3> QED BY <3>1, <3>2 DEF LInv
  <2>4. CASE t \notin DOMAIN written /\ same = {}
    BY <1>1, <2>1, <2>4 DEF Moved
  <2> QED BY <2>2, <2>3, <2>4
<1> QED BY <1>3, <1>4, <1>5 DEF LInv

\* The first state.
LEMMA LayersStart == LInit => LInv
<1> SUFFICES ASSUME LInit PROVE LInv
  OBVIOUS
<1>1. bound = Unbound BY DEF LInit, Unbound
<1>2. Alive(bound) = {} BY <1>1 DEF Alive, Unbound
<1>3. DOMAIN written = {} BY DEF LInit
<1> QED BY <1>1, <1>2, <1>3 DEF LInv, LInit

\* Every operation on the caches keeps the invariant.
LEMMA LayersStep == LInv /\ [LNext]_lvars => LInv'
<1> SUFFICES ASSUME LInv, [LNext]_lvars PROVE LInv'
  OBVIOUS
<1>0. model \in Models BY DEF LInv
<1>1. CASE AllocateCaches
  <2>1. CASE Gemma4 BY <1>0, <1>1, <2>1, Gemma4Bound, FreshKept DEF AllocateCaches
  <2>2. CASE ~Gemma4 BY <1>0, <1>1, <2>2, IndexBound, FreshKept DEF AllocateCaches
  <2> QED BY <2>1, <2>2
<1>2. CASE OffloadCaches BY <1>2, MovedKept DEF OffloadCaches
<1>3. CASE OnloadCaches BY <1>3, MovedKept DEF OnloadCaches
<1>4. CASE ClearCaches
  <2>1. bound' = Unbound' /\ Layers' = Layers BY <1>4 DEF ClearCaches, Unbound, Layers
  <2>2. Alive(bound)' = {} BY <2>1 DEF Alive, Unbound
  <2>3. DOMAIN written' = {} BY <1>4 DEF ClearCaches
  <2> QED BY <1>0, <1>4, <2>1, <2>2, <2>3 DEF LInv, ClearCaches
<1>5. ASSUME UNCHANGED <<model, bound>>, DOMAIN written' = DOMAIN written,
             \A t \in DOMAIN written : written'[t] \subseteq {t[1]}
      PROVE  LInv'
  BY <1>5 DEF LInv, Layers, Alive, BoundTo, Writer, IsShared, KindOf, HasState, Gemma4, Unbound
<1>6. CASE ResetCaches BY <1>5, <1>6 DEF ResetCaches, LInv
<1>7. CASE LayersForward
  <2>1. UNCHANGED <<model, bound>> /\ DOMAIN written' = DOMAIN written BY <1>7 DEF LayersForward
  <2>2. PICK d \in {"gpu", "cpu"} : BoundTo(bound, d)
    <3>1. bound # Unbound BY <1>7 DEF LayersForward, Alive, Unbound
    <3> QED BY <3>1 DEF LInv
  <2>3. ASSUME NEW t \in DOMAIN written PROVE written'[t] \subseteq {t[1]}
    <3>1. ASSUME NEW l \in Layers, t \in bound[l] PROVE Writer(l) = t[1]
      BY <2>2, <3>1 DEF BoundTo
    <3>2. {Writer(l) : l \in {k \in Layers : t \in bound[k]}} \subseteq {t[1]} BY <3>1
    <3>3. written[t] \subseteq {t[1]} BY DEF LInv
    <3> QED BY <1>7, <3>2, <3>3 DEF LayersForward
  <2> QED BY <1>5, <2>1, <2>3
<1>8. CASE UNCHANGED lvars BY <1>5, <1>8 DEF lvars, LInv
<1> QED BY <1>1, <1>2, <1>3, <1>4, <1>6, <1>7, <1>8 DEF LNext

\* The property follows: the tensor of a layer is that of its writer.
LEMMA LayersSafe == LInv => LayersOwnTheirCaches
<1> SUFFICES ASSUME LInv PROVE LayersOwnTheirCaches
  OBVIOUS
<1>1. ASSUME NEW l \in Layers, IsShared(l) PROVE bound[l] = bound[model[l].source]
  <2>1. model[l].source = Writer(l) BY <1>1 DEF Writer
  <2>2. CASE bound = Unbound BY <1>1, <2>1, <2>2, WriterFacts DEF Unbound, LInv
  <2>3. ASSUME NEW d, BoundTo(bound, d) PROVE bound[l] = bound[Writer(l)]
    BY <2>3, WriterFacts DEF BoundTo, LInv
  <2> QED BY <2>1, <2>2, <2>3 DEF LInv
<1>2. ASSUME NEW t \in DOMAIN written PROVE Cardinality(written[t]) <= 1
  <2>1. written[t] \subseteq {t[1]} BY DEF LInv
  <2>2. IsFiniteSet({t[1]}) /\ Cardinality({t[1]}) = 1 BY FS_Singleton
  <2> QED BY <2>1, <2>2, FS_Subset
<1>3. ASSUME NEW t \in Alive(bound), NEW u \in Alive(bound) PROVE t[2] = u[2]
  <2>1. CASE bound = Unbound BY <2>1 DEF Alive, Unbound
  <2>2. ASSUME NEW d, BoundTo(bound, d) PROVE t[2] = u[2]
    BY <2>2 DEF BoundTo, Alive
  <2> QED BY <2>1, <2>2 DEF LInv
<1> QED BY <1>1, <1>2, <1>3 DEF LayersOwnTheirCaches, LInv

\* However the caches of any model are allocated, moved, reset and cleared, a shared layer
\* holds its source's tensor, no tensor holds the tokens of two layers and one device has
\* them all (Gemma4's rebinding, Bailing's index over its softmax layers).
THEOREM LayersKeepTheirCaches == LSpec => []LayersOwnTheirCaches
BY LayersStart, LayersStep, LayersSafe, PTL DEF LSpec

-----------------------------------------------------------------------------
(* A layer split over ranks                                                *)

\* Weights of a layer, and packs with a gradient for every row of its vocabulary.
IsNet(n) ==
  /\ n \in [embed : Seq(Int), head : Seq(Int), pre : Int, post : Int, gain : Int,
            up : Seq(Int), down : Seq(Int), kv : Seq(Int)]
  /\ Len(n.down) = Len(n.up) /\ Len(n.kv) # 0
  /\ \A p \in Packs : \A s \in DOMAIN p.tokens, v \in DOMAIN n.head : p.upstream[s][v] \in Int

\* A layout the weights of n can be split by.
Fits(n, l) ==
  /\ l \in [tp : Nat \ {0}, kind : {"dense", "delta", "moe"}, hook : BOOLEAN]
  /\ Len(n.embed) % l.tp = 0 /\ Len(n.head) % l.tp = 0 /\ Len(n.up) % l.tp = 0
  /\ Len(n.kv) % l.tp = 0 \/ l.tp % Len(n.kv) = 0

\* Ranges of an even partition have one length.
LEMMA EvenParts ==
  ASSUME NEW size \in Nat, NEW T \in Nat \ {0}, size % T = 0
  PROVE  size \div T \in Nat /\ T * (size \div T) = size
BY Z3

\* The next range begins where the last one ends.
LEMMA PartsFollow ==
  ASSUME NEW r \in Nat, NEW q \in Nat, NEW c \in Nat
  PROVE  /\ r * c \in Nat /\ (r + 1) * c = r * c + c
         /\ r < q => (r + 1) * c <= q * c
         /\ r <= q => r * c <= q * c
<1>1. r * c \in Nat /\ (r + 1) * c = r * c + c OBVIOUS
<1>2. ASSUME NEW a \in Nat, NEW b \in Nat, a <= b PROVE a * c <= b * c
  <2>1. PICK d \in Nat : b = a + d
    <3>1. b - a \in Nat /\ b = a + (b - a) BY <1>2
    <3> QED BY <3>1
  <2>2. b * c = a * c + d * c /\ d * c \in Nat /\ a * c \in Nat BY <2>1
  <2> QED BY <2>2
<1>3. r < q => (r + 1) * c <= q * c
  <2>1. r < q => r + 1 <= q OBVIOUS
  <2> QED BY <1>2, <2>1
<1> QED BY <1>1, <1>2, <1>3

\* Two intervals of one length, the second behind the first.
LEMMA Apart ==
  ASSUME NEW a \in Nat, NEW b \in Nat, NEW c \in Nat, a + c <= b
  PROVE  ((a + 1) .. (a + c)) \cap ((b + 1) .. (b + c)) = {}
OBVIOUS

\* A rank's range lies within the rows, and no two ranks share one (_shard_range).
LEMMA ShardFacts ==
  ASSUME NEW size \in Nat, NEW T \in Nat \ {0}, size % T = 0, NEW r \in Ranks(T)
  PROVE  /\ ShardRange(size, r, T) \subseteq 1 .. size
         /\ \A q \in Ranks(T) : q # r => ShardRange(size, r, T) \cap ShardRange(size, q, T) = {}
<1> DEFINE c == size \div T
<1>1. c \in Nat /\ T * c = size BY EvenParts
<1>2. r \in Nat /\ r < T /\ \A q \in Ranks(T) : q \in Nat BY DEF Ranks
<1>3. \A q \in Ranks(T) : ShardRange(size, q, T) = (q * c + 1) .. ((q + 1) * c) BY DEF ShardRange
<1> HIDE DEF c
<1>4. r * c \in Nat /\ (r + 1) * c = r * c + c /\ (r + 1) * c <= T * c BY <1>1, <1>2, PartsFollow
<1>5. ShardRange(size, r, T) \subseteq 1 .. size
  <2>1. (r * c + 1) .. ((r + 1) * c) \subseteq 1 .. size BY <1>1, <1>4
  <2> QED BY <1>3, <2>1
<1>6. ASSUME NEW q \in Ranks(T), q # r PROVE ShardRange(size, r, T) \cap ShardRange(size, q, T) = {}
  <2>1. q \in Nat BY <1>2
  <2>2. q * c \in Nat /\ (q + 1) * c = q * c + c BY <1>1, <2>1, PartsFollow
  <2>3. CASE r < q
    <3>1. (r + 1) * c <= q * c BY <1>1, <1>2, <2>1, <2>3, PartsFollow
    <3>2. ((r * c + 1) .. (r * c + c)) \cap ((q * c + 1) .. (q * c + c)) = {}
      BY <1>1, <1>4, <2>2, <3>1, Apart
    <3> QED BY <1>3, <1>4, <2>2, <3>2
  <2>4. CASE q < r
    <3>1. (q + 1) * c <= r * c BY <1>1, <1>2, <2>1, <2>4, PartsFollow
    <3>2. ((q * c + 1) .. (q * c + c)) \cap ((r * c + 1) .. (r * c + c)) = {}
      BY <1>1, <1>4, <2>2, <3>1, Apart
    <3> QED BY <1>3, <1>4, <2>2, <3>2
  <2> QED BY <1>2, <1>6, <2>1, <2>3, <2>4
<1> QED BY <1>5, <1>6

\* What g adds up to over S is h, rank by rank, each number in the rank that has its row.
SplitUp(size, T, S, g, h) ==
  /\ size \in Nat /\ T \in Nat \ {0} /\ size % T = 0
  /\ S \subseteq 1 .. size /\ \A x \in S : g[x] \in Int
  /\ \A r \in Ranks(T) : h[r] = SumFunctionOnSet(g, ShardRange(size, r, T) \cap S)

\* Then every number is added once.
LEMMA SumOfShards ==
  ASSUME NEW size, NEW T, NEW S, NEW g, NEW h, SplitUp(size, T, S, g, h)
  PROVE  SumFunctionOnSet(h, Ranks(T)) = SumFunctionOnSet(g, S)
<1> DEFINE c == size \div T
           Sum(s) == SumFunctionOnSet(g, s)
           Below(t) == S \cap (1 .. t * c)
           G == {t \in 0 .. T : SumFunctionOnSet(h, 0 .. t - 1) = Sum(Below(t))}
<1>0. /\ size \in Nat /\ T \in Nat \ {0} /\ size % T = 0
      /\ S \subseteq 1 .. size /\ \A x \in S : g[x] \in Int
      /\ \A r \in Ranks(T) : h[r] = SumFunctionOnSet(g, ShardRange(size, r, T) \cap S)
  BY DEF SplitUp
<1> USE <1>0
<1>1. c \in Nat /\ T * c = size BY <1>0, EvenParts
<1>2. \A q \in Ranks(T) : ShardRange(size, q, T) = (q * c + 1) .. ((q + 1) * c) BY DEF ShardRange
<1> HIDE DEF c
<1>3. IsFiniteSet(S) /\ \A s \in SUBSET S : IsFiniteSet(s) /\ Sum(s) \in Int
  <2>1. IsFiniteSet(1 .. size) BY FS_Interval
  <2> QED BY <2>1, FS_Subset, SumType
<1>4. 0 \in G
  <2>1. 0 .. 0 - 1 = {} /\ Below(0) = {}
    <3>1. 0 * c = 0 BY <1>1
    <3> QED BY <3>1
  <2>2. SumFunctionOnSet(h, {}) = 0 /\ SumFunctionOnSet(g, {}) = 0 BY SumUnfolds, FS_EmptySet
  <2>3. 0 \in 0 .. T OBVIOUS
  <2> QED BY <2>1, <2>2, <2>3
<1>5. ASSUME NEW t \in 0 .. T - 1, t \in G PROVE t + 1 \in G
  <2>1. t \in Nat /\ t \in Ranks(T) /\ t + 1 \in 0 .. T /\ (t + 1) - 1 = t /\ 0 .. t \subseteq Ranks(T)
        /\ t \in 0 .. t /\ (0 .. t) \ {t} = 0 .. t - 1
    BY DEF Ranks
  <2>2. t * c \in Nat /\ (t + 1) * c = t * c + c BY <1>1, <2>1, PartsFollow
  <2> DEFINE own == ShardRange(size, t, T) \cap S
  <2>3. Below(t + 1) = Below(t) \cup own /\ Below(t) \cap own = {}
    <3>1. own = ((t * c + 1) .. (t * c + c)) \cap S BY <1>2, <2>1, <2>2
    <3>2. Below(t + 1) = S \cap (1 .. t * c + c) BY <2>2
    <3> HIDE DEF own
    <3> QED BY <1>1, <2>2, <3>1, <3>2
  <2>4. Sum(Below(t + 1)) = Sum(Below(t)) + Sum(own)
    <3>1. IsFiniteSet(Below(t)) /\ IsFiniteSet(own) /\ \A x \in Below(t) \cup own : g[x] \in Int BY <1>3
    <3> HIDE DEF Below, own
    <3> QED BY <2>3, <3>1, SumOfParts
  <2>5. SumFunctionOnSet(h, 0 .. t) = h[t] + SumFunctionOnSet(h, 0 .. t - 1)
    <3>1. IsFiniteSet(0 .. t) BY FS_Interval
    <3>2. \A r \in 0 .. t : h[r] \in Int
      <4>1. ASSUME NEW r \in 0 .. t PROVE h[r] \in Int
        <5>1. r \in Ranks(T) BY <2>1
        <5>2. ShardRange(size, r, T) \cap S \in SUBSET S OBVIOUS
        <5>3. h[r] = Sum(ShardRange(size, r, T) \cap S) BY <5>1
        <5> QED BY <1>3, <5>2, <5>3
      <4> QED BY <4>1
    <3>3. SumFunctionOnSet(h, 0 .. t) = h[t] + SumFunctionOnSet(h, (0 .. t) \ {t})
      BY <2>1, <3>1, <3>2, SumOfOthers
    <3> QED BY <2>1, <3>3
  <2>6. h[t] = Sum(own) BY <2>1
  <2>7. Sum(own) \in Int /\ Sum(Below(t)) \in Int BY <1>3
  <2>8. SumFunctionOnSet(h, 0 .. t - 1) = Sum(Below(t)) BY <1>5
  <2> HIDE DEF Below, own, Sum
  <2>9. SumFunctionOnSet(h, 0 .. t) = Sum(Below(t + 1)) BY <2>4, <2>5, <2>6, <2>7, <2>8
  <2>10. SumFunctionOnSet(h, 0 .. (t + 1) - 1) = Sum(Below(t + 1)) BY <2>1, <2>9
  <2> QED BY <2>1, <2>10
<1> HIDE DEF G
<1>6. 0 .. T \subseteq G BY <1>4, <1>5, IntervalInduction
<1>7. T \in G BY <1>6
<1>8. SumFunctionOnSet(h, 0 .. T - 1) = Sum(Below(T)) BY <1>7 DEF G
<1>9. Below(T) = S BY <1>1
<1> QED BY <1>8, <1>9 DEF Ranks

\* A sum over a function is one over a set on which another agrees with it.
LEMMA SumFunctionIs ==
  ASSUME NEW A, IsFiniteSet(A), NEW f, DOMAIN f = A, NEW g, \A x \in A : f[x] = g[x]
  PROVE  SumFunction(f) = SumFunctionOnSet(g, A)
<1>1. SumFunction(f) = SumFunctionOnSet(f, A) BY DEF SumFunction
<1> QED BY <1>1, SumSame

\* A tensor of which every rank has a copy.
Rep(T, e) == [r \in Ranks(T) |-> e]

\* Scaling and adding copies.
LEMMA RepScale ==
  ASSUME NEW T, NEW e, NEW w
  PROVE  Scale(w, Rep(T, e)) = Rep(T, [s \in DOMAIN e |-> w * e[s]])
BY DEF Scale, Rep

LEMMA RepPlus ==
  ASSUME NEW T, NEW e, NEW f
  PROVE  Plus(Rep(T, e), Rep(T, f)) = Rep(T, [s \in DOMAIN e |-> e[s] + f[s]])
BY DEF Plus, Rep

\* At every position s of D what the ranks hold of W is split up, row by row.
Distributed(size, T, D, S, g, X, W) ==
  /\ size \in Nat /\ T \in Nat \ {0} /\ size % T = 0
  /\ \A s \in D : S[s] \subseteq 1 .. size /\ \A x \in S[s] : g[s][x] \in Int
  /\ DOMAIN X = Ranks(T) /\ \A r \in Ranks(T) : DOMAIN X[r] = D
  /\ \A r \in Ranks(T), s \in D : X[r][s] = SumFunctionOnSet(g[s], ShardRange(size, r, T) \cap S[s])
  /\ W = [s \in D |-> W[s]] /\ \A s \in D : W[s] = SumFunctionOnSet(g[s], S[s])

\* The collective leaves every rank with the whole sum, if each row is added by the rank
\* whose range it is in.
LEMMA RepAllReduce ==
  ASSUME NEW size, NEW T, NEW D, NEW S, NEW g, NEW X, NEW W, Distributed(size, T, D, S, g, X, W)
  PROVE  AllReduce(X) = Rep(T, W)
<1>0. /\ size \in Nat /\ T \in Nat \ {0} /\ size % T = 0
      /\ \A s \in D : S[s] \subseteq 1 .. size /\ \A x \in S[s] : g[s][x] \in Int
      /\ DOMAIN X = Ranks(T) /\ \A r \in Ranks(T) : DOMAIN X[r] = D
      /\ \A r \in Ranks(T), s \in D : X[r][s] = SumFunctionOnSet(g[s], ShardRange(size, r, T) \cap S[s])
      /\ W = [s \in D |-> W[s]] /\ \A s \in D : W[s] = SumFunctionOnSet(g[s], S[s])
  BY DEF Distributed
<1>2. ASSUME NEW s \in D PROVE SumFunction([q \in DOMAIN X |-> X[q][s]]) = W[s]
  <2> DEFINE h == [q \in DOMAIN X |-> X[q][s]]  gs == g[s]  Ss == S[s]
  <2>1. Ss \subseteq 1 .. size /\ \A x \in Ss : gs[x] \in Int BY <1>0
  <2>2. \A r \in Ranks(T) : h[r] = SumFunctionOnSet(gs, ShardRange(size, r, T) \cap Ss) BY <1>0
  <2>3. DOMAIN h = Ranks(T) BY <1>0
  <2>4. W[s] = SumFunctionOnSet(gs, Ss) BY <1>0
  <2> HIDE DEF h, gs, Ss
  <2>5. SplitUp(size, T, Ss, gs, h) BY <1>0, <2>1, <2>2 DEF SplitUp
  <2>6. SumFunctionOnSet(h, Ranks(T)) = SumFunctionOnSet(gs, Ss) BY <2>5, SumOfShards
  <2>7. SumFunction(h) = SumFunctionOnSet(h, Ranks(T)) BY <2>3 DEF SumFunction
  <2>8. SumFunction(h) = W[s] BY <2>4, <2>6, <2>7
  <2> QED BY <2>8 DEF h
<1>3. AllReduce(X) = [r \in Ranks(T) |-> [s \in D |-> SumFunction([q \in DOMAIN X |-> X[q][s]])]]
  BY <1>0 DEF AllReduce
<1>4. AllReduce(X) = [r \in Ranks(T) |-> [s \in D |-> W[s]]] BY <1>2, <1>3
<1> QED BY <1>0, <1>4 DEF Rep

\* One number adds up to itself.
LEMMA SumOfOne ==
  ASSUME NEW f, NEW x, f[x] \in Int
  PROVE  SumFunctionOnSet(f, {x}) = f[x]
<1>1. IsFiniteSet({x}) /\ x \in {x} /\ {x} \ {x} = {} BY FS_Singleton
<1>2. SumFunctionOnSet(f, {x}) = f[x] + SumFunctionOnSet(f, {x} \ {x})
  <2> DEFINE S == {x}
  <2>1. IsFiniteSet(S) /\ (\A y \in S : f[y] \in Int) /\ x \in S BY <1>1
  <2> HIDE DEF S
  <2>2. SumFunctionOnSet(f, S) = f[x] + SumFunctionOnSet(f, S \ {x}) BY <2>1, SumOfOthers
  <2> QED BY <2>2 DEF S
<1>3. SumFunctionOnSet(f, {}) = 0 BY SumUnfolds, FS_EmptySet
<1>4. SumFunctionOnSet(f, {x} \ {x}) = 0 BY <1>1, <1>3
<1> QED BY <1>2, <1>4

\* A factor comes out of a sum.
LEMMA SumScaled ==
  ASSUME NEW S, IsFiniteSet(S), NEW f, \A x \in S : f[x] \in Int, NEW c \in Int,
         NEW g, \A x \in S : g[x] = c * f[x]
  PROVE  SumFunctionOnSet(g, S) = c * SumFunctionOnSet(f, S)
<1>1. \A x \in S : g[x] = c * f[x] - 0
  <2> SUFFICES ASSUME NEW x \in S PROVE g[x] = c * f[x] - 0 OBVIOUS
  <2>1. c * f[x] \in Int OBVIOUS
  <2> QED BY <2>1
<1>2. 0 \in Int OBVIOUS
<1>3. SumFunctionOnSet(g, S) = c * SumFunctionOnSet(f, S) - Cardinality(S) * 0 BY <1>1, <1>2, SumLinear
<1>4. Cardinality(S) \in Nat /\ SumFunctionOnSet(f, S) \in Int BY FS_CardinalityType, SumType
<1> DEFINE k == Cardinality(S)  a == SumFunctionOnSet(f, S)  b == SumFunctionOnSet(g, S)
<1>5. k \in Nat /\ a \in Int /\ b = c * a - k * 0 BY <1>3, <1>4
<1> HIDE DEF k, a, b
<1>6. k * 0 = 0 /\ c * a \in Int BY <1>5
<1>7. b = c * a BY <1>5, <1>6
<1> QED BY <1>7 DEF a, b

\* Sums are taken position by position.
LEMMA SumAdds ==
  ASSUME NEW S, IsFiniteSet(S), NEW f, NEW g, NEW h,
         \A x \in S : f[x] \in Int /\ g[x] \in Int /\ h[x] = f[x] + g[x]
  PROVE  SumFunctionOnSet(h, S) = SumFunctionOnSet(f, S) + SumFunctionOnSet(g, S)
<1> DEFINE F(s) == SumFunctionOnSet(f, s)  G(s) == SumFunctionOnSet(g, s)  H(s) == SumFunctionOnSet(h, s)
           T == {n \in Nat : \A s \in SUBSET S : Cardinality(s) = n => H(s) = F(s) + G(s)}
<1>0. \A s \in SUBSET S : IsFiniteSet(s) /\ Cardinality(s) \in Nat /\ (Cardinality(s) = 0 => s = {})
  BY FS_Subset, FS_CardinalityType, FS_EmptySet
<1>1. \A s \in SUBSET S : F(s) \in Int /\ G(s) \in Int BY <1>0, SumType
<1>2. ASSUME NEW s \in SUBSET S, NEW x \in s
      PROVE  F(s) = f[x] + F(s \ {x}) /\ G(s) = g[x] + G(s \ {x}) /\ H(s) = h[x] + H(s \ {x})
  <2>1. IsFiniteSet(s) /\ \A y \in s : f[y] \in Int /\ g[y] \in Int /\ h[y] \in Int BY <1>0
  <2> QED BY <2>1, SumOfOthers
<1>3. 0 \in T
  <2>1. F({}) = 0 /\ G({}) = 0 /\ H({}) = 0 BY SumUnfolds, FS_EmptySet
  <2> HIDE DEF F, G, H
  <2>2. ASSUME NEW s \in SUBSET S, Cardinality(s) = 0 PROVE H(s) = F(s) + G(s)
    <3>1. s = {} BY <1>0, <2>2
    <3> QED BY <2>1, <3>1
  <2> QED BY <2>2
<1> HIDE DEF F, G, H
<1>4. ASSUME NEW n \in Nat, n \in T PROVE n + 1 \in T
  <2>1. ASSUME NEW s \in SUBSET S, Cardinality(s) = n + 1 PROVE H(s) = F(s) + G(s)
    <3>1. s # {}
      <4>1. Cardinality({}) = 0 BY FS_EmptySet
      <4> QED BY ONLY <2>1, <4>1, n \in Nat
    <3> DEFINE x == CHOOSE x \in s : TRUE  r == s \ {x}
    <3>a. x \in s BY <3>1
    <3>b. IsFiniteSet(s) /\ Cardinality(s) = n + 1 BY <1>0, <2>1
    <3>c. Cardinality(r) = Cardinality(s) - 1 BY <3>1, <3>b, OneLess
    <3>2. r \in SUBSET S /\ Cardinality(r) = n /\ x \in S
      <4>1. Cardinality(r) = n BY ONLY <3>b, <3>c, n \in Nat
      <4> QED BY <3>a, <4>1
    <3> HIDE DEF x
    <3>3. F(s) = f[x] + F(r) /\ G(s) = g[x] + G(r) /\ H(s) = h[x] + H(r) BY <1>2, <3>a
    <3>4. H(r) = F(r) + G(r) /\ F(r) \in Int /\ G(r) \in Int BY <1>1, <1>4, <3>2
    <3>5. f[x] \in Int /\ g[x] \in Int /\ h[x] = f[x] + g[x] BY <3>2
    <3> HIDE DEF r
    <3> QED BY <3>3, <3>4, <3>5
  <2> QED BY <2>1
<1> HIDE DEF T
<1>5. Nat \subseteq T BY <1>3, <1>4, NatSetInduction
<1>6. H(S) = F(S) + G(S) BY <1>0, <1>5 DEF T
<1> QED BY <1>6 DEF F, G, H

\* A number added up once for every element.
LEMMA SumOfConstant ==
  ASSUME NEW S, IsFiniteSet(S), NEW c \in Int, NEW f, \A x \in S : f[x] = c
  PROVE  SumFunctionOnSet(f, S) = Cardinality(S) * c
<1> DEFINE zero == [x \in S |-> 0]  d == 0 - c
<1>1. d \in Int /\ 0 \in Int /\ \A x \in S : zero[x] \in Int /\ f[x] = 0 * zero[x] - d OBVIOUS
<1> HIDE DEF zero, d
<1>2. SumFunctionOnSet(f, S) = 0 * SumFunctionOnSet(zero, S) - Cardinality(S) * d BY <1>1, SumLinear
<1>3. Cardinality(S) \in Nat /\ SumFunctionOnSet(zero, S) \in Int BY <1>1, FS_CardinalityType, SumType
<1> DEFINE k == Cardinality(S)  a == SumFunctionOnSet(zero, S)  b == SumFunctionOnSet(f, S)
<1>4. k \in Nat /\ a \in Int /\ b = 0 * a - k * d BY <1>2, <1>3
<1> HIDE DEF k, a, b
<1>5. 0 * a = 0 /\ k * (0 - c) = 0 - k * c /\ k * c \in Int BY <1>4
<1>6. b = k * c BY <1>4, <1>5 DEF d
<1> QED BY <1>6 DEF k, b

\* f over A is g over B and zero elsewhere.
Within(A, B, f, g) ==
  /\ IsFiniteSet(A) /\ B \subseteq A /\ \A x \in A : f[x] \in Int
  /\ \A x \in B : g[x] = f[x]
  /\ \A x \in A \ B : f[x] = 0

\* What is zero need not be added.
LEMMA SumWithin ==
  ASSUME NEW A, NEW B, NEW f, NEW g, Within(A, B, f, g)
  PROVE  SumFunctionOnSet(f, A) = SumFunctionOnSet(g, B)
<1>0. /\ IsFiniteSet(A) /\ B \subseteq A /\ \A x \in A : f[x] \in Int
      /\ \A x \in B : g[x] = f[x]
      /\ \A x \in A \ B : f[x] = 0
  BY DEF Within
<1> USE <1>0
<1>1. IsFiniteSet(B) /\ IsFiniteSet(A \ B) BY FS_Subset
<1>2. SumFunctionOnSet(f, B \cup (A \ B)) = SumFunctionOnSet(f, B) + SumFunctionOnSet(f, A \ B)
  <2> DEFINE C == A \ B
  <2>1. B \cap C = {} /\ \A x \in B \cup C : f[x] \in Int OBVIOUS
  <2> HIDE DEF C
  <2>2. IsFiniteSet(C) BY <1>1 DEF C
  <2>3. SumFunctionOnSet(f, B \cup C) = SumFunctionOnSet(f, B) + SumFunctionOnSet(f, C)
    BY <1>1, <2>1, <2>2, SumOfParts
  <2> QED BY <2>3 DEF C
<1>3. B \cup (A \ B) = A OBVIOUS
<1>4. SumFunctionOnSet(f, A \ B) = 0
  <2> DEFINE C == A \ B
  <2>1. IsFiniteSet(C) /\ 0 \in Int /\ \A x \in C : f[x] = 0 BY <1>1
  <2> HIDE DEF C
  <2>2. SumFunctionOnSet(f, C) = Cardinality(C) * 0 /\ Cardinality(C) \in Nat
    BY <2>1, SumOfConstant, FS_CardinalityType
  <2>3. Cardinality(C) * 0 = 0 BY <2>2
  <2> QED BY <2>2, <2>3 DEF C
<1>5. SumFunctionOnSet(f, B) = SumFunctionOnSet(g, B) BY <1>1, SumSame
<1>6. SumFunctionOnSet(f, B) \in Int BY <1>1, SumType
<1> DEFINE all == SumFunctionOnSet(f, A)  some == SumFunctionOnSet(f, B)
<1>7. all = some + 0 /\ some \in Int BY <1>2, <1>3, <1>4, <1>6
<1> HIDE DEF all, some
<1>8. all = some BY <1>7
<1> QED BY <1>5, <1>8 DEF all, some

\* A table of integers, its rows added up in b and its columns in c.
Table(T, D, a, b, c) ==
  /\ T \in Nat /\ IsFiniteSet(D) /\ \A r \in Ranks(T), s \in D : a[r][s] \in Int
  /\ \A r \in Ranks(T) : b[r] = SumFunctionOnSet(a[r], D)
  /\ \A s \in D : c[s] = SumFunctionOnSet([r \in Ranks(T) |-> a[r][s]], Ranks(T))

\* Rows first or columns first, it adds up to the same.
LEMMA SumExchange ==
  ASSUME NEW T, NEW D, NEW a, NEW b, NEW c, Table(T, D, a, b, c)
  PROVE  SumFunctionOnSet(b, Ranks(T)) = SumFunctionOnSet(c, D)
<1>0. /\ T \in Nat /\ IsFiniteSet(D) /\ \A r \in Ranks(T), s \in D : a[r][s] \in Int
      /\ \A r \in Ranks(T) : b[r] = SumFunctionOnSet(a[r], D)
      /\ \A s \in D : c[s] = SumFunctionOnSet([r \in Ranks(T) |-> a[r][s]], Ranks(T))
  BY DEF Table
<1> DEFINE col(s) == [r \in Ranks(T) |-> a[r][s]]
           cols(t) == [s \in D |-> SumFunctionOnSet(col(s), 0 .. t - 1)]
           G == {t \in 0 .. T : SumFunctionOnSet(b, 0 .. t - 1) = SumFunctionOnSet(cols(t), D)}
<1>1. \A r \in Ranks(T) : b[r] \in Int
  <2> SUFFICES ASSUME NEW r \in Ranks(T) PROVE b[r] \in Int OBVIOUS
  <2> DEFINE row == a[r]
  <2>1. \A s \in D : row[s] \in Int BY <1>0
  <2>2. b[r] = SumFunctionOnSet(row, D) BY <1>0
  <2> HIDE DEF row
  <2> QED BY <1>0, <2>1, <2>2, SumType
<1>2. \A s \in D, r \in Ranks(T) : col(s)[r] = a[r][s] /\ col(s)[r] \in Int BY <1>0
<1>3. \A t \in 0 .. T : IsFiniteSet(0 .. t - 1) /\ 0 .. t - 1 \subseteq Ranks(T)
  <2> SUFFICES ASSUME NEW t \in 0 .. T PROVE IsFiniteSet(0 .. t - 1) /\ 0 .. t - 1 \subseteq Ranks(T) OBVIOUS
  <2>1. 0 \in Int /\ t - 1 \in Int BY <1>0
  <2>2. IsFiniteSet(0 .. t - 1) BY <2>1, FS_Interval
  <2>3. 0 .. t - 1 \subseteq Ranks(T) BY <1>0 DEF Ranks
  <2> QED BY <2>2, <2>3
<1> HIDE DEF col
<1>4. \A t \in 0 .. T, s \in D : cols(t)[s] \in Int
  <2> SUFFICES ASSUME NEW t \in 0 .. T, NEW s \in D PROVE cols(t)[s] \in Int OBVIOUS
  <2>1. cols(t)[s] = SumFunctionOnSet(col(s), 0 .. t - 1) OBVIOUS
  <2>2. \A r \in 0 .. t - 1 : col(s)[r] \in Int BY <1>2, <1>3
  <2>3. SumFunctionOnSet(col(s), 0 .. t - 1) \in Int BY <1>3, <2>2, SumType
  <2> HIDE DEF cols
  <2> QED BY <2>1, <2>3
<1>5. 0 \in G
  <2>1. 0 .. 0 - 1 = {} /\ 0 \in 0 .. T BY <1>0
  <2>2. SumFunctionOnSet(b, {}) = 0 /\ \A s \in D : SumFunctionOnSet(col(s), {}) = 0 BY SumUnfolds, FS_EmptySet
  <2> DEFINE z == cols(0)
  <2>3. \A s \in D : z[s] = 0 BY <2>1, <2>2
  <2> HIDE DEF z
  <2>4. SumFunctionOnSet(z, D) = Cardinality(D) * 0
    <3>1. 0 \in Int OBVIOUS
    <3> QED BY <1>0, <2>3, <3>1, SumOfConstant
  <2>5. Cardinality(D) \in Nat BY <1>0, FS_CardinalityType
  <2>6. SumFunctionOnSet(z, D) = 0 BY <2>4, <2>5
  <2> QED BY <2>1, <2>2, <2>6 DEF z
<1>6. ASSUME NEW t \in 0 .. T - 1, t \in G PROVE t + 1 \in G
  <2>1. /\ t \in Ranks(T) /\ t \in 0 .. T /\ t + 1 \in 0 .. T /\ (t + 1) - 1 = t /\ t \in 0 .. t
        /\ (0 .. t) \ {t} = 0 .. t - 1
    BY <1>0 DEF Ranks
  <2>2. IsFiniteSet(0 .. t) /\ 0 .. t \subseteq Ranks(T) BY <1>3, <2>1
  <2>3. SumFunctionOnSet(b, 0 .. t) = b[t] + SumFunctionOnSet(b, 0 .. t - 1)
    <3>1. \A r \in 0 .. t : b[r] \in Int BY <1>1, <2>2
    <3>2. SumFunctionOnSet(b, 0 .. t) = b[t] + SumFunctionOnSet(b, (0 .. t) \ {t})
      BY <2>1, <2>2, <3>1, SumOfOthers
    <3> QED BY <2>1, <3>2
  <2> DEFINE row == a[t]  now == cols(t)  then == cols(t + 1)
  <2>4. \A s \in D : row[s] \in Int /\ now[s] \in Int /\ then[s] = row[s] + now[s]
    <3> SUFFICES ASSUME NEW s \in D PROVE row[s] \in Int /\ now[s] \in Int /\ then[s] = row[s] + now[s] OBVIOUS
    <3>1. row[s] \in Int /\ now[s] \in Int BY <1>0, <1>4, <2>1
    <3>2. now[s] = SumFunctionOnSet(col(s), 0 .. t - 1) /\ then[s] = SumFunctionOnSet(col(s), 0 .. t) BY <2>1
    <3> HIDE DEF row, now, then
    <3>3. \A r \in 0 .. t : col(s)[r] \in Int BY <1>2, <2>2
    <3>4. SumFunctionOnSet(col(s), 0 .. t) = col(s)[t] + SumFunctionOnSet(col(s), (0 .. t) \ {t})
      BY <2>1, <2>2, <3>3, SumOfOthers
    <3>5. col(s)[t] = row[s] BY <1>2, <2>1 DEF row
    <3> QED BY <2>1, <3>1, <3>2, <3>4, <3>5
  <2>5. b[t] = SumFunctionOnSet(row, D) BY <1>0, <2>1
  <2>6. SumFunctionOnSet(b, 0 .. t - 1) = SumFunctionOnSet(now, D) BY <1>6
  <2> HIDE DEF row, now, then
  <2>7. SumFunctionOnSet(then, D) = SumFunctionOnSet(row, D) + SumFunctionOnSet(now, D) BY <1>0, <2>4, SumAdds
  <2>8. SumFunctionOnSet(b, 0 .. (t + 1) - 1) = SumFunctionOnSet(then, D) BY <2>1, <2>3, <2>5, <2>6, <2>7
  <2> QED BY <2>1, <2>8 DEF then
<1> HIDE DEF G, cols
<1>7. 0 .. T \subseteq G BY <1>0, <1>5, <1>6, IntervalInduction
<1>8. SumFunctionOnSet(b, 0 .. T - 1) = SumFunctionOnSet(cols(T), D) BY <1>0, <1>7 DEF G
<1>9. \A s \in D : cols(T)[s] = c[s] BY <1>0 DEF cols, col, Ranks
<1>10. SumFunctionOnSet(cols(T), D) = SumFunctionOnSet(c, D) BY <1>0, <1>9, SumSame
<1> QED BY <1>8, <1>10 DEF Ranks

-----------------------------------------------------------------------------
(* Forward                                                                 *)

\* What a layer computes at every position, whoever computes it: the embedding, what its
\* heads or experts read, and what the head reads.
Places(p) == DOMAIN p.tokens
XOf(n, p) == [s \in Places(p) |-> SumFunctionOnSet(n.embed, {p.tokens[s]} \cap 1 .. Len(n.embed))]
InnerOf(n, p) == [s \in Places(p) |-> n.pre * XOf(n, p)[s]]
Acting(n, p, m, s) == {f \in 1 .. Len(n.up) : m = "moe" => p.routes[s] = f}
Adds(n, p, s) == [f \in 1 .. Len(n.up) |-> n.down[f] * Mid(n, f, InnerOf(n, p)[s])]
YOf(n, p, m) ==
  [s \in Places(p) |-> XOf(n, p)[s] + SumFunctionOnSet(Adds(n, p, s), Acting(n, p, m, s))]
ZOf(n, p, m) == [s \in Places(p) |-> n.post * YOf(n, p, m)[s]]

\* Weights are integers, and every head reads some key and value.
LEMMA NetFacts ==
  ASSUME NEW n, IsNet(n)
  PROVE  /\ n.embed \in Seq(Int) /\ n.head \in Seq(Int)
         /\ n.pre \in Int /\ n.post \in Int /\ n.gain \in Int
         /\ n.up \in Seq(Int) /\ n.down \in Seq(Int) /\ n.kv \in Seq(Int) /\ Len(n.down) = Len(n.up)
         /\ Len(n.embed) \in Nat /\ Len(n.head) \in Nat /\ Len(n.up) \in Nat /\ Len(n.kv) \in Nat \ {0}
         /\ \A f \in 1 .. Len(n.up) : /\ n.up[f] \in Int /\ n.down[f] \in Int
                                      /\ n.kv[KvOf(n, f)] \in Int
<1>1. /\ n \in [embed : Seq(Int), head : Seq(Int), pre : Int, post : Int, gain : Int,
                up : Seq(Int), down : Seq(Int), kv : Seq(Int)]
      /\ Len(n.down) = Len(n.up) /\ Len(n.kv) # 0
  BY DEF IsNet
<1> DEFINE K == Len(n.kv)  U == Len(n.up)
<1>2. n.kv \in Seq(Int) /\ n.up \in Seq(Int) /\ n.down \in Seq(Int) BY <1>1
<1>3. K \in Nat \ {0} /\ U \in Nat BY <1>1, <1>2
<1>4. ASSUME NEW f \in 1 .. U PROVE n.kv[KvOf(n, f)] \in Int
  <2> HIDE DEF K, U
  <2>1. U \in Nat \ {0} /\ f - 1 \in 0 .. U - 1 BY <1>3, <1>4
  <2>2. ((f - 1) * K) \div U \in 0 .. K - 1
    <3> DEFINE a == f - 1
    <3>1. a \in Nat /\ a <= U - 1 BY <2>1
    <3> HIDE DEF a
    <3>2. a * K \in Nat /\ a * K < U * K BY <1>3, <2>1, <3>1, Z3
    <3>3. (a * K) \div U \in Nat /\ (a * K) \div U < K BY <1>3, <2>1, <3>2, Z3
    <3>4. (a * K) \div U \in 0 .. K - 1 BY <1>3, <3>3
    <3> QED BY <3>4 DEF a
  <2>3. ((f - 1) * K) \div U + 1 \in 1 .. K BY <1>3, <2>2
  <2>4. KvOf(n, f) \in 1 .. Len(n.kv) BY <2>3 DEF KvOf, K, U
  <2> QED BY <1>2, <2>4
<1>5. \A f \in 1 .. Len(n.up) : n.up[f] \in Int /\ n.down[f] \in Int BY <1>1, <1>2
<1> QED BY <1>1, <1>2, <1>3, <1>4, <1>5

\* Whatever a layer computes at a position is an integer.
LEMMA PlacesAreInts ==
  ASSUME NEW n, IsNet(n), NEW p \in Packs, NEW m
  PROVE  /\ \A s \in Places(p) : /\ XOf(n, p)[s] \in Int /\ InnerOf(n, p)[s] \in Int
                                 /\ YOf(n, p, m)[s] \in Int /\ ZOf(n, p, m)[s] \in Int
         /\ \A s \in Places(p) : \A f \in 1 .. Len(n.up) : Mid(n, f, InnerOf(n, p)[s]) \in Int
                                                          /\ Adds(n, p, s)[f] \in Int
<1> SUFFICES ASSUME NEW s \in Places(p)
             PROVE  /\ XOf(n, p)[s] \in Int /\ InnerOf(n, p)[s] \in Int
                    /\ YOf(n, p, m)[s] \in Int /\ ZOf(n, p, m)[s] \in Int
                    /\ \A f \in 1 .. Len(n.up) : Mid(n, f, InnerOf(n, p)[s]) \in Int /\ Adds(n, p, s)[f] \in Int
  OBVIOUS
<1>1. XOf(n, p)[s] \in Int
  <2> DEFINE A == {p.tokens[s]} \cap 1 .. Len(n.embed)
  <2>1. IsFiniteSet(A) /\ \A x \in A : n.embed[x] \in Int
    <3>a. Len(n.embed) \in Nat BY NetFacts
    <3>1. IsFiniteSet(1 .. Len(n.embed)) BY <3>a, FS_Interval
    <3> QED BY <3>1, FS_Subset, NetFacts
  <2>2. XOf(n, p)[s] = SumFunctionOnSet(n.embed, A) BY DEF XOf
  <2> HIDE DEF A
  <2> QED BY <2>1, <2>2, SumType
<1>2. InnerOf(n, p)[s] \in Int
  <2>1. InnerOf(n, p)[s] = n.pre * XOf(n, p)[s] BY DEF InnerOf
  <2> QED BY <1>1, <2>1, NetFacts
<1>3. \A f \in 1 .. Len(n.up) : Mid(n, f, InnerOf(n, p)[s]) \in Int /\ Adds(n, p, s)[f] \in Int
  <2> SUFFICES ASSUME NEW f \in 1 .. Len(n.up)
               PROVE  Mid(n, f, InnerOf(n, p)[s]) \in Int /\ Adds(n, p, s)[f] \in Int
    OBVIOUS
  <2>1. n.up[f] \in Int /\ n.down[f] \in Int /\ n.kv[KvOf(n, f)] \in Int BY NetFacts
  <2>a. n.gain \in Int BY NetFacts
  <2> DEFINE u == n.up[f]  k == n.kv[KvOf(n, f)]  g == n.gain  h == InnerOf(n, p)[s]
  <2>b. u \in Int /\ k \in Int /\ g \in Int /\ h \in Int BY <1>2, <2>1, <2>a
  <2>2. Mid(n, f, InnerOf(n, p)[s]) \in Int
    <3>1. Mid(n, f, InnerOf(n, p)[s]) = g * (u + k) * h BY DEF Mid
    <3> HIDE DEF u, k, g, h
    <3> QED BY <2>b, <3>1
  <2>3. Adds(n, p, s)[f] = n.down[f] * Mid(n, f, InnerOf(n, p)[s]) BY DEF Adds
  <2> QED BY <2>1, <2>2, <2>3
<1>4. YOf(n, p, m)[s] \in Int
  <2> DEFINE A == Acting(n, p, m, s)  g == Adds(n, p, s)
  <2>1. IsFiniteSet(A) /\ \A x \in A : g[x] \in Int
    <3>a. Len(n.up) \in Nat BY NetFacts
    <3>1. IsFiniteSet(1 .. Len(n.up)) BY <3>a, FS_Interval
    <3>2. A \subseteq 1 .. Len(n.up) BY DEF Acting
    <3> QED BY <1>3, <3>1, <3>2, FS_Subset
  <2>2. YOf(n, p, m)[s] = XOf(n, p)[s] + SumFunctionOnSet(g, A) BY DEF YOf
  <2> HIDE DEF A, g
  <2>3. SumFunctionOnSet(g, A) \in Int BY <2>1, SumType
  <2> QED BY <1>1, <2>2, <2>3
<1>5. ZOf(n, p, m)[s] \in Int
  <2>1. ZOf(n, p, m)[s] = n.post * YOf(n, p, m)[s] BY DEF ZOf
  <2> QED BY <1>4, <2>1, NetFacts
<1> QED BY <1>1, <1>2, <1>3, <1>4, <1>5

\* Each token is embedded by the rank that has its row (VocabParallelEmbedding).
LEMMA EmbeddedIs ==
  ASSUME NEW n, IsNet(n), NEW p \in Packs, NEW l, Fits(n, l)
  PROVE  Embedded(n, p, l) = Rep(l.tp, XOf(n, p))
<1> DEFINE T == l.tp
           size == Len(n.embed)
           S == [s \in Places(p) |-> {p.tokens[s]} \cap 1 .. size]
           g == [s \in Places(p) |-> n.embed]
           X == [r \in Ranks(T) |-> [s \in Places(p) |->
                   IF p.tokens[s] \in ShardRange(size, r, T) THEN n.embed[p.tokens[s]] ELSE 0]]
<1>1. T \in Nat \ {0} /\ size \in Nat /\ size % T = 0 BY NetFacts DEF Fits
<1>2. Embedded(n, p, l) = AllReduce(X) BY DEF Embedded, Places
<1>3. ASSUME NEW r \in Ranks(T), NEW s \in Places(p)
      PROVE  X[r][s] = SumFunctionOnSet(g[s], ShardRange(size, r, T) \cap S[s])
  <2> DEFINE tok == p.tokens[s]  Sh == ShardRange(size, r, T)
  <2>1. Sh \subseteq 1 .. size BY <1>1, ShardFacts
  <2>2. Sh \cap S[s] = IF tok \in Sh THEN {tok} ELSE {} BY <2>1
  <2>3. X[r][s] = IF tok \in Sh THEN n.embed[tok] ELSE 0 OBVIOUS
  <2>4. g[s] = n.embed OBVIOUS
  <2>5. SumFunctionOnSet(n.embed, {}) = 0 BY SumUnfolds, FS_EmptySet
  <2>6. ASSUME tok \in Sh PROVE SumFunctionOnSet(n.embed, {tok}) = n.embed[tok]
    <3>1. n.embed[tok] \in Int BY <2>1, <2>6, NetFacts
    <3> HIDE DEF tok
    <3> QED BY <3>1, SumOfOne
  <2> HIDE DEF S, g, X, tok, Sh
  <2>7. SumFunctionOnSet(g[s], Sh \cap S[s]) = X[r][s]
    <3>1. CASE tok \in Sh BY <2>2, <2>3, <2>4, <2>6, <3>1
    <3>2. CASE tok \notin Sh BY <2>2, <2>3, <2>4, <2>5, <3>2
    <3> QED BY <3>1, <3>2
  <2> QED BY <2>7 DEF Sh
<1>4. DOMAIN X = Ranks(T) /\ \A r \in Ranks(T) : DOMAIN X[r] = Places(p) OBVIOUS
<1>5. \A s \in Places(p) : S[s] \subseteq 1 .. size /\ \A x \in S[s] : g[s][x] \in Int BY NetFacts
<1>6. /\ XOf(n, p) = [s \in Places(p) |-> XOf(n, p)[s]]
      /\ \A s \in Places(p) : XOf(n, p)[s] = SumFunctionOnSet(g[s], S[s])
  BY DEF XOf
<1> HIDE DEF X, g, S, size, T
<1>7. Distributed(size, T, Places(p), S, g, X, XOf(n, p))
  BY <1>1, <1>3, <1>4, <1>5, <1>6 DEF Distributed
<1>8. AllReduce(X) = Rep(T, XOf(n, p)) BY <1>7, RepAllReduce
<1> QED BY <1>2, <1>8 DEF T

\* What a rank's heads or experts add is added by no other rank (RowParallelLinear, the experts).
BranchOf(n, p, m) == [s \in Places(p) |-> SumFunctionOnSet(Adds(n, p, s), Acting(n, p, m, s))]

LEMMA BranchIs ==
  ASSUME NEW n, IsNet(n), NEW p \in Packs, NEW l, Fits(n, l)
  PROVE  AllReduce(Branch(n, p, l, Rep(l.tp, InnerOf(n, p)))) = Rep(l.tp, BranchOf(n, p, l.kind))
<1> DEFINE T == l.tp
           size == Len(n.up)
           inner == Rep(T, InnerOf(n, p))
           S == [s \in Places(p) |-> Acting(n, p, l.kind, s)]
           g == [s \in Places(p) |-> Adds(n, p, s)]
           X == Branch(n, p, l, inner)
<1>1. T \in Nat \ {0} /\ size \in Nat /\ size % T = 0 BY NetFacts DEF Fits
<1>2. DOMAIN inner = Ranks(T) /\ \A r \in Ranks(T) : inner[r] = InnerOf(n, p) BY DEF Rep
<1>3. DOMAIN InnerOf(n, p) = Places(p) BY DEF InnerOf
<1>4. X = [r \in Ranks(T) |-> [s \in Places(p) |->
             SumFunction([f \in Active(n, p, l, r, s) |-> n.down[f] * Mid(n, f, InnerOf(n, p)[s])])]]
  BY <1>2, <1>3 DEF Branch
<1>5. DOMAIN X = Ranks(T) /\ \A r \in Ranks(T) : DOMAIN X[r] = Places(p)
  BY <1>4
<1>6. \A s \in Places(p) : S[s] \subseteq 1 .. size /\ \A x \in S[s] : g[s][x] \in Int
  BY PlacesAreInts DEF Acting
<1>7. ASSUME NEW r \in Ranks(T), NEW s \in Places(p)
      PROVE  X[r][s] = SumFunctionOnSet(g[s], ShardRange(size, r, T) \cap S[s])
  <2> DEFINE A == Active(n, p, l, r, s)
             f1 == [f \in A |-> n.down[f] * Mid(n, f, InnerOf(n, p)[s])]
  <2>1. A = ShardRange(size, r, T) \cap Acting(n, p, l.kind, s)
    <3>1. ShardRange(size, r, T) \subseteq 1 .. size BY <1>1, ShardFacts
    <3> QED BY <3>1 DEF Active, Acting
  <2>2. A \subseteq 1 .. size BY <2>1 DEF Acting
  <2>3. IsFiniteSet(A)
    <3>1. IsFiniteSet(1 .. size) BY <1>1, FS_Interval
    <3> QED BY <2>2, <3>1, FS_Subset
  <2>4. \A x \in A : f1[x] = Adds(n, p, s)[x] BY <2>2 DEF Adds
  <2>5. DOMAIN f1 = A OBVIOUS
  <2>6. X[r][s] = SumFunction(f1) BY <1>4
  <2> HIDE DEF f1, A, X
  <2>7. SumFunction(f1) = SumFunctionOnSet(Adds(n, p, s), A) BY <2>3, <2>4, <2>5, SumFunctionIs
  <2> QED BY <2>1, <2>6, <2>7
<1>8. /\ BranchOf(n, p, l.kind) = [s \in Places(p) |-> BranchOf(n, p, l.kind)[s]]
      /\ \A s \in Places(p) : BranchOf(n, p, l.kind)[s] = SumFunctionOnSet(g[s], S[s])
  BY DEF BranchOf
<1> HIDE DEF X, g, S, size, T
<1>9. Distributed(size, T, Places(p), S, g, X, BranchOf(n, p, l.kind))
  BY <1>1, <1>5, <1>6, <1>7, <1>8 DEF Distributed
<1>10. AllReduce(X) = Rep(T, BranchOf(n, p, l.kind)) BY <1>9, RepAllReduce
<1> QED BY <1>10 DEF T, X

\* A split layer computes what the whole layer does, on every rank.
LEMMA ForwardIs ==
  ASSUME NEW n, IsNet(n), NEW p \in Packs, NEW l, Fits(n, l)
  PROVE  LET T == l.tp
             Z == Rep(T, ZOf(n, p, l.kind))
         IN  Forward(n, p, l) =
               [x |-> Rep(T, XOf(n, p)), inner |-> Rep(T, InnerOf(n, p)), y |-> Rep(T, YOf(n, p, l.kind)),
                z |-> Z, logits |-> Logits(n, l, Z)]
<1> DEFINE T == l.tp  m == l.kind
           x == Embedded(n, p, l)
           inner == Scale(n.pre, x)
           partial == Branch(n, p, l, inner)
           y == Plus(x, AllReduce(partial))
           z == Scale(n.post, y)
<1>1. Forward(n, p, l) = [x |-> x, inner |-> inner, y |-> y, z |-> z, logits |-> Logits(n, l, z)]
  BY DEF Forward
<1>2. x = Rep(T, XOf(n, p)) BY EmbeddedIs
<1>3. /\ DOMAIN XOf(n, p) = Places(p) /\ DOMAIN YOf(n, p, m) = Places(p)
      /\ InnerOf(n, p) = [s \in Places(p) |-> n.pre * XOf(n, p)[s]]
      /\ YOf(n, p, m) = [s \in Places(p) |-> XOf(n, p)[s] + BranchOf(n, p, m)[s]]
      /\ ZOf(n, p, m) = [s \in Places(p) |-> n.post * YOf(n, p, m)[s]]
  BY DEF XOf, YOf, ZOf, InnerOf, BranchOf
<1> HIDE DEF x
<1>4. inner = Rep(T, InnerOf(n, p)) BY <1>2, <1>3, RepScale
<1> HIDE DEF inner
<1>5. AllReduce(partial) = Rep(T, BranchOf(n, p, m)) BY <1>4, BranchIs
<1> HIDE DEF partial
<1>6. y = Rep(T, YOf(n, p, m)) BY <1>2, <1>3, <1>5, RepPlus
<1> HIDE DEF y
<1>7. z = Rep(T, ZOf(n, p, m)) BY <1>3, <1>6, RepScale
<1> HIDE DEF z
<1> QED BY <1>1, <1>2, <1>4, <1>6, <1>7

-----------------------------------------------------------------------------
(* Backward                                                                *)

\* The gradients that reach a position: of what the head reads and of the residual; of what
\* the heads or experts of F read; and of the embedding, given that.
Heads(n, p, s) == [w \in 1 .. Len(n.head) |-> p.upstream[s][w] * n.head[w]]
DNormedOf(n, p) == [s \in Places(p) |-> SumFunctionOnSet(Heads(n, p, s), 1 .. Len(n.head))]
DYOf(n, p) == [s \in Places(p) |-> n.post * DNormedOf(n, p)[s]]
Weigh(n) == [f \in 1 .. Len(n.up) |-> n.down[f] * n.gain * (n.up[f] + n.kv[KvOf(n, f)])]
DPreOf(n, p, m, F) ==
  [s \in Places(p) |-> DYOf(n, p)[s] * SumFunctionOnSet(Weigh(n), F \cap Acting(n, p, m, s))]
DXOf(n, p, m, F) == [s \in Places(p) |-> DYOf(n, p)[s] + n.pre * DPreOf(n, p, m, F)[s]]

\* The places a head or expert reads, and the gradient of each row of a weight.
Where(p, m, f) == {s \in Places(p) : m = "moe" => p.routes[s] = f}
HeadRow(n, p, m, w) == SumFunction([s \in Places(p) |-> p.upstream[s][w] * ZOf(n, p, m)[s]])
EmbedRow(n, p, m, F, t) == SumFunction([s \in {i \in Places(p) : p.tokens[i] = t} |-> DXOf(n, p, m, F)[s]])
UpRow(n, p, m, f) ==
  SumFunction([s \in Where(p, m, f) |-> DYOf(n, p)[s] * n.down[f] * n.gain * InnerOf(n, p)[s]])
DownRow(n, p, m, f) == SumFunction([s \in Where(p, m, f) |-> DYOf(n, p)[s] * Mid(n, f, InnerOf(n, p)[s])])
GainRow(n, p, m, f) ==
  SumFunction([s \in Where(p, m, f) |->
    DYOf(n, p)[s] * n.down[f] * (n.up[f] + n.kv[KvOf(n, f)]) * InnerOf(n, p)[s]])

\* The gradients of the scales and of a K/V head, by the heads or experts of F.
PostOf(n, p, m) == Dot(DNormedOf(n, p), YOf(n, p, m))
PreOf(n, p, m, F) == Dot(DPreOf(n, p, m, F), XOf(n, p))
GainOf(n, p, m, F) == SumFunction([f \in F |-> GainRow(n, p, m, f)])
KvOfHeads(n, p, m, F, k) == SumFunction([f \in {g \in F : KvOf(n, g) = k} |-> UpRow(n, p, m, f)])

\* Whose gradients a rank has of what all heads read: the column boundary sums those of the
\* heads over the group, and experts have no such boundary.
Own(n, l, r) == ShardRange(Len(n.up), r, l.tp)
Seen(n, l, r) == IF l.kind = "moe" THEN Own(n, l, r) ELSE 1 .. Len(n.up)

\* What each rank has after the backward pass.
KvParts(n, p, l) ==
  [r \in Ranks(l.tp) |-> [k \in KvShard(Len(n.kv), r, l.tp) |->
     Cardinality(Copies(n, l, r)) * KvOfHeads(n, p, l.kind, Own(n, l, r), k)]]
Rows(n, p, l) ==
  [r \in Ranks(l.tp) |->
    [pre |-> PreOf(n, p, l.kind, Seen(n, l, r)),
     post |-> PostOf(n, p, l.kind),
     gain |-> GainOf(n, p, l.kind, Own(n, l, r)),
     head |-> [w \in ShardRange(Len(n.head), r, l.tp) |-> HeadRow(n, p, l.kind, w)],
     embed |-> [t \in ShardRange(Len(n.embed), r, l.tp) |-> EmbedRow(n, p, l.kind, Seen(n, l, r), t)],
     up |-> [f \in Own(n, l, r) |-> UpRow(n, p, l.kind, f)],
     down |-> [f \in Own(n, l, r) |-> DownRow(n, p, l.kind, f)],
     kv |-> Hook(n, l, KvParts(n, p, l))[r]]]

\* They are integers.
LEMMA BackIsInt ==
  ASSUME NEW n, IsNet(n), NEW p \in Packs
  PROVE  /\ \A s \in Places(p) : \A w \in 1 .. Len(n.head) : Heads(n, p, s)[w] \in Int
         /\ \A s \in Places(p) : DNormedOf(n, p)[s] \in Int /\ DYOf(n, p)[s] \in Int
         /\ \A f \in 1 .. Len(n.up) : Weigh(n)[f] \in Int
<1>1. ASSUME NEW s \in Places(p), NEW w \in 1 .. Len(n.head) PROVE Heads(n, p, s)[w] \in Int
  <2>1. n.head[w] \in Int /\ w \in DOMAIN n.head BY NetFacts
  <2>2. p.upstream[s][w] \in Int BY <2>1 DEF Places, IsNet
  <2> QED BY <2>1, <2>2 DEF Heads
<1>2. ASSUME NEW s \in Places(p) PROVE DNormedOf(n, p)[s] \in Int /\ DYOf(n, p)[s] \in Int
  <2>1. IsFiniteSet(1 .. Len(n.head))
    <3>1. Len(n.head) \in Nat BY NetFacts
    <3> QED BY <3>1, FS_Interval
  <2>2. SumFunctionOnSet(Heads(n, p, s), 1 .. Len(n.head)) \in Int
    <3> DEFINE A == 1 .. Len(n.head)  g == Heads(n, p, s)
    <3>1. IsFiniteSet(A) /\ \A x \in A : g[x] \in Int BY <1>1, <2>1
    <3> HIDE DEF A, g
    <3>2. SumFunctionOnSet(g, A) \in Int BY <3>1, SumType
    <3> QED BY <3>2 DEF A, g
  <2>3. DNormedOf(n, p)[s] \in Int BY <2>2 DEF DNormedOf
  <2>4. DYOf(n, p)[s] = n.post * DNormedOf(n, p)[s] BY DEF DYOf
  <2> QED BY <2>3, <2>4, NetFacts
<1>3. ASSUME NEW f \in 1 .. Len(n.up) PROVE Weigh(n)[f] \in Int
  <2>1. n.up[f] \in Int /\ n.down[f] \in Int /\ n.kv[KvOf(n, f)] \in Int BY NetFacts
  <2>2. n.gain \in Int BY NetFacts
  <2> DEFINE a == n.down[f]  g == n.gain  u == n.up[f]  k == n.kv[KvOf(n, f)]
  <2>3. a \in Int /\ g \in Int /\ u \in Int /\ k \in Int BY <2>1, <2>2
  <2>4. Weigh(n)[f] = a * g * (u + k) BY DEF Weigh
  <2> HIDE DEF a, g, u, k
  <2> QED BY <2>3, <2>4
<1> QED BY <1>1, <1>2, <1>3

\* The gradient of the head's input is put together from all ranges of the vocabulary.
LEMMA DNormedIs ==
  ASSUME NEW n, IsNet(n), NEW p \in Packs, NEW l, Fits(n, l)
  PROVE  EnterBackward([r \in Ranks(l.tp) |-> [s \in DOMAIN p.tokens |->
           SumFunction([w \in ShardRange(Len(n.head), r, l.tp) |-> p.upstream[s][w] * n.head[w]])]])
         = Rep(l.tp, DNormedOf(n, p))
<1> DEFINE T == l.tp
           size == Len(n.head)
           S == [s \in Places(p) |-> 1 .. size]
           g == [s \in Places(p) |-> Heads(n, p, s)]
           X == [r \in Ranks(T) |-> [s \in DOMAIN p.tokens |->
                   SumFunction([w \in ShardRange(size, r, T) |-> p.upstream[s][w] * n.head[w]])]]
<1>1. T \in Nat \ {0} /\ size \in Nat /\ size % T = 0 BY NetFacts DEF Fits
<1>2. DOMAIN X = Ranks(T) /\ \A r \in Ranks(T) : DOMAIN X[r] = Places(p) BY DEF Places
<1>3. \A s \in Places(p) : S[s] \subseteq 1 .. size /\ \A x \in S[s] : g[s][x] \in Int BY BackIsInt
<1>4. ASSUME NEW r \in Ranks(T), NEW s \in Places(p)
      PROVE  X[r][s] = SumFunctionOnSet(g[s], ShardRange(size, r, T) \cap S[s])
  <2> DEFINE A == ShardRange(size, r, T)  f1 == [w \in A |-> p.upstream[s][w] * n.head[w]]
  <2>1. A \subseteq 1 .. size BY <1>1, ShardFacts
  <2>2. A \cap S[s] = A /\ g[s] = Heads(n, p, s) BY <2>1
  <2>3. IsFiniteSet(A)
    <3>1. IsFiniteSet(1 .. size) BY <1>1, FS_Interval
    <3> QED BY <2>1, <3>1, FS_Subset
  <2>4. DOMAIN f1 = A /\ \A x \in A : f1[x] = Heads(n, p, s)[x] BY <2>1 DEF Heads
  <2>5. X[r][s] = SumFunction(f1) BY DEF Places
  <2> HIDE DEF f1, A, X, S, g
  <2>6. SumFunction(f1) = SumFunctionOnSet(Heads(n, p, s), A) BY <2>3, <2>4, SumFunctionIs
  <2>7. X[r][s] = SumFunctionOnSet(g[s], A \cap S[s]) BY <2>2, <2>5, <2>6
  <2> QED BY <2>7 DEF A
<1>5. /\ DNormedOf(n, p) = [s \in Places(p) |-> DNormedOf(n, p)[s]]
      /\ \A s \in Places(p) : DNormedOf(n, p)[s] = SumFunctionOnSet(g[s], S[s])
  BY DEF DNormedOf
<1> HIDE DEF X, g, S, size, T
<1>6. Distributed(size, T, Places(p), S, g, X, DNormedOf(n, p))
  BY <1>1, <1>2, <1>3, <1>4, <1>5 DEF Distributed
<1>7. AllReduce(X) = Rep(T, DNormedOf(n, p)) BY <1>6, RepAllReduce
<1> QED BY <1>7 DEF EnterBackward, X, T, size

\* That of the heads' or experts' input, from all heads or from a rank's own experts (the dual
\* of the column boundary).
LEMMA DPreIs ==
  ASSUME NEW n, IsNet(n), NEW p \in Packs, NEW l, Fits(n, l), NEW X,
         X = [r \in Ranks(l.tp) |-> [s \in Places(p) |->
               DYOf(n, p)[s] * SumFunction([f \in Active(n, p, l, r, s) |->
                 n.down[f] * n.gain * (n.up[f] + n.kv[KvOf(n, f)])])]]
  PROVE  (IF l.kind = "moe" THEN X ELSE EnterBackward(X))
         = [r \in Ranks(l.tp) |-> DPreOf(n, p, l.kind, Seen(n, l, r))]
<1> DEFINE T == l.tp  m == l.kind
           size == Len(n.up)
           W(f) == n.down[f] * n.gain * (n.up[f] + n.kv[KvOf(n, f)])
<1>1. T \in Nat \ {0} /\ size \in Nat /\ size % T = 0 BY NetFacts DEF Fits
<1>a. IsFiniteSet(1 .. size) BY <1>1, FS_Interval
<1>2. DOMAIN X = Ranks(T) /\ \A r \in Ranks(T) : DOMAIN X[r] = Places(p) OBVIOUS
<1>3. ASSUME NEW r \in Ranks(T), NEW s \in Places(p)
      PROVE  X[r][s] = DYOf(n, p)[s] * SumFunctionOnSet(Weigh(n), Own(n, l, r) \cap Acting(n, p, m, s))
  <2> DEFINE A == Active(n, p, l, r, s)  f1 == [f \in A |-> W(f)]
  <2>1. Own(n, l, r) \subseteq 1 .. size BY <1>1, ShardFacts DEF Own
  <2>2. A = Own(n, l, r) \cap Acting(n, p, m, s) BY <2>1 DEF Active, Acting, Own
  <2>3. A \subseteq 1 .. size BY <2>1, <2>2
  <2>4. IsFiniteSet(A) BY <1>a, <2>3, FS_Subset
  <2>5. DOMAIN f1 = A /\ \A x \in A : f1[x] = Weigh(n)[x] BY <2>3 DEF Weigh
  <2>6. X[r][s] = DYOf(n, p)[s] * SumFunction(f1) OBVIOUS
  <2> HIDE DEF f1, A
  <2>7. SumFunction(f1) = SumFunctionOnSet(Weigh(n), A) BY <2>4, <2>5, SumFunctionIs
  <2> QED BY <2>2, <2>6, <2>7
<1>4. CASE m = "moe"
  <2>1. \A r \in Ranks(T) : Seen(n, l, r) = Own(n, l, r) BY <1>4 DEF Seen
  <2>2. X = [r \in Ranks(T) |-> [s \in Places(p) |-> X[r][s]]] OBVIOUS
  <2>3. \A r \in Ranks(T) : DPreOf(n, p, m, Seen(n, l, r)) = [s \in Places(p) |-> X[r][s]]
    BY <1>3, <2>1 DEF DPreOf
  <2> QED BY <1>4, <2>2, <2>3
<1>5. CASE m # "moe"
  <2> DEFINE S == [s \in Places(p) |-> 1 .. size]
             g == [s \in Places(p) |-> [f \in 1 .. size |-> DYOf(n, p)[s] * Weigh(n)[f]]]
             E == DPreOf(n, p, m, 1 .. size)
  <2>1. \A s \in Places(p) : S[s] \subseteq 1 .. size /\ \A x \in S[s] : g[s][x] \in Int
    <3> SUFFICES ASSUME NEW s \in Places(p), NEW x \in 1 .. size PROVE g[s][x] \in Int OBVIOUS
    <3>1. DYOf(n, p)[s] \in Int /\ Weigh(n)[x] \in Int BY BackIsInt
    <3>2. g[s][x] = DYOf(n, p)[s] * Weigh(n)[x] OBVIOUS
    <3> QED BY <3>1, <3>2
  <2>2. ASSUME NEW s \in Places(p), NEW A, A \subseteq 1 .. size
        PROVE  SumFunctionOnSet(g[s], A) = DYOf(n, p)[s] * SumFunctionOnSet(Weigh(n), A)
    <3> DEFINE gs == g[s]  c == DYOf(n, p)[s]
    <3>1. IsFiniteSet(A) BY <1>a, <2>2, FS_Subset
    <3>2. c \in Int /\ \A x \in A : Weigh(n)[x] \in Int BY <2>2, BackIsInt
    <3>3. \A x \in A : gs[x] = c * Weigh(n)[x] BY <2>2
    <3> HIDE DEF gs, c
    <3>4. SumFunctionOnSet(gs, A) = c * SumFunctionOnSet(Weigh(n), A) BY <3>1, <3>2, <3>3, SumScaled
    <3> QED BY <3>4 DEF gs, c
  <2>3. \A s \in Places(p) : S[s] = 1 .. size /\ Acting(n, p, m, s) = 1 .. size BY <1>5 DEF Acting
  <2> HIDE DEF S, g
  <2>4. ASSUME NEW r \in Ranks(T), NEW s \in Places(p)
        PROVE  X[r][s] = SumFunctionOnSet(g[s], ShardRange(size, r, T) \cap S[s])
    <3> DEFINE A == ShardRange(size, r, T)
    <3>1. A \subseteq 1 .. size BY <1>1, ShardFacts
    <3>2. Own(n, l, r) \cap Acting(n, p, m, s) = A /\ A \cap S[s] = A BY <2>3, <3>1 DEF Own
    <3> HIDE DEF A
    <3>3. SumFunctionOnSet(g[s], A) = DYOf(n, p)[s] * SumFunctionOnSet(Weigh(n), A) BY <2>2, <3>1
    <3>4. X[r][s] = SumFunctionOnSet(g[s], A \cap S[s]) BY <1>3, <3>2, <3>3
    <3> QED BY <3>4 DEF A
  <2>5. E = [s \in Places(p) |-> E[s]] /\ \A s \in Places(p) : E[s] = SumFunctionOnSet(g[s], S[s])
    <3>1. \A s \in Places(p) : (1 .. size) \cap Acting(n, p, m, s) = 1 .. size BY <2>3
    <3> QED BY <2>2, <2>3, <3>1 DEF DPreOf
  <2> HIDE DEF E
  <2>6. Distributed(size, T, Places(p), S, g, X, E)
    <3> HIDE DEF size, T
    <3> QED BY <1>1, <1>2, <2>1, <2>4, <2>5, Zenon DEF Distributed
  <2>7. AllReduce(X) = Rep(T, E) BY <2>6, RepAllReduce
  <2>8. \A r \in Ranks(T) : Seen(n, l, r) = 1 .. size BY <1>5 DEF Seen
  <2> QED BY <1>5, <2>7, <2>8 DEF EnterBackward, Rep, E
<1> QED BY <1>4, <1>5

\* Each rank computes the gradients of the rows it holds, and its part of the others.
LEMMA BackwardIs ==
  ASSUME NEW n, IsNet(n), NEW p \in Packs, NEW l, Fits(n, l)
  PROVE  Backward(n, p, l) = Rows(n, p, l)
<1> DEFINE T == l.tp  m == l.kind
           v == Forward(n, p, l)
           dz == [r \in Ranks(l.tp) |-> [s \in DOMAIN p.tokens |->
                    SumFunction([w \in ShardRange(Len(n.head), r, l.tp) |-> p.upstream[s][w] * n.head[w]])]]
           dnormed == EnterBackward(dz)
           dy == Scale(n.post, dnormed)
           Weight(f) == n.down[f] * n.gain * (n.up[f] + n.kv[KvOf(n, f)])
           dinner == [r \in DOMAIN dy |-> [s \in DOMAIN dy[r] |->
                        dy[r][s] * SumFunction([f \in Active(n, p, l, r, s) |-> Weight(f)])]]
           dpre == IF l.kind = "moe" THEN dinner ELSE EnterBackward(dinner)
           dx == Plus(dy, Scale(n.pre, dpre))
           At(r, f) == {s \in DOMAIN dy[r] : f \in Active(n, p, l, r, s)}
           Read(r, f) == SumFunction([s \in At(r, f) |-> dy[r][s] * n.down[f] * n.gain * v.inner[r][s]])
           kv == [r \in Ranks(l.tp) |-> [k \in KvShard(Len(n.kv), r, l.tp) |->
                    Cardinality(Copies(n, l, r)) *
                    SumFunction([f \in {g \in ShardRange(Len(n.up), r, l.tp) : KvOf(n, g) = k} |-> Read(r, f)])]]
           HeadF(r) == [w \in ShardRange(Len(n.head), r, l.tp) |->
                          SumFunction([s \in DOMAIN p.tokens |-> p.upstream[s][w] * v.z[r][s]])]
           EmbedF(r) == [t \in ShardRange(Len(n.embed), r, l.tp) |->
                          SumFunction([s \in {i \in DOMAIN p.tokens : p.tokens[i] = t} |-> dx[r][s]])]
           UpF(r) == [f \in ShardRange(Len(n.up), r, l.tp) |-> Read(r, f)]
           DownF(r) == [f \in ShardRange(Len(n.up), r, l.tp) |->
                          SumFunction([s \in At(r, f) |-> dy[r][s] * Mid(n, f, v.inner[r][s])])]
           GainF(r) == SumFunction([f \in ShardRange(Len(n.up), r, l.tp) |->
                         SumFunction([s \in At(r, f) |->
                           dy[r][s] * n.down[f] * (n.up[f] + n.kv[KvOf(n, f)]) * v.inner[r][s]])])
<1>1. Backward(n, p, l) =
        [r \in Ranks(l.tp) |->
         [pre |-> Dot(dpre[r], v.x[r]), post |-> Dot(dnormed[r], v.y[r]), gain |-> GainF(r),
          head |-> HeadF(r), embed |-> EmbedF(r), up |-> UpF(r), down |-> DownF(r),
          kv |-> Hook(n, l, kv)[r]]]
  BY Zenon DEF Backward, Differentiate, NormedSlope
<1>2. \A r \in Ranks(T) : /\ v.inner[r] = InnerOf(n, p) /\ v.z[r] = ZOf(n, p, m)
                          /\ v.x[r] = XOf(n, p) /\ v.y[r] = YOf(n, p, m)
  <2>1. v = [x |-> Rep(T, XOf(n, p)), inner |-> Rep(T, InnerOf(n, p)), y |-> Rep(T, YOf(n, p, m)),
             z |-> Rep(T, ZOf(n, p, m)), logits |-> Logits(n, l, Rep(T, ZOf(n, p, m)))]
    BY ForwardIs
  <2> HIDE DEF v
  <2>2. /\ v.inner = Rep(T, InnerOf(n, p)) /\ v.z = Rep(T, ZOf(n, p, m))
        /\ v.x = Rep(T, XOf(n, p)) /\ v.y = Rep(T, YOf(n, p, m))
    BY <2>1
  <2> QED BY <2>2 DEF Rep
<1>3. dnormed = Rep(T, DNormedOf(n, p)) BY DNormedIs
<1> HIDE DEF dnormed
<1>4. dy = Rep(T, DYOf(n, p))
  <2>1. DYOf(n, p) = [s \in DOMAIN DNormedOf(n, p) |-> n.post * DNormedOf(n, p)[s]]
    BY DEF DYOf, DNormedOf
  <2> QED BY <1>3, <2>1, RepScale
<1> HIDE DEF dy
<1>5. /\ DOMAIN dy = Ranks(T) /\ DOMAIN DYOf(n, p) = Places(p)
      /\ \A r \in Ranks(T) : dy[r] = DYOf(n, p) /\ dnormed[r] = DNormedOf(n, p)
  BY <1>3, <1>4 DEF Rep, DYOf
<1>6. dpre = [r \in Ranks(T) |-> DPreOf(n, p, m, Seen(n, l, r))]
  <2>1. dinner = [r \in Ranks(T) |-> [s \in Places(p) |->
                    DYOf(n, p)[s] * SumFunction([f \in Active(n, p, l, r, s) |-> Weight(f)])]]
    BY <1>5
  <2> HIDE DEF dinner
  <2> QED BY <2>1, DPreIs
<1> HIDE DEF dpre
<1>7. \A r \in Ranks(T) : dx[r] = DXOf(n, p, m, Seen(n, l, r))
  <2> SUFFICES ASSUME NEW r \in Ranks(T) PROVE dx[r] = DXOf(n, p, m, Seen(n, l, r)) OBVIOUS
  <2> DEFINE e == DPreOf(n, p, m, Seen(n, l, r))  sc == Scale(n.pre, dpre)
  <2>1. dpre[r] = e /\ DOMAIN dpre = Ranks(T) BY <1>6
  <2>2. DOMAIN e = Places(p) BY DEF DPreOf
  <2>3. sc[r] = [s \in Places(p) |-> n.pre * e[s]]
    <3> HIDE DEF e
    <3> QED BY <2>1, <2>2 DEF Scale
  <2>4. dx[r] = [s \in DOMAIN dy[r] |-> dy[r][s] + sc[r][s]] BY <1>5 DEF Plus
  <2>5. dx[r] = [s \in Places(p) |-> DYOf(n, p)[s] + n.pre * e[s]]
    <3> HIDE DEF dx, sc, e
    <3> QED BY <1>5, <2>3, <2>4
  <2> QED BY <2>5 DEF DXOf
<1> HIDE DEF dx
<1>9. \A r \in Ranks(T) : \A f \in ShardRange(Len(n.up), r, T) : At(r, f) = Where(p, m, f)
  BY <1>5 DEF Active, Where
<1> HIDE DEF At, v
<1>10. ASSUME NEW r \in Ranks(T), NEW f \in ShardRange(Len(n.up), r, T)
       PROVE  /\ Read(r, f) = UpRow(n, p, m, f)
              /\ SumFunction([s \in At(r, f) |-> dy[r][s] * Mid(n, f, v.inner[r][s])]) = DownRow(n, p, m, f)
              /\ SumFunction([s \in At(r, f) |->
                   dy[r][s] * n.down[f] * (n.up[f] + n.kv[KvOf(n, f)]) * v.inner[r][s]]) = GainRow(n, p, m, f)
  <2>1. v.inner[r] = InnerOf(n, p) /\ dy[r] = DYOf(n, p) /\ At(r, f) = Where(p, m, f) BY <1>2, <1>5, <1>9
  <2> QED BY <2>1 DEF UpRow, DownRow, GainRow
<1>11. kv = KvParts(n, p, l)
  <2> HIDE DEF Read
  <2>1. \A r \in Ranks(T) : \A k :
          [f \in {g \in ShardRange(Len(n.up), r, T) : KvOf(n, g) = k} |-> Read(r, f)]
          = [f \in {g \in Own(n, l, r) : KvOf(n, g) = k} |-> UpRow(n, p, m, f)]
    BY <1>10 DEF Own
  <2> QED BY <2>1 DEF KvParts, KvOfHeads
<1>12. ASSUME NEW r \in Ranks(T)
       PROVE  /\ Dot(dpre[r], v.x[r]) = PreOf(n, p, m, Seen(n, l, r))
              /\ Dot(dnormed[r], v.y[r]) = PostOf(n, p, m)
              /\ GainF(r) = GainOf(n, p, m, Own(n, l, r))
              /\ HeadF(r) = [w \in ShardRange(Len(n.head), r, T) |-> HeadRow(n, p, m, w)]
              /\ EmbedF(r) = [t \in ShardRange(Len(n.embed), r, T) |-> EmbedRow(n, p, m, Seen(n, l, r), t)]
              /\ UpF(r) = [f \in Own(n, l, r) |-> UpRow(n, p, m, f)]
              /\ DownF(r) = [f \in Own(n, l, r) |-> DownRow(n, p, m, f)]
  <2>1. Dot(dpre[r], v.x[r]) = PreOf(n, p, m, Seen(n, l, r)) BY <1>2, <1>6 DEF PreOf
  <2>2. Dot(dnormed[r], v.y[r]) = PostOf(n, p, m) BY <1>2, <1>5 DEF PostOf
  <2>3. UpF(r) = [f \in Own(n, l, r) |-> UpRow(n, p, m, f)] BY <1>10 DEF Own
  <2>4. DownF(r) = [f \in Own(n, l, r) |-> DownRow(n, p, m, f)] BY <1>10 DEF Own
  <2>5. GainF(r) = GainOf(n, p, m, Own(n, l, r)) BY <1>10 DEF Own, GainOf
  <2>6. HeadF(r) = [w \in ShardRange(Len(n.head), r, T) |-> HeadRow(n, p, m, w)]
    BY <1>2 DEF HeadRow, Places
  <2>7. EmbedF(r) = [t \in ShardRange(Len(n.embed), r, T) |-> EmbedRow(n, p, m, Seen(n, l, r), t)]
    BY <1>7 DEF EmbedRow, Places
  <2> QED BY <2>1, <2>2, <2>3, <2>4, <2>5, <2>6, <2>7
<1> HIDE DEF HeadF, EmbedF, UpF, DownF, GainF, kv
<1> QED BY <1>1, <1>11, <1>12, Zenon DEF Rows

-----------------------------------------------------------------------------
(* Heads and the copies of their keys and values                           *)

\* A number between two multiples.
LEMMA Between ==
  ASSUME NEW A \in Nat, NEW B \in Nat, NEW U \in Nat \ {0}, NEW x \in Nat, A * U <= x, x < B * U
  PROVE  A <= x \div U /\ x \div U < B
<1> DEFINE d == x \div U  m == x % U
<1>1. d \in Nat /\ m \in 0 .. U - 1 /\ x = U * d + m BY Z3
<1> HIDE DEF d, m
<1>2. A <= d
  <2> SUFFICES ASSUME d + 1 <= A PROVE FALSE BY <1>1
  <2>1. (d + 1) * U <= A * U BY <1>1, PartsFollow
  <2>2. (d + 1) * U = U * d + U BY <1>1
  <2> QED BY <1>1, <2>1, <2>2
<1>3. d < B
  <2> SUFFICES ASSUME B <= d PROVE FALSE BY <1>1
  <2>1. B * U <= d * U BY <1>1, PartsFollow
  <2>2. d * U = U * d BY <1>1
  <2> QED BY <1>1, <2>1, <2>2
<1> QED BY <1>2, <1>3 DEF d

\* The keys and values a rank holds are those its query heads read (_kv_shard_range).
LEMMA KvAligned ==
  ASSUME NEW n, IsNet(n), NEW l, Fits(n, l), NEW q \in Ranks(l.tp), NEW f \in Own(n, l, q)
  PROVE  KvOf(n, f) \in KvShard(Len(n.kv), q, l.tp)
<1> DEFINE T == l.tp  U == Len(n.up)  K == Len(n.kv)  c == U \div T  a == f - 1
<1>1. T \in Nat \ {0} /\ U \in Nat /\ K \in Nat \ {0} /\ U % T = 0 /\ (K % T = 0 \/ T % K = 0)
  BY NetFacts DEF Fits
<1>2. c \in Nat /\ T * c = U BY <1>1, EvenParts
<1>3. q \in Nat /\ q < T BY <1>1 DEF Ranks
<1>4. f \in (q * c + 1) .. ((q + 1) * c) BY DEF Own, ShardRange
<1>5. KvOf(n, f) = (a * K) \div U + 1 BY DEF KvOf
<1>6. KvShard(K, q, T) = IF K % T = 0 THEN ShardRange(K, q, T) ELSE {q \div (T \div K) + 1} BY DEF KvShard
<1> HIDE DEF T, U, K, c
<1>7. q * c \in Nat /\ (q + 1) * c = q * c + c BY <1>2, <1>3, PartsFollow
<1> DEFINE low == q * c  high == (q + 1) * c
<1>8. a \in Nat /\ q * c <= a /\ a < (q + 1) * c
  <2>1. low \in Nat /\ high \in Nat /\ f \in (low + 1) .. high BY <1>2, <1>4, <1>7
  <2> HIDE DEF low, high
  <2>2. a \in Nat /\ low <= a /\ a < high BY <2>1
  <2> QED BY <2>2 DEF low, high
<1>9. c # 0 /\ U # 0
  <2>1. c # 0 BY <1>2, <1>7, <1>8
  <2>2. U # 0 BY <1>1, <1>2, <2>1, Z3
  <2> QED BY <2>1, <2>2
<1> HIDE DEF a
<1>10. a * K \in Nat BY <1>1, <1>8
<1>11. CASE K % T = 0
  <2> DEFINE e == K \div T
  <2>1. e \in Nat /\ T * e = K BY <1>1, <1>11, EvenParts
  <2> HIDE DEF e
  <2>2. e # 0 BY <1>1, <2>1
  <2>3. q * e \in Nat /\ (q + 1) * e = q * e + e BY <1>3, <2>1, PartsFollow
  <2>4. (q * e) * U <= a * K
    <3>1. (q * c) * K <= a * K BY <1>1, <1>7, <1>8, PartsFollow
    <3>2. (q * c) * K = (q * e) * U
      <4>1. (q * c) * (T * e) = (q * e) * (T * c) BY <1>1, <1>2, <1>3, <2>1, Z3
      <4> QED BY <1>2, <2>1, <4>1
    <3> QED BY <3>1, <3>2
  <2>5. a * K < ((q + 1) * e) * U
    <3>1. (a + 1) * K <= ((q + 1) * c) * K
      <4>1. (q + 1) * c \in Nat /\ a + 1 <= (q + 1) * c /\ a + 1 \in Nat BY <1>2, <1>7, <1>8
      <4> HIDE DEF a
      <4> QED BY <1>1, <4>1, PartsFollow
    <3>2. (a + 1) * K = a * K + K BY <1>1, <1>8, PartsFollow
    <3>3. ((q + 1) * c) * K = ((q + 1) * e) * U
      <4>1. ((q + 1) * c) * (T * e) = ((q + 1) * e) * (T * c) BY <1>1, <1>2, <1>3, <2>1, Z3
      <4> QED BY <1>2, <2>1, <4>1
    <3>4. a * K < a * K + K BY <1>1, <1>10
    <3>5. ((q + 1) * e) * U \in Nat BY <1>1, <2>1, <2>3
    <3> QED BY <1>1, <1>10, <3>1, <3>2, <3>3, <3>4, <3>5
  <2>6. (a * K) \div U \in Nat
    <3>1. U \in Nat \ {0} BY <1>1, <1>9
    <3> QED BY <1>10, <3>1, Z3
  <2>7. q * e <= (a * K) \div U /\ (a * K) \div U < (q + 1) * e
    <3>1. (q + 1) * e \in Nat /\ U \in Nat \ {0} BY <1>1, <1>9, <2>1, <2>3
    <3> QED BY <1>10, <2>3, <2>4, <2>5, <3>1, Between
  <2>8. ShardRange(K, q, T) = (q * e + 1) .. ((q + 1) * e) BY DEF ShardRange, e
  <2>9. (a * K) \div U + 1 \in (q * e + 1) .. ((q + 1) * e) BY <2>1, <2>3, <2>6, <2>7
  <2> QED BY <1>5, <1>6, <1>11, <2>8, <2>9 DEF T, K
<1>12. CASE K % T # 0
  <2> DEFINE d == T \div K  b == q \div d
  <2>1. d \in Nat /\ K * d = T BY <1>1, <1>12, EvenParts
  <2> HIDE DEF d
  <2>2. d # 0 BY <1>1, <2>1
  <2>3. b \in Nat /\ b * d <= q /\ q + 1 <= (b + 1) * d
    <3> DEFINE m == q % d
    <3>1. b \in Nat /\ m \in 0 .. d - 1 /\ q = d * b + m BY <1>3, <2>1, <2>2, Z3
    <3> HIDE DEF b, m
    <3>2. b * d = d * b /\ (b + 1) * d = d * b + d /\ d * b \in Nat BY <2>1, <3>1
    <3> QED BY <1>3, <2>1, <3>1, <3>2
  <2> HIDE DEF b
  <2>4. U = (d * c) * K
    <3>1. (K * d) * c = (d * c) * K BY <1>1, <1>2, <2>1, Z3
    <3> QED BY <1>2, <2>1, <3>1
  <2>5. b * U <= a * K
    <3>1. (b * d) * c <= q * c BY <1>2, <1>3, <2>1, <2>3, PartsFollow
    <3>2. (b * d) * c \in Nat /\ (b * d) * c <= a BY <1>2, <1>7, <1>8, <2>1, <2>3, <3>1
    <3>3. ((b * d) * c) * K <= a * K BY <1>1, <1>8, <3>2, PartsFollow
    <3>4. ((b * d) * c) * K = b * ((d * c) * K) BY <1>1, <1>2, <2>1, <2>3, Z3
    <3> QED BY <2>4, <3>3, <3>4
  <2>6. a * K < (b + 1) * U
    <3>1. (q + 1) * c <= ((b + 1) * d) * c
      <4>1. q + 1 \in Nat /\ (b + 1) * d \in Nat BY <1>3, <2>1, <2>3
      <4> QED BY <1>2, <2>3, <4>1, PartsFollow
    <3>2. ((b + 1) * d) * c \in Nat /\ a + 1 \in Nat /\ a + 1 <= ((b + 1) * d) * c
      BY <1>2, <1>7, <1>8, <2>1, <2>3, <3>1
    <3>3. (a + 1) * K <= (((b + 1) * d) * c) * K BY <1>1, <3>2, PartsFollow
    <3>4. (((b + 1) * d) * c) * K = (b + 1) * ((d * c) * K) BY <1>1, <1>2, <2>1, <2>3, Z3
    <3>5. (a + 1) * K = a * K + K BY <1>1, <1>8, PartsFollow
    <3>6. (b + 1) * U \in Nat BY <1>1, <2>3
    <3> QED BY <1>1, <1>10, <2>4, <3>3, <3>4, <3>5, <3>6
  <2>7. (a * K) \div U \in Nat
    <3>1. U \in Nat \ {0} BY <1>1, <1>9
    <3> QED BY <1>10, <3>1, Z3
  <2>8. b <= (a * K) \div U /\ (a * K) \div U < b + 1
    <3>1. b + 1 \in Nat /\ U \in Nat \ {0} BY <1>1, <1>9, <2>3
    <3> QED BY <1>10, <2>3, <2>5, <2>6, <3>1, Between
  <2>9. (a * K) \div U = b BY <2>3, <2>7, <2>8
  <2> QED BY <1>5, <1>6, <1>12, <2>9 DEF T, K, b, d
<1> QED BY <1>11, <1>12

\* The ranks that hold one key/value head are copies of one another.
LEMMA KvHolders ==
  ASSUME NEW n, IsNet(n), NEW l, Fits(n, l), NEW r \in Ranks(l.tp), NEW q \in Ranks(l.tp),
         NEW k \in KvShard(Len(n.kv), r, l.tp), k \in KvShard(Len(n.kv), q, l.tp)
  PROVE  /\ q \in Copies(n, l, r) /\ Copies(n, l, q) = Copies(n, l, r)
         /\ Len(n.kv) % l.tp = 0 => q = r
<1> DEFINE T == l.tp  K == Len(n.kv)
<1>1. T \in Nat \ {0} /\ K \in Nat BY NetFacts DEF Fits
<1>2. KvShard(K, q, T) = KvShard(K, r, T) /\ (K % T = 0 => q = r)
  <2>1. CASE K % T = 0
    <3>1. k \in ShardRange(K, r, T) /\ k \in ShardRange(K, q, T) BY <2>1 DEF KvShard
    <3>2. q = r
      <4> SUFFICES ASSUME q # r PROVE FALSE OBVIOUS
      <4> HIDE DEF T, K
      <4>1. r \in Ranks(T) /\ q \in Ranks(T) BY DEF T
      <4>2. ShardRange(K, r, T) \cap ShardRange(K, q, T) = {} BY <1>1, <2>1, <4>1, ShardFacts
      <4> QED BY <3>1, <4>2
    <3> QED BY <3>2
  <2>2. CASE K % T # 0
    <3>1. KvShard(K, r, T) = {r \div (T \div K) + 1} /\ KvShard(K, q, T) = {q \div (T \div K) + 1}
      BY <2>2 DEF KvShard
    <3> QED BY <2>2, <3>1
  <2> QED BY <2>1, <2>2
<1> QED BY <1>2 DEF Copies

\* Every key/value head is held by some rank's range of heads.
LEMMA KvWithin ==
  ASSUME NEW n, IsNet(n), NEW l, Fits(n, l), NEW r \in Ranks(l.tp)
  PROVE  KvShard(Len(n.kv), r, l.tp) \subseteq 1 .. Len(n.kv)
<1> DEFINE T == l.tp  K == Len(n.kv)
<1>1. T \in Nat \ {0} /\ K \in Nat \ {0} /\ (K % T = 0 \/ T % K = 0) BY NetFacts DEF Fits
<1>2. r \in Nat /\ r < T /\ r \in Ranks(T) BY <1>1 DEF Ranks
<1> HIDE DEF T, K
<1>3. CASE K % T = 0
  <2>1. KvShard(K, r, T) = ShardRange(K, r, T) BY <1>3 DEF KvShard
  <2>2. ShardRange(K, r, T) \subseteq 1 .. K BY <1>1, <1>2, <1>3, ShardFacts
  <2> QED BY <2>1, <2>2 DEF T, K
<1>4. CASE K % T # 0
  <2> DEFINE d == T \div K
  <2>1. d \in Nat /\ K * d = T BY <1>1, <1>4, EvenParts
  <2>2. KvShard(K, r, T) = {r \div d + 1} BY <1>4 DEF KvShard
  <2> HIDE DEF d
  <2>3. d # 0 BY <1>1, <2>1
  <2>4. r \div d \in Nat BY <1>2, <2>1, <2>3, Z3
  <2>5. r \div d < K
    <3>1. 0 * d <= r /\ r < K * d BY <1>2, <2>1
    <3>2. d \in Nat \ {0} /\ 0 \in Nat /\ K \in Nat BY <1>1, <2>1, <2>3
    <3> QED BY <1>2, <3>1, <3>2, Between
  <2>6. r \div d + 1 \in 1 .. K BY <1>1, <2>4, <2>5
  <2> QED BY <2>2, <2>6 DEF T, K
<1> QED BY <1>3, <1>4

-----------------------------------------------------------------------------
(* The parts of the ranks, added up                                        *)

\* A finite sum of integers is one, and sums of functions add up.
LEMMA SumFunctionFacts ==
  ASSUME NEW A, IsFiniteSet(A), NEW f, DOMAIN f = A, \A x \in A : f[x] \in Int
  PROVE  /\ SumFunction(f) \in Int
         /\ SumFunction(f) = SumFunctionOnSet(f, A)
<1>1. SumFunction(f) = SumFunctionOnSet(f, A) BY DEF SumFunction
<1> QED BY <1>1, SumType

\* The places of a pack, the heads of a net and the ranks of a layout are finitely many.
LEMMA Finite ==
  ASSUME NEW n, IsNet(n), NEW p \in Packs, NEW l, Fits(n, l)
  PROVE  /\ IsFiniteSet(Places(p)) /\ IsFiniteSet(1 .. Len(n.up))
         /\ IsFiniteSet(Ranks(l.tp)) /\ Cardinality(Ranks(l.tp)) = l.tp
         /\ \A r \in Ranks(l.tp) : Own(n, l, r) \subseteq 1 .. Len(n.up)
<1>1. p.tokens \in Seq(Nat) BY PacksAssumption
<1>2. Len(p.tokens) \in Nat /\ Places(p) = 1 .. Len(p.tokens) BY <1>1 DEF Places
<1>3. IsFiniteSet(Places(p)) BY <1>2, FS_Interval
<1>4. Len(n.up) \in Nat /\ l.tp \in Nat \ {0} /\ Len(n.up) % l.tp = 0 BY NetFacts DEF Fits
<1>5. IsFiniteSet(1 .. Len(n.up)) BY <1>4, FS_Interval
<1>6. IsFiniteSet(Ranks(l.tp)) /\ Cardinality(Ranks(l.tp)) = l.tp
  <2> DEFINE t == l.tp
  <2>1. t \in Nat \ {0} /\ 0 \in Int /\ t - 1 \in Int BY <1>4
  <2> HIDE DEF t
  <2>2. IsFiniteSet(0 .. t - 1) /\ Cardinality(0 .. t - 1) = t BY <2>1, FS_Interval
  <2> QED BY <2>2 DEF Ranks, t
<1>7. \A r \in Ranks(l.tp) : Own(n, l, r) \subseteq 1 .. Len(n.up)
  <2> SUFFICES ASSUME NEW r \in Ranks(l.tp) PROVE Own(n, l, r) \subseteq 1 .. Len(n.up) OBVIOUS
  <2>1. ShardRange(Len(n.up), r, l.tp) \subseteq 1 .. Len(n.up) BY <1>4, ShardFacts
  <2> QED BY <2>1 DEF Own
<1> QED BY <1>3, <1>5, <1>6, <1>7

\* The gradients are integers.
LEMMA RowsAreInts ==
  ASSUME NEW n, IsNet(n), NEW p \in Packs, NEW l, Fits(n, l), NEW m
  PROVE  /\ \A f \in 1 .. Len(n.up) : UpRow(n, p, m, f) \in Int /\ GainRow(n, p, m, f) \in Int
         /\ PostOf(n, p, m) \in Int
         /\ \A F \in SUBSET (1 .. Len(n.up)) :
              /\ GainOf(n, p, m, F) \in Int /\ PreOf(n, p, m, F) \in Int
              /\ \A k : KvOfHeads(n, p, m, F, k) \in Int
              /\ \A s \in Places(p) : SumFunctionOnSet(Weigh(n), F \cap Acting(n, p, m, s)) \in Int
                                      /\ DPreOf(n, p, m, F)[s] \in Int
<1>0. IsFiniteSet(Places(p)) /\ IsFiniteSet(1 .. Len(n.up)) BY Finite
<1>1. ASSUME NEW f \in 1 .. Len(n.up) PROVE UpRow(n, p, m, f) \in Int /\ GainRow(n, p, m, f) \in Int
  <2> DEFINE A == Where(p, m, f)
             g == [s \in A |-> DYOf(n, p)[s] * n.down[f] * n.gain * InnerOf(n, p)[s]]
             h == [s \in A |-> DYOf(n, p)[s] * n.down[f] * (n.up[f] + n.kv[KvOf(n, f)]) * InnerOf(n, p)[s]]
  <2>1. IsFiniteSet(A) /\ A \subseteq Places(p)
    <3>1. A \subseteq Places(p) BY DEF Where
    <3> QED BY <1>0, <3>1, FS_Subset
  <2>2. ASSUME NEW s \in A PROVE g[s] \in Int /\ h[s] \in Int
    <3> DEFINE y == DYOf(n, p)[s]  d == n.down[f]  c == n.gain  i == InnerOf(n, p)[s]
               w == n.up[f] + n.kv[KvOf(n, f)]
    <3>1. n.down[f] \in Int /\ n.gain \in Int /\ n.up[f] \in Int /\ n.kv[KvOf(n, f)] \in Int BY NetFacts
    <3>2. DYOf(n, p)[s] \in Int BY <2>1, BackIsInt
    <3>3. InnerOf(n, p)[s] \in Int BY <2>1, PlacesAreInts
    <3>4. y \in Int /\ d \in Int /\ c \in Int /\ i \in Int /\ w \in Int BY <3>1, <3>2, <3>3
    <3>5. g[s] = y * d * c * i /\ h[s] = y * d * w * i OBVIOUS
    <3> HIDE DEF y, d, c, i, w, g, h
    <3>6. y * d \in Int BY <3>4
    <3>7. y * d * c \in Int /\ y * d * w \in Int BY <3>4, <3>6
    <3> QED BY <3>4, <3>5, <3>7
  <2>3. DOMAIN g = A /\ DOMAIN h = A OBVIOUS
  <2>4. UpRow(n, p, m, f) = SumFunction(g) /\ GainRow(n, p, m, f) = SumFunction(h) BY DEF UpRow, GainRow
  <2> HIDE DEF g, h, A
  <2> QED BY <2>1, <2>2, <2>3, <2>4, SumFunctionFacts
<1>2. PostOf(n, p, m) \in Int
  <2> DEFINE g == [s \in Places(p) |-> DNormedOf(n, p)[s] * YOf(n, p, m)[s]]
  <2>1. \A s \in Places(p) : g[s] \in Int
    <3> SUFFICES ASSUME NEW s \in Places(p) PROVE g[s] \in Int OBVIOUS
    <3>1. DNormedOf(n, p)[s] \in Int /\ YOf(n, p, m)[s] \in Int BY BackIsInt, PlacesAreInts
    <3> QED BY <3>1
  <2>2. PostOf(n, p, m) = SumFunction(g) /\ DOMAIN g = Places(p)
    <3>1. DOMAIN DNormedOf(n, p) = Places(p) BY DEF DNormedOf
    <3> QED BY <3>1 DEF PostOf, Dot
  <2> HIDE DEF g
  <2> QED BY <1>0, <2>1, <2>2, SumFunctionFacts
<1>3. ASSUME NEW F \in SUBSET (1 .. Len(n.up)), NEW s \in Places(p)
      PROVE  SumFunctionOnSet(Weigh(n), F \cap Acting(n, p, m, s)) \in Int /\ DPreOf(n, p, m, F)[s] \in Int
  <2> DEFINE A == F \cap Acting(n, p, m, s)  w == Weigh(n)
  <2>1. IsFiniteSet(A) /\ A \subseteq 1 .. Len(n.up)
    <3>1. A \subseteq 1 .. Len(n.up) OBVIOUS
    <3> QED BY <1>0, <3>1, FS_Subset
  <2>2. \A f \in A : w[f] \in Int BY <2>1, BackIsInt
  <2> DEFINE c == SumFunctionOnSet(w, A)  y == DYOf(n, p)[s]
  <2>3. DPreOf(n, p, m, F)[s] = y * c BY DEF DPreOf
  <2>4. c \in Int
    <3> HIDE DEF A, w
    <3> QED BY <2>1, <2>2, SumType
  <2>5. y \in Int BY BackIsInt
  <2>6. y * c \in Int
    <3> HIDE DEF y, c
    <3> QED BY <2>4, <2>5
  <2> QED BY <2>3, <2>4, <2>6
<1>4. ASSUME NEW F \in SUBSET (1 .. Len(n.up))
      PROVE  GainOf(n, p, m, F) \in Int /\ PreOf(n, p, m, F) \in Int /\ \A k : KvOfHeads(n, p, m, F, k) \in Int
  <2>1. IsFiniteSet(F) BY <1>0, FS_Subset
  <2>2. GainOf(n, p, m, F) \in Int
    <3> DEFINE g == [f \in F |-> GainRow(n, p, m, f)]
    <3>1. DOMAIN g = F /\ \A f \in F : g[f] \in Int BY <1>1
    <3> HIDE DEF g
    <3>2. SumFunction(g) \in Int BY <2>1, <3>1, SumFunctionFacts
    <3> QED BY <3>2 DEF g, GainOf
  <2>3. PreOf(n, p, m, F) \in Int
    <3> DEFINE e == DPreOf(n, p, m, F)  g == [s \in Places(p) |-> e[s] * XOf(n, p)[s]]
    <3>1. DOMAIN e = Places(p) BY DEF DPreOf
    <3>2. \A s \in Places(p) : g[s] \in Int
      <4> SUFFICES ASSUME NEW s \in Places(p) PROVE g[s] \in Int OBVIOUS
      <4>1. e[s] \in Int BY <1>3
      <4>2. XOf(n, p)[s] \in Int BY PlacesAreInts
      <4> HIDE DEF e
      <4> QED BY <4>1, <4>2
    <3>3. PreOf(n, p, m, F) = SumFunction(g) /\ DOMAIN g = Places(p)
      <4>1. PreOf(n, p, m, F) = Dot(e, XOf(n, p)) BY DEF PreOf
      <4> HIDE DEF e
      <4> QED BY <3>1, <4>1 DEF Dot
    <3> HIDE DEF g
    <3> QED BY <1>0, <3>2, <3>3, SumFunctionFacts
  <2>4. ASSUME NEW k PROVE KvOfHeads(n, p, m, F, k) \in Int
    <3> DEFINE B == {g \in F : KvOf(n, g) = k}  h == [f \in B |-> UpRow(n, p, m, f)]
    <3>1. B \subseteq F /\ IsFiniteSet(B)
      <4>1. B \subseteq F OBVIOUS
      <4> QED BY <2>1, <4>1, FS_Subset
    <3>2. DOMAIN h = B /\ \A f \in B : h[f] \in Int BY <1>1
    <3>3. KvOfHeads(n, p, m, F, k) = SumFunction(h) BY DEF KvOfHeads
    <3> HIDE DEF h, B
    <3> QED BY <3>1, <3>2, <3>3, SumFunctionFacts
  <2> QED BY <2>2, <2>3, <2>4
<1> QED BY <1>1, <1>2, <1>3, <1>4

\* A gradient that every rank has whole is, summed, that many times the whole.
LEMMA WholesAddUp ==
  ASSUME NEW n, IsNet(n), NEW p \in Packs, NEW l, Fits(n, l), NEW c \in Int
  PROVE  SumFunction([r \in Ranks(l.tp) |-> c]) = l.tp * c
<1> DEFINE f == [r \in Ranks(l.tp) |-> c]  R == Ranks(l.tp)
<1>1. IsFiniteSet(R) /\ Cardinality(R) = l.tp BY Finite
<1>2. DOMAIN f = R /\ \A r \in R : f[r] = c OBVIOUS
<1> HIDE DEF f, R
<1>3. SumFunctionOnSet(f, R) = Cardinality(R) * c BY <1>1, <1>2, SumOfConstant
<1>4. SumFunction(f) = SumFunctionOnSet(f, R) BY <1>2 DEF SumFunction
<1> QED BY <1>1, <1>3, <1>4 DEF f

\* The parts that the ranks' own heads make of a scale add up to the whole.
LEMMA GainsAddUp ==
  ASSUME NEW n, IsNet(n), NEW p \in Packs, NEW l, Fits(n, l), NEW m
  PROVE  SumFunction([r \in Ranks(l.tp) |-> GainOf(n, p, m, Own(n, l, r))]) = GainOf(n, p, m, 1 .. Len(n.up))
<1> DEFINE T == l.tp  U == Len(n.up)  S == 1 .. Len(n.up)
           g == [f \in S |-> GainRow(n, p, m, f)]
           h == [r \in Ranks(T) |-> GainOf(n, p, m, Own(n, l, r))]
<1>1. T \in Nat \ {0} /\ U \in Nat /\ U % T = 0 BY NetFacts DEF Fits
<1>2. \A f \in S : g[f] \in Int BY RowsAreInts
<1>3. ASSUME NEW F \in SUBSET S PROVE GainOf(n, p, m, F) = SumFunctionOnSet(g, F)
  <2> DEFINE k == [f \in F |-> GainRow(n, p, m, f)]
  <2>1. IsFiniteSet(F)
    <3>1. IsFiniteSet(S) BY Finite
    <3> QED BY <3>1, FS_Subset
  <2>2. DOMAIN k = F /\ \A f \in F : k[f] = g[f] OBVIOUS
  <2> HIDE DEF k, g, S
  <2>3. SumFunction(k) = SumFunctionOnSet(g, F) BY <2>1, <2>2, SumFunctionIs
  <2> QED BY <2>3 DEF k, GainOf
<1>4. \A r \in Ranks(T) : h[r] = SumFunctionOnSet(g, ShardRange(U, r, T) \cap S)
  <2> SUFFICES ASSUME NEW r \in Ranks(T) PROVE h[r] = SumFunctionOnSet(g, ShardRange(U, r, T) \cap S) OBVIOUS
  <2>1. Own(n, l, r) \subseteq S BY Finite
  <2>2. Own(n, l, r) = ShardRange(U, r, T) /\ ShardRange(U, r, T) \cap S = Own(n, l, r) BY <2>1 DEF Own
  <2>3. h[r] = GainOf(n, p, m, Own(n, l, r)) OBVIOUS
  <2> HIDE DEF g, h, S
  <2> QED BY <1>3, <2>1, <2>2, <2>3
<1>5. DOMAIN h = Ranks(T) /\ S \subseteq 1 .. U OBVIOUS
<1>6. GainOf(n, p, m, S) = SumFunctionOnSet(g, S) BY <1>3
<1> HIDE DEF g, h, S, T, U
<1>7. SplitUp(U, T, S, g, h) BY <1>1, <1>2, <1>4, <1>5, Zenon DEF SplitUp
<1>8. SumFunctionOnSet(h, Ranks(T)) = SumFunctionOnSet(g, S) BY <1>7, SumOfShards
<1>9. SumFunction(h) = SumFunctionOnSet(h, Ranks(T)) BY <1>5 DEF SumFunction
<1>10. SumFunction(h) = GainOf(n, p, m, S) BY <1>6, <1>8, <1>9
<1> QED BY <1>10 DEF h, S, T

\* And so do those of a scale in front of experts, position by position.
LEMMA PresAddUp ==
  ASSUME NEW n, IsNet(n), NEW p \in Packs, NEW l, Fits(n, l), NEW m
  PROVE  SumFunction([r \in Ranks(l.tp) |-> PreOf(n, p, m, Own(n, l, r))]) = PreOf(n, p, m, 1 .. Len(n.up))
<1> DEFINE T == l.tp  U == Len(n.up)  D == Places(p)
           e(F) == [s \in D |-> DPreOf(n, p, m, F)[s] * XOf(n, p)[s]]
           a == [r \in Ranks(T) |-> e(Own(n, l, r))]
           b == [r \in Ranks(T) |-> PreOf(n, p, m, Own(n, l, r))]
           c == e(1 .. U)
<1>1. T \in Nat \ {0} /\ U \in Nat /\ U % T = 0 BY NetFacts DEF Fits
<1>2. IsFiniteSet(D) /\ IsFiniteSet(1 .. U) BY Finite
<1>3. ASSUME NEW F \in SUBSET (1 .. U)
      PROVE  /\ \A s \in D : e(F)[s] \in Int
             /\ PreOf(n, p, m, F) = SumFunctionOnSet(e(F), D)
  <2>1. \A s \in D : e(F)[s] \in Int
    <3> SUFFICES ASSUME NEW s \in D PROVE e(F)[s] \in Int OBVIOUS
    <3> DEFINE x == DPreOf(n, p, m, F)[s]  y == XOf(n, p)[s]
    <3>1. x \in Int BY RowsAreInts
    <3>2. y \in Int BY PlacesAreInts
    <3>3. e(F)[s] = x * y OBVIOUS
    <3> HIDE DEF x, y, e
    <3> QED BY <3>1, <3>2, <3>3
  <2>2. PreOf(n, p, m, F) = SumFunction(e(F))
    <3>1. DOMAIN DPreOf(n, p, m, F) = D BY DEF DPreOf
    <3> QED BY <3>1 DEF PreOf, Dot
  <2>3. DOMAIN e(F) = D OBVIOUS
  <2> HIDE DEF e
  <2>4. SumFunction(e(F)) = SumFunctionOnSet(e(F), D) BY <2>3 DEF SumFunction
  <2> QED BY <2>1, <2>2, <2>4
<1>4. ASSUME NEW r \in Ranks(T)
      PROVE  (\A s \in D : a[r][s] \in Int) /\ b[r] = SumFunctionOnSet(a[r], D)
  <2>1. Own(n, l, r) \in SUBSET (1 .. U) BY Finite
  <2>2. a[r] = e(Own(n, l, r)) /\ b[r] = PreOf(n, p, m, Own(n, l, r)) OBVIOUS
  <2> HIDE DEF a, b, e
  <2> QED BY <1>3, <2>1, <2>2
<1>5. ASSUME NEW s \in D PROVE c[s] = SumFunctionOnSet([r \in Ranks(T) |-> a[r][s]], Ranks(T))
  <2> DEFINE S == Acting(n, p, m, s)  w == Weigh(n)  k == DYOf(n, p)[s] * XOf(n, p)[s]
             h == [r \in Ranks(T) |-> SumFunctionOnSet(w, Own(n, l, r) \cap S)]
             g == [r \in Ranks(T) |-> a[r][s]]
  <2>1. S \subseteq 1 .. U /\ \A f \in S : w[f] \in Int BY BackIsInt DEF Acting
  <2>2. \A r \in Ranks(T) : h[r] = SumFunctionOnSet(w, ShardRange(U, r, T) \cap S) BY DEF Own
  <2>3. SplitUp(U, T, S, w, h)
    <3> HIDE DEF S, w, h, U, T
    <3> QED BY <1>1, <2>1, <2>2, Zenon DEF SplitUp
  <2>4. SumFunctionOnSet(h, Ranks(T)) = SumFunctionOnSet(w, S) BY <2>3, SumOfShards
  <2>5. DYOf(n, p)[s] \in Int /\ XOf(n, p)[s] \in Int BY BackIsInt, PlacesAreInts
  <2>6. ASSUME NEW y \in Int, NEW x \in Int, NEW t \in Int PROVE (y * t) * x = (y * x) * t BY <2>6
  <2>7. \A r \in Ranks(T) : h[r] \in Int /\ g[r] = k * h[r]
    <3> SUFFICES ASSUME NEW r \in Ranks(T) PROVE h[r] \in Int /\ g[r] = k * h[r] OBVIOUS
    <3>1. Own(n, l, r) \in SUBSET (1 .. U) BY Finite
    <3>2. h[r] \in Int BY <3>1, RowsAreInts
    <3>3. g[r] = DPreOf(n, p, m, Own(n, l, r))[s] * XOf(n, p)[s] OBVIOUS
    <3>4. DPreOf(n, p, m, Own(n, l, r))[s] = DYOf(n, p)[s] * h[r] BY DEF DPreOf
    <3> HIDE DEF g, h
    <3>5. g[r] = (DYOf(n, p)[s] * h[r]) * XOf(n, p)[s] BY <3>3, <3>4
    <3> QED BY <2>5, <2>6, <3>2, <3>5
  <2>8. IsFiniteSet(Ranks(T)) /\ k \in Int
    <3>1. IsFiniteSet(Ranks(T)) BY Finite
    <3> QED BY <2>5, <3>1
  <2>9. c[s] = k * SumFunctionOnSet(w, S)
    <3>1. (1 .. U) \cap S = S BY <2>1
    <3>2. DPreOf(n, p, m, 1 .. U)[s] = DYOf(n, p)[s] * SumFunctionOnSet(w, (1 .. U) \cap S) BY DEF DPreOf
    <3>3. SumFunctionOnSet(w, (1 .. U) \cap S) \in Int BY RowsAreInts
    <3>4. c[s] = DPreOf(n, p, m, 1 .. U)[s] * XOf(n, p)[s] OBVIOUS
    <3> DEFINE t == SumFunctionOnSet(w, S)
    <3>5. t \in Int /\ c[s] = (DYOf(n, p)[s] * t) * XOf(n, p)[s] BY <3>1, <3>2, <3>3, <3>4
    <3> HIDE DEF t, c
    <3>6. c[s] = k * t BY <2>5, <2>6, <3>5
    <3> QED BY <3>6 DEF t
  <2> HIDE DEF g, h, k, w, S, c
  <2>10. SumFunctionOnSet(g, Ranks(T)) = k * SumFunctionOnSet(h, Ranks(T)) BY <2>7, <2>8, SumScaled
  <2>11. c[s] = SumFunctionOnSet(g, Ranks(T)) BY <2>4, <2>9, <2>10
  <2> QED BY <2>11 DEF g
<1>6. DOMAIN b = Ranks(T) OBVIOUS
<1>7. PreOf(n, p, m, 1 .. U) = SumFunctionOnSet(c, D)
  <2>1. 1 .. U \in SUBSET (1 .. U) OBVIOUS
  <2> HIDE DEF e
  <2> QED BY <1>3, <2>1
<1> HIDE DEF a, b, c, e, D, T, U
<1>8. Table(T, D, a, b, c) BY <1>1, <1>2, <1>4, <1>5, Zenon DEF Table
<1>9. SumFunctionOnSet(b, Ranks(T)) = SumFunctionOnSet(c, D) BY <1>8, SumExchange
<1>10. SumFunction(b) = SumFunctionOnSet(b, Ranks(T)) BY <1>6 DEF SumFunction
<1>11. SumFunction(b) = PreOf(n, p, m, 1 .. U) BY <1>7, <1>9, <1>10
<1> QED BY <1>11 DEF b, T, U

\* What the query heads of each copy of a key/value head make of it.
CopyParts(n, p, l, m, r, k, parts) ==
  /\ DOMAIN parts = Copies(n, l, r)
  /\ \A q \in Copies(n, l, r) : parts[q] = KvOfHeads(n, p, m, Own(n, l, q), k)

\* The parts that the copies' query heads make of a key/value head add up to the whole.
LEMMA KvAddUp ==
  ASSUME NEW n, IsNet(n), NEW p \in Packs, NEW l, Fits(n, l), NEW m, NEW r \in Ranks(l.tp),
         NEW k \in KvShard(Len(n.kv), r, l.tp), NEW parts,
         CopyParts(n, p, l, m, r, k, parts)
  PROVE  SumFunction(parts) = KvOfHeads(n, p, m, 1 .. Len(n.up), k)
<1> DEFINE T == l.tp  U == Len(n.up)  C == Copies(n, l, r)
           S == {f \in 1 .. U : KvOf(n, f) = k}
           g == [f \in S |-> UpRow(n, p, m, f)]
           h == [q \in Ranks(T) |-> KvOfHeads(n, p, m, Own(n, l, q), k)]
           hc == parts
<1>1. T \in Nat \ {0} /\ U \in Nat /\ U % T = 0 BY NetFacts DEF Fits
<1>2. IsFiniteSet(1 .. U) /\ IsFiniteSet(Ranks(T)) BY Finite
<1>3. S \subseteq 1 .. U /\ IsFiniteSet(S) /\ \A f \in S : g[f] \in Int
  <2>1. S \subseteq 1 .. U OBVIOUS
  <2>2. IsFiniteSet(S) BY <1>2, <2>1, FS_Subset
  <2>3. \A f \in S : g[f] \in Int BY RowsAreInts
  <2> QED BY <2>1, <2>2, <2>3
<1>4. ASSUME NEW F \in SUBSET (1 .. U) PROVE KvOfHeads(n, p, m, F, k) = SumFunctionOnSet(g, F \cap S)
  <2> DEFINE A == {f \in F : KvOf(n, f) = k}  j == [f \in A |-> UpRow(n, p, m, f)]
  <2>1. A = F \cap S OBVIOUS
  <2>2. DOMAIN j = A /\ \A f \in A : j[f] = g[f] OBVIOUS
  <2>3. IsFiniteSet(A) BY <1>3, <2>1, FS_Subset
  <2>4. KvOfHeads(n, p, m, F, k) = SumFunction(j) BY DEF KvOfHeads
  <2> HIDE DEF j, g, A, S
  <2>5. SumFunction(j) = SumFunctionOnSet(g, A) BY <2>2, <2>3, SumFunctionIs
  <2> QED BY <2>1, <2>4, <2>5
<1>5. ASSUME NEW q \in Ranks(T)
      PROVE  /\ h[q] = SumFunctionOnSet(g, ShardRange(U, q, T) \cap S) /\ h[q] \in Int
             /\ q \notin C => h[q] = 0
  <2>1. Own(n, l, q) \in SUBSET (1 .. U) /\ Own(n, l, q) = ShardRange(U, q, T) BY Finite DEF Own
  <2>2. h[q] = KvOfHeads(n, p, m, Own(n, l, q), k) OBVIOUS
  <2>3. h[q] = SumFunctionOnSet(g, Own(n, l, q) \cap S) /\ h[q] \in Int
    <3> DEFINE F == Own(n, l, q)
    <3>1. F \in SUBSET (1 .. U) /\ h[q] = KvOfHeads(n, p, m, F, k) BY <2>1, <2>2
    <3> HIDE DEF h, g, S, F, U
    <3>2. KvOfHeads(n, p, m, F, k) = SumFunctionOnSet(g, F \cap S) BY <1>4, <3>1
    <3>3. KvOfHeads(n, p, m, F, k) \in Int BY <3>1, RowsAreInts DEF U
    <3> QED BY <3>1, <3>2, <3>3 DEF F
  <2>4. ASSUME q \notin C PROVE h[q] = 0
    <3>1. Own(n, l, q) \cap S = {}
      <4> SUFFICES ASSUME NEW f \in Own(n, l, q), KvOf(n, f) = k PROVE FALSE OBVIOUS
      <4>1. k \in KvShard(Len(n.kv), q, l.tp) BY KvAligned
      <4> QED BY <2>4, <4>1, KvHolders
    <3>2. SumFunctionOnSet(g, {}) = 0 BY SumUnfolds, FS_EmptySet
    <3> HIDE DEF h, g, S
    <3> QED BY <2>3, <3>1, <3>2
  <2> HIDE DEF h, g, S, C
  <2> QED BY <2>1, <2>3, <2>4
<1>6. DOMAIN h = Ranks(T) /\ DOMAIN hc = C /\ C \subseteq Ranks(T) /\ \A q \in C : hc[q] = h[q]
  BY DEF Copies, CopyParts
<1>7. KvOfHeads(n, p, m, 1 .. U, k) = SumFunctionOnSet(g, S)
  <2>1. 1 .. U \in SUBSET (1 .. U) /\ (1 .. U) \cap S = S BY <1>3
  <2> HIDE DEF g, S
  <2> QED BY <1>4, <2>1
<1> HIDE DEF g, h, hc, S, T, U, C
<1>8. SplitUp(U, T, S, g, h) BY <1>1, <1>3, <1>5, Zenon DEF SplitUp
<1>9. SumFunctionOnSet(h, Ranks(T)) = SumFunctionOnSet(g, S) BY <1>8, SumOfShards
<1>10. SumFunctionOnSet(h, Ranks(T)) = SumFunctionOnSet(hc, C)
  <2> DEFINE R == Ranks(T)
  <2>1. Within(R, C, h, hc) BY <1>2, <1>5, <1>6 DEF Within
  <2> HIDE DEF R
  <2>2. SumFunctionOnSet(h, R) = SumFunctionOnSet(hc, C) BY <2>1, SumWithin
  <2> QED BY <2>2 DEF R
<1>11. SumFunction(hc) = SumFunctionOnSet(hc, C) BY <1>6 DEF SumFunction
<1>12. SumFunction(hc) = KvOfHeads(n, p, m, 1 .. U, k) BY <1>7, <1>9, <1>10, <1>11
<1> QED BY <1>12 DEF hc, C, U

\* The copies of a key/value head have its gradient w between them, with the hook equally.
KvShared(n, l, kv, w) ==
  \A r \in Ranks(l.tp) :
    /\ DOMAIN kv[r] = KvShard(Len(n.kv), r, l.tp)
    /\ \A k \in KvShard(Len(n.kv), r, l.tp) :
         /\ kv[r][k] \in Int
         /\ SumFunction([q \in Copies(n, l, r) |-> kv[q][k]]) = Cardinality(Copies(n, l, r)) * w[k]
         /\ l.hook => \A q \in Copies(n, l, r) : kv[q][k] = kv[r][k]

\* A rank is its own copy.
LEMMA CopiesFacts ==
  ASSUME NEW n, IsNet(n), NEW l, Fits(n, l), NEW r \in Ranks(l.tp)
  PROVE  /\ r \in Copies(n, l, r) /\ Copies(n, l, r) \subseteq Ranks(l.tp)
         /\ IsFiniteSet(Copies(n, l, r)) /\ Cardinality(Copies(n, l, r)) \in Nat \ {0}
         /\ \A q \in Copies(n, l, r) : /\ KvShard(Len(n.kv), q, l.tp) = KvShard(Len(n.kv), r, l.tp)
                                       /\ Copies(n, l, q) = Copies(n, l, r)
<1> DEFINE C == Copies(n, l, r)  T == l.tp
<1>1. r \in C /\ C \subseteq Ranks(T)
      /\ \A q \in C : /\ KvShard(Len(n.kv), q, T) = KvShard(Len(n.kv), r, T) /\ Copies(n, l, q) = C
  BY DEF Copies
<1>2. IsFiniteSet(C)
  <2>1. T \in Nat \ {0} BY DEF Fits
  <2> HIDE DEF T, C
  <2>2. IsFiniteSet(0 .. T - 1)
    <3>1. 0 \in Int /\ T - 1 \in Int BY <2>1
    <3> QED BY <3>1, FS_Interval
  <2> QED BY <1>1, <2>2, FS_Subset DEF Ranks
<1> HIDE DEF C, T
<1>3. Cardinality(C) \in Nat /\ Cardinality(C) # 0
  <2>1. Cardinality(C) \in Nat BY <1>2, FS_CardinalityType
  <2>2. Cardinality(C) = 0 => C = {} BY <1>2, FS_EmptySet
  <2> QED BY <1>1, <2>1, <2>2
<1> QED BY <1>1, <1>2, <1>3 DEF C, T

\* What is times a number divides by it.
LEMMA TimesOver ==
  ASSUME NEW c \in Nat \ {0}, NEW w \in Int
  PROVE  (c * w) \div c = w
BY Z3

\* After the hook (or without it) this is so of one microbatch.
LEMMA KvIs ==
  ASSUME NEW n, IsNet(n), NEW p \in Packs, NEW l, Fits(n, l), NEW w,
         \A k \in 1 .. Len(n.kv) : w[k] = KvOfHeads(n, p, l.kind, 1 .. Len(n.up), k)
  PROVE  KvShared(n, l, Hook(n, l, KvParts(n, p, l)), w)
<1> DEFINE T == l.tp  K == Len(n.kv)  m == l.kind  G == KvParts(n, p, l)  H == Hook(n, l, G)
           part(q, k) == KvOfHeads(n, p, m, Own(n, l, q), k)
<1> SUFFICES ASSUME NEW r \in Ranks(T)
             PROVE  /\ DOMAIN H[r] = KvShard(K, r, T)
                    /\ \A k \in KvShard(K, r, T) :
                         /\ H[r][k] \in Int
                         /\ SumFunction([q \in Copies(n, l, r) |-> H[q][k]]) = Cardinality(Copies(n, l, r)) * w[k]
                         /\ l.hook => \A q \in Copies(n, l, r) : H[q][k] = H[r][k]
  BY DEF KvShared
<1> DEFINE C == Copies(n, l, r)  c == Cardinality(C)
<1>1. /\ r \in C /\ C \subseteq Ranks(T) /\ IsFiniteSet(C) /\ c \in Nat \ {0}
      /\ \A q \in C : KvShard(K, q, T) = KvShard(K, r, T) /\ Copies(n, l, q) = C
  BY CopiesFacts
<1>2. G = [q \in Ranks(T) |-> [k \in KvShard(K, q, T) |-> Cardinality(Copies(n, l, q)) * part(q, k)]]
  BY DEF KvParts
<1>3. KvShard(K, r, T) \subseteq 1 .. K BY KvWithin
<1> HIDE DEF part, G, H, C, T, K, c, m
<1>4. ASSUME NEW q \in C, NEW k \in KvShard(K, r, T)
      PROVE  /\ part(q, k) \in Int /\ G[q][k] = c * part(q, k) /\ G[q][k] \in Int
             /\ DOMAIN G[q] = KvShard(K, r, T)
  <2>1. part(q, k) \in Int
    <3>1. q \in Ranks(l.tp) BY <1>1 DEF T
    <3>2. Own(n, l, q) \in SUBSET (1 .. Len(n.up)) BY <3>1, Finite
    <3> QED BY <3>2, RowsAreInts DEF part
  <2>2. q \in Ranks(T) /\ k \in KvShard(K, q, T) /\ Copies(n, l, q) = C /\ KvShard(K, q, T) = KvShard(K, r, T)
    BY <1>1
  <2>3. G[q][k] = c * part(q, k) /\ DOMAIN G[q] = KvShard(K, r, T) BY <1>2, <2>2 DEF c
  <2>4. c * part(q, k) \in Int BY <1>1, <2>1
  <2> QED BY <2>1, <2>3, <2>4
<1>5. ASSUME NEW k \in KvShard(K, r, T)
      PROVE  w[k] \in Int /\ SumFunction([q \in C |-> G[q][k]]) = c * w[k]
  <2> DEFINE f == [q \in C |-> G[q][k]]  h == [q \in C |-> part(q, k)]
  <2>1. w[k] = KvOfHeads(n, p, m, 1 .. Len(n.up), k) BY <1>3 DEF m, K
  <2>2. SumFunction(h) = w[k]
    <3>1. k \in KvShard(Len(n.kv), r, l.tp) /\ r \in Ranks(l.tp) BY DEF K, T
    <3>2. CopyParts(n, p, l, m, r, k, h) BY DEF part, C, CopyParts
    <3> HIDE DEF h
    <3>3. SumFunction(h) = KvOfHeads(n, p, m, 1 .. Len(n.up), k) BY <3>1, <3>2, KvAddUp
    <3> QED BY <2>1, <3>3
  <2>3. w[k] \in Int
    <3>1. 1 .. Len(n.up) \in SUBSET (1 .. Len(n.up)) OBVIOUS
    <3> QED BY <2>1, <3>1, RowsAreInts
  <2>4. DOMAIN f = C /\ DOMAIN h = C /\ \A q \in C : h[q] \in Int /\ f[q] = c * h[q] BY <1>4
  <2> HIDE DEF f, h
  <2>5. c \in Int BY <1>1
  <2>6. SumFunctionOnSet(f, C) = c * SumFunctionOnSet(h, C) BY <1>1, <2>4, <2>5, SumScaled
  <2>7. SumFunction(f) = SumFunctionOnSet(f, C) /\ SumFunction(h) = SumFunctionOnSet(h, C)
    BY <2>4 DEF SumFunction
  <2>8. SumFunction(f) = c * w[k] BY <2>2, <2>6, <2>7
  <2> QED BY <2>3, <2>8 DEF f
<1>6. CASE ~l.hook \/ K % T = 0
  <2>1. H = G BY <1>6 DEF Hook, H, K, T
  <2>2. DOMAIN G[r] = KvShard(K, r, T) BY <1>2
  <2>3. ASSUME NEW k \in KvShard(K, r, T), l.hook, NEW q \in C PROVE q = r
    <3>1. K % T = 0 /\ k \in KvShard(K, q, T) /\ q \in Ranks(T) BY <1>1, <1>6, <2>3
    <3> QED BY <3>1, KvHolders DEF K, T
  <2>4. \A k \in KvShard(K, r, T) : l.hook => \A q \in C : H[q][k] = H[r][k] BY <2>3
  <2>5. \A k \in KvShard(K, r, T) : H[r][k] \in Int BY <1>1, <1>4, <2>1
  <2>6. \A k \in KvShard(K, r, T) : SumFunction([q \in C |-> H[q][k]]) = c * w[k] BY <1>5, <2>1
  <2> QED BY <2>1, <2>2, <2>4, <2>5, <2>6 DEF C, c, T, K
<1>7. CASE l.hook /\ K % T # 0
  <2>1. H = [i \in DOMAIN G |-> [k \in DOMAIN G[i] |->
              SumFunction([q \in Copies(n, l, i) |-> G[q][k]]) \div Cardinality(Copies(n, l, i))]]
    BY <1>7 DEF Hook, H, K, T
  <2>2. DOMAIN G = Ranks(T) BY <1>2
  <2>3. ASSUME NEW q \in C, NEW k \in KvShard(K, r, T) PROVE H[q][k] = w[k] /\ DOMAIN H[q] = KvShard(K, r, T)
    <3>1. q \in DOMAIN G /\ DOMAIN G[q] = KvShard(K, r, T) /\ Copies(n, l, q) = C BY <1>1, <1>4, <2>2
    <3>2. H[q][k] = SumFunction([i \in C |-> G[i][k]]) \div c BY <2>1, <3>1 DEF c
    <3>3. SumFunction([i \in C |-> G[i][k]]) = c * w[k] /\ w[k] \in Int BY <1>5
    <3>4. (c * w[k]) \div c = w[k]
      <4> DEFINE x == w[k]
      <4>1. c \in Nat \ {0} /\ x \in Int BY <1>1, <3>3
      <4> HIDE DEF x
      <4>2. (c * x) \div c = x BY <4>1, TimesOver
      <4> QED BY <4>2 DEF x
    <3>5. DOMAIN H[q] = KvShard(K, r, T) BY <2>1, <3>1
    <3> QED BY <3>2, <3>3, <3>4, <3>5
  <2>4. ASSUME NEW k \in KvShard(K, r, T) PROVE SumFunction([q \in C |-> H[q][k]]) = c * w[k]
    <3> DEFINE f == [q \in C |-> H[q][k]]  x == w[k]
    <3>1. DOMAIN f = C /\ x \in Int /\ \A q \in C : f[q] = x BY <1>5, <2>3
    <3> HIDE DEF f, x
    <3>2. SumFunctionOnSet(f, C) = c * x BY <1>1, <3>1, SumOfConstant DEF c
    <3>3. SumFunction(f) = SumFunctionOnSet(f, C) BY <3>1 DEF SumFunction
    <3>4. SumFunction(f) = c * x BY <3>2, <3>3
    <3> QED BY <3>4 DEF f, x
  <2>5. DOMAIN H[r] = KvShard(K, r, T)
    <3>1. DOMAIN G[r] = KvShard(K, r, T) BY <1>2
    <3> QED BY <2>1, <2>2, <3>1
  <2>6. \A k \in KvShard(K, r, T) : H[r][k] \in Int /\ \A q \in C : H[q][k] = H[r][k] BY <1>1, <1>5, <2>3
  <2> QED BY <2>4, <2>5, <2>6 DEF C, c, T, K
<1> QED BY <1>6, <1>7

-----------------------------------------------------------------------------
(* Accumulating                                                            *)

\* What a microbatch adds to the gradients of the whole layer, and these sums.
WholeOne(n, l, p) == Backward(n, p, Unsharded(l))[0]
WholeUpto(sum, n, l, ps, k) ==
  sum = [i \in 1 .. k |-> IF i = 1 THEN WholeOne(n, l, ps[1]) ELSE AddGrads(sum[i - 1], WholeOne(n, l, ps[i]))]
WholeOf(n, l, ps) == (CHOOSE sum : WholeUpto(sum, n, l, ps, Len(ps)))[Len(ps)]

\* There are such sums, so that their defining equation holds.
LEMMA WholeExists ==
  ASSUME NEW n, NEW l, NEW ps, NEW k \in Nat
  PROVE  \E sum : WholeUpto(sum, n, l, ps, k)
<1> DEFINE G == {j \in Nat : \E sum : WholeUpto(sum, n, l, ps, j)}
           Next1(it, i) == IF i = 1 THEN WholeOne(n, l, ps[1]) ELSE AddGrads(it[i - 1], WholeOne(n, l, ps[i]))
<1>1. 0 \in G
  <2>1. WholeUpto(<< >>, n, l, ps, 0)
    <3>1. 1 .. 0 = {} OBVIOUS
    <3>2. << >> = [i \in 1 .. 0 |-> Next1(<< >>, i)] BY <3>1
    <3> QED BY <3>2 DEF WholeUpto
  <2> QED BY <2>1
<1>2. ASSUME NEW j \in Nat, j \in G PROVE j + 1 \in G
  <2>1. PICK it : WholeUpto(it, n, l, ps, j) BY <1>2
  <2> DEFINE new == [i \in 1 .. j + 1 |-> IF i = j + 1 THEN Next1(it, i) ELSE it[i]]
  <2>2. it = [i \in 1 .. j |-> Next1(it, i)] BY <2>1 DEF WholeUpto
  <2>3. ASSUME NEW i \in 1 .. j + 1 PROVE new[i] = Next1(new, i)
    <3>1. new[i] = Next1(it, i)
      <4>1. CASE i = j + 1 BY <4>1
      <4>2. CASE i # j + 1
        <5>1. i \in 1 .. j BY <4>2
        <5>2. new[i] = it[i] BY <4>2
        <5> HIDE DEF new, Next1
        <5> QED BY <2>2, <5>1, <5>2
      <4> QED BY <4>1, <4>2
    <3>2. i # 1 => new[i - 1] = it[i - 1]
      <4>1. i # 1 => i - 1 \in 1 .. j + 1 /\ i - 1 # j + 1 OBVIOUS
      <4> QED BY <4>1
    <3> HIDE DEF new
    <3> QED BY <3>1, <3>2
  <2>4. new = [i \in 1 .. j + 1 |-> new[i]] OBVIOUS
  <2> HIDE DEF new, Next1
  <2>5. new = [i \in 1 .. j + 1 |-> Next1(new, i)] BY <2>3, <2>4
  <2>6. WholeUpto(new, n, l, ps, j + 1) BY <2>5 DEF WholeUpto, Next1
  <2> QED BY <2>6
<1> HIDE DEF G
<1>3. Nat \subseteq G BY <1>1, <1>2, NatSetInduction
<1> QED BY <1>3 DEF G

\* Sums a over k microbatches, and b over these and more.
Continues(n, l, ps, qs, k, m, a, b) ==
  /\ k \in Nat /\ m \in Nat /\ k <= m /\ \A i \in 1 .. k : ps[i] = qs[i]
  /\ WholeUpto(a, n, l, ps, k) /\ WholeUpto(b, n, l, qs, m)

\* More microbatches leave the earlier sums as they are.
LEMMA WholeAgrees ==
  ASSUME NEW n, NEW l, NEW ps, NEW qs, NEW k, NEW m, NEW a, NEW b, Continues(n, l, ps, qs, k, m, a, b)
  PROVE  \A i \in 1 .. k : a[i] = b[i]
<1>0. /\ k \in Nat /\ m \in Nat /\ k <= m /\ \A i \in 1 .. k : ps[i] = qs[i]
      /\ WholeUpto(a, n, l, ps, k) /\ WholeUpto(b, n, l, qs, m)
  BY DEF Continues
<1> DEFINE G == {j \in Nat : j \in 1 .. k => a[j] = b[j]}
<1>1. 0 \in G OBVIOUS
<1>2. ASSUME NEW j \in Nat, j \in G PROVE j + 1 \in G
  <2>1. ASSUME j + 1 \in 1 .. k PROVE a[j + 1] = b[j + 1]
    <3>1. j + 1 \in 1 .. m /\ (j + 1) - 1 = j BY <1>0, <2>1
    <3>2. a[j + 1] = IF j + 1 = 1 THEN WholeOne(n, l, ps[1]) ELSE AddGrads(a[j], WholeOne(n, l, ps[j + 1]))
      BY <1>0, <2>1, <3>1 DEF WholeUpto
    <3>3. b[j + 1] = IF j + 1 = 1 THEN WholeOne(n, l, qs[1]) ELSE AddGrads(b[j], WholeOne(n, l, qs[j + 1]))
      BY <1>0, <3>1 DEF WholeUpto
    <3>4. ps[j + 1] = qs[j + 1] BY <1>0, <2>1
    <3>5. CASE j = 0 BY <3>2, <3>3, <3>4, <3>5
    <3>6. CASE j # 0
      <4>1. j \in 1 .. k /\ j + 1 # 1 BY <1>0, <2>1, <3>6
      <4>2. a[j] = b[j] BY <1>2, <4>1
      <4> QED BY <3>2, <3>3, <3>4, <4>1, <4>2
    <3> QED BY <3>5, <3>6
  <2> QED BY <2>1
<1> HIDE DEF G
<1>3. Nat \subseteq G BY <1>1, <1>2, NatSetInduction
<1>4. \A i \in 1 .. k : i \in Nat BY <1>0
<1> QED BY <1>3, <1>4 DEF G

\* The first microbatch sets the sum, every other one is added to it.
LEMMA WholeGrows ==
  ASSUME NEW n, NEW l, NEW X, NEW ps \in Seq(X), NEW p \in X
  PROVE  /\ ps = << >> => WholeOf(n, l, Append(ps, p)) = WholeOne(n, l, p)
         /\ ps # << >> => WholeOf(n, l, Append(ps, p)) = AddGrads(WholeOf(n, l, ps), WholeOne(n, l, p))
<1> DEFINE k == Len(ps)  qs == Append(ps, p)
           few == CHOOSE sum : WholeUpto(sum, n, l, ps, Len(ps))
           more == CHOOSE sum : WholeUpto(sum, n, l, qs, Len(qs))
<1>1. /\ k \in Nat /\ Len(qs) = k + 1 /\ qs[k + 1] = p /\ \A i \in 1 .. k : ps[i] = qs[i]
      /\ ps # << >> => k # 0
  OBVIOUS
<1>2. WholeUpto(few, n, l, ps, k) BY <1>1, WholeExists
<1>3. WholeUpto(more, n, l, qs, k + 1)
  <2>1. k + 1 \in Nat BY <1>1
  <2>2. \E sum : WholeUpto(sum, n, l, qs, Len(qs)) BY <1>1, <2>1, WholeExists
  <2>3. WholeUpto(more, n, l, qs, Len(qs)) BY <2>2
  <2> QED BY <1>1, <2>3
<1>4. WholeOf(n, l, ps) = few[k] /\ WholeOf(n, l, qs) = more[k + 1] BY <1>1 DEF WholeOf
<1>5. ps = << >> => k = 0 /\ qs[1] = p OBVIOUS
<1> HIDE DEF few, more, qs, k
<1>6. more[k + 1] = IF k + 1 = 1 THEN WholeOne(n, l, qs[1]) ELSE AddGrads(more[k], WholeOne(n, l, qs[k + 1]))
  <2>1. k + 1 \in 1 .. k + 1 /\ (k + 1) - 1 = k BY <1>1
  <2> QED BY <1>3, <2>1 DEF WholeUpto
<1>7. ASSUME k # 0 PROVE few[k] = more[k]
  <2>1. k \in Nat /\ k \in 1 .. k /\ \A i \in 1 .. k : ps[i] = qs[i] BY <1>1, <1>7
  <2>2. k + 1 \in Nat /\ k <= k + 1 BY <2>1
  <2>3. Continues(n, l, ps, qs, k, k + 1, few, more) BY <1>2, <1>3, <2>1, <2>2, Zenon DEF Continues
  <2>4. \A i \in 1 .. k : few[i] = more[i] BY <2>3, WholeAgrees
  <2> QED BY <2>1, <2>4
<1>8. k # 0 => k + 1 # 1 BY <1>1
<1>9. ps = << >> => WholeOf(n, l, qs) = WholeOne(n, l, p) BY <1>4, <1>5, <1>6
<1>10. ps # << >> => WholeOf(n, l, qs) = AddGrads(WholeOf(n, l, ps), WholeOne(n, l, p))
  BY <1>1, <1>4, <1>6, <1>7, <1>8
<1> QED BY <1>9, <1>10 DEF qs

-----------------------------------------------------------------------------
(* The whole layer, and a rank's experts alone                             *)

Fields == {"pre", "post", "gain", "head", "embed", "up", "down", "kv"}
Held == {"head", "up", "down"}
RowsIn(n, k) == IF k = "head" THEN Len(n.head) ELSE Len(n.up)

\* A layer that is not split fits every net, and its one rank holds every row.
LEMMA OneRank ==
  ASSUME NEW n, IsNet(n), NEW l, Fits(n, l)
  PROVE  /\ Fits(n, Unsharded(l)) /\ Unsharded(l).kind = l.kind /\ Unsharded(l).tp = 1
         /\ Ranks(1) = {0} /\ \A size \in Nat : ShardRange(size, 0, 1) = 1 .. size
         /\ KvShard(Len(n.kv), 0, 1) = 1 .. Len(n.kv)
<1>1. l \in [tp : Nat \ {0}, kind : {"dense", "delta", "moe"}, hook : BOOLEAN] BY DEF Fits
<1>2. /\ Unsharded(l) \in [tp : Nat \ {0}, kind : {"dense", "delta", "moe"}, hook : BOOLEAN]
      /\ Unsharded(l).kind = l.kind /\ Unsharded(l).tp = 1
  BY <1>1 DEF Unsharded
<1>3. \A m \in Nat : m % 1 = 0 /\ m \div 1 = m OBVIOUS
<1>4. Fits(n, Unsharded(l)) BY <1>2, <1>3, NetFacts DEF Fits
<1>5. \A size \in Nat : ShardRange(size, 0, 1) = 1 .. size
  <2> TAKE size \in Nat
  <2>1. size \div 1 = size BY <1>3
  <2>2. 0 * size + 1 = 1 /\ (0 + 1) * size = size OBVIOUS
  <2> QED BY <2>1, <2>2 DEF ShardRange
<1>6. Ranks(1) = {0} BY DEF Ranks
<1>7. KvShard(Len(n.kv), 0, 1) = 1 .. Len(n.kv)
  <2>1. Len(n.kv) \in Nat BY NetFacts
  <2>2. Len(n.kv) % 1 = 0 BY <1>3, <2>1
  <2> QED BY <1>5, <2>1, <2>2 DEF KvShard
<1> QED BY <1>2, <1>4, <1>5, <1>6, <1>7

\* What a rank's record is made of.
RankFields(n, p, l, r, R) ==
  /\ DOMAIN R = Fields
  /\ R["pre"] = PreOf(n, p, l.kind, Seen(n, l, r)) /\ R["post"] = PostOf(n, p, l.kind)
  /\ R["gain"] = GainOf(n, p, l.kind, Own(n, l, r))
  /\ R["head"] = [w \in ShardRange(Len(n.head), r, l.tp) |-> HeadRow(n, p, l.kind, w)]
  /\ R["embed"] = [t \in ShardRange(Len(n.embed), r, l.tp) |-> EmbedRow(n, p, l.kind, Seen(n, l, r), t)]
  /\ R["up"] = [f \in Own(n, l, r) |-> UpRow(n, p, l.kind, f)]
  /\ R["down"] = [f \in Own(n, l, r) |-> DownRow(n, p, l.kind, f)]
  /\ R["kv"] = Hook(n, l, KvParts(n, p, l))[r]

LEMMA RowsHave ==
  ASSUME NEW n, NEW p, NEW l, NEW r \in Ranks(l.tp)
  PROVE  DOMAIN Rows(n, p, l) = Ranks(l.tp) /\ RankFields(n, p, l, r, Rows(n, p, l)[r])
<1> DEFINE a == PreOf(n, p, l.kind, Seen(n, l, r))  b == PostOf(n, p, l.kind)
           c == GainOf(n, p, l.kind, Own(n, l, r))
           d == [w \in ShardRange(Len(n.head), r, l.tp) |-> HeadRow(n, p, l.kind, w)]
           e == [t \in ShardRange(Len(n.embed), r, l.tp) |-> EmbedRow(n, p, l.kind, Seen(n, l, r), t)]
           f == [i \in Own(n, l, r) |-> UpRow(n, p, l.kind, i)]
           g == [i \in Own(n, l, r) |-> DownRow(n, p, l.kind, i)]
           h == Hook(n, l, KvParts(n, p, l))[r]
           R == Rows(n, p, l)[r]
<1>1. DOMAIN Rows(n, p, l) = Ranks(l.tp) BY DEF Rows
<1>2. R = [pre |-> a, post |-> b, gain |-> c, head |-> d, embed |-> e, up |-> f, down |-> g, kv |-> h]
  BY DEF Rows
<1> HIDE DEF a, b, c, d, e, f, g, h, R
<1>3. /\ DOMAIN R = Fields /\ R["pre"] = a /\ R["post"] = b /\ R["gain"] = c /\ R["head"] = d
      /\ R["embed"] = e /\ R["up"] = f /\ R["down"] = g /\ R["kv"] = h
  BY <1>2 DEF Fields
<1>4. RankFields(n, p, l, r, R) BY <1>3, Zenon DEF RankFields, a, b, c, d, e, f, g, h
<1> QED BY <1>1, <1>4 DEF R

\* And the record of the whole layer: all heads' or experts' rows.
WholeFields(n, p, l, W) ==
  /\ DOMAIN W = Fields
  /\ W["pre"] = PreOf(n, p, l.kind, 1 .. Len(n.up)) /\ W["post"] = PostOf(n, p, l.kind)
  /\ W["gain"] = GainOf(n, p, l.kind, 1 .. Len(n.up))
  /\ W["head"] = [w \in 1 .. Len(n.head) |-> HeadRow(n, p, l.kind, w)]
  /\ W["embed"] = [t \in 1 .. Len(n.embed) |-> EmbedRow(n, p, l.kind, 1 .. Len(n.up), t)]
  /\ W["up"] = [f \in 1 .. Len(n.up) |-> UpRow(n, p, l.kind, f)]
  /\ W["down"] = [f \in 1 .. Len(n.up) |-> DownRow(n, p, l.kind, f)]
  /\ DOMAIN W["kv"] = 1 .. Len(n.kv)
  /\ \A k \in 1 .. Len(n.kv) : W["kv"][k] = KvOfHeads(n, p, l.kind, 1 .. Len(n.up), k)

\* It is what a microbatch adds to the gradients of the whole layer.
LEMMA WholeIs ==
  ASSUME NEW n, IsNet(n), NEW p \in Packs, NEW l, Fits(n, l)
  PROVE  WholeFields(n, p, l, WholeOne(n, l, p))
<1> DEFINE W == WholeOne(n, l, p)
<1> DEFINE u == Unsharded(l)  U == 1 .. Len(n.up)  m == l.kind
<1>1. Fits(n, u) /\ u.kind = m /\ u.tp = 1 /\ Ranks(1) = {0} /\ KvShard(Len(n.kv), 0, 1) = 1 .. Len(n.kv)
      /\ \A size \in Nat : ShardRange(size, 0, 1) = 1 .. size
  BY OneRank
<1>2. Len(n.head) \in Nat /\ Len(n.embed) \in Nat /\ Len(n.up) \in Nat /\ Len(n.kv) \in Nat BY NetFacts
<1> HIDE DEF u
<1>3. Backward(n, p, u) = Rows(n, p, u) BY <1>1, BackwardIs
<1>4. 0 \in Ranks(u.tp) BY <1>1
<1>5. RankFields(n, p, u, 0, W) BY <1>3, <1>4, RowsHave DEF WholeOne, u
<1>a. W = WholeOne(n, l, p) OBVIOUS
<1> HIDE DEF W
<1>6. Own(n, u, 0) = U /\ Seen(n, u, 0) = U BY <1>1, <1>2 DEF Own, Seen
<1>7. ShardRange(Len(n.head), 0, u.tp) = 1 .. Len(n.head) /\ ShardRange(Len(n.embed), 0, u.tp) = 1 .. Len(n.embed)
  BY <1>1, <1>2
<1> DEFINE G == KvParts(n, p, u)
<1>8. W["kv"] = G[0]
  <2>1. Len(n.kv) % 1 = 0
    <3>1. \A i \in Nat : i % 1 = 0 OBVIOUS
    <3> QED BY <1>2, <3>1
  <2>2. Hook(n, u, G) = G BY <1>1, <2>1 DEF Hook
  <2>3. W["kv"] = Hook(n, u, G)[0] BY <1>5 DEF RankFields
  <2> QED BY <2>2, <2>3
<1>9. Cardinality(Copies(n, u, 0)) = 1
  <2>1. Copies(n, u, 0) = {0} BY <1>1, <1>4, CopiesFacts
  <2> QED BY <2>1, FS_Singleton
<1>10. G[0] = [k \in 1 .. Len(n.kv) |-> 1 * KvOfHeads(n, p, m, U, k)] BY <1>1, <1>4, <1>6, <1>9 DEF KvParts
<1>11. \A k : KvOfHeads(n, p, m, U, k) \in Int BY RowsAreInts
<1>12. DOMAIN W["kv"] = 1 .. Len(n.kv) /\ \A k \in 1 .. Len(n.kv) : W["kv"][k] = KvOfHeads(n, p, m, U, k)
  <2> SUFFICES ASSUME NEW k \in 1 .. Len(n.kv) PROVE G[0][k] = KvOfHeads(n, p, m, U, k) BY <1>8, <1>10
  <2> DEFINE x == KvOfHeads(n, p, m, U, k)
  <2>1. G[0][k] = 1 * x /\ x \in Int BY <1>10, <1>11
  <2> HIDE DEF x, G
  <2>2. G[0][k] = x BY <2>1
  <2> QED BY <2>2 DEF x
<1> HIDE DEF U, m, G
<1>13. /\ DOMAIN W = Fields
       /\ W["pre"] = PreOf(n, p, m, U) /\ W["post"] = PostOf(n, p, m) /\ W["gain"] = GainOf(n, p, m, U)
       /\ W["head"] = [w \in 1 .. Len(n.head) |-> HeadRow(n, p, m, w)]
       /\ W["embed"] = [t \in 1 .. Len(n.embed) |-> EmbedRow(n, p, m, U, t)]
       /\ W["up"] = [f \in U |-> UpRow(n, p, m, f)]
       /\ W["down"] = [f \in U |-> DownRow(n, p, m, f)]
  BY <1>1, <1>5, <1>6, <1>7 DEF RankFields
<1>14. WholeFields(n, p, l, W) BY <1>12, <1>13, Zenon DEF U, m, WholeFields
<1> QED BY <1>14 DEF W

\* The net that a rank's rows of the embedding learn from.
Learns(n, l, r) == IF l.kind = "moe" THEN Alone(n, l, r) ELSE n

LEMMA LearnsIs ==
  ASSUME NEW n, IsNet(n), NEW l, Fits(n, l), NEW r \in Ranks(l.tp), NEW a, a = Learns(n, l, r)
  PROVE  /\ IsNet(a) /\ Fits(a, l)
         /\ a.embed = n.embed /\ a.head = n.head /\ a.pre = n.pre /\ a.post = n.post /\ a.gain = n.gain
         /\ a.up = n.up /\ a.kv = n.kv
         /\ \A f \in 1 .. Len(n.up) :
              a.down[f] = IF l.kind = "moe" /\ f \notin Own(n, l, r) THEN 0 ELSE n.down[f]
<1>1. n \in [embed : Seq(Int), head : Seq(Int), pre : Int, post : Int, gain : Int,
             up : Seq(Int), down : Seq(Int), kv : Seq(Int)]
  BY DEF IsNet
<1>2. CASE l.kind # "moe"
  <2>1. a = n BY <1>2 DEF Learns
  <2> QED BY <1>2, <2>1
<1>3. CASE l.kind = "moe"
  <2> DEFINE d == [f \in DOMAIN n.down |-> IF f \in ShardRange(Len(n.up), r, l.tp) THEN n.down[f] ELSE 0]
  <2>1. a = [n EXCEPT !.down = d] BY <1>3 DEF Learns, Alone
  <2>2. d \in Seq(Int) /\ Len(d) = Len(n.up) /\ DOMAIN n.down = 1 .. Len(n.up)
    <3>1. n.down \in Seq(Int) /\ Len(n.down) = Len(n.up) /\ Len(n.up) \in Nat BY NetFacts
    <3>2. DOMAIN n.down = 1 .. Len(n.up) BY <3>1
    <3>3. d \in [1 .. Len(n.up) -> Int] BY <3>1, <3>2
    <3> HIDE DEF d
    <3>4. d \in Seq(Int) /\ Len(d) = Len(n.up) BY <3>1, <3>3, SeqOfFunction
    <3> QED BY <3>2, <3>4
  <2>3. \A f \in 1 .. Len(n.up) : d[f] = IF f \in Own(n, l, r) THEN n.down[f] ELSE 0 BY <2>2 DEF Own
  <2> HIDE DEF d
  <2>4. /\ a \in [embed : Seq(Int), head : Seq(Int), pre : Int, post : Int, gain : Int,
                  up : Seq(Int), down : Seq(Int), kv : Seq(Int)]
        /\ a.embed = n.embed /\ a.head = n.head /\ a.pre = n.pre /\ a.post = n.post /\ a.gain = n.gain
        /\ a.up = n.up /\ a.kv = n.kv /\ a.down = d
    BY <1>1, <2>1, <2>2
  <2>5. IsNet(a) BY <2>2, <2>4 DEF IsNet
  <2>6. Fits(a, l) BY <2>4 DEF Fits
  <2> QED BY <1>3, <2>3, <2>4, <2>5, <2>6
<1> QED BY <1>2, <1>3

\* What a rank's rows of the embedding get is what the whole layer of that net would give them.
LEMMA EmbedLearns ==
  ASSUME NEW n, IsNet(n), NEW p \in Packs, NEW l, Fits(n, l), NEW r \in Ranks(l.tp),
         NEW a, a = Learns(n, l, r), NEW t
  PROVE  EmbedRow(n, p, l.kind, Seen(n, l, r), t) = EmbedRow(a, p, l.kind, 1 .. Len(a.up), t)
<1> DEFINE m == l.kind  U == Len(n.up)  S == Seen(n, l, r)
<1>0. U \in Nat BY NetFacts
<1>1. /\ a.head = n.head /\ a.pre = n.pre /\ a.post = n.post /\ a.gain = n.gain /\ a.up = n.up /\ a.kv = n.kv
      /\ IsNet(a) /\ Fits(a, l)
      /\ \A f \in 1 .. U : a.down[f] = IF m = "moe" /\ f \notin Own(n, l, r) THEN 0 ELSE n.down[f]
  BY LearnsIs
<1>2. \A f : KvOf(a, f) = KvOf(n, f) BY <1>1 DEF KvOf
<1>3. DYOf(a, p) = DYOf(n, p) BY <1>1 DEF DYOf, DNormedOf, Heads
<1>4. \A s : Acting(a, p, m, s) = Acting(n, p, m, s) BY <1>1 DEF Acting
<1>5. Own(n, l, r) \subseteq 1 .. U BY Finite
<1>6. S = (IF m = "moe" THEN Own(n, l, r) ELSE 1 .. U) /\ S \subseteq 1 .. U BY <1>5 DEF Seen
<1>7. ASSUME NEW f \in 1 .. U
      PROVE  /\ f \in S => Weigh(a)[f] = Weigh(n)[f]
             /\ f \notin S => Weigh(a)[f] = 0
             /\ Weigh(a)[f] \in Int
  <2> DEFINE w == n.up[f] + n.kv[KvOf(n, f)]  g == n.gain
  <2>1. Weigh(a)[f] = a.down[f] * g * w /\ Weigh(n)[f] = n.down[f] * g * w BY <1>1, <1>2 DEF Weigh
  <2>2. n.up[f] \in Int /\ n.kv[KvOf(n, f)] \in Int /\ n.gain \in Int BY NetFacts
  <2>3. w \in Int /\ g \in Int BY <2>2
  <2> HIDE DEF w, g
  <2>4. 0 * g * w = 0
    <3>1. 0 * g = 0 /\ 0 * w = 0 BY <2>3
    <3> QED BY <3>1
  <2>5. f \in S => a.down[f] = n.down[f] BY <1>1, <1>6
  <2>6. f \notin S => a.down[f] = 0 BY <1>1, <1>6
  <2>7. Weigh(a)[f] \in Int BY <1>1, BackIsInt
  <2> QED BY <2>1, <2>4, <2>5, <2>6, <2>7
<1>8. ASSUME NEW s \in Places(p)
      PROVE  SumFunctionOnSet(Weigh(a), (1 .. U) \cap Acting(n, p, m, s))
             = SumFunctionOnSet(Weigh(n), S \cap Acting(n, p, m, s))
  <2> DEFINE A == (1 .. U) \cap Acting(n, p, m, s)  B == S \cap Acting(n, p, m, s)
             v == Weigh(a)  w == Weigh(n)
  <2>1. IsFiniteSet(A) /\ B \subseteq A /\ A \subseteq 1 .. U
    <3>1. IsFiniteSet(1 .. U) BY <1>0, FS_Interval
    <3>2. A \subseteq 1 .. U /\ B \subseteq A BY <1>6
    <3> QED BY <3>1, <3>2, FS_Subset
  <2>2. \A x \in A : v[x] \in Int BY <1>7, <2>1
  <2>3. \A x \in B : w[x] = v[x] BY <1>7, <2>1
  <2>4. \A x \in A \ B : v[x] = 0
    <3> SUFFICES ASSUME NEW x \in A \ B PROVE v[x] = 0 OBVIOUS
    <3>1. x \in 1 .. U /\ x \notin S OBVIOUS
    <3> QED BY <1>7, <3>1
  <2> HIDE DEF A, B, v, w
  <2>5. Within(A, B, v, w) BY <2>1, <2>2, <2>3, <2>4 DEF Within
  <2>6. SumFunctionOnSet(v, A) = SumFunctionOnSet(w, B) BY <2>5, SumWithin
  <2> QED BY <2>6 DEF A, B, v, w
<1>9. DPreOf(a, p, m, 1 .. U) = DPreOf(n, p, m, S)
  <2>1. \A s : Acting(a, p, m, s) = Acting(n, p, m, s) BY <1>4
  <2> QED BY <1>3, <1>8, <2>1 DEF DPreOf
<1>10. DXOf(a, p, m, 1 .. U) = DXOf(n, p, m, S) BY <1>1, <1>3, <1>9 DEF DXOf
<1>11. EmbedRow(a, p, m, 1 .. U, t) = EmbedRow(n, p, m, S, t) BY <1>10 DEF EmbedRow
<1> QED BY <1>1, <1>11

-----------------------------------------------------------------------------
(* How the ranks' gradients G relate to the whole layer's                  *)

Shaped(l, G, W) ==
  /\ DOMAIN G = Ranks(l.tp) /\ DOMAIN W = Fields
  /\ \A r \in Ranks(l.tp) : DOMAIN G[r] = Fields

\* A rank has the rows it holds, as the whole layer has them.
HeldRows(n, l, G, W) ==
  \A k \in Held :
    /\ DOMAIN W[k] = 1 .. RowsIn(n, k)
    /\ \A r \in Ranks(l.tp) : /\ DOMAIN G[r][k] = ShardRange(RowsIn(n, k), r, l.tp)
                              /\ \A i \in DOMAIN G[r][k] : G[r][k][i] = W[k][i]

\* And of the embedding, by rank, as its net of E has them.
EmbedRows(n, l, G, E) ==
  \A r \in Ranks(l.tp) :
    /\ DOMAIN E[r] = Fields /\ DOMAIN E[r]["embed"] = 1 .. Len(n.embed)
    /\ DOMAIN G[r]["embed"] = ShardRange(Len(n.embed), r, l.tp)
    /\ \A i \in DOMAIN G[r]["embed"] : G[r]["embed"][i] = E[r]["embed"][i]

KvOfRanks(l, G) == [r \in Ranks(l.tp) |-> G[r]["kv"]]
KvRows(n, l, G, W) ==
  /\ DOMAIN W["kv"] = 1 .. Len(n.kv) /\ \A k \in 1 .. Len(n.kv) : W["kv"][k] \in Int
  /\ KvShared(n, l, KvOfRanks(l, G), W["kv"])

\* Before the synchronisation the parts of a scale add up, after it every rank has the sum.
Total(l, G, k) == SumFunction([r \in Ranks(l.tp) |-> G[r][k]])
ScaleSums(l, G, W) ==
  \A k \in Scales : /\ W[k] \in Int /\ \A r \in Ranks(l.tp) : G[r][k] \in Int
                    /\ Total(l, G, k) = TimesSummed(l, k) * W[k]
ScalesSynced(l, G, W) ==
  \A k \in Scales :
    IF k \in Replicated(l) THEN \A r \in Ranks(l.tp) : G[r][k] = TimesSummed(l, k) * W[k]
    ELSE Total(l, G, k) = TimesSummed(l, k) * W[k]

Related(n, l, G, W, E) == Shaped(l, G, W) /\ HeldRows(n, l, G, W) /\ EmbedRows(n, l, G, E) /\ KvRows(n, l, G, W)

LEMMA RowsFit ==
  ASSUME NEW n, IsNet(n), NEW l, Fits(n, l), NEW r \in Ranks(l.tp)
  PROVE  /\ \A k \in Held : ShardRange(RowsIn(n, k), r, l.tp) \subseteq 1 .. RowsIn(n, k)
         /\ ShardRange(Len(n.embed), r, l.tp) \subseteq 1 .. Len(n.embed)
<1>1. l.tp \in Nat \ {0} BY DEF Fits
<1>2. ASSUME NEW k \in Held PROVE ShardRange(RowsIn(n, k), r, l.tp) \subseteq 1 .. RowsIn(n, k)
  <2>1. RowsIn(n, k) \in Nat /\ RowsIn(n, k) % l.tp = 0 BY NetFacts DEF RowsIn, Fits
  <2> QED BY <1>1, <2>1, ShardFacts
<1>3. Len(n.embed) \in Nat /\ Len(n.embed) % l.tp = 0 BY NetFacts DEF Fits
<1>4. ShardRange(Len(n.embed), r, l.tp) \subseteq 1 .. Len(n.embed) BY <1>1, <1>3, ShardFacts
<1> QED BY <1>2, <1>4

\* One microbatch.
LEMMA RelatedOne ==
  ASSUME NEW n, IsNet(n), NEW p \in Packs, NEW l, Fits(n, l), NEW G, G = Backward(n, p, l),
         NEW W, W = WholeOne(n, l, p), NEW E, \A r \in Ranks(l.tp) : E[r] = WholeOne(Learns(n, l, r), l, p)
  PROVE  Related(n, l, G, W, E) /\ ScaleSums(l, G, W)
<1> DEFINE m == l.kind  U == 1 .. Len(n.up)
<1>1. G = Rows(n, p, l) BY BackwardIs
<1>2. l.tp \in Nat \ {0} /\ 0 \in Ranks(l.tp)
  <2>1. l.tp \in Nat \ {0} BY DEF Fits
  <2> QED BY <2>1 DEF Ranks
<1>3. DOMAIN G = Ranks(l.tp) /\ \A r \in Ranks(l.tp) : RankFields(n, p, l, r, G[r]) BY <1>1, <1>2, RowsHave
<1>4. /\ DOMAIN W = Fields
      /\ W["pre"] = PreOf(n, p, m, U) /\ W["post"] = PostOf(n, p, m) /\ W["gain"] = GainOf(n, p, m, U)
      /\ W["head"] = [w \in 1 .. Len(n.head) |-> HeadRow(n, p, m, w)]
      /\ W["up"] = [f \in U |-> UpRow(n, p, m, f)] /\ W["down"] = [f \in U |-> DownRow(n, p, m, f)]
      /\ DOMAIN W["kv"] = 1 .. Len(n.kv)
      /\ \A k \in 1 .. Len(n.kv) : W["kv"][k] = KvOfHeads(n, p, m, U, k)
  <2>1. WholeFields(n, p, l, W) BY WholeIs
  <2> HIDE DEF m, U
  <2> QED BY <2>1, Zenon DEF WholeFields, m, U
<1>5. Shaped(l, G, W) BY <1>3, <1>4 DEF Shaped, RankFields
<1>6. HeldRows(n, l, G, W)
  <2> SUFFICES ASSUME NEW k \in Held
               PROVE  /\ DOMAIN W[k] = 1 .. RowsIn(n, k)
                      /\ \A r \in Ranks(l.tp) : /\ DOMAIN G[r][k] = ShardRange(RowsIn(n, k), r, l.tp)
                                                /\ \A i \in DOMAIN G[r][k] : G[r][k][i] = W[k][i]
    BY DEF HeldRows
  <2>1. DOMAIN W[k] = 1 .. RowsIn(n, k) BY <1>4 DEF Held, RowsIn
  <2>2. ASSUME NEW r \in Ranks(l.tp)
        PROVE  /\ DOMAIN G[r][k] = ShardRange(RowsIn(n, k), r, l.tp)
               /\ \A i \in DOMAIN G[r][k] : G[r][k][i] = W[k][i]
    <3>1. /\ G[r]["head"] = [w \in ShardRange(Len(n.head), r, l.tp) |-> HeadRow(n, p, m, w)]
          /\ G[r]["up"] = [f \in Own(n, l, r) |-> UpRow(n, p, m, f)]
          /\ G[r]["down"] = [f \in Own(n, l, r) |-> DownRow(n, p, m, f)]
      BY <1>3 DEF RankFields
    <3>2. ShardRange(RowsIn(n, k), r, l.tp) \subseteq 1 .. RowsIn(n, k) BY RowsFit
    <3>3. Own(n, l, r) = ShardRange(Len(n.up), r, l.tp) BY DEF Own
    <3>4. CASE k = "head" BY <1>4, <3>1, <3>2, <3>4 DEF RowsIn
    <3>5. CASE k = "up" BY <1>4, <3>1, <3>2, <3>3, <3>5 DEF RowsIn
    <3>6. CASE k = "down" BY <1>4, <3>1, <3>2, <3>3, <3>6 DEF RowsIn
    <3> QED BY <3>4, <3>5, <3>6 DEF Held
  <2> QED BY <2>1, <2>2
<1>7. EmbedRows(n, l, G, E)
  <2> SUFFICES ASSUME NEW r \in Ranks(l.tp)
               PROVE  /\ DOMAIN E[r] = Fields /\ DOMAIN E[r]["embed"] = 1 .. Len(n.embed)
                      /\ DOMAIN G[r]["embed"] = ShardRange(Len(n.embed), r, l.tp)
                      /\ \A i \in DOMAIN G[r]["embed"] : G[r]["embed"][i] = E[r]["embed"][i]
    BY DEF EmbedRows
  <2> DEFINE a == Learns(n, l, r)  e == E[r]
  <2>1. IsNet(a) /\ Fits(a, l) /\ a.embed = n.embed BY LearnsIs
  <2>2. e = WholeOne(a, l, p) OBVIOUS
  <2>3. \A t : EmbedRow(n, p, m, Seen(n, l, r), t) = EmbedRow(a, p, m, 1 .. Len(a.up), t) BY EmbedLearns
  <2>4. G[r]["embed"] = [t \in ShardRange(Len(n.embed), r, l.tp) |-> EmbedRow(n, p, m, Seen(n, l, r), t)]
    BY <1>3 DEF RankFields
  <2>5. ShardRange(Len(n.embed), r, l.tp) \subseteq 1 .. Len(n.embed) BY RowsFit
  <2> HIDE DEF a, e
  <2>6. DOMAIN e = Fields /\ e["embed"] = [t \in 1 .. Len(a.embed) |-> EmbedRow(a, p, m, 1 .. Len(a.up), t)]
    <3>1. WholeFields(a, p, l, e) BY <2>1, <2>2, WholeIs
    <3> QED BY <3>1, Zenon DEF WholeFields
  <2>7. DOMAIN e["embed"] = 1 .. Len(n.embed) BY <2>1, <2>6
  <2>8. ASSUME NEW i \in ShardRange(Len(n.embed), r, l.tp) PROVE G[r]["embed"][i] = e["embed"][i]
    <3>1. i \in 1 .. Len(a.embed) BY <2>1, <2>5
    <3>2. e["embed"][i] = EmbedRow(a, p, m, 1 .. Len(a.up), i) BY <2>6, <3>1
    <3>3. G[r]["embed"][i] = EmbedRow(n, p, m, Seen(n, l, r), i) BY <2>4
    <3> QED BY <2>3, <3>2, <3>3
  <2>9. DOMAIN G[r]["embed"] = ShardRange(Len(n.embed), r, l.tp) BY <2>4
  <2> QED BY <2>6, <2>7, <2>8, <2>9 DEF e
<1>8. KvRows(n, l, G, W)
  <2> DEFINE w == W["kv"]  H == Hook(n, l, KvParts(n, p, l))
  <2>1. \A k \in 1 .. Len(n.kv) : w[k] \in Int
    <3>1. U \in SUBSET (1 .. Len(n.up)) OBVIOUS
    <3>2. \A k : KvOfHeads(n, p, m, U, k) \in Int BY <3>1, RowsAreInts
    <3> QED BY <1>4, <3>2
  <2>2. \A k \in 1 .. Len(n.kv) : w[k] = KvOfHeads(n, p, l.kind, 1 .. Len(n.up), k) BY <1>4
  <2>3. DOMAIN w = 1 .. Len(n.kv) BY <1>4
  <2> HIDE DEF w
  <2>4. KvShared(n, l, H, w) BY <2>2, KvIs
  <2> DEFINE c == KvOfRanks(l, G)
  <2>5. \A r \in Ranks(l.tp) : c[r] = H[r] BY <1>3 DEF RankFields, KvOfRanks
  <2> HIDE DEF c, H
  <2>6. ASSUME NEW r \in Ranks(l.tp) PROVE \A k : [q \in Copies(n, l, r) |-> c[q][k]] = [q \in Copies(n, l, r) |-> H[q][k]]
    <3>1. \A q \in Copies(n, l, r) : c[q] = H[q] BY <2>5, CopiesFacts
    <3> QED BY <3>1
  <2>7. KvShared(n, l, c, w)
    <3> SUFFICES ASSUME NEW r \in Ranks(l.tp)
                 PROVE  /\ DOMAIN c[r] = KvShard(Len(n.kv), r, l.tp)
                        /\ \A k \in KvShard(Len(n.kv), r, l.tp) :
                             /\ c[r][k] \in Int
                             /\ SumFunction([q \in Copies(n, l, r) |-> c[q][k]]) = Cardinality(Copies(n, l, r)) * w[k]
                             /\ l.hook => \A q \in Copies(n, l, r) : c[q][k] = c[r][k]
      BY DEF KvShared
    <3>1. c[r] = H[r] /\ \A q \in Copies(n, l, r) : c[q] = H[q] BY <2>5, CopiesFacts
    <3>2. /\ DOMAIN H[r] = KvShard(Len(n.kv), r, l.tp)
          /\ \A k \in KvShard(Len(n.kv), r, l.tp) :
               /\ H[r][k] \in Int
               /\ SumFunction([q \in Copies(n, l, r) |-> H[q][k]]) = Cardinality(Copies(n, l, r)) * w[k]
               /\ l.hook => \A q \in Copies(n, l, r) : H[q][k] = H[r][k]
      BY <2>4 DEF KvShared
    <3> QED BY <2>6, <3>1, <3>2
  <2> QED BY <2>1, <2>3, <2>7 DEF KvRows, c, w
<1>9. ScaleSums(l, G, W)
  <2> DEFINE T == l.tp
  <2>1. U \in SUBSET (1 .. Len(n.up)) /\ \A r \in Ranks(T) : Own(n, l, r) \in SUBSET (1 .. Len(n.up)) BY Finite
  <2>2. PreOf(n, p, m, U) \in Int /\ PostOf(n, p, m) \in Int /\ GainOf(n, p, m, U) \in Int
        /\ \A r \in Ranks(T) : PreOf(n, p, m, Own(n, l, r)) \in Int /\ GainOf(n, p, m, Own(n, l, r)) \in Int
    BY <2>1, RowsAreInts
  <2>3. \A r \in Ranks(T) : /\ G[r]["pre"] = PreOf(n, p, m, Seen(n, l, r)) /\ G[r]["post"] = PostOf(n, p, m)
                            /\ G[r]["gain"] = GainOf(n, p, m, Own(n, l, r))
    BY <1>3 DEF RankFields
  <2>4. \A r \in Ranks(T) : Seen(n, l, r) = IF m = "moe" THEN Own(n, l, r) ELSE U BY DEF Seen
  <2> HIDE DEF U, m
  <2>5. W["post"] \in Int /\ (\A r \in Ranks(T) : G[r]["post"] \in Int) /\ Total(l, G, "post") = T * W["post"]
    <3> DEFINE c == PostOf(n, p, m)
    <3>1. c \in Int /\ W["post"] = c /\ \A r \in Ranks(T) : G[r]["post"] = c BY <1>4, <2>2, <2>3 DEF m, U
    <3> HIDE DEF c
    <3>2. [r \in Ranks(T) |-> G[r]["post"]] = [r \in Ranks(T) |-> c] BY <3>1
    <3>3. Total(l, G, "post") = T * c BY <3>1, <3>2, WholesAddUp DEF Total
    <3> QED BY <3>1, <3>3
  <2>6. W["gain"] \in Int /\ (\A r \in Ranks(T) : G[r]["gain"] \in Int) /\ Total(l, G, "gain") = 1 * W["gain"]
    <3>1. [r \in Ranks(T) |-> G[r]["gain"]] = [r \in Ranks(T) |-> GainOf(n, p, m, Own(n, l, r))] BY <2>3
    <3>2. SumFunction([r \in Ranks(T) |-> GainOf(n, p, m, Own(n, l, r))]) = GainOf(n, p, m, U)
      BY GainsAddUp DEF U
    <3>3. Total(l, G, "gain") = W["gain"] /\ W["gain"] \in Int BY <1>4, <2>2, <3>1, <3>2 DEF Total, m, U
    <3> QED BY <2>2, <2>3, <3>3
  <2>7. /\ W["pre"] \in Int /\ \A r \in Ranks(T) : G[r]["pre"] \in Int
        /\ Total(l, G, "pre") = (IF m = "moe" THEN 1 ELSE T) * W["pre"]
    <3>1. W["pre"] = PreOf(n, p, m, U) BY <1>4 DEF m, U
    <3>2. CASE m = "moe"
      <4>1. [r \in Ranks(T) |-> G[r]["pre"]] = [r \in Ranks(T) |-> PreOf(n, p, m, Own(n, l, r))]
        BY <2>3, <2>4, <3>2
      <4>2. SumFunction([r \in Ranks(T) |-> PreOf(n, p, m, Own(n, l, r))]) = PreOf(n, p, m, U)
        BY PresAddUp DEF U
      <4>3. Total(l, G, "pre") = W["pre"] /\ W["pre"] \in Int BY <2>2, <3>1, <4>1, <4>2 DEF Total
      <4>4. \A r \in Ranks(T) : G[r]["pre"] \in Int BY <2>2, <2>3, <2>4, <3>2
      <4> QED BY <3>2, <4>3, <4>4
    <3>3. CASE m # "moe"
      <4> DEFINE c == PreOf(n, p, m, U)
      <4>1. c \in Int /\ \A r \in Ranks(T) : G[r]["pre"] = c BY <2>2, <2>3, <2>4, <3>3
      <4> HIDE DEF c
      <4>2. [r \in Ranks(T) |-> G[r]["pre"]] = [r \in Ranks(T) |-> c] BY <4>1
      <4>3. Total(l, G, "pre") = T * c BY <4>1, <4>2, WholesAddUp DEF Total
      <4> QED BY <3>1, <3>3, <4>1, <4>3 DEF c
    <3> QED BY <3>2, <3>3
  <2>8. /\ TimesSummed(l, "post") = T /\ TimesSummed(l, "gain") = 1
        /\ TimesSummed(l, "pre") = IF m = "moe" THEN 1 ELSE T
    BY DEF TimesSummed, m
  <2> QED BY <2>5, <2>6, <2>7, <2>8 DEF ScaleSums, Scales
<1> QED BY <1>5, <1>6, <1>7, <1>8, <1>9 DEF Related


\* What adding two gradients gives, field by field.
LEMMA Added ==
  ASSUME NEW a, NEW b, DOMAIN a = Fields, NEW c, c = AddGrads(a, b)
  PROVE  /\ DOMAIN c = Fields
         /\ \A k \in Sharded : DOMAIN c[k] = DOMAIN a[k] /\ \A i \in DOMAIN a[k] : c[k][i] = a[k][i] + b[k][i]
         /\ \A k \in Scales : c[k] = a[k] + b[k]
<1>1. Sharded \subseteq Fields /\ Scales \subseteq Fields /\ Scales \cap Sharded = {}
  BY DEF Sharded, Fields, Scales
<1>2. DOMAIN c = Fields /\ \A k \in Fields : c[k] = IF k \in Sharded THEN AddRows(a[k], b[k]) ELSE a[k] + b[k]
  BY DEF AddGrads
<1>3. ASSUME NEW k \in Sharded
      PROVE  DOMAIN c[k] = DOMAIN a[k] /\ \A i \in DOMAIN a[k] : c[k][i] = a[k][i] + b[k][i]
  <2>1. c[k] = AddRows(a[k], b[k]) BY <1>1, <1>2
  <2> QED BY <2>1 DEF AddRows
<1>4. \A k \in Scales : c[k] = a[k] + b[k] BY <1>1, <1>2
<1> QED BY <1>2, <1>3, <1>4

\* A sum over the ranks (or over some of them) is of finitely many.
LEMMA RanksFinite ==
  ASSUME NEW n, NEW l, Fits(n, l)
  PROVE  IsFiniteSet(Ranks(l.tp))
<1> DEFINE t == l.tp
<1>1. t \in Nat \ {0} BY DEF Fits
<1> HIDE DEF t
<1>2. 0 \in Int /\ t - 1 \in Int BY <1>1
<1>3. IsFiniteSet(Ranks(t)) BY <1>2, FS_Interval DEF Ranks
<1> QED BY <1>3 DEF t

\* H is G with g added, rank by rank (_accumulate_main_gradients).
RanksAdd(l, G, g, H) ==
  /\ DOMAIN H = Ranks(l.tp)
  /\ \A r \in Ranks(l.tp) : H[r] = AddGrads(G[r], g[r])

\* Shares of a key/value head's gradient add up to shares of the sum.
LEMMA KvMore ==
  ASSUME NEW n, IsNet(n), NEW l, Fits(n, l),
         NEW G, NEW W, Shaped(l, G, W), KvRows(n, l, G, W), NEW g, NEW v, KvRows(n, l, g, v),
         NEW H, RanksAdd(l, G, g, H), NEW V, V = AddGrads(W, v)
  PROVE  KvRows(n, l, H, V)
<1> DEFINE K == Len(n.kv)  a == KvOfRanks(l, G)  b == KvOfRanks(l, g)  c == KvOfRanks(l, H)
           w == W["kv"]  x == v["kv"]  y == V["kv"]
<1>1. "kv" \in Sharded BY DEF Sharded
<1>2. DOMAIN w = 1 .. K /\ (\A k \in 1 .. K : w[k] \in Int) /\ KvShared(n, l, a, w) BY DEF KvRows
<1>3. (\A k \in 1 .. K : x[k] \in Int) /\ KvShared(n, l, b, x) BY DEF KvRows
<1>4. DOMAIN y = DOMAIN w /\ \A k \in DOMAIN w : y[k] = w[k] + x[k]
  <2>1. DOMAIN W = Fields BY DEF Shaped
  <2> QED BY <1>1, <2>1, Added
<1>5. ASSUME NEW r \in Ranks(l.tp)
      PROVE  DOMAIN c[r] = DOMAIN a[r] /\ \A k \in DOMAIN a[r] : c[r][k] = a[r][k] + b[r][k]
  <2>1. DOMAIN G[r] = Fields /\ H[r] = AddGrads(G[r], g[r]) BY DEF Shaped, RanksAdd
  <2>2. /\ DOMAIN H[r]["kv"] = DOMAIN G[r]["kv"]
        /\ \A k \in DOMAIN G[r]["kv"] : H[r]["kv"][k] = G[r]["kv"][k] + g[r]["kv"][k]
    BY <1>1, <2>1, Added
  <2>3. a[r] = G[r]["kv"] /\ b[r] = g[r]["kv"] /\ c[r] = H[r]["kv"] BY DEF KvOfRanks
  <2> HIDE DEF a, b, c
  <2> QED BY <2>2, <2>3
<1> HIDE DEF a, b, c, w, x, y, K
<1>6. DOMAIN y = 1 .. K /\ \A k \in 1 .. K : y[k] \in Int BY <1>2, <1>3, <1>4
<1>7. ASSUME NEW r \in Ranks(l.tp)
      PROVE  /\ DOMAIN c[r] = KvShard(K, r, l.tp)
             /\ \A k \in KvShard(K, r, l.tp) :
                  /\ c[r][k] \in Int
                  /\ SumFunction([q \in Copies(n, l, r) |-> c[q][k]]) = Cardinality(Copies(n, l, r)) * y[k]
                  /\ l.hook => \A q \in Copies(n, l, r) : c[q][k] = c[r][k]
  <2> DEFINE C == Copies(n, l, r)  S == KvShard(K, r, l.tp)  m == Cardinality(C)
  <2>1. /\ r \in C /\ C \subseteq Ranks(l.tp) /\ IsFiniteSet(C) /\ m \in Nat \ {0}
        /\ \A q \in C : KvShard(K, q, l.tp) = S /\ Copies(n, l, q) = C
    BY CopiesFacts DEF K
  <2>2. S \subseteq 1 .. K BY KvWithin DEF K
  <2>3. /\ DOMAIN a[r] = S
        /\ \A k \in S : /\ a[r][k] \in Int /\ b[r][k] \in Int
                        /\ SumFunction([q \in C |-> a[q][k]]) = m * w[k]
                        /\ SumFunction([q \in C |-> b[q][k]]) = m * x[k]
                        /\ l.hook => \A q \in C : a[q][k] = a[r][k] /\ b[q][k] = b[r][k]
    BY <1>2, <1>3 DEF KvShared, K
  <2>4. ASSUME NEW q \in C PROVE DOMAIN a[q] = S /\ \A k \in S : a[q][k] \in Int /\ b[q][k] \in Int
    <3>1. q \in Ranks(l.tp) /\ KvShard(K, q, l.tp) = S BY <2>1
    <3>2. DOMAIN a[q] = KvShard(K, q, l.tp) /\ \A k \in KvShard(K, q, l.tp) : a[q][k] \in Int /\ b[q][k] \in Int
      BY <1>2, <1>3, <3>1 DEF KvShared, K
    <3> QED BY <3>1, <3>2
  <2> HIDE DEF C, S, m
  <2>5. \A q \in C, k \in S : c[q][k] = a[q][k] + b[q][k] BY <1>5, <2>1, <2>4
  <2>6. DOMAIN c[r] = S BY <1>5, <2>3
  <2>7. ASSUME NEW k \in S PROVE SumFunction([q \in C |-> c[q][k]]) = m * y[k]
    <3> DEFINE fa == [q \in C |-> a[q][k]]  fb == [q \in C |-> b[q][k]]  fc == [q \in C |-> c[q][k]]
               wk == w[k]  xk == x[k]  yk == y[k]
    <3>1. DOMAIN fa = C /\ DOMAIN fb = C /\ DOMAIN fc = C
          /\ \A q \in C : fa[q] \in Int /\ fb[q] \in Int /\ fc[q] = fa[q] + fb[q]
      BY <2>4, <2>5
    <3>2. SumFunction(fa) = m * wk /\ SumFunction(fb) = m * xk BY <2>3
    <3>3. wk \in Int /\ xk \in Int /\ yk = wk + xk BY <1>2, <1>3, <1>4, <2>2
    <3> HIDE DEF fa, fb, fc, wk, xk, yk
    <3>4. SumFunctionOnSet(fc, C) = SumFunctionOnSet(fa, C) + SumFunctionOnSet(fb, C) BY <2>1, <3>1, SumAdds
    <3>5. SumFunction(fc) = SumFunction(fa) + SumFunction(fb) BY <3>1, <3>4 DEF SumFunction
    <3>6. m * wk + m * xk = m * yk
      <4>1. m \in Int BY <2>1
      <4> QED BY <3>3, <4>1, Z3
    <3>7. SumFunction(fc) = m * yk BY <3>2, <3>5, <3>6
    <3> QED BY <3>7 DEF fc, yk
  <2>8. \A k \in S : c[r][k] \in Int BY <2>1, <2>4, <2>5
  <2>9. ASSUME NEW k \in S, l.hook, NEW q \in C PROVE c[q][k] = c[r][k]
    <3>1. a[q][k] = a[r][k] /\ b[q][k] = b[r][k] BY <2>3, <2>9
    <3>2. c[q][k] = a[q][k] + b[q][k] /\ c[r][k] = a[r][k] + b[r][k] BY <2>1, <2>5
    <3> QED BY <3>1, <3>2
  <2> QED BY <2>6, <2>7, <2>8, <2>9 DEF C, S, m
<1>8. KvShared(n, l, c, y) BY <1>7 DEF KvShared, K
<1> QED BY <1>6, <1>8 DEF KvRows, c, y, K

\* And the parts of a scale.
LEMMA ScalesMore ==
  ASSUME NEW n, NEW l, Fits(n, l), NEW G, NEW W, Shaped(l, G, W), ScaleSums(l, G, W),
         NEW g, NEW v, ScaleSums(l, g, v), NEW H, RanksAdd(l, G, g, H), NEW V, V = AddGrads(W, v)
  PROVE  ScaleSums(l, H, V)
<1> SUFFICES ASSUME NEW k \in Scales
             PROVE  /\ V[k] \in Int /\ \A r \in Ranks(l.tp) : H[r][k] \in Int
                    /\ Total(l, H, k) = TimesSummed(l, k) * V[k]
  BY DEF ScaleSums
<1> DEFINE R == Ranks(l.tp)  t == TimesSummed(l, k)  w == W[k]  x == v[k]  y == V[k]
           fa == [r \in R |-> G[r][k]]  fb == [r \in R |-> g[r][k]]  fc == [r \in R |-> H[r][k]]
<1>1. /\ w \in Int /\ x \in Int /\ \A r \in R : G[r][k] \in Int /\ g[r][k] \in Int
      /\ Total(l, G, k) = t * w /\ Total(l, g, k) = t * x
  BY DEF ScaleSums
<1>2. y = w + x
  <2>1. DOMAIN W = Fields BY DEF Shaped
  <2> QED BY <2>1, Added
<1>3. \A r \in R : H[r][k] = G[r][k] + g[r][k]
  <2> SUFFICES ASSUME NEW r \in R PROVE H[r][k] = G[r][k] + g[r][k] OBVIOUS
  <2>1. DOMAIN G[r] = Fields /\ H[r] = AddGrads(G[r], g[r]) BY DEF Shaped, RanksAdd
  <2> QED BY <2>1, Added
<1>4. Total(l, G, k) = SumFunction(fa) /\ Total(l, g, k) = SumFunction(fb) /\ Total(l, H, k) = SumFunction(fc)
  BY DEF Total
<1>5. DOMAIN fa = R /\ DOMAIN fb = R /\ DOMAIN fc = R
      /\ \A r \in R : fa[r] \in Int /\ fb[r] \in Int /\ fc[r] = fa[r] + fb[r]
  BY <1>1, <1>3
<1>6. t \in Int
  <2>1. l.tp \in Nat \ {0} BY DEF Fits
  <2> QED BY <2>1 DEF TimesSummed
<1>7. IsFiniteSet(R) BY RanksFinite
<1>8. \A r \in R : H[r][k] \in Int BY <1>1, <1>3
<1> HIDE DEF R, t, w, x, y, fa, fb, fc
<1>9. SumFunctionOnSet(fc, R) = SumFunctionOnSet(fa, R) + SumFunctionOnSet(fb, R) BY <1>5, <1>7, SumAdds
<1>10. SumFunction(fc) = SumFunction(fa) + SumFunction(fb) BY <1>5, <1>9 DEF SumFunction
<1>11. t * w + t * x = t * y BY <1>1, <1>2, <1>6, Z3
<1>12. Total(l, H, k) = t * y BY <1>1, <1>4, <1>10, <1>11
<1>13. y \in Int BY <1>1, <1>2
<1> QED BY <1>8, <1>12, <1>13 DEF R, t, y

\* One more microbatch (_accumulate_main_gradients).
LEMMA RelatedMore ==
  ASSUME NEW n, IsNet(n), NEW l, Fits(n, l),
         NEW G, NEW W, NEW E, Related(n, l, G, W, E), ScaleSums(l, G, W),
         NEW g, NEW v, NEW e, Related(n, l, g, v, e), ScaleSums(l, g, v),
         NEW H, RanksAdd(l, G, g, H), NEW V, V = AddGrads(W, v),
         NEW D, \A r \in Ranks(l.tp) : D[r] = AddGrads(E[r], e[r])
  PROVE  Related(n, l, H, V, D) /\ ScaleSums(l, H, V)
<1>1. /\ Shaped(l, G, W) /\ HeldRows(n, l, G, W) /\ EmbedRows(n, l, G, E) /\ KvRows(n, l, G, W)
      /\ Shaped(l, g, v) /\ HeldRows(n, l, g, v) /\ EmbedRows(n, l, g, e) /\ KvRows(n, l, g, v)
  BY DEF Related
<1>2. Held \subseteq Sharded /\ "embed" \in Sharded BY DEF Held, Sharded
<1>3. /\ DOMAIN V = Fields
      /\ \A k \in Sharded : DOMAIN V[k] = DOMAIN W[k] /\ \A i \in DOMAIN W[k] : V[k][i] = W[k][i] + v[k][i]
  <2>1. DOMAIN W = Fields BY <1>1 DEF Shaped
  <2> QED BY <2>1, Added
<1>4. ASSUME NEW r \in Ranks(l.tp)
      PROVE  /\ DOMAIN H[r] = Fields
             /\ \A k \in Sharded : DOMAIN H[r][k] = DOMAIN G[r][k]
                                   /\ \A i \in DOMAIN G[r][k] : H[r][k][i] = G[r][k][i] + g[r][k][i]
  <2>1. DOMAIN G[r] = Fields /\ H[r] = AddGrads(G[r], g[r]) BY <1>1 DEF Shaped, RanksAdd
  <2> QED BY <2>1, Added
<1>5. Shaped(l, H, V) BY <1>3, <1>4 DEF Shaped, RanksAdd
<1>6. HeldRows(n, l, H, V)
  <2> SUFFICES ASSUME NEW k \in Held
               PROVE  /\ DOMAIN V[k] = 1 .. RowsIn(n, k)
                      /\ \A r \in Ranks(l.tp) : /\ DOMAIN H[r][k] = ShardRange(RowsIn(n, k), r, l.tp)
                                                /\ \A i \in DOMAIN H[r][k] : H[r][k][i] = V[k][i]
    BY DEF HeldRows
  <2>1. DOMAIN W[k] = 1 .. RowsIn(n, k) BY <1>1 DEF HeldRows
  <2>2. DOMAIN V[k] = 1 .. RowsIn(n, k) BY <1>2, <1>3, <2>1
  <2>3. ASSUME NEW r \in Ranks(l.tp)
        PROVE  /\ DOMAIN H[r][k] = ShardRange(RowsIn(n, k), r, l.tp)
               /\ \A i \in DOMAIN H[r][k] : H[r][k][i] = V[k][i]
    <3>1. DOMAIN G[r][k] = ShardRange(RowsIn(n, k), r, l.tp) /\ DOMAIN g[r][k] = ShardRange(RowsIn(n, k), r, l.tp)
      BY <1>1 DEF HeldRows
    <3>2. DOMAIN H[r][k] = ShardRange(RowsIn(n, k), r, l.tp) BY <1>2, <1>4, <3>1
    <3>3. ASSUME NEW i \in ShardRange(RowsIn(n, k), r, l.tp) PROVE H[r][k][i] = V[k][i]
      <4>1. i \in 1 .. RowsIn(n, k) BY RowsFit
      <4>2. G[r][k][i] = W[k][i] /\ g[r][k][i] = v[k][i] BY <1>1, <3>1 DEF HeldRows
      <4>3. H[r][k][i] = G[r][k][i] + g[r][k][i] BY <1>2, <1>4, <3>1
      <4>4. V[k][i] = W[k][i] + v[k][i] BY <1>2, <1>3, <2>1, <4>1
      <4> QED BY <4>2, <4>3, <4>4
    <3> QED BY <3>2, <3>3
  <2> QED BY <2>2, <2>3
<1>7. EmbedRows(n, l, H, D)
  <2> SUFFICES ASSUME NEW r \in Ranks(l.tp)
               PROVE  /\ DOMAIN D[r] = Fields /\ DOMAIN D[r]["embed"] = 1 .. Len(n.embed)
                      /\ DOMAIN H[r]["embed"] = ShardRange(Len(n.embed), r, l.tp)
                      /\ \A i \in DOMAIN H[r]["embed"] : H[r]["embed"][i] = D[r]["embed"][i]
    BY DEF EmbedRows
  <2>1. DOMAIN E[r] = Fields /\ DOMAIN E[r]["embed"] = 1 .. Len(n.embed)
        /\ DOMAIN G[r]["embed"] = ShardRange(Len(n.embed), r, l.tp)
        /\ DOMAIN g[r]["embed"] = ShardRange(Len(n.embed), r, l.tp)
    BY <1>1 DEF EmbedRows
  <2>2. /\ DOMAIN D[r] = Fields /\ DOMAIN D[r]["embed"] = 1 .. Len(n.embed)
        /\ \A i \in 1 .. Len(n.embed) : D[r]["embed"][i] = E[r]["embed"][i] + e[r]["embed"][i]
    <3>1. D[r] = AddGrads(E[r], e[r]) OBVIOUS
    <3> QED BY <1>2, <2>1, <3>1, Added
  <2>3. DOMAIN H[r]["embed"] = ShardRange(Len(n.embed), r, l.tp) BY <1>2, <1>4, <2>1
  <2>4. ASSUME NEW i \in ShardRange(Len(n.embed), r, l.tp) PROVE H[r]["embed"][i] = D[r]["embed"][i]
    <3>1. i \in 1 .. Len(n.embed) BY RowsFit
    <3>2. G[r]["embed"][i] = E[r]["embed"][i] /\ g[r]["embed"][i] = e[r]["embed"][i] BY <1>1, <2>1 DEF EmbedRows
    <3>3. H[r]["embed"][i] = G[r]["embed"][i] + g[r]["embed"][i] BY <1>2, <1>4, <2>1
    <3>4. D[r]["embed"][i] = E[r]["embed"][i] + e[r]["embed"][i] BY <2>2, <3>1
    <3> QED BY <3>2, <3>3, <3>4
  <2> QED BY <2>2, <2>3, <2>4
<1>8. KvRows(n, l, H, V) BY <1>1, KvMore
<1>9. ScaleSums(l, H, V) BY <1>1, ScalesMore
<1> QED BY <1>5, <1>6, <1>7, <1>8, <1>9 DEF Related

\* Synchronising the replicated gradients leaves the rows alone, and the parts of a marked
\* scale become its sum on every rank.
LEMMA RelatedSynced ==
  ASSUME NEW n, NEW l, NEW G, NEW W, NEW E, Related(n, l, G, W, E), ScaleSums(l, G, W),
         NEW H, H = SyncReplicated(l, G)
  PROVE  Related(n, l, H, W, E) /\ ScalesSynced(l, H, W)
<1>1. Shaped(l, G, W) /\ HeldRows(n, l, G, W) /\ EmbedRows(n, l, G, E) /\ KvRows(n, l, G, W) BY DEF Related
<1>2. /\ Replicated(l) \subseteq Scales /\ Scales \subseteq Fields /\ Sharded \subseteq Fields
      /\ Held \subseteq Sharded /\ "embed" \in Sharded /\ "kv" \in Sharded /\ Scales \cap Sharded = {}
  BY DEF Replicated, Scales, Fields, Sharded, Held
<1>3. DOMAIN H = Ranks(l.tp) /\ \A r \in Ranks(l.tp) : DOMAIN H[r] = Fields BY <1>1 DEF Shaped, SyncReplicated
<1>4. ASSUME NEW r \in Ranks(l.tp), NEW k \in Fields
      PROVE  H[r][k] = IF k \in Replicated(l) THEN Total(l, G, k) ELSE G[r][k]
  <2>1. r \in DOMAIN G /\ k \in DOMAIN G[r] /\ DOMAIN G = Ranks(l.tp) BY <1>1 DEF Shaped
  <2> QED BY <2>1 DEF SyncReplicated, Total
<1> HIDE DEF Total
<1>5. \A r \in Ranks(l.tp) : \A k \in Sharded : H[r][k] = G[r][k] BY <1>2, <1>4
<1>6. Shaped(l, H, W) BY <1>1, <1>3 DEF Shaped
<1>7. HeldRows(n, l, H, W) BY <1>1, <1>2, <1>5 DEF HeldRows
<1>8. EmbedRows(n, l, H, E) BY <1>1, <1>2, <1>5 DEF EmbedRows
<1>9. KvRows(n, l, H, W)
  <2>1. KvOfRanks(l, H) = KvOfRanks(l, G) BY <1>2, <1>5 DEF KvOfRanks
  <2> QED BY <1>1, <2>1 DEF KvRows
<1>10. ScalesSynced(l, H, W)
  <2> SUFFICES ASSUME NEW k \in Scales
               PROVE  IF k \in Replicated(l) THEN \A r \in Ranks(l.tp) : H[r][k] = TimesSummed(l, k) * W[k]
                      ELSE Total(l, H, k) = TimesSummed(l, k) * W[k]
    BY DEF ScalesSynced
  <2>1. Total(l, G, k) = TimesSummed(l, k) * W[k] BY DEF ScaleSums
  <2>2. CASE k \in Replicated(l) BY <1>2, <1>4, <2>1, <2>2
  <2>3. CASE k \notin Replicated(l)
    <3>1. \A r \in Ranks(l.tp) : H[r][k] = G[r][k] BY <1>2, <1>4, <2>3
    <3>2. Total(l, H, k) = Total(l, G, k) BY <3>1 DEF Total
    <3> QED BY <2>1, <2>3, <3>2
  <2> QED BY <2>2, <2>3
<1> QED BY <1>6, <1>7, <1>8, <1>9, <1>10 DEF Related

-----------------------------------------------------------------------------
(* The theorem                                                             *)

\* What each rank's rows of the embedding should have accumulated.
LearnedOf(n, l, ps) == [r \in Ranks(l.tp) |-> WholeOf(Learns(n, l, r), l, ps)]

\* The gradients G of the ranks after the microbatches ps, before or after the synchronisation.
Accumulated(n, l, ps, G, ph) ==
  /\ Related(n, l, G, WholeOf(n, l, ps), LearnedOf(n, l, ps))
  /\ ph = "accumulate" => ScaleSums(l, G, WholeOf(n, l, ps))
  /\ ph = "stepping" => ScalesSynced(l, G, WholeOf(n, l, ps))

\* The inductive invariant: what a microbatch leaves is of this net and layout.
SplitInv ==
  /\ net \in Nets /\ layout \in Layouts /\ packs \in Seq(Packs) /\ phase \in {"accumulate", "stepping"}
  /\ packs # << >> =>
       /\ logits = Forward(net, LastPack, layout).logits
       /\ Accumulated(net, layout, packs, grads, phase)

\* Layers that are built fit.
LEMMA BuiltFits ==
  ASSUME NEW n \in Nets, NEW l \in Layouts
  PROVE  IsNet(n) /\ Fits(n, l)
<1>1. l \in [tp : Nat \ {0}, kind : {"dense", "delta", "moe"}, hook : BOOLEAN] BY LayoutsAssumption
<1>2. /\ n \in [embed : Seq(Int), head : Seq(Int), pre : Int, post : Int, gain : Int,
                up : Seq(Int), down : Seq(Int), kv : Seq(Int)]
      /\ Len(n.down) = Len(n.up) /\ Len(n.kv) # 0
      /\ Len(n.embed) % l.tp = 0 /\ Len(n.head) % l.tp = 0 /\ Len(n.up) % l.tp = 0
      /\ Len(n.kv) % l.tp = 0 \/ l.tp % Len(n.kv) = 0
  BY NetsAssumption
<1>3. \A p \in Packs : \A s \in DOMAIN p.tokens, v \in DOMAIN n.head : p.upstream[s][v] \in Int BY PacksAssumption
<1> QED BY <1>1, <1>2, <1>3, Zenon DEF IsNet, Fits

\* Accumulating one more microbatch, be it the first.
LEMMA OneMore ==
  ASSUME NEW n, IsNet(n), NEW l, Fits(n, l), NEW ps \in Seq(Packs), NEW p \in Packs, NEW G,
         ps # << >> => Accumulated(n, l, ps, G, "accumulate"),
         NEW g, g = Backward(n, p, l),
         NEW H, H = IF ps = << >> THEN g ELSE [r \in DOMAIN g |-> AddGrads(G[r], g[r])]
  PROVE  Accumulated(n, l, Append(ps, p), H, "accumulate")
<1> DEFINE W == WholeOf(n, l, ps)  v == WholeOne(n, l, p)  V == WholeOf(n, l, Append(ps, p))
           E == LearnedOf(n, l, ps)  e == [r \in Ranks(l.tp) |-> WholeOne(Learns(n, l, r), l, p)]
           D == LearnedOf(n, l, Append(ps, p))
<1>1. /\ ps = << >> => V = v
      /\ ps # << >> => V = AddGrads(W, v)
  BY WholeGrows
<1>2. ASSUME NEW r \in Ranks(l.tp)
      PROVE  /\ E[r] = WholeOf(Learns(n, l, r), l, ps) /\ D[r] = WholeOf(Learns(n, l, r), l, Append(ps, p))
             /\ e[r] = WholeOne(Learns(n, l, r), l, p)
             /\ ps = << >> => D[r] = e[r]
             /\ ps # << >> => D[r] = AddGrads(E[r], e[r])
  <2>1. /\ E[r] = WholeOf(Learns(n, l, r), l, ps) /\ D[r] = WholeOf(Learns(n, l, r), l, Append(ps, p))
        /\ e[r] = WholeOne(Learns(n, l, r), l, p)
    BY DEF LearnedOf
  <2> HIDE DEF E, D, e
  <2>2. \A a : /\ ps = << >> => WholeOf(a, l, Append(ps, p)) = WholeOne(a, l, p)
               /\ ps # << >> => WholeOf(a, l, Append(ps, p)) = AddGrads(WholeOf(a, l, ps), WholeOne(a, l, p))
    BY WholeGrows
  <2> QED BY <2>1, <2>2
<1>3. \A r \in Ranks(l.tp) : e[r] = WholeOne(Learns(n, l, r), l, p) BY <1>2
<1>e. e = [r \in Ranks(l.tp) |-> e[r]] /\ D = [r \in Ranks(l.tp) |-> D[r]] BY DEF LearnedOf
<1>v. v = WholeOne(n, l, p) OBVIOUS
<1> HIDE DEF e, D, v
<1>4. Related(n, l, g, v, e) /\ ScaleSums(l, g, v) BY <1>3, <1>v, RelatedOne
<1>5. CASE ps = << >>
  <2>1. H = g /\ V = v BY <1>1, <1>5
  <2>2. D = e
    <3>1. \A r \in Ranks(l.tp) : D[r] = e[r] BY <1>2, <1>5
    <3> QED BY <1>e, <3>1
  <2> QED BY <1>4, <2>1, <2>2 DEF Accumulated, D
<1>6. CASE ps # << >>
  <2>1. Related(n, l, G, W, E) /\ ScaleSums(l, G, W) BY <1>6 DEF Accumulated
  <2>2. DOMAIN g = Ranks(l.tp) BY <1>4 DEF Related, Shaped
  <2>3. H = [r \in DOMAIN g |-> AddGrads(G[r], g[r])] BY <1>6
  <2>4. RanksAdd(l, G, g, H) BY <2>2, <2>3 DEF RanksAdd
  <2>5. V = AddGrads(W, v) /\ \A r \in Ranks(l.tp) : D[r] = AddGrads(E[r], e[r]) BY <1>1, <1>2, <1>6
  <2> HIDE DEF V, W, E
  <2>6. Related(n, l, H, V, D) /\ ScaleSums(l, H, V) BY <1>4, <2>1, <2>4, <2>5, RelatedMore
  <2> QED BY <2>6 DEF Accumulated, D, V
<1> QED BY <1>5, <1>6

\* At the start nothing is computed.
LEMMA SplitInvKept == TPInit => SplitInv
BY DEF TPInit, SplitInv

\* Every step keeps the relation of the ranks' sums to the whole layer's.
LEMMA SplitInvStep == SplitInv /\ [TPNext]_tpvars => SplitInv'
<1> SUFFICES ASSUME SplitInv, [TPNext]_tpvars PROVE SplitInv' OBVIOUS
<1>0. net \in Nets /\ layout \in Layouts /\ packs \in Seq(Packs) /\ phase \in {"accumulate", "stepping"}
  BY DEF SplitInv
<1>1. IsNet(net) /\ Fits(net, layout) BY <1>0, BuiltFits
<1>2. CASE TPMicrobatch
  <2>1. PICK p \in Packs :
          /\ logits' = Forward(net, p, layout).logits
          /\ packs' = Append(packs, p)
          /\ grads' = IF packs = << >> THEN Backward(net, p, layout)
                      ELSE [r \in DOMAIN Backward(net, p, layout) |->
                             AddGrads(grads[r], Backward(net, p, layout)[r])]
    BY <1>2, Zenon DEF TPMicrobatch
  <2>2. net' = net /\ layout' = layout /\ phase = "accumulate" /\ phase' = phase BY <1>2 DEF TPMicrobatch
  <2>3. packs' \in Seq(Packs) /\ packs'[Len(packs')] = p BY <1>0, <2>1
  <2>4. logits' = Forward(net, LastPack', layout).logits BY <2>1, <2>3 DEF LastPack
  <2>5. packs # << >> => Accumulated(net, layout, packs, grads, "accumulate") BY <2>2 DEF SplitInv
  <2> DEFINE g == Backward(net, p, layout)  H == grads'
  <2>6. g = Backward(net, p, layout) /\ H = IF packs = << >> THEN g ELSE [r \in DOMAIN g |-> AddGrads(grads[r], g[r])]
    BY <2>1
  <2> HIDE DEF g, H
  <2>7. Accumulated(net, layout, Append(packs, p), H, "accumulate")
    BY <1>0, <1>1, <2>5, <2>6, OneMore
  <2>8. Accumulated(net, layout, packs', grads', phase') BY <2>1, <2>2, <2>7 DEF H
  <2> QED BY <1>0, <2>2, <2>3, <2>4, <2>8 DEF SplitInv
<1>3. CASE TPStep
  <2>1. /\ net' = net /\ layout' = layout /\ packs' = packs /\ logits' = logits
        /\ packs # << >> /\ grads' = SyncReplicated(layout, grads)
        /\ phase = "accumulate" /\ phase' = "stepping"
    BY <1>3 DEF TPStep
  <2> DEFINE W == WholeOf(net, layout, packs)  E == LearnedOf(net, layout, packs)
  <2>2. Related(net, layout, grads, W, E) /\ ScaleSums(layout, grads, W) BY <2>1 DEF SplitInv, Accumulated
  <2> HIDE DEF W, E
  <2>3. Related(net, layout, grads', W, E) /\ ScalesSynced(layout, grads', W) BY <2>1, <2>2, RelatedSynced
  <2>4. Accumulated(net, layout, packs, grads', "stepping") BY <2>3 DEF Accumulated, W, E
  <2>5. LastPack' = LastPack BY <2>1 DEF LastPack
  <2>6. logits = Forward(net, LastPack, layout).logits BY <2>1 DEF SplitInv
  <2>7. Accumulated(net, layout, packs, grads', phase') BY <2>1, <2>4
  <2> QED BY <1>0, <2>1, <2>5, <2>6, <2>7 DEF SplitInv
<1>4. CASE UNCHANGED tpvars
  <2>1. /\ net' = net /\ layout' = layout /\ packs' = packs /\ logits' = logits /\ grads' = grads
        /\ phase' = phase /\ LastPack' = LastPack
    BY <1>4 DEF tpvars, LastPack
  <2> QED BY <2>1 DEF SplitInv
<1> QED BY <1>2, <1>3, <1>4 DEF TPNext

\* The property's sums of a net are the ones above.
LEMMA WholeGradsIs == ASSUME NEW n PROVE WholeGrads(n) = WholeOf(n, layout, packs)
BY Zenon DEF WholeGrads, WholeOf, WholeUpto, WholeOne

\* The rows and scales of the invariant are those of the property.
LEMMA GradientsSuffice ==
  ASSUME SplitInv, packs # << >>
  PROVE  RowsAreWhole /\ CopiesShareTheGradient /\ ScalesAreSummed
<1> DEFINE W == WholeOf(net, layout, packs)  E == LearnedOf(net, layout, packs)
<1>1. /\ Shaped(layout, grads, W) /\ HeldRows(net, layout, grads, W) /\ EmbedRows(net, layout, grads, E)
      /\ KvRows(net, layout, grads, W)
      /\ phase = "accumulate" => ScaleSums(layout, grads, W)
      /\ phase = "stepping" => ScalesSynced(layout, grads, W)
  BY DEF SplitInv, Accumulated, Related
<1>2. WholeGrads(net) = W BY WholeGradsIs
<1>3. net \in Nets /\ layout \in Layouts /\ phase \in {"accumulate", "stepping"} BY DEF SplitInv
<1>4. IsNet(net) /\ Fits(net, layout) BY <1>3, BuiltFits
<1>5. DOMAIN grads = Ranks(layout.tp) BY <1>1 DEF Shaped
<1>6. \A r \in Ranks(layout.tp) : E[r] = WholeGrads(Learns(net, layout, r)) BY WholeGradsIs DEF LearnedOf
<1> HIDE DEF W, E
<1>7. RowsAreWhole
  <2> SUFFICES ASSUME NEW r \in DOMAIN grads
               PROVE  /\ \A k \in {"head", "up", "down"} : \A i \in DOMAIN grads[r][k] :
                           grads[r][k][i] = WholeGrads(net)[k][i]
                      /\ \A i \in DOMAIN grads[r].embed :
                           grads[r].embed[i]
                           = WholeGrads(IF layout.kind = "moe" THEN Alone(net, layout, r) ELSE net).embed[i]
    BY DEF RowsAreWhole
  <2>1. \A k \in {"head", "up", "down"} : \A i \in DOMAIN grads[r][k] : grads[r][k][i] = WholeGrads(net)[k][i]
    BY <1>1, <1>2, <1>5 DEF HeldRows, Held
  <2>2. \A i \in DOMAIN grads[r]["embed"] : grads[r]["embed"][i] = E[r]["embed"][i]
    BY <1>1, <1>5 DEF EmbedRows
  <2>3. E[r] = WholeGrads(IF layout.kind = "moe" THEN Alone(net, layout, r) ELSE net)
    BY <1>5, <1>6 DEF Learns
  <2> QED BY <2>1, <2>2, <2>3
<1>8. CopiesShareTheGradient
  <2> SUFFICES ASSUME NEW r \in DOMAIN grads, NEW k \in DOMAIN grads[r].kv
               PROVE  LET copies == Copies(net, layout, r) IN
                      /\ SumFunction([q \in copies |-> grads[q].kv[k]])
                         = Cardinality(copies) * WholeGrads(net).kv[k]
                      /\ layout.hook => \A q \in copies : grads[q].kv[k] = grads[r].kv[k]
    BY DEF CopiesShareTheGradient
  <2> DEFINE C == Copies(net, layout, r)  c == KvOfRanks(layout, grads)
  <2>1. r \in Ranks(layout.tp) /\ r \in C /\ C \subseteq Ranks(layout.tp) BY <1>4, <1>5, CopiesFacts
  <2>2. \A q \in Ranks(layout.tp) : c[q] = grads[q].kv BY DEF KvOfRanks
  <2>3. KvShared(net, layout, c, W.kv) BY <1>1 DEF KvRows
  <2>4. /\ DOMAIN c[r] = KvShard(Len(net.kv), r, layout.tp)
        /\ \A i \in KvShard(Len(net.kv), r, layout.tp) :
             /\ SumFunction([q \in C |-> c[q][i]]) = Cardinality(C) * W.kv[i]
             /\ layout.hook => \A q \in C : c[q][i] = c[r][i]
    BY <2>1, <2>3 DEF KvShared
  <2> HIDE DEF C, c
  <2>5. k \in KvShard(Len(net.kv), r, layout.tp) BY <2>1, <2>2, <2>4
  <2>6. [q \in C |-> c[q][k]] = [q \in C |-> grads[q].kv[k]] BY <2>1, <2>2
  <2>7. SumFunction([q \in C |-> grads[q].kv[k]]) = Cardinality(C) * W.kv[k] BY <2>4, <2>5, <2>6
  <2>8. ASSUME layout.hook PROVE \A q \in C : grads[q].kv[k] = grads[r].kv[k] BY <2>1, <2>2, <2>4, <2>5, <2>8
  <2> QED BY <1>2, <2>7, <2>8 DEF C
<1>9. ScalesAreSummed
  <2> SUFFICES ASSUME NEW k \in Scales
               PROVE  LET all == TimesSummed(layout, k) * WholeGrads(net)[k] IN
                      IF phase = "stepping" /\ k \in Replicated(layout)
                      THEN \A r \in DOMAIN grads : grads[r][k] = all
                      ELSE SumFunction([r \in DOMAIN grads |-> grads[r][k]]) = all
    BY Zenon DEF ScalesAreSummed
  <2> DEFINE all == TimesSummed(layout, k) * W[k]
  <2>1. Total(layout, grads, k) = SumFunction([r \in DOMAIN grads |-> grads[r][k]]) BY <1>5 DEF Total
  <2>2. CASE phase = "accumulate"
    <3>1. Total(layout, grads, k) = all BY <1>1, <2>2 DEF ScaleSums
    <3> QED BY <1>2, <2>1, <2>2, <3>1
  <2>3. CASE phase = "stepping"
    <3>1. IF k \in Replicated(layout) THEN \A r \in Ranks(layout.tp) : grads[r][k] = all
          ELSE Total(layout, grads, k) = all
      BY <1>1, <2>3 DEF ScalesSynced
    <3> QED BY <1>2, <1>5, <2>1, <2>3, <3>1
  <2> QED BY <1>3, <2>2, <2>3
<1> QED BY <1>7, <1>8, <1>9

\* And its logits.
LEMMA LogitsSuffice ==
  ASSUME SplitInv, packs # << >>
  PROVE  LogitsAreWhole
<1> DEFINE n == net  l == layout  p == LastPack
<1>0. n \in Nets /\ l \in Layouts /\ p \in Packs
  <2>1. packs \in Seq(Packs) /\ Len(packs) \in 1 .. Len(packs) BY DEF SplitInv
  <2> QED BY <2>1 DEF SplitInv, LastPack
<1>1. IsNet(n) /\ Fits(n, l) BY <1>0, BuiltFits
<1>2. ASSUME NEW r \in DOMAIN logits, NEW s \in DOMAIN logits[0], NEW v \in DOMAIN logits[r][s]
      PROVE  logits[r][s][v] = Forward(net, LastPack, Unsharded(layout)).logits[0][s][v]
  <2> DEFINE u == Unsharded(l)  Z == ZOf(n, p, l.kind)  size == Len(n.head)
  <2>0. size \in Nat BY <1>1, NetFacts
  <2>1. Fits(n, u) /\ u.kind = l.kind /\ u.tp = 1 /\ 0 \in Ranks(1) /\ ShardRange(size, 0, 1) = 1 .. size
    BY <1>1, <2>0, OneRank
  <2>2. /\ l.tp \in Nat \ {0} /\ size % l.tp = 0 /\ 0 \in Ranks(l.tp)
    BY <1>1 DEF Fits, Ranks
  <2> HIDE DEF u
  <2>3. Forward(n, p, u).logits = Logits(n, u, Rep(1, Z)) BY <1>0, <1>1, <2>1, ForwardIs
  <2>4. logits = Logits(n, l, Rep(l.tp, Z))
    <3>1. logits = Forward(n, p, l).logits BY DEF SplitInv
    <3> QED BY <1>0, <1>1, <3>1, ForwardIs
  <2> HIDE DEF n, l, p, Z, size
  <2>5. logits = [i \in Ranks(l.tp) |-> [j \in DOMAIN Z |->
                    [w \in ShardRange(size, i, l.tp) |-> n.head[w] * Z[j]]]]
    BY <2>4 DEF Logits, Rep, size
  <2>6. r \in Ranks(l.tp) /\ s \in DOMAIN Z /\ v \in ShardRange(size, r, l.tp)
    <3>1. DOMAIN logits = Ranks(l.tp) BY <2>5
    <3>2. DOMAIN logits[0] = DOMAIN Z /\ DOMAIN logits[r] = DOMAIN Z BY <2>2, <2>5, <3>1
    <3>3. DOMAIN logits[r][s] = ShardRange(size, r, l.tp) BY <2>5, <3>1, <3>2
    <3> QED BY <3>1, <3>2, <3>3
  <2>7. logits[r][s][v] = n.head[v] * Z[s] BY <2>5, <2>6
  <2>8. v \in 1 .. size BY <2>0, <2>2, <2>6, ShardFacts
  <2>9. Forward(n, p, u).logits[0][s][v] = n.head[v] * Z[s]
    <3>1. Logits(n, u, Rep(1, Z)) = [i \in Ranks(1) |-> [j \in DOMAIN Z |->
            [w \in ShardRange(size, i, 1) |-> n.head[w] * Z[j]]]]
      BY <2>1 DEF Logits, Rep, size
    <3>2. Logits(n, u, Rep(1, Z))[0] = [j \in DOMAIN Z |-> [w \in ShardRange(size, 0, 1) |-> n.head[w] * Z[j]]]
      BY <2>1, <3>1
    <3>3. Logits(n, u, Rep(1, Z))[0][s] = [w \in 1 .. size |-> n.head[w] * Z[s]] BY <2>1, <2>6, <3>2
    <3>4. Logits(n, u, Rep(1, Z))[0][s][v] = n.head[v] * Z[s] BY <2>8, <3>3
    <3> QED BY <2>3, <3>4
  <2> QED BY <2>7, <2>9 DEF n, l, p, u
<1> QED BY <1>2 DEF LogitsAreWhole

\* A layer split over any number of ranks that divides its rows, of any net and kind, computes
\* the whole layer's logits (linear.py, vocab_parallel.py, collectives.py).  Of the gradients it
\* accumulates over any number of microbatches, the rows of heads, experts and the output head
\* are the whole layer's; the embedding's are only if the branch has the column boundary (with
\* experts they are those of the rank's experts alone); a norm's scale has tp times its gradient
\* after the synchronisation, unless it is one of parts; the copies of K/V share theirs.
THEOREM SplitLayersAreWhole == TPSpec => []SplitLayerIsWhole
<1>1. TPInit => SplitInv BY SplitInvKept
<1>2. SplitInv /\ [TPNext]_tpvars => SplitInv' BY SplitInvStep
<1>3. SplitInv => SplitLayerIsWhole BY GradientsSuffice, LogitsSuffice DEF SplitLayerIsWhole
<1> QED BY <1>1, <1>2, <1>3, PTL DEF TPSpec

=============================================================================
