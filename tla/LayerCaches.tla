----------------------------- MODULE LayerCaches -----------------------------
(***************************************************************************)
(* The per-layer caches of a model: allocate_kv_caches, set_kv_caches,     *)
(* offload, onload, reset and clear (models/gemma4, models/bailing, and    *)
(* the same methods of qwen3_5 and minicpmv46).                            *)
(*                                                                         *)
(* A tensor is <<layer that allocated it, device, kind>>; `bound' maps a   *)
(* layer to the tensors its attention holds, `written' a tensor to the     *)
(* layers whose tokens it holds.                                           *)
(***************************************************************************)
EXTENDS Integers, FiniteSets, Subsequences

CONSTANT Models  \* sequences of [kind, source], kind "softmax", "shared" or "linear"

\* A shared layer has a source among the layers before the first shared one, which
\* holds keys of its own (_kv_shared_layer_index).
ASSUME ModelsAssumption ==
  \A m \in Models :
    /\ m \in Seq([kind : {"softmax", "shared", "linear"}, source : Nat])
    /\ \A l \in DOMAIN m : m[l].kind = "shared" =>
         m[l].source \in 1 .. l - 1 /\ m[m[l].source].kind = "softmax"

VARIABLES model, bound, written, backend
lvars == <<model, bound, written, backend>>

Layers == DOMAIN model
IsShared(l) == model[l].kind = "shared"
HasState(l) == model[l].kind = "linear"
Gemma4 == \E l \in Layers : IsShared(l)
Kv(l) == <<l, "gpu", "kv">>
State(l) == <<l, "gpu", "state">>
To(ts, device) == {<<t[1], device, t[3]>> : t \in ts}
Alive(b) == UNION {b[l] : l \in Layers}

LInit ==
  /\ model \in Models
  /\ bound = [l \in Layers |-> {}]
  /\ written = << >>
  /\ backend = {}

\* The contents of the tensors b binds; one that was not moved from an older
\* tensor is new.
Moved(b) ==
  [t \in Alive(b) |->
     IF t \in DOMAIN written THEN written[t]
     ELSE IF \E o \in DOMAIN written : o[1] = t[1] /\ o[3] = t[3]
          THEN written[CHOOSE o \in DOMAIN written : o[1] = t[1] /\ o[3] = t[3]] ELSE {}]
Fresh(b) == [t \in Alive(b) |-> {}]

(*------------------------------- allocation -----------------------------*)
\* One entry per layer; a shared layer's is its source's.
AllocateGemma4 ==
  LET caches[l \in Layers] == IF IsShared(l) THEN caches[model[l].source] ELSE Kv(l)
  IN  caches
\* Entries for the softmax layers only, in order of appearance.
AllocateSoftmax ==
  LET order == Kept([l \in Layers |-> l], {l \in Layers : ~HasState(l)})
  IN [i \in DOMAIN order |-> Kv(order[i])]

SetGemma4(caches) ==
  [l \in Layers |-> {caches[IF IsShared(l) THEN model[l].source ELSE l]}]
\* softmax_idx runs over the softmax layers; the others get a zero state.
SetByIndex(caches) ==
  [l \in Layers |-> IF HasState(l) THEN {State(l)}
                    ELSE {caches[Cardinality({k \in 1..l : ~HasState(k)})]}]

AllocateCaches ==
  /\ Alive(bound) = {}
  /\ bound' = IF Gemma4 THEN SetGemma4(AllocateGemma4) ELSE SetByIndex(AllocateSoftmax)
  /\ written' = Fresh(bound')
  /\ UNCHANGED <<model, backend>>

(*-------------------------------- movement ------------------------------*)
RebindNothing(b) == b
Rebind(b) == [l \in Layers |-> IF IsShared(l) THEN b[model[l].source] ELSE b[l]]
MovedTo(device) == [l \in Layers |-> IF IsShared(l) THEN bound[l] ELSE To(bound[l], device)]

OffloadCaches ==
  /\ bound' = Rebind(MovedTo("cpu"))
  /\ written' = Moved(bound')
  /\ backend' = backend \ {l \in Layers : ~HasState(l)}
  /\ UNCHANGED model
\* Answers whether there was anything; only a shared layer's backend is dropped.
OnloadCaches ==
  /\ Alive(bound) # {}
  /\ bound' = Rebind(MovedTo("gpu"))
  /\ written' = Moved(bound')
  /\ backend' = backend \ {l \in Layers : IsShared(l)}
  /\ UNCHANGED model
ClearCaches ==
  /\ bound' = [l \in Layers |-> {}]
  /\ written' = << >>
  /\ backend' = {}
  /\ UNCHANGED model
\* reset_kv_caches: states are zeroed, paged caches are kept.
ResetCaches ==
  /\ written' = [t \in DOMAIN written |-> IF t[3] = "state" THEN {} ELSE written[t]]
  /\ UNCHANGED <<model, bound, backend>>

\* One inference forward: every layer writes its own cache; a shared layer
\* writes its source's keys again.
Writer(l) == IF IsShared(l) THEN model[l].source ELSE l
LayersForward ==
  /\ Alive(bound) # {} /\ \A t \in Alive(bound) : t[2] = "gpu"
  /\ written' = [t \in DOMAIN written |-> written[t] \cup {Writer(l) : l \in {k \in Layers : t \in bound[k]}}]
  /\ backend' = {l \in Layers : ~HasState(l)}
  /\ UNCHANGED <<model, bound>>

LNext ==
  \/ AllocateCaches \/ OffloadCaches \/ OnloadCaches \/ ClearCaches \/ ResetCaches \/ LayersForward
LSpec == LInit /\ [][LNext]_lvars

\* However the caches were moved, a layer that shares keys holds the very
\* tensor of its source, no tensor holds the tokens of two layers, and all of
\* them are on one device (Gemma4's _rebind_shared_kv_caches, Bailing's
\* running index over its softmax layers).
LayersOwnTheirCaches ==
  /\ \A l \in Layers : IsShared(l) => bound[l] = bound[model[l].source]
  /\ \A t \in DOMAIN written : Cardinality(written[t]) <= 1
  /\ \A t, u \in Alive(bound) : t[2] = u[2]
  /\ DOMAIN written = Alive(bound)
=============================================================================
