----------------------------- MODULE Subsequences -----------------------------
(***************************************************************************)
(* The list comprehensions of the worker that pick some requests out of a  *)
(* list, as a recursive function (SelectSeq has no definition that a proof *)
(* could use).                                                             *)
(***************************************************************************)
EXTENDS Naturals, Sequences

\* The elements of s that are in S, in their order.
Kept(s, S) ==
  LET kept[i \in 0..Len(s)] ==
        IF i = 0 THEN <<>> ELSE IF s[i] \in S THEN Append(kept[i - 1], s[i]) ELSE kept[i - 1]
  IN  kept[Len(s)]
=============================================================================
