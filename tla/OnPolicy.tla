------------------------------ MODULE OnPolicy ------------------------------
(***************************************************************************)
(* What a policy-gradient trainer promises: a training call uses only      *)
(* log-probabilities of the version of the policy that it begins with,     *)
(* those the rollout recorded and those that were scored afterwards, and a *)
(* batch is used by one call.  A call makes at most window updates, so its *)
(* k-th one is k - 1 versions off the policy.  Offline training (SFT, DPO) *)
(* samples nothing.                                                        *)
(***************************************************************************)
EXTENDS Integers

VARIABLES offline,   \* the algorithm never samples
          window,    \* the most updates of one training call
          version,   \* updates of the policy so far
          made,      \* those of the training call that is running
          sources    \* versions that the batch's log-probabilities come from

vars == <<offline, window, version, made, sources>>

Init ==
  /\ offline \in BOOLEAN /\ window \in Nat \ {0}
  /\ version = 0 /\ made = 0 /\ sources = {}

Sample ==
  /\ ~offline /\ made = 0
  /\ sources' = {version}
  /\ UNCHANGED <<offline, window, version, made>>

Discard ==
  /\ made = 0
  /\ sources' = {}
  /\ UNCHANGED <<offline, window, version, made>>

Update ==
  /\ made < window
  /\ sources = IF offline THEN {} ELSE {version - made}
  /\ version' = version + 1 /\ made' = made + 1
  /\ UNCHANGED <<offline, window, sources>>

Return == made' = 0 /\ UNCHANGED <<offline, window, version, sources>>

Next == Sample \/ Discard \/ Update \/ Return

Spec == Init /\ [][Next]_vars
=============================================================================
