-------------------------- MODULE MCRolloutScheduler --------------------------
(* Instances of RolloutScheduler for TLC. *)
EXTENDS RolloutScheduler

NoGivenSizes == {}

\* Pools smaller than one full table per running row, with rows longer than
\* the cache and prefill budgets below the prompt length.
TightSizes ==
  {[running |-> 2, cache |-> 5, prefill |-> 2, blocks |-> 2],
   [running |-> 2, cache |-> 7, prefill |-> 5, blocks |-> 3],
   [running |-> 2, cache |-> 7, prefill |-> 3, blocks |-> 2]}
=============================================================================
