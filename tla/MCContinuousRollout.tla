------------------------- MODULE MCContinuousRollout -------------------------
(* Instances of ContinuousRollout for TLC. *)
EXTENDS ContinuousRollout

NoGivenSizes == {}

R(lens, longest, cancellable, key) ==
  [op |-> "rollout", lens |-> lens, longest |-> longest, widest |-> 2,
   cancellable |-> cancellable, key |-> key]
Other == [op |-> "other", lens |-> <<>>, longest |-> 1, widest |-> 1,
          cancellable |-> FALSE, key |-> "k1"]

\* Two rows, a row too long for the batches the others start, no rows on this
\* rank, other sampling parameters, a row that its caller may cancel, and a
\* training command.
RefillShapes ==
  {R(<<1, 2>>, 2, FALSE, "k1"), R(<<5>>, 5, FALSE, "k1"), R(<<>>, 2, FALSE, "k1"),
   R(<<1>>, 2, FALSE, "k2"), R(<<1>>, 2, TRUE, "k1"), Other}
=============================================================================
