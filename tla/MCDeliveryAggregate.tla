------------------------ MODULE MCDeliveryAggregate ------------------------
(* A small delivery for TLC: one repair, at most one observation, one          *)
(* verification and one review per revision.  A reservation is one unit of a  *)
(* total of one; external work takes no time or overruns its           *)
(* reservation, so that budget is exhausted in some runs and never in others. *)
EXTENDS DeliveryAggregate

CONSTANTS pull1, pull2

MCPullRequests == {pull1, pull2}
MCDurations == {0, 2}

\* Pull requests are only compared.
Symmetry == Permutations(MCPullRequests)

\* Callers raise and resolve their own interventions in deliveries without feedback.
CallerHolds == (\E i \in open \cup resolved : i[2] = Caller) => feedback = <<>>
=============================================================================
