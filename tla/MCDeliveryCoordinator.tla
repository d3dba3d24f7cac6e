----------------------- MODULE MCDeliveryCoordinator -----------------------
(* Instances of the coordinator for TLC.  The budgets of the record are        *)
(* explored by MCDeliveryAggregate: here external work takes no time and the   *)
(* total is large enough for every attempt.                                    *)
EXTENDS DeliveryClaims

CONSTANT pull

MCPullRequests == {pull}
MCDurations == {0}
=============================================================================
