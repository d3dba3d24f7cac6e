--------------------------- MODULE DeliveryClaims ---------------------------
(* What the comments and the plans of the repository say of a delivery, in    *)
(* the words of the model.  Each is refuted by a behaviour of the program;    *)
(* the README tells each behaviour step by step.                              *)
EXTENDS DeliveryCoordinator

\* .plans/factory/SLICE_3_OPERATOR.md:53, "Revocation fences new work": nothing
\* is dispatched for a delivery whose authority has been revoked.
RevocationFencesWork == [][sent' # sent => ~Revoked]_coordinatorVars

\* service.ts:591, "The repair failed. Its workspace and evidence remain retained
\* for planning": a failed repair leads to an intervention or an end.
FailedRepairIsHeld ==
    (\E k \in DOMAIN repairs : repairs[k].status = "failed") ~> (open # {} \/ ~Active)

\* recovery.ts:85, "Pauses stop mutation/repair authority, not observation of an
\* already published PR": the merge of a held delivery's pull request is seen.
PausedPullIsObserved == (merged /\ pr # None /\ open # {}) ~> outcome = "merged"

\* .plans/factory/SLICE_3_IMPLEMENTATION_PLAN.md:61, "ambiguous ownership pause
\* work. A durable Intervention": a claim whose step was lost before anything
\* was dispatched is shown to the operator, as an uncertain effect at least.
Interrupted(id) == /\ At("idle")
                   /\ effects[id].state = "in-flight"
                   /\ id \notin sent
AmbiguousWorkPauses == (\E id \in EffectIds : Interrupted(id)) ~> Shown

=============================================================================
