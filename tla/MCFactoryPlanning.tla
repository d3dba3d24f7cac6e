--------------------------- MODULE MCFactoryPlanning ---------------------------
(* Bounded instances of FactoryPlanning. *)
EXTENDS FactoryPlanning, TLC

CONSTANTS c1, c2, r1, r2

TheContents == {c1, c2}
TheRepos == {r1, r2}

\* The contents and the repositories are alike: nothing is lost by starting with these.
MCInit == PlanningInit /\ source.content = c1 /\ repo = r1
MCSpec == MCInit /\ [][Next]_vars
MCLiveSpec == MCSpec /\ WF_vars(Progress)

\* A reading of the issue finds one thing changed, and a brief that is not ready comes
\* from the model's questions.
OneThing ==
    /\ \/ source'.content = source.content
       \/ source.provider = "manual"
       \/ source'.status = source.status /\ source'.attention = source.attention
    /\ revisions' = revisions \/ Brief'.of # ByHuman \/ Brief'.ready
=============================================================================
