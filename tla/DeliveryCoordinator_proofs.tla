---------------------- MODULE DeliveryCoordinator_proofs ----------------------
(* Theorems about DeliveryAggregate, for every budget, every cap on repairs, *)
(* assessments and feedback, and every set of pull requests, and about       *)
(* DeliveryCoordinator, for every number of crashes besides.                 *)
EXTENDS DeliveryCoordinator, SequenceTheorems, FiniteSetTheorems, WellFoundedInduction, TLAPS

----------------------------------------------------------------------------
(* The ids of effects and the causes of interventions. *)

LEMMA EffectIdFields ==
    ASSUME NEW id \in EffectIds
    PROVE  /\ KindOf(id) \in Kinds
           /\ RevisionOf(id) \in Revisions
           /\ id[3] \in Slots(KindOf(id))
           /\ id = <<KindOf(id), RevisionOf(id), id[3]>>
BY DEF EffectIds, KindOf, RevisionOf

\* The single slot of a publication effect.
LEMMA PublicationId ==
    ASSUME NEW kind \in PublicationKinds, NEW rev \in Revisions
    PROVE  /\ <<kind, rev, 1>> \in EffectIds
           /\ KindOf(<<kind, rev, 1>>) = kind
           /\ RevisionOf(<<kind, rev, 1>>) = rev
<1>1. kind \in Kinds
  BY DEF Kinds
<1>2. 1 \in Slots(kind)
  BY DEF Slots, PublicationKinds, EvidenceKinds
<1>3. <<kind, rev, 1>> \in {kind} \X Revisions \X Slots(kind)
  BY <1>2
<1>4. {kind} \X Revisions \X Slots(kind) \in {{k} \X Revisions \X Slots(k) : k \in Kinds}
  BY <1>1
<1>5. <<kind, rev, 1>> \in EffectIds
  BY <1>3, <1>4 DEF EffectIds
<1> QED
  BY <1>5 DEF KindOf, RevisionOf

LEMMA CauseTypes ==
    /\ \A id \in EffectIds : id \in Causes
    /\ Caller \in Causes
    /\ \A k \in Ordinals : RepairCause(k) \in Causes /\ AssessmentCause(k) \in Causes
    /\ \A f \in 1..MaxFeedback : FeedbackCause(f) \in Causes
BY DEF Causes

LEMMA InitTypeOK == Init => TypeOK
<1> SUFFICES ASSUME Init PROVE TypeOK
  OBVIOUS
<1> USE ConstantsAssumption DEF ConstantsAssumption
<1>1. effects \in [EffectIds -> Effect]
  BY DEF Init, Effect, Absent
<1>2. assessments \in [Ordinals -> Assessment]
  BY DEF Init, Assessment, NoAssessment, Revisions
<1>3. evidence \in Seq(Evidence) /\ repairs \in Seq(Repair) /\ feedback \in Seq(Feedback)
  BY EmptySeq DEF Init
<1>4. Len(repairs) <= MaxRepairs /\ Len(feedback) <= MaxFeedback
  BY EmptySeq DEF Init
<1> QED
  BY <1>1, <1>2, <1>3, <1>4 DEF Init, TypeOK, Revisions

----------------------------------------------------------------------------
(* Type correctness. *)

\* The three histories are sequences: their entries and their indices.
LEMMA Histories ==
    ASSUME TypeOK
    PROVE  /\ Len(evidence) \in Nat /\ DOMAIN evidence = 1..Len(evidence)
           /\ \A i \in DOMAIN evidence : evidence[i] \in Evidence
           /\ Len(repairs) \in Nat /\ DOMAIN repairs = 1..Len(repairs)
           /\ \A k \in DOMAIN repairs : repairs[k] \in Repair
           /\ Len(feedback) \in Nat /\ DOMAIN feedback = 1..Len(feedback)
           /\ \A f \in DOMAIN feedback : feedback[f] \in Feedback
<1>1. evidence \in Seq(Evidence) /\ repairs \in Seq(Repair) /\ feedback \in Seq(Feedback)
  BY DEF TypeOK
<1> QED
  BY <1>1, LenProperties, ElementOfSeq

LEMMA EffectTypes ==
    ASSUME TypeOK, EffectStep
    PROVE  TypeOK'
<1> USE ConstantsAssumption DEF ConstantsAssumption
<1>1. PICK id \in EffectIds :
        \/ \E ms \in 0..MaxEffectMs : PlanEffect(id, ms)
        \/ StartEffect(id)
        \/ BindEffectReceipt(id)
        \/ \E state \in {"uncertain", "planned"} : SettleUndelivered(id, state)
        \/ \E ref \in ReceiptsOf(KindOf(id)), ms \in Durations \cup {NoMs},
              pull \in PullRequests \cup {None} : SettleDelivered(id, ref, ms, pull)
  BY DEF EffectStep
<1> DEFINE Rest == <<revision, evidence, repairs, assessments, feedback, commits,
                     publication, resolved, outcome>>
<1>2. effects[id] \in Effect
  BY DEF TypeOK
<1>3. ASSUME effects' \in [EffectIds -> Effect], UNCHANGED Rest,
             pr' \in PullRequests \cup {None}, open' \subseteq Interventions
      PROVE  TypeOK'
  BY <1>3 DEF TypeOK
<1>4. ASSUME NEW ms \in 0..MaxEffectMs, PlanEffect(id, ms)
      PROVE  TypeOK'
  <2>0. ms \in Nat
    OBVIOUS
  <2>1. [Absent EXCEPT !.state = "planned", !.reserved = ms] \in Effect
    BY <2>0 DEF Absent, Effect
  <2> QED
    BY <1>3, <1>4, <2>1 DEF PlanEffect, TypeOK
<1>5. CASE StartEffect(id)
  <2>1. [effects[id] EXCEPT !.state = "in-flight"] \in Effect
    BY <1>2 DEF Effect
  <2> QED
    BY <1>3, <1>5, <2>1 DEF StartEffect, TypeOK
<1>6. CASE BindEffectReceipt(id)
  <2>1. [effects[id] EXCEPT !.receipt = "other"] \in Effect
    BY <1>2 DEF Effect
  <2> QED
    BY <1>3, <1>6, <2>1 DEF BindEffectReceipt, TypeOK
<1>7. ASSUME NEW state \in {"uncertain", "planned"}, SettleUndelivered(id, state)
      PROVE  TypeOK'
  <2>1. [effects[id] EXCEPT !.state = state, !.receipt = "other"] \in Effect
    BY <1>2 DEF Effect
  <2> QED
    BY <1>3, <1>7, <2>1 DEF SettleUndelivered, TypeOK
<1>8. ASSUME NEW ref \in ReceiptsOf(KindOf(id)), NEW ms \in Durations \cup {NoMs},
             NEW pull \in PullRequests \cup {None}, SettleDelivered(id, ref, ms, pull)
      PROVE  TypeOK'
  <2>1. [effects[id] EXCEPT !.state = "delivered", !.receipt = ref, !.exec = ms] \in Effect
    BY <1>2 DEF Effect, ReceiptsOf
  <2>2. effects' \in [EffectIds -> Effect]
    BY <1>8, <2>1 DEF SettleDelivered, TypeOK
  <2>3. <<"scope", id>> \in Interventions /\ <<"budget", id>> \in Interventions
    BY CauseTypes DEF Interventions, InterventionKinds
  <2>4. open' \subseteq Interventions
    BY <1>8, <2>3 DEF SettleDelivered, TypeOK
  <2> QED
    BY <1>3, <1>8, <2>2, <2>4 DEF SettleDelivered, TypeOK
<1> QED
  BY <1>1, <1>4, <1>5, <1>6, <1>7, <1>8

LEMMA EvidenceTypes ==
    ASSUME TypeOK, EvidenceStep
    PROVE  TypeOK'
<1> USE ConstantsAssumption DEF ConstantsAssumption
<1>1. ASSUME NEW id \in EffectIds, NEW result \in EvidenceResults,
             NEW verification \in Citable(id), NEW independent \in BOOLEAN,
             RecordEvidence([effect |-> id, result |-> result, independent |-> independent,
                             verification |-> verification])
      PROVE  TypeOK'
  <2> DEFINE e == [effect |-> id, result |-> result, independent |-> independent,
                   verification |-> verification]
  <2>1. \A i \in DOMAIN evidence : evidence[i].effect \in EffectIds
    BY Histories DEF Evidence
  <2>2. verification \in EffectIds \cup {NoEffect}
    BY <2>1 DEF Citable
  <2>3. e \in Evidence
    BY <2>2 DEF Evidence
  <2>4. evidence' \in Seq(Evidence)
    BY <1>1, <2>3, AppendProperties DEF RecordEvidence, TypeOK
  <2> QED
    BY <1>1, <2>4 DEF RecordEvidence, TypeOK
<1>2. CASE AuthorizePublication
  <2>1. DOMAIN evidence \subseteq Nat
    BY Histories
  <2>2. EvidenceOf(revision) \in SUBSET Nat
    BY <2>1 DEF EvidenceOf
  <2> QED
    BY <1>2, <2>2 DEF AuthorizePublication, TypeOK
<1>3. CASE BindCommit
  BY <1>3 DEF BindCommit, TypeOK
<1>4. \A id : (IF KindOf(id) = "review" THEN BOOLEAN ELSE {TRUE}) \subseteq BOOLEAN
  OBVIOUS
<1> QED
  BY <1>1, <1>2, <1>3, <1>4 DEF EvidenceStep

LEMMA FeedbackTypes ==
    ASSUME TypeOK, FeedbackStep
    PROVE  TypeOK'
<1> USE ConstantsAssumption DEF ConstantsAssumption
<1>1. ASSUME NEW ci \in BOOLEAN, NEW review \in BOOLEAN, RecordFeedback(ci, review)
      PROVE  TypeOK'
  <2>1. [rev |-> revision, ci |-> ci, review |-> review,
         class |-> "none", repair |-> 0] \in Feedback
    BY DEF TypeOK, Feedback
  <2>2. feedback' \in Seq(Feedback) /\ Len(feedback') = Len(feedback) + 1
    BY <1>1, <2>1, AppendProperties DEF RecordFeedback, TypeOK
  <2>3. Len(feedback) \in Nat
    BY Histories
  <2>4. Len(feedback') <= MaxFeedback
    BY <1>1, <2>2, <2>3 DEF RecordFeedback
  <2> QED
    BY <1>1, <2>2, <2>4 DEF RecordFeedback, TypeOK
<1>2. ASSUME NEW f \in DOMAIN feedback,
             NEW class \in {"scoped-repair", "scope-change", "no-action"},
             ClassifyFeedback(f, class)
      PROVE  TypeOK'
  <2>1. f \in 1..Len(feedback) /\ Len(feedback) \in Nat
    BY Histories
  <2>2. feedback[f] \in Feedback
    BY Histories
  <2>3. [feedback[f] EXCEPT !.class = class] \in Feedback
    BY <2>2 DEF Feedback
  <2>4. feedback' = [feedback EXCEPT ![f] = [feedback[f] EXCEPT !.class = class]]
    BY <1>2 DEF ClassifyFeedback
  <2>5. feedback' \in Seq(Feedback) /\ Len(feedback') = Len(feedback)
    BY <2>1, <2>3, <2>4, ExceptSeq DEF TypeOK
  <2>6. f \in 1..MaxFeedback
    BY <2>1 DEF TypeOK
  <2>7. <<"scope", FeedbackCause(f)>> \in Interventions
    BY <2>6, CauseTypes DEF Interventions, InterventionKinds
  <2>8. open' \subseteq Interventions
    BY <1>2, <2>7 DEF ClassifyFeedback, TypeOK
  <2> QED
    BY <1>2, <2>5, <2>8 DEF ClassifyFeedback, TypeOK
<1> QED
  BY <1>1, <1>2 DEF FeedbackStep

LEMMA ProgressTypes ==
    ASSUME TypeOK, ProgressStep
    PROVE  TypeOK'
<1> USE ConstantsAssumption DEF ConstantsAssumption
<1> DEFINE Rest == <<revision, effects, evidence, repairs, feedback, commits,
                     publication, pr, resolved, outcome>>
<1>1. ASSUME assessments' \in [Ordinals -> Assessment], UNCHANGED Rest,
             open' \subseteq Interventions
      PROVE  TypeOK'
  BY <1>1 DEF TypeOK
<1>2. \A k \in Ordinals : assessments[k] \in Assessment
  BY DEF TypeOK
<1>3. CASE ReserveProgress
  <2> DEFINE k == Len(repairs) + 1
             ms == Lesser(MaxAssessmentMs, TotalMs - SpentExecution)
             new == [NoAssessment EXCEPT !.state = "reserved", !.rev = revision,
                                         !.reserved = ms, !.digest = EvidenceDigest]
  <2>1. k \in Ordinals
    BY <1>3, Histories DEF ReserveProgress, Ordinals
  <2>2. ms \in Nat
    <3> DEFINE remaining == TotalMs - SpentExecution
    <3>1. remaining \in 1..TotalMs
      BY <1>3 DEF ReserveProgress
    <3> HIDE DEF remaining
    <3>2. Lesser(MaxAssessmentMs, remaining) \in Nat
      BY <3>1 DEF Lesser
    <3> QED
      BY <3>2 DEF remaining
  <2>3. EvidenceDigest \in Revisions \X Seq(Evidence) \X [EffectIds -> Effect]
                              \X Seq(Feedback) \X Seq(Repair)
    BY DEF EvidenceDigest, TypeOK
  <2>4. revision \in Revisions
    BY DEF TypeOK
  <2>5. new \in Assessment
    <3> HIDE DEF ms
    <3> QED
      BY <2>2, <2>3, <2>4 DEF Assessment, NoAssessment
  <2>6. assessments' = [assessments EXCEPT ![k] = new]
    BY <1>3 DEF ReserveProgress
  <2> HIDE DEF new, k
  <2>7. assessments' \in [Ordinals -> Assessment]
    BY <2>1, <2>5, <2>6 DEF TypeOK
  <2> QED
    BY <1>1, <1>3, <2>7 DEF ReserveProgress, TypeOK
<1>4. ASSUME NEW k \in Ordinals, StartProgress(k)
      PROVE  TypeOK'
  <2>1. [assessments[k] EXCEPT !.state = "in-flight"] \in Assessment
    BY <1>2 DEF Assessment
  <2> QED
    BY <1>1, <1>4, <2>1 DEF StartProgress, TypeOK
<1>5. ASSUME NEW k \in Ordinals, BindSubmission(k)
      PROVE  TypeOK'
  <2>1. [assessments[k] EXCEPT !.submitted = TRUE] \in Assessment
    BY <1>2 DEF Assessment
  <2> QED
    BY <1>1, <1>5, <2>1 DEF BindSubmission, TypeOK
<1>6. ASSUME NEW k \in Ordinals, UncertainProgress(k)
      PROVE  TypeOK'
  <2>1. [assessments[k] EXCEPT !.state = "uncertain"] \in Assessment
    BY <1>2 DEF Assessment
  <2> QED
    BY <1>1, <1>6, <2>1 DEF UncertainProgress, TypeOK
<1>7. ASSUME NEW k \in Ordinals, NEW decision \in {"approve", "escalate"},
             NEW ms \in Durations \cup {NoMs}, SettleProgress(k, decision, ms)
      PROVE  TypeOK'
  <2>1. [assessments[k] EXCEPT !.state = "settled", !.submitted = TRUE,
                               !.decision = decision, !.exec = ms] \in Assessment
    BY <1>2 DEF Assessment
  <2>2. assessments' \in [Ordinals -> Assessment]
    BY <1>7, <2>1 DEF SettleProgress, TypeOK
  <2>3. <<"scope", AssessmentCause(k)>> \in Interventions
    BY CauseTypes DEF Interventions, InterventionKinds
  <2>4. open' \subseteq Interventions
    BY <1>7, <2>3 DEF SettleProgress, TypeOK
  <2> QED
    BY <1>1, <1>7, <2>2, <2>4 DEF SettleProgress
<1> QED
  BY <1>3, <1>4, <1>5, <1>6, <1>7 DEF ProgressStep

LEMMA RepairTypes ==
    ASSUME TypeOK, RepairStep
    PROVE  TypeOK'
<1> USE ConstantsAssumption DEF ConstantsAssumption
<1>1. ASSUME NEW ms \in 1..MaxEffectMs, ReserveRepair(ms)
      PROVE  TypeOK'
  <2> DEFINE k == Len(repairs) + 1
             new == [status |-> "reserved", from |-> revision,
                     reserved |-> ms, exec |-> NoMs]
  <2>1. k \in Ordinals
    BY <1>1, Histories DEF ReserveRepair, Ordinals
  <2>2. new \in Repair
    BY DEF Repair, TypeOK
  <2>3. repairs' \in Seq(Repair) /\ Len(repairs') = k
    <3>1. repairs' = Append(repairs, new)
      BY <1>1 DEF ReserveRepair
    <3> HIDE DEF new
    <3> QED
      BY <2>2, <3>1, AppendProperties DEF TypeOK
  <2>4. Len(repairs') <= MaxRepairs
    BY <2>1, <2>3 DEF Ordinals
  <2>5. feedback' \in Seq(Feedback) /\ Len(feedback') = Len(feedback)
    <3>1. feedback' = [f \in 1..Len(feedback) |->
                          IF f \in PendingFeedback
                          THEN [feedback[f] EXCEPT !.repair = k] ELSE feedback[f]]
      BY <1>1, Histories DEF ReserveRepair
    <3>2. ASSUME NEW f \in 1..Len(feedback)
          PROVE  feedback[f] \in Feedback /\ [feedback[f] EXCEPT !.repair = k] \in Feedback
      <4>1. k \in 0..MaxRepairs
        BY <2>1 DEF Ordinals
      <4>2. feedback[f] \in Feedback
        BY Histories
      <4> HIDE DEF k
      <4> QED
        BY <4>1, <4>2 DEF Feedback
    <3>3. feedback' \in [1..Len(feedback) -> Feedback]
      <4> HIDE DEF k
      <4> QED
        BY <3>1, <3>2
    <3>4. Len(feedback) \in Nat
      BY Histories
    <3>5. feedback' \in Seq(Feedback)
      BY <3>3, <3>4, SeqDef
    <3>6. DOMAIN feedback' = 1..Len(feedback) /\ DOMAIN feedback' = 1..Len(feedback')
      BY <3>3, <3>5, LenProperties
    <3> QED
      BY <3>4, <3>5, <3>6, LenProperties
  <2> QED
    BY <1>1, <2>3, <2>4, <2>5 DEF ReserveRepair, TypeOK
<1>2. ASSUME NEW k \in Ordinals, NEW status \in {"candidate", "failed"},
             NEW ms \in Durations \cup {NoMs}, FinishRepair(k, status, ms)
      PROVE  TypeOK'
  <2>1. k \in 1..Len(repairs) /\ repairs[k] \in Repair
    BY <1>2, Histories DEF FinishRepair, ReservedRepairs
  <2>2. [repairs[k] EXCEPT !.status = status, !.exec = ms] \in Repair
    BY <2>1 DEF Repair
  <2>3. repairs' = [repairs EXCEPT ![k] = [repairs[k] EXCEPT !.status = status, !.exec = ms]]
    BY <1>2 DEF FinishRepair
  <2>4. repairs' \in Seq(Repair) /\ Len(repairs') = Len(repairs)
    BY <2>1, <2>2, <2>3, ExceptSeq DEF TypeOK
  <2>5. revision' \in Revisions
    BY <1>2 DEF FinishRepair, CandidateOf, TypeOK, Ordinals, Revisions
  <2>6. <<"budget", RepairCause(k)>> \in Interventions
    BY CauseTypes DEF Interventions, InterventionKinds
  <2>7. open' \subseteq Interventions
    BY <1>2, <2>6 DEF FinishRepair, TypeOK
  <2> QED
    BY <1>2, <2>4, <2>5, <2>7 DEF FinishRepair, TypeOK
<1> QED
  BY <1>1, <1>2 DEF RepairStep

LEMMA InterventionTypes ==
    ASSUME TypeOK, InterventionStep
    PROVE  TypeOK'
<1>1. CallerRaised \subseteq Interventions
  BY ConstantsAssumption, CauseTypes
  DEF ConstantsAssumption, CallerRaised, Interventions, InterventionKinds
<1>2. ASSUME NEW i \in CallerRaised, Intervene(i)
      PROVE  TypeOK'
  BY <1>1, <1>2 DEF Intervene, TypeOK
<1>3. ASSUME NEW i \in open, ResolveIntervention(i)
      PROVE  TypeOK'
  BY <1>3 DEF ResolveIntervention, TypeOK
<1>4. ASSUME NEW result \in Outcomes, Finish(result)
      PROVE  TypeOK'
  BY <1>4 DEF Finish, TypeOK
<1> QED
  BY <1>2, <1>3, <1>4 DEF InterventionStep

LEMMA StepTypes == TypeOK /\ [Next]_vars => TypeOK'
<1>1. ASSUME TypeOK, UNCHANGED vars PROVE TypeOK'
  BY <1>1 DEF vars, TypeOK
<1> QED
  BY <1>1, EffectTypes, EvidenceTypes, FeedbackTypes, ProgressTypes, RepairTypes,
     InterventionTypes DEF Next

\* Every record any caller can commit has the shape the schema declares.
THEOREM TypeCorrect == Spec => []TypeOK
BY InitTypeOK, StepTypes, PTL DEF Spec

----------------------------------------------------------------------------
(* Exclusion of external work.  Admission looks at effects, assessments and  *)
(* repairs together, completion at one of them: what carries the argument    *)
(* from one to the other is that at most one is outstanding, that it belongs  *)
(* to the current revision, and that a finished delivery has none.            *)

ExclusionInv ==
    /\ AtMostOneOutstanding
    /\ OutstandingIsCurrent
    /\ revision <= Len(repairs)
    /\ ~Active => ~UnresolvedEffects /\ ReservedRepairs = {}

\* A step that admits nothing keeps the exclusion.
LEMMA ExclusionShrinks ==
    ASSUME ExclusionInv,
           UNCHANGED <<revision, repairs>>,
           \A id \in EffectIds : Outstanding(id)' => Outstanding(id),
           \A k \in Ordinals : Unsettled(k)' =>
               Unsettled(k) /\ assessments'[k].rev = assessments[k].rev,
           ~Active' => ~UnresolvedEffects /\ ReservedRepairs = {}
    PROVE  ExclusionInv'
<1>1. ReservedRepairs' = ReservedRepairs
  BY DEF ReservedRepairs
<1>2. AtMostOneOutstanding'
  BY <1>1 DEF ExclusionInv, AtMostOneOutstanding
<1>3. OutstandingIsCurrent'
  BY <1>1 DEF ExclusionInv, OutstandingIsCurrent
<1>4. UnresolvedEffects' => UnresolvedEffects
  BY DEF UnresolvedEffects
<1> QED
  BY <1>1, <1>2, <1>3, <1>4 DEF ExclusionInv

LEMMA ExclusionEffects ==
    ASSUME TypeOK, ExclusionInv, EffectStep
    PROVE  ExclusionInv'
<1>1. PICK id \in EffectIds :
        \/ \E ms \in 0..MaxEffectMs : PlanEffect(id, ms)
        \/ StartEffect(id)
        \/ BindEffectReceipt(id)
        \/ \E state \in {"uncertain", "planned"} : SettleUndelivered(id, state)
        \/ \E ref \in ReceiptsOf(KindOf(id)), ms \in Durations \cup {NoMs},
              pull \in PullRequests \cup {None} : SettleDelivered(id, ref, ms, pull)
  BY DEF EffectStep
<1>2. effects \in [EffectIds -> Effect]
  BY DEF TypeOK
<1>3. ASSUME UNCHANGED <<revision, repairs, assessments, outcome>>, Active,
             \A e \in EffectIds : Outstanding(e)' => Outstanding(e)
      PROVE  ExclusionInv'
  BY <1>3, ExclusionShrinks DEF Unsettled, Active
<1>4. ASSUME NEW ms \in 0..MaxEffectMs, PlanEffect(id, ms)
      PROVE  ExclusionInv'
  <2>1. \A e \in EffectIds : Outstanding(e)' => Outstanding(e)
    BY <1>2, <1>4 DEF PlanEffect, Outstanding, Absent
  <2> QED
    BY <1>3, <1>4, <2>1 DEF PlanEffect, Available
<1>5. CASE StartEffect(id)
  <2>1. /\ ~UnresolvedEffects
        /\ ReservedRepairs' = {}
        /\ Active'
        /\ UNCHANGED <<revision, repairs, assessments>>
    BY <1>5 DEF StartEffect, Available, Active, ReservedRepairs
  <2>2. \A e \in EffectIds : Outstanding(e)' => e = id
    BY <1>2, <1>5, <2>1 DEF StartEffect, Outstanding, UnresolvedEffects
  <2>3. \A k \in Ordinals : ~Unsettled(k)'
    BY <2>1 DEF Unsettled, UnresolvedEffects
  <2>4. RevisionOf(id) = revision
    BY <1>5 DEF StartEffect, Startable
  <2>5. AtMostOneOutstanding'
    BY <2>1, <2>2, <2>3 DEF AtMostOneOutstanding
  <2>6. OutstandingIsCurrent'
    BY <2>1, <2>2, <2>3, <2>4 DEF OutstandingIsCurrent
  <2> QED
    BY <2>1, <2>5, <2>6 DEF ExclusionInv
<1>6. CASE BindEffectReceipt(id)
  <2>1. \A e \in EffectIds : Outstanding(e)' => Outstanding(e)
    BY <1>2, <1>6 DEF BindEffectReceipt, Outstanding
  <2> QED
    BY <1>3, <1>6, <2>1 DEF BindEffectReceipt
<1>7. ASSUME NEW state \in {"uncertain", "planned"}, SettleUndelivered(id, state)
      PROVE  ExclusionInv'
  <2>1. \A e \in EffectIds : Outstanding(e)' => Outstanding(e)
    BY <1>2, <1>7 DEF SettleUndelivered, Outstanding
  <2> QED
    BY <1>3, <1>7, <2>1 DEF SettleUndelivered
<1>8. ASSUME NEW ref \in ReceiptsOf(KindOf(id)), NEW ms \in Durations \cup {NoMs},
             NEW pull \in PullRequests \cup {None}, SettleDelivered(id, ref, ms, pull)
      PROVE  ExclusionInv'
  <2>1. \A e \in EffectIds : Outstanding(e)' => Outstanding(e)
    BY <1>2, <1>8 DEF SettleDelivered, Outstanding
  <2> QED
    BY <1>3, <1>8, <2>1 DEF SettleDelivered
<1> QED
  BY <1>1, <1>4, <1>5, <1>6, <1>7, <1>8

LEMMA ExclusionProgress ==
    ASSUME TypeOK, ExclusionInv, ProgressStep
    PROVE  ExclusionInv'
<1>1. assessments \in [Ordinals -> Assessment]
  BY DEF TypeOK
<1>2. CASE ReserveProgress
  <2> DEFINE k == Len(repairs) + 1
  <2>1. /\ ~UnresolvedEffects
        /\ ReservedRepairs' = {}
        /\ Active'
        /\ UNCHANGED <<revision, repairs, effects>>
    BY <1>2 DEF ReserveProgress, Available, Active, ReservedRepairs
  <2>2. k \in Ordinals
    BY <1>2, Histories, ConstantsAssumption
    DEF ConstantsAssumption, ReserveProgress, Ordinals
  <2>3. \A e \in EffectIds : ~Outstanding(e)'
    BY <2>1 DEF Outstanding, UnresolvedEffects
  <2>4. PICK new : /\ assessments' = [assessments EXCEPT ![k] = new]
                   /\ new.rev = revision
    <3> DEFINE new == [NoAssessment EXCEPT !.state = "reserved", !.rev = revision,
                          !.reserved = Lesser(MaxAssessmentMs, TotalMs - SpentExecution),
                          !.digest = EvidenceDigest]
    <3>1. assessments' = [assessments EXCEPT ![k] = new]
      BY <1>2 DEF ReserveProgress
    <3>2. new.rev = revision
      BY DEF NoAssessment
    <3> QED
      BY <3>1, <3>2
  <2> HIDE DEF k
  <2>5. \A j \in Ordinals : Unsettled(j)' => j = k
    BY <1>1, <2>1, <2>4 DEF Unsettled, UnresolvedEffects
  <2>6. assessments'[k].rev = revision
    BY <1>1, <2>2, <2>4
  <2>7. AtMostOneOutstanding'
    BY <2>1, <2>3, <2>5 DEF AtMostOneOutstanding
  <2>8. OutstandingIsCurrent'
    BY <2>1, <2>3, <2>5, <2>6 DEF OutstandingIsCurrent, k
  <2> QED
    BY <2>1, <2>7, <2>8 DEF ExclusionInv
<1>3. ASSUME UNCHANGED <<revision, repairs, effects, outcome>>,
             NEW k \in Ordinals, Unsettled(k),
             assessments'[k].rev = assessments[k].rev,
             \A j \in Ordinals \ {k} : assessments'[j] = assessments[j]
      PROVE  ExclusionInv'
  <2>1. \A j \in Ordinals : Unsettled(j)' =>
            Unsettled(j) /\ assessments'[j].rev = assessments[j].rev
    BY <1>3 DEF Unsettled
  <2> QED
    BY <1>3, <2>1, ExclusionShrinks DEF Outstanding, Active, ExclusionInv
<1>4. ASSUME NEW k \in Ordinals, StartProgress(k)
      PROVE  ExclusionInv'
  BY <1>1, <1>3, <1>4 DEF StartProgress, Unsettled, Assessment
<1>5. ASSUME NEW k \in Ordinals, BindSubmission(k)
      PROVE  ExclusionInv'
  BY <1>1, <1>3, <1>5 DEF BindSubmission, Unsettled, Assessment
<1>6. ASSUME NEW k \in Ordinals, UncertainProgress(k)
      PROVE  ExclusionInv'
  BY <1>1, <1>3, <1>6 DEF UncertainProgress, Unsettled, Assessment
<1>7. ASSUME NEW k \in Ordinals, NEW decision \in {"approve", "escalate"},
             NEW ms \in Durations \cup {NoMs}, SettleProgress(k, decision, ms)
      PROVE  ExclusionInv'
  BY <1>1, <1>3, <1>7 DEF SettleProgress, Unsettled, Assessment
<1> QED
  BY <1>2, <1>4, <1>5, <1>6, <1>7 DEF ProgressStep

LEMMA ExclusionRepairs ==
    ASSUME TypeOK, ExclusionInv, RepairStep
    PROVE  ExclusionInv'
<1>1. /\ Len(repairs) \in Nat
      /\ DOMAIN repairs = 1..Len(repairs)
      /\ repairs \in Seq(Repair)
  BY Histories DEF TypeOK
<1>2. ASSUME NEW ms \in 1..MaxEffectMs, ReserveRepair(ms)
      PROVE  ExclusionInv'
  <2> DEFINE new == [status |-> "reserved", from |-> revision,
                     reserved |-> ms, exec |-> NoMs]
             k == Len(repairs) + 1
  <2>1. /\ ~UnresolvedEffects
        /\ ReservedRepairs = {}
        /\ Active'
        /\ UNCHANGED <<revision, assessments, effects>>
    BY <1>2 DEF ReserveRepair, Available, Active
  <2>2. new \in Repair
    BY ConstantsAssumption DEF ConstantsAssumption, Repair, TypeOK
  <2>3. repairs' = Append(repairs, new)
    BY <1>2 DEF ReserveRepair
  <2>4. new.status = "reserved" /\ new.from = revision
    OBVIOUS
  <2> HIDE DEF new
  <2>5. /\ Len(repairs') = k
        /\ DOMAIN repairs' = 1..k
        /\ \A j \in 1..Len(repairs) : repairs'[j] = repairs[j]
        /\ repairs'[k] = new
    BY <1>1, <2>2, <2>3, AppendProperties, LenProperties
  <2>6. ReservedRepairs' \subseteq {k}
    BY <1>1, <2>1, <2>5 DEF ReservedRepairs
  <2>7. \A e \in EffectIds : ~Outstanding(e)'
    BY <2>1 DEF Outstanding, UnresolvedEffects
  <2>8. \A j \in Ordinals : ~Unsettled(j)'
    BY <2>1 DEF Unsettled, UnresolvedEffects
  <2>9. AtMostOneOutstanding'
    BY <2>6, <2>7, <2>8 DEF AtMostOneOutstanding
  <2>10. OutstandingIsCurrent'
    BY <2>1, <2>4, <2>5, <2>6, <2>7, <2>8 DEF OutstandingIsCurrent
  <2>11. (revision <= Len(repairs))'
    BY <1>1, <2>1, <2>5, ConstantsAssumption
    DEF ConstantsAssumption, ExclusionInv, TypeOK, Revisions
  <2> QED
    BY <2>1, <2>9, <2>10, <2>11 DEF ExclusionInv
<1>3. ASSUME NEW k \in Ordinals, NEW status \in {"candidate", "failed"},
             NEW ms \in Durations \cup {NoMs}, FinishRepair(k, status, ms)
      PROVE  ExclusionInv'
  <2>1. /\ k \in ReservedRepairs
        /\ Active'
        /\ UNCHANGED <<assessments, effects>>
    BY <1>3 DEF FinishRepair, Active
  <2>2. k = Len(repairs) /\ \A j \in ReservedRepairs : j = k
    BY <2>1 DEF ExclusionInv, OutstandingIsCurrent, AtMostOneOutstanding
  <2>3. \A e \in EffectIds : ~Outstanding(e)'
    BY <2>1 DEF ExclusionInv, AtMostOneOutstanding, Outstanding
  <2>4. \A j \in Ordinals : ~Unsettled(j)'
    BY <2>1 DEF ExclusionInv, AtMostOneOutstanding, Unsettled
  <2>5. Len(repairs') = Len(repairs) /\ DOMAIN repairs' = DOMAIN repairs
    <3>1. repairs' = [repairs EXCEPT ![k] = [repairs[k] EXCEPT !.status = status, !.exec = ms]]
      BY <1>3 DEF FinishRepair
    <3>2. DOMAIN repairs' = DOMAIN repairs
      BY <3>1
    <3>3. repairs' \in Seq(Repair)
      BY <1>3, RepairTypes DEF RepairStep, TypeOK
    <3> QED
      BY <1>1, <3>2, <3>3, LenProperties
  <2>6. ReservedRepairs' = {}
    <3>1. repairs' = [repairs EXCEPT ![k].status = status, ![k].exec = ms]
      BY <1>3 DEF FinishRepair
    <3>2. repairs'[k].status = status
      BY <1>1, <2>1, <3>1, Histories DEF ReservedRepairs, Repair
    <3>3. \A j \in DOMAIN repairs \ {k} : repairs'[j] = repairs[j]
      BY <3>1
    <3> QED
      BY <2>2, <2>5, <3>2, <3>3 DEF ReservedRepairs
  <2>7. AtMostOneOutstanding'
    BY <2>3, <2>4, <2>6 DEF AtMostOneOutstanding
  <2>8. OutstandingIsCurrent'
    BY <2>3, <2>4, <2>6 DEF OutstandingIsCurrent
  <2>9. (revision <= Len(repairs))'
    BY <1>1, <1>3, <2>2, <2>5, ConstantsAssumption
    DEF ConstantsAssumption, FinishRepair, CandidateOf, ExclusionInv, TypeOK, Revisions
  <2> QED
    BY <2>1, <2>7, <2>8, <2>9 DEF ExclusionInv
<1> QED
  BY <1>2, <1>3 DEF RepairStep

\* The other commands leave effects, assessments and repairs alone; finish is
\* admitted only when none of them is outstanding.
LEMMA ExclusionOthers ==
    ASSUME TypeOK, ExclusionInv, EvidenceStep \/ FeedbackStep \/ InterventionStep
    PROVE  ExclusionInv'
<1> DEFINE Kept == /\ UNCHANGED <<revision, effects, repairs, assessments>>
                   /\ ~Active' => ~UnresolvedEffects /\ ReservedRepairs = {}
<1>1. ASSUME EvidenceStep PROVE Kept
  <2>1. \A e : RecordEvidence(e) => Kept
    BY DEF RecordEvidence, Active
  <2>2. AuthorizePublication => Kept
    BY DEF AuthorizePublication, Available, Active
  <2>3. BindCommit => Kept
    BY DEF BindCommit, Active
  <2> HIDE DEF Kept
  <2> QED
    BY <1>1, <2>1, <2>2, <2>3 DEF EvidenceStep
<1>2. ASSUME FeedbackStep PROVE Kept
  <2>1. \A ci, review : RecordFeedback(ci, review) => Kept
    BY DEF RecordFeedback, Available, Active
  <2>2. \A f, class : ClassifyFeedback(f, class) => Kept
    BY DEF ClassifyFeedback, Available, Active
  <2> HIDE DEF Kept
  <2> QED
    BY <1>2, <2>1, <2>2 DEF FeedbackStep
<1>3. ASSUME InterventionStep PROVE Kept
  <2>1. \A i : Intervene(i) => Kept
    BY DEF Intervene, Active
  <2>2. \A i : ResolveIntervention(i) => Kept
    BY DEF ResolveIntervention, Active
  <2>3. \A result : Finish(result) => Kept
    BY DEF Finish
  <2> HIDE DEF Kept
  <2> QED
    BY <1>3, <2>1, <2>2, <2>3 DEF InterventionStep
<1>4. Kept
  BY <1>1, <1>2, <1>3
<1> QED
  BY <1>4, ExclusionShrinks DEF Outstanding, Unsettled

LEMMA ExclusionInductive ==
    /\ Init => ExclusionInv
    /\ TypeOK /\ ExclusionInv /\ [Next]_vars => ExclusionInv'
<1>1. ASSUME Init PROVE ExclusionInv
  <2>1. \A id \in EffectIds : ~Outstanding(id)
    BY <1>1 DEF Init, Outstanding, Absent
  <2>2. \A k \in Ordinals : ~Unsettled(k)
    BY <1>1 DEF Init, Unsettled, NoAssessment
  <2>3. ReservedRepairs = {} /\ Len(repairs) = 0
    BY <1>1, EmptySeq DEF Init, ReservedRepairs
  <2> QED
    BY <1>1, <2>1, <2>2, <2>3
    DEF ExclusionInv, AtMostOneOutstanding, OutstandingIsCurrent, Init, Active
<1>2. ASSUME ExclusionInv, UNCHANGED vars PROVE ExclusionInv'
  <2>1. UNCHANGED <<revision, effects, repairs, assessments, outcome>>
    BY <1>2 DEF vars
  <2>2. ~Active' => ~UnresolvedEffects /\ ReservedRepairs = {}
    BY <1>2, <2>1 DEF ExclusionInv, Active
  <2> QED
    BY <1>2, <2>1, <2>2, ExclusionShrinks DEF Outstanding, Unsettled
<1> QED
  BY <1>1, <1>2, ExclusionEffects, ExclusionProgress, ExclusionRepairs, ExclusionOthers
  DEF Next

\* Whatever the callers do, one piece of external work is outstanding at most.
THEOREM Exclusion == Spec => []AtMostOneOutstanding
<1>1. ExclusionInv => AtMostOneOutstanding
  BY DEF ExclusionInv
<1> QED
  BY ExclusionInductive, TypeCorrect, <1>1, PTL DEF Spec

\* No external work outlives the candidate it was admitted for.
THEOREM Currency == Spec => []OutstandingIsCurrent
<1>1. ExclusionInv => OutstandingIsCurrent
  BY DEF ExclusionInv
<1> QED
  BY ExclusionInductive, TypeCorrect, <1>1, PTL DEF Spec

\* The record of a finished delivery never changes, although the progress
\* commands do not look at the outcome.
THEOREM Finality == Spec => TerminalIsFinal
<1>1. ASSUME TypeOK, ExclusionInv, Next PROVE Active
  <2>1. \A k \in Ordinals : Unsettled(k) => Active
    BY <1>1 DEF ExclusionInv, UnresolvedEffects
  <2>2. CASE EffectStep
    <3>1. \A id, ms : PlanEffect(id, ms) => Active
      BY DEF PlanEffect, Available
    <3>2. \A id : StartEffect(id) \/ BindEffectReceipt(id) => Active
      BY DEF StartEffect, BindEffectReceipt, Available
    <3>3. \A id, state : SettleUndelivered(id, state) => Active
      BY DEF SettleUndelivered
    <3>4. \A id, ref, ms, pull : SettleDelivered(id, ref, ms, pull) => Active
      BY DEF SettleDelivered
    <3> QED
      BY <2>2, <3>1, <3>2, <3>3, <3>4 DEF EffectStep
  <2>3. CASE EvidenceStep
    <3>1. \A e : RecordEvidence(e) => Active
      BY DEF RecordEvidence
    <3>2. AuthorizePublication \/ BindCommit => Active
      BY DEF AuthorizePublication, BindCommit, Available
    <3> QED
      BY <2>3, <3>1, <3>2 DEF EvidenceStep
  <2>4. CASE FeedbackStep
    BY <2>4 DEF FeedbackStep, RecordFeedback, ClassifyFeedback, Available
  <2>5. CASE ProgressStep
    BY <2>1, <2>5 DEF ProgressStep, ReserveProgress, StartProgress, BindSubmission,
                UncertainProgress, SettleProgress, Unsettled, Available
  <2>6. CASE RepairStep
    BY <2>6 DEF RepairStep, ReserveRepair, FinishRepair, Available
  <2>7. CASE InterventionStep
    BY <2>7 DEF InterventionStep, Intervene, ResolveIntervention, Finish
  <2> QED
    BY <1>1, <2>2, <2>3, <2>4, <2>5, <2>6, <2>7 DEF Next
<1>2. TypeOK /\ ExclusionInv /\ [Next]_vars => [Active]_vars
  BY <1>1
<1> QED
  BY ExclusionInductive, TypeCorrect, <1>2, PTL DEF Spec, TerminalIsFinal

----------------------------------------------------------------------------
(* History: what has been recorded is never rewritten. *)

Kept ==
    /\ \A id \in EffectIds : effects[id].state = "delivered" => effects'[id] = effects[id]
    /\ IsPrefix(evidence, evidence')
    /\ commits \subseteq commits'
    /\ \A k \in DOMAIN repairs : k \notin ReservedRepairs => repairs'[k] = repairs[k]
    /\ \A k \in Ordinals :
           assessments[k].state = "settled" => assessments'[k] = assessments[k]
    /\ pr # None => pr' = pr
    /\ publication # None => publication' = publication

\* The evidence of a step that records none, or one more.
LEMMA EvidencePrefix ==
    ASSUME TypeOK,
           \/ evidence' = evidence
           \/ \E e \in Evidence : evidence' = Append(evidence, e)
    PROVE  /\ IsPrefix(evidence, evidence')
           /\ DOMAIN evidence \subseteq DOMAIN evidence'
           /\ \A i \in DOMAIN evidence : evidence'[i] = evidence[i]
<1>1. evidence \in Seq(Evidence) /\ Len(evidence) \in Nat
      /\ DOMAIN evidence = 1..Len(evidence)
  BY Histories DEF TypeOK
<1>2. CASE evidence' = evidence
  BY <1>1, <1>2 DEF IsPrefix
<1>3. ASSUME NEW e \in Evidence, evidence' = Append(evidence, e)
      PROVE  /\ IsPrefix(evidence, evidence')
             /\ DOMAIN evidence \subseteq DOMAIN evidence'
             /\ \A i \in DOMAIN evidence : evidence'[i] = evidence[i]
  <2>1. /\ evidence' \in Seq(Evidence)
        /\ Len(evidence') = Len(evidence) + 1
        /\ DOMAIN evidence' = 1..Len(evidence')
        /\ \A i \in 1..Len(evidence) : evidence'[i] = evidence[i]
    <3>1. /\ Append(evidence, e) \in Seq(Evidence)
          /\ Len(Append(evidence, e)) = Len(evidence) + 1
          /\ \A i \in 1..Len(evidence) : Append(evidence, e)[i] = evidence[i]
      BY <1>1, AppendProperties
    <3>2. DOMAIN Append(evidence, e) = 1..Len(Append(evidence, e))
      BY <3>1, LenProperties
    <3> QED
      BY <1>3, <3>1, <3>2
  <2> DEFINE n == Len(evidence)
             s == SubSeq(evidence, 1, n)
             t == SubSeq(evidence', 1, n)
  <2>2. n \in Int /\ 1 \in Int /\ n - 1 + 1 = n
    BY <1>1
  <2>3. \A i \in 1..n : evidence[i] \in Evidence /\ evidence'[i] \in Evidence
    BY <1>1, <2>1, Histories
  <2>4. /\ s \in Seq(Evidence) /\ t \in Seq(Evidence)
        /\ Len(s) = Len(t)
        /\ Len(s) = IF 1 <= n THEN n - 1 + 1 ELSE 0
        /\ \A i \in 1..n - 1 + 1 : s[i] = evidence[1 + i - 1]
        /\ \A i \in 1..n - 1 + 1 : t[i] = evidence'[1 + i - 1]
    <3> HIDE DEF n
    <3>1. \A i \in 1..n : evidence[i] \in Evidence
      BY <2>3
    <3>2. \A i \in 1..n : evidence'[i] \in Evidence
      BY <2>3
    <3>3. /\ s \in Seq(Evidence)
          /\ Len(s) = IF 1 <= n THEN n - 1 + 1 ELSE 0
          /\ \A i \in 1..n - 1 + 1 : s[i] = evidence[1 + i - 1]
      BY <2>2, <3>1, SubSeqProperties
    <3>4. /\ t \in Seq(Evidence)
          /\ Len(t) = IF 1 <= n THEN n - 1 + 1 ELSE 0
          /\ \A i \in 1..n - 1 + 1 : t[i] = evidence'[1 + i - 1]
      BY <2>2, <3>2, SubSeqProperties
    <3> QED
      BY <3>3, <3>4
  <2>5. \A i \in 1..Len(s) : s[i] = t[i]
    BY <1>1, <2>1, <2>4
  <2>6. s = t
    <3> HIDE DEF s, t
    <3> QED
      BY <2>4, <2>5, SeqEqual
  <2> QED
    BY <1>1, <2>1, <2>6 DEF IsPrefix
<1> QED
  BY <1>2, <1>3

LEMMA EvidenceGrows ==
    ASSUME TypeOK, [Next]_vars
    PROVE  \/ evidence' = evidence
           \/ \E e \in Evidence : evidence' = Append(evidence, e)
<1>1. CASE EvidenceStep
  <2>1. ASSUME NEW id \in EffectIds, NEW result \in EvidenceResults,
               NEW verification \in Citable(id), NEW independent \in BOOLEAN,
               RecordEvidence([effect |-> id, result |-> result,
                               independent |-> independent,
                               verification |-> verification])
        PROVE  \E e \in Evidence : evidence' = Append(evidence, e)
    <3> DEFINE e == [effect |-> id, result |-> result, independent |-> independent,
                     verification |-> verification]
    <3>1. verification \in EffectIds \cup {NoEffect}
      BY Histories DEF Citable, Evidence
    <3>2. e \in Evidence
      BY <3>1 DEF Evidence
    <3> QED
      BY <2>1, <3>2 DEF RecordEvidence
  <2>2. \A id : (IF KindOf(id) = "review" THEN BOOLEAN ELSE {TRUE}) \subseteq BOOLEAN
    OBVIOUS
  <2>3. AuthorizePublication \/ BindCommit => evidence' = evidence
    BY DEF AuthorizePublication, BindCommit
  <2> QED
    BY <1>1, <2>1, <2>2, <2>3 DEF EvidenceStep
<1>2. CASE EffectStep
  <2>1. \A id, ms : PlanEffect(id, ms) => evidence' = evidence
    BY DEF PlanEffect
  <2>2. \A id : StartEffect(id) \/ BindEffectReceipt(id) => evidence' = evidence
    BY DEF StartEffect, BindEffectReceipt
  <2>3. \A id, state : SettleUndelivered(id, state) => evidence' = evidence
    BY DEF SettleUndelivered
  <2>4. \A id, ref, ms, pull : SettleDelivered(id, ref, ms, pull) => evidence' = evidence
    BY DEF SettleDelivered
  <2> QED
    BY <1>2, <2>1, <2>2, <2>3, <2>4 DEF EffectStep
<1>3. CASE FeedbackStep
  BY <1>3 DEF FeedbackStep, RecordFeedback, ClassifyFeedback
<1>4. CASE ProgressStep
  BY <1>4 DEF ProgressStep, ReserveProgress, StartProgress, BindSubmission,
              UncertainProgress, SettleProgress
<1>5. CASE RepairStep
  BY <1>5 DEF RepairStep, ReserveRepair, FinishRepair
<1>6. CASE InterventionStep
  BY <1>6 DEF InterventionStep, Intervene, ResolveIntervention, Finish
<1>7. CASE UNCHANGED vars
  BY <1>7 DEF vars
<1> QED
  BY <1>1, <1>2, <1>3, <1>4, <1>5, <1>6, <1>7 DEF Next

LEMMA EffectsKeep ==
    ASSUME TypeOK, EffectStep
    PROVE  /\ \A id \in EffectIds : effects[id].state = "delivered" => effects'[id] = effects[id]
           /\ pr # None => pr' = pr
           /\ UNCHANGED <<commits, repairs, assessments, publication>>
<1>1. effects \in [EffectIds -> Effect]
  BY DEF TypeOK
<1>2. PICK id \in EffectIds :
        \/ \E ms \in 0..MaxEffectMs : PlanEffect(id, ms)
        \/ StartEffect(id)
        \/ BindEffectReceipt(id)
        \/ \E state \in {"uncertain", "planned"} : SettleUndelivered(id, state)
        \/ \E ref \in ReceiptsOf(KindOf(id)), ms \in Durations \cup {NoMs},
              pull \in PullRequests \cup {None} : SettleDelivered(id, ref, ms, pull)
  BY DEF EffectStep
<1> DEFINE OneEffect == /\ effects[id].state # "delivered"
                        /\ \A e \in EffectIds \ {id} : effects'[e] = effects[e]
                        /\ pr # None => pr' = pr
                        /\ UNCHANGED <<commits, repairs, assessments, publication>>
<1>3. \A ms : PlanEffect(id, ms) => OneEffect
  BY <1>1 DEF PlanEffect
<1>4. StartEffect(id) => OneEffect
  BY <1>1 DEF StartEffect, Startable
<1>5. BindEffectReceipt(id) => OneEffect
  BY <1>1 DEF BindEffectReceipt
<1>6. \A state : SettleUndelivered(id, state) => OneEffect
  BY <1>1 DEF SettleUndelivered, Outstanding
<1>7. ASSUME NEW ref, NEW ms, NEW pull \in PullRequests \cup {None},
             SettleDelivered(id, ref, ms, pull)
      PROVE  OneEffect
  <2>1. pr # None => pr' = pr
    BY <1>7 DEF SettleDelivered, PrReceipt
  <2> QED
    BY <1>1, <1>7, <2>1 DEF SettleDelivered, Outstanding
<1>8. OneEffect
  <2> HIDE DEF OneEffect
  <2> QED
    BY <1>2, <1>3, <1>4, <1>5, <1>6, <1>7
<1> QED
  BY <1>8

LEMMA ProgressKeeps ==
    ASSUME TypeOK, ProgressStep
    PROVE  /\ \A k \in Ordinals :
                 assessments[k].state = "settled" => assessments'[k] = assessments[k]
           /\ UNCHANGED <<effects, commits, repairs, publication, pr>>
<1>1. assessments \in [Ordinals -> Assessment]
  BY DEF TypeOK
<1>2. CASE ReserveProgress
  <2> DEFINE k == Len(repairs) + 1
  <2>1. \A j \in Ordinals : j # k => assessments'[j] = assessments[j]
    BY <1>1, <1>2 DEF ReserveProgress
  <2>2. assessments[k].state = "absent"
    BY <1>2 DEF ReserveProgress
  <2> QED
    BY <1>2, <2>1, <2>2 DEF ReserveProgress
<1>3. ASSUME NEW k \in Ordinals, StartProgress(k)
      PROVE  /\ assessments[k].state # "settled"
             /\ \A j \in Ordinals : j # k => assessments'[j] = assessments[j]
             /\ UNCHANGED <<effects, commits, repairs, publication, pr>>
  BY <1>1, <1>3 DEF StartProgress
<1>4. ASSUME NEW k \in Ordinals, BindSubmission(k)
      PROVE  /\ assessments[k].state # "settled"
             /\ \A j \in Ordinals : j # k => assessments'[j] = assessments[j]
             /\ UNCHANGED <<effects, commits, repairs, publication, pr>>
  BY <1>1, <1>4 DEF BindSubmission
<1>5. ASSUME NEW k \in Ordinals, UncertainProgress(k)
      PROVE  /\ assessments[k].state # "settled"
             /\ \A j \in Ordinals : j # k => assessments'[j] = assessments[j]
             /\ UNCHANGED <<effects, commits, repairs, publication, pr>>
  BY <1>1, <1>5 DEF UncertainProgress
<1>6. ASSUME NEW k \in Ordinals, NEW decision, NEW ms, SettleProgress(k, decision, ms)
      PROVE  /\ assessments[k].state # "settled"
             /\ \A j \in Ordinals : j # k => assessments'[j] = assessments[j]
             /\ UNCHANGED <<effects, commits, repairs, publication, pr>>
  BY <1>1, <1>6 DEF SettleProgress
<1>7. CASE \E k \in Ordinals :
              /\ assessments[k].state # "settled"
              /\ \A j \in Ordinals : j # k => assessments'[j] = assessments[j]
              /\ UNCHANGED <<effects, commits, repairs, publication, pr>>
  BY <1>7
<1> QED
  BY <1>2, <1>3, <1>4, <1>5, <1>6, <1>7 DEF ProgressStep

LEMMA RepairsKeep ==
    ASSUME TypeOK, RepairStep
    PROVE  /\ \A k \in DOMAIN repairs : k \notin ReservedRepairs => repairs'[k] = repairs[k]
           /\ UNCHANGED <<effects, commits, assessments, publication, pr>>
<1>1. repairs \in Seq(Repair) /\ DOMAIN repairs = 1..Len(repairs)
  BY Histories DEF TypeOK
<1>2. ASSUME NEW ms \in 1..MaxEffectMs, ReserveRepair(ms)
      PROVE  /\ \A k \in DOMAIN repairs : repairs'[k] = repairs[k]
             /\ UNCHANGED <<effects, commits, assessments, publication, pr>>
  <2> DEFINE new == [status |-> "reserved", from |-> revision,
                     reserved |-> ms, exec |-> NoMs]
  <2>1. new \in Repair
    BY ConstantsAssumption DEF ConstantsAssumption, Repair, TypeOK
  <2>2. repairs' = Append(repairs, new)
    BY <1>2 DEF ReserveRepair
  <2> HIDE DEF new
  <2>3. \A k \in 1..Len(repairs) : Append(repairs, new)[k] = repairs[k]
    BY <1>1, <2>1, AppendProperties
  <2> QED
    BY <1>1, <1>2, <2>2, <2>3 DEF ReserveRepair
<1>3. ASSUME NEW k \in Ordinals, NEW status, NEW ms, FinishRepair(k, status, ms)
      PROVE  /\ k \in ReservedRepairs
             /\ \A j \in DOMAIN repairs : j # k => repairs'[j] = repairs[j]
             /\ UNCHANGED <<effects, commits, assessments, publication, pr>>
  BY <1>3 DEF FinishRepair
<1> QED
  BY <1>2, <1>3 DEF RepairStep

LEMMA StepKeeps == TypeOK /\ [Next]_vars => Kept
<1> SUFFICES ASSUME TypeOK, [Next]_vars PROVE Kept
  OBVIOUS
<1>1. IsPrefix(evidence, evidence')
  BY EvidenceGrows, EvidencePrefix
<1>2. CASE EffectStep
  BY <1>1, <1>2, EffectsKeep DEF Kept
<1>3. CASE EvidenceStep
  <2> DEFINE Rest == /\ UNCHANGED <<effects, repairs, assessments, pr>>
                     /\ commits \subseteq commits'
                     /\ publication # None => publication' = publication
  <2>1. \A e : RecordEvidence(e) => Rest
    BY DEF RecordEvidence
  <2>2. AuthorizePublication => Rest
    BY DEF AuthorizePublication
  <2>3. BindCommit => Rest
    BY DEF BindCommit
  <2>4. Rest
    <3> HIDE DEF Rest
    <3> QED
      BY <1>3, <2>1, <2>2, <2>3 DEF EvidenceStep
  <2> QED
    BY <1>1, <2>4 DEF Kept
<1>4. CASE FeedbackStep
  BY <1>1, <1>4 DEF FeedbackStep, RecordFeedback, ClassifyFeedback, Kept
<1>5. CASE ProgressStep
  BY <1>1, <1>5, ProgressKeeps DEF Kept
<1>6. CASE RepairStep
  BY <1>1, <1>6, RepairsKeep DEF Kept
<1>7. CASE InterventionStep
  BY <1>1, <1>7 DEF InterventionStep, Intervene, ResolveIntervention, Finish, Kept
<1>8. CASE UNCHANGED vars
  BY <1>1, <1>8 DEF vars, Kept
<1> QED
  BY <1>2, <1>3, <1>4, <1>5, <1>6, <1>7, <1>8 DEF Next

\* Delivered effects, evidence, commits, finished repairs, settled assessments,
\* the pull request and the grant keep their values in every later record.
THEOREM History == Spec => HistoryIsKept
<1>1. TypeOK /\ [Next]_vars => [Kept]_vars
  BY StepKeeps
<1> QED
  BY TypeCorrect, <1>1, PTL DEF Spec, HistoryIsKept, Kept

----------------------------------------------------------------------------
(* Publication.  The grant is made for the current revision, revisions only  *)
(* grow, and a pull request waits for the push of its own revision: that is   *)
(* what ties the pull request to the granted push.                            *)

PublicationInv ==
    /\ PublishedIsCertified
    /\ GrantCoversPublication
    /\ PullRequestWasGranted
    /\ publication # None => publication.rev <= revision
    /\ \A id \in EffectIds :
           KindOf(id) \in {"create-pr", "update-pr"} /\ Outstanding(id) =>
               effects[<<"push", RevisionOf(id), 1>>].state = "delivered"

LEMMA CertifiedStable ==
    ASSUME TypeOK, [Next]_vars, NEW rev, Certified(rev)
    PROVE  Certified(rev)'
<1>1. PICK i \in DOMAIN evidence, j \in DOMAIN evidence :
          /\ KindOf(evidence[i].effect) = "verification"
          /\ KindOf(evidence[j].effect) = "review"
          /\ RevisionOf(evidence[i].effect) = rev
          /\ RevisionOf(evidence[j].effect) = rev
          /\ evidence[i].result = "passed"
          /\ evidence[j].result = "passed"
          /\ evidence[j].verification = evidence[i].effect
          /\ evidence[j].independent
          /\ \A id \in {evidence[i].effect, evidence[j].effect} :
                 effects[id].state = "delivered" /\ effects[id].receipt = "own"
  BY DEF Certified
<1>2. i \in DOMAIN evidence' /\ j \in DOMAIN evidence'
      /\ evidence'[i] = evidence[i] /\ evidence'[j] = evidence[j]
  BY EvidenceGrows, EvidencePrefix
<1>3. evidence[i].effect \in EffectIds /\ evidence[j].effect \in EffectIds
  BY Histories DEF Evidence
<1>4. \A id \in {evidence[i].effect, evidence[j].effect} : effects'[id] = effects[id]
  BY <1>1, <1>3, StepKeeps DEF Kept
<1>5. \A id \in {evidence'[i].effect, evidence'[j].effect} :
          effects'[id].state = "delivered" /\ effects'[id].receipt = "own"
  BY <1>1, <1>2, <1>4
<1> QED
  BY <1>1, <1>2, <1>5 DEF Certified

LEMMA PassesCertify == CurrentPasses => Certified(revision)
BY DEF CurrentPasses, Certified, IsLatest, CurrentEvidence, EvidenceOf, SettledEvidence

LEMMA RevisionGrows ==
    ASSUME TypeOK, ExclusionInv, [Next]_vars
    PROVE  revision' >= revision
<1>1. revision \in Nat
  BY ConstantsAssumption DEF ConstantsAssumption, TypeOK, Revisions
<1>2. ASSUME NEW k, NEW status, NEW ms, FinishRepair(k, status, ms)
      PROVE  revision' >= revision
  <2>1. k = Len(repairs)
    BY <1>2 DEF FinishRepair, ExclusionInv, OutstandingIsCurrent
  <2>2. revision <= Len(repairs) /\ Len(repairs) \in Nat
    BY Histories DEF ExclusionInv
  <2>3. revision' \in {revision, k}
    BY <1>2 DEF FinishRepair, CandidateOf
  <2> QED
    BY <1>1, <2>1, <2>2, <2>3
<1>3. ASSUME RepairStep PROVE revision' >= revision
  <2>1. \A ms : ReserveRepair(ms) => revision' = revision
    BY DEF ReserveRepair
  <2>2. CASE \E ms : ReserveRepair(ms)
    BY <1>1, <2>1, <2>2
  <2>3. CASE \E k, status, ms : FinishRepair(k, status, ms)
    BY <1>2, <2>3
  <2> QED
    BY <1>3, <2>2, <2>3 DEF RepairStep
<1>4. ASSUME EffectStep PROVE revision' = revision
  <2>1. \A id, ms : PlanEffect(id, ms) => revision' = revision
    BY DEF PlanEffect
  <2>2. \A id : StartEffect(id) \/ BindEffectReceipt(id) => revision' = revision
    BY DEF StartEffect, BindEffectReceipt
  <2>3. \A id, state : SettleUndelivered(id, state) => revision' = revision
    BY DEF SettleUndelivered
  <2>4. \A id, ref, ms, pull : SettleDelivered(id, ref, ms, pull) => revision' = revision
    BY DEF SettleDelivered
  <2> QED
    BY <1>4, <2>1, <2>2, <2>3, <2>4 DEF EffectStep
<1>5. ASSUME EvidenceStep PROVE revision' = revision
  <2>1. \A e : RecordEvidence(e) => revision' = revision
    BY DEF RecordEvidence
  <2>2. AuthorizePublication \/ BindCommit => revision' = revision
    BY DEF AuthorizePublication, BindCommit
  <2> QED
    BY <1>5, <2>1, <2>2 DEF EvidenceStep
<1>6. ASSUME FeedbackStep PROVE revision' = revision
  BY <1>6 DEF FeedbackStep, RecordFeedback, ClassifyFeedback
<1>7. ASSUME ProgressStep PROVE revision' = revision
  BY <1>7 DEF ProgressStep, ReserveProgress, StartProgress, BindSubmission,
                    UncertainProgress, SettleProgress
<1>8. ASSUME InterventionStep PROVE revision' = revision
  BY <1>8 DEF InterventionStep, Intervene, ResolveIntervention, Finish
<1>9. ASSUME UNCHANGED vars PROVE revision' = revision
  BY <1>9 DEF vars
<1>10. CASE EffectStep \/ EvidenceStep \/ FeedbackStep \/ ProgressStep
              \/ InterventionStep \/ UNCHANGED vars
  <2>1. revision' = revision
    BY <1>4, <1>5, <1>6, <1>7, <1>8, <1>9, <1>10
  <2> QED
    BY <1>1, <2>1
<1> QED
  BY <1>1, <1>3, <1>10 DEF Next

\* A step that admits no effect and moves no pull request or grant.
LEMMA PublicationQuiet ==
    ASSUME TypeOK, ExclusionInv, PublicationInv, [Next]_vars,
           UNCHANGED <<pr, publication>>,
           \A id \in EffectIds : /\ effects'[id].state # "absent" => effects[id].state # "absent"
                                 /\ Outstanding(id)' => Outstanding(id)
    PROVE  PublicationInv'
<1>1. \A id \in EffectIds : effects[id].state = "delivered" => effects'[id] = effects[id]
  BY StepKeeps DEF Kept
<1>2. PublishedIsCertified'
  BY CertifiedStable DEF PublicationInv, PublishedIsCertified
<1>3. GrantCoversPublication'
  BY DEF PublicationInv, GrantCoversPublication
<1>4. \A rev \in Revisions : <<"push", rev, 1>> \in EffectIds
  BY PublicationId DEF PublicationKinds
<1>5. PullRequestWasGranted'
  <2>1. publication # None => publication.rev \in Revisions
    BY DEF TypeOK
  <2> QED
    BY <1>1, <1>4, <2>1 DEF PublicationInv, PullRequestWasGranted
<1>6. (publication # None => publication.rev <= revision)'
  <2>1. revision' >= revision /\ revision \in Int /\ revision' \in Int
    <3>1. TypeOK'
      BY StepTypes
    <3> QED
      BY <3>1, RevisionGrows, ConstantsAssumption DEF ConstantsAssumption, TypeOK, Revisions
  <2>2. publication # None => publication.rev \in Int /\ publication.rev <= revision
    BY ConstantsAssumption DEF ConstantsAssumption, PublicationInv, TypeOK, Revisions
  <2> QED
    BY <2>1, <2>2
<1>7. \A id \in EffectIds :
          KindOf(id) \in {"create-pr", "update-pr"} /\ Outstanding(id)' =>
              effects'[<<"push", RevisionOf(id), 1>>].state = "delivered"
  BY <1>1, <1>4, EffectIdFields DEF PublicationInv
<1> QED
  BY <1>2, <1>3, <1>5, <1>6, <1>7 DEF PublicationInv

LEMMA PublicationPlan ==
    ASSUME TypeOK, ExclusionInv, PublicationInv,
           NEW id \in EffectIds, NEW ms \in 0..MaxEffectMs, PlanEffect(id, ms)
    PROVE  PublicationInv'
<1> DEFINE kind == KindOf(id)
<1>1. [Next]_vars
  BY DEF Next, EffectStep
<1>2. /\ \A e \in EffectIds : e # id => effects'[e] = effects[e]
      /\ effects[id].state = "absent" /\ effects'[id].state = "planned"
      /\ RevisionOf(id) = revision
      /\ kind \in PublicationKinds => CurrentPasses /\ PublicationAuthorized
      /\ UNCHANGED <<revision, pr, publication, evidence>>
  BY DEF PlanEffect, PublicationGuard, TypeOK, Absent
<1>3. \A e \in EffectIds : effects[e].state = "delivered" => effects'[e] = effects[e]
  BY <1>2
<1>4. \A rev \in Revisions : <<"push", rev, 1>> \in EffectIds
  BY PublicationId DEF PublicationKinds
<1>5. PublishedIsCertified'
  <2>1. \A rev : Certified(rev) => Certified(rev)'
    BY <1>1, CertifiedStable
  <2>2. kind \in PublicationKinds => Certified(RevisionOf(id))
    BY <1>2, PassesCertify
  <2> QED
    BY <1>2, <2>1, <2>2 DEF PublicationInv, PublishedIsCertified
<1>6. GrantCoversPublication'
  <2>1. kind \in PublicationKinds =>
            /\ publication # None
            /\ RevisionOf(id) >= publication.rev
            /\ pr = None => RevisionOf(id) = publication.rev
    <3>1. publication # None => publication.rev <= revision
                                /\ publication.rev \in Int /\ revision \in Int
      BY ConstantsAssumption DEF ConstantsAssumption, PublicationInv, TypeOK, Revisions
    <3> QED
      BY <1>2, <3>1 DEF PublicationAuthorized
  <2> QED
    BY <1>2, <2>1 DEF PublicationInv, GrantCoversPublication
<1>7. PullRequestWasGranted'
  <2>1. publication # None => publication.rev \in Revisions
    BY DEF TypeOK
  <2> QED
    BY <1>2, <1>3, <1>4, <2>1 DEF PublicationInv, PullRequestWasGranted
<1>8. \A e \in EffectIds :
          KindOf(e) \in {"create-pr", "update-pr"} /\ Outstanding(e)' =>
              effects'[<<"push", RevisionOf(e), 1>>].state = "delivered"
  <2>1. \A e \in EffectIds : Outstanding(e)' => Outstanding(e)
    BY <1>2 DEF Outstanding
  <2> QED
    BY <1>3, <1>4, <2>1, EffectIdFields DEF PublicationInv
<1> QED
  BY <1>2, <1>5, <1>6, <1>7, <1>8 DEF PublicationInv

LEMMA PublicationStart ==
    ASSUME TypeOK, ExclusionInv, PublicationInv, NEW id \in EffectIds, StartEffect(id)
    PROVE  PublicationInv'
<1>1. [Next]_vars
  BY DEF Next, EffectStep
<1>2. /\ \A e \in EffectIds : e # id => effects'[e] = effects[e]
      /\ effects[id].state = "planned" /\ effects'[id].state = "in-flight"
      /\ RevisionOf(id) = revision
      /\ KindOf(id) \in {"create-pr", "update-pr"} =>
             effects[<<"push", revision, 1>>].state = "delivered"
      /\ UNCHANGED <<revision, pr, publication, evidence>>
  BY DEF StartEffect, Startable, PushReceipt, TypeOK, Effect
<1>3. \A rev \in Revisions : <<"push", rev, 1>> \in EffectIds
  BY PublicationId DEF PublicationKinds
<1>4. PublishedIsCertified'
  BY <1>1, <1>2, CertifiedStable DEF PublicationInv, PublishedIsCertified
<1>5. GrantCoversPublication'
  BY <1>2 DEF PublicationInv, GrantCoversPublication
<1>6. PullRequestWasGranted'
  <2>1. publication # None => publication.rev \in Revisions
    BY DEF TypeOK
  <2> QED
    BY <1>2, <1>3, <2>1 DEF PublicationInv, PullRequestWasGranted
<1>7. \A e \in EffectIds :
          KindOf(e) \in {"create-pr", "update-pr"} /\ Outstanding(e)' =>
              effects'[<<"push", RevisionOf(e), 1>>].state = "delivered"
  BY <1>2, <1>3, EffectIdFields DEF PublicationInv, Outstanding
<1> QED
  BY <1>2, <1>4, <1>5, <1>6, <1>7 DEF PublicationInv

LEMMA PublicationSettle ==
    ASSUME TypeOK, ExclusionInv, PublicationInv, NEW id \in EffectIds,
           NEW ref \in ReceiptsOf(KindOf(id)), NEW ms \in Durations \cup {NoMs},
           NEW pull \in PullRequests \cup {None}, SettleDelivered(id, ref, ms, pull)
    PROVE  PublicationInv'
<1>1. [Next]_vars
  <2>1. Outstanding(id)
    BY DEF SettleDelivered
  <2> QED
    BY <2>1 DEF Next, EffectStep
<1>2. /\ \A e \in EffectIds : e # id => effects'[e] = effects[e]
      /\ Outstanding(id) /\ effects'[id].state = "delivered"
      /\ pr' # pr => KindOf(id) \in {"create-pr", "update-pr"}
      /\ pr # None => pr' # None
      /\ UNCHANGED <<revision, publication, evidence>>
  BY DEF SettleDelivered, PrReceipt, TypeOK, Effect
<1>3. \A rev \in Revisions : <<"push", rev, 1>> \in EffectIds
  BY PublicationId DEF PublicationKinds
<1>4. PublishedIsCertified'
  BY <1>1, <1>2, CertifiedStable DEF PublicationInv, PublishedIsCertified, Outstanding
<1>5. GrantCoversPublication'
  BY <1>2 DEF PublicationInv, GrantCoversPublication, Outstanding
<1>6. \A e \in EffectIds : effects[e].state = "delivered" => effects'[e] = effects[e]
  BY <1>1, StepKeeps DEF Kept
<1>7. PullRequestWasGranted'
  <2>1. publication # None => publication.rev \in Revisions
    BY DEF TypeOK
  <2>2. CASE pr' = pr
    BY <1>2, <1>3, <1>6, <2>1, <2>2 DEF PublicationInv, PullRequestWasGranted
  <2>3. CASE pr = None /\ pr' # pr
    <3>1. publication # None /\ RevisionOf(id) = publication.rev
      BY <1>2, <2>3
      DEF PublicationInv, GrantCoversPublication, Outstanding, PublicationKinds
    <3>2. effects[<<"push", RevisionOf(id), 1>>].state = "delivered"
      BY <1>2, <2>3 DEF PublicationInv
    <3> QED
      BY <1>2, <1>3, <1>6, <2>1, <3>1, <3>2 DEF PullRequestWasGranted
  <2>4. pr # None => pr' = pr
    BY <1>1, StepKeeps DEF Kept
  <2> QED
    BY <2>2, <2>3, <2>4
<1>8. \A e \in EffectIds :
          KindOf(e) \in {"create-pr", "update-pr"} /\ Outstanding(e)' =>
              effects'[<<"push", RevisionOf(e), 1>>].state = "delivered"
  BY <1>2, <1>3, <1>6, EffectIdFields DEF PublicationInv, Outstanding
<1> QED
  BY <1>2, <1>4, <1>5, <1>7, <1>8 DEF PublicationInv

\* Before the grant there is neither a publication effect nor a pull request.
LEMMA PublicationGrant ==
    ASSUME TypeOK, ExclusionInv, PublicationInv, AuthorizePublication
    PROVE  PublicationInv'
<1>1. /\ publication = None
      /\ publication'.rev = revision
      /\ UNCHANGED <<revision, effects, pr, evidence>>
  BY DEF AuthorizePublication
<1>2. pr = None
  BY <1>1 DEF PublicationInv, PullRequestWasGranted
<1>3. \A id \in EffectIds : KindOf(id) \in PublicationKinds => effects[id].state = "absent"
  BY <1>1 DEF PublicationInv, GrantCoversPublication
<1>4. revision \in Int
  BY ConstantsAssumption DEF ConstantsAssumption, TypeOK, Revisions
<1>5. PublishedIsCertified' /\ GrantCoversPublication'
  BY <1>1, <1>3 DEF PublishedIsCertified, GrantCoversPublication
<1>6. PullRequestWasGranted'
  BY <1>1, <1>2 DEF PullRequestWasGranted
<1>7. \A id \in EffectIds :
          KindOf(id) \in {"create-pr", "update-pr"} => ~Outstanding(id)'
  BY <1>1, <1>3 DEF Outstanding, PublicationKinds
<1> QED
  BY <1>1, <1>4, <1>5, <1>6, <1>7 DEF PublicationInv

LEMMA PublicationInductive ==
    /\ Init => PublicationInv
    /\ TypeOK /\ ExclusionInv /\ PublicationInv /\ [Next]_vars => PublicationInv'
<1>1. ASSUME Init PROVE PublicationInv
  <2>1. \A id \in EffectIds : effects[id].state = "absent"
    BY <1>1 DEF Init, Absent
  <2> QED
    BY <1>1, <2>1
    DEF Init, PublicationInv, PublishedIsCertified, GrantCoversPublication,
        PullRequestWasGranted, Outstanding
<1>2. SUFFICES ASSUME TypeOK, ExclusionInv, PublicationInv, [Next]_vars
               PROVE  PublicationInv'
  BY <1>1
<1>3. ASSUME UNCHANGED <<effects, pr, publication>> PROVE PublicationInv'
  BY <1>2, <1>3, PublicationQuiet DEF Outstanding
<1>4. CASE EffectStep
  <2>1. effects \in [EffectIds -> Effect]
    BY <1>2 DEF TypeOK
  <2>2. ASSUME NEW id \in EffectIds, BindEffectReceipt(id) PROVE PublicationInv'
    BY <1>2, <2>1, <2>2, PublicationQuiet DEF BindEffectReceipt, Outstanding
  <2>3. ASSUME NEW id \in EffectIds, NEW state, SettleUndelivered(id, state)
        PROVE  PublicationInv'
    BY <1>2, <2>1, <2>3, PublicationQuiet DEF SettleUndelivered, Outstanding
  <2> QED
    BY <1>2, <1>4, <2>2, <2>3, PublicationPlan, PublicationStart, PublicationSettle
    DEF EffectStep
<1>5. CASE EvidenceStep
  <2>1. \A e : RecordEvidence(e) => UNCHANGED <<effects, pr, publication>>
    BY DEF RecordEvidence
  <2>2. BindCommit => UNCHANGED <<effects, pr, publication>>
    BY DEF BindCommit
  <2> QED
    BY <1>2, <1>3, <1>5, <2>1, <2>2, PublicationGrant DEF EvidenceStep
<1>6. CASE FeedbackStep
  BY <1>3, <1>6 DEF FeedbackStep, RecordFeedback, ClassifyFeedback
<1>7. CASE ProgressStep
  BY <1>2, <1>3, <1>7, ProgressKeeps
<1>8. CASE RepairStep
  BY <1>2, <1>3, <1>8, RepairsKeep
<1>9. CASE InterventionStep
  BY <1>3, <1>9 DEF InterventionStep, Intervene, ResolveIntervention, Finish
<1>10. CASE UNCHANGED vars
  BY <1>3, <1>10 DEF vars
<1> QED
  BY <1>2, <1>4, <1>5, <1>6, <1>7, <1>8, <1>9, <1>10 DEF Next

\* Everything prepared for publication passed verification and an independent
\* review of that verification.
THEOREM Certification == Spec => []PublishedIsCertified
<1>1. PublicationInv => PublishedIsCertified
  BY DEF PublicationInv
<1> QED
  BY PublicationInductive, ExclusionInductive, TypeCorrect, <1>1, PTL DEF Spec

\* Until the granted candidate's pull request exists nothing else is published.
THEOREM Grant == Spec => []GrantCoversPublication
<1>1. PublicationInv => GrantCoversPublication
  BY DEF PublicationInv
<1> QED
  BY PublicationInductive, ExclusionInductive, TypeCorrect, <1>1, PTL DEF Spec

\* A pull request is bound only after the granted candidate has been pushed.
THEOREM GrantedPullRequest == Spec => []PullRequestWasGranted
<1>1. PublicationInv => PullRequestWasGranted
  BY DEF PublicationInv
<1> QED
  BY PublicationInductive, ExclusionInductive, TypeCorrect, <1>1, PTL DEF Spec

----------------------------------------------------------------------------
(* Approval.  RepairIsApproved is inductive with the exclusion: an approval is *)
(* bound to the repairs before its own, and a repair is finished only while it *)
(* is the last one.                                                           *)

\* The beginnings of two sequences that agree there.
LEMMA SamePrefix ==
    ASSUME NEW S, NEW s \in Seq(S), NEW t \in Seq(S), NEW m \in Int,
           m <= Len(s), m <= Len(t), \A i \in 1..m : t[i] = s[i]
    PROVE  SubSeq(t, 1, m) = SubSeq(s, 1, m)
<1>1. /\ Len(s) \in Nat /\ Len(t) \in Nat
      /\ \A i \in 1..m : s[i] \in S /\ t[i] \in S
  BY LenProperties, ElementOfSeq
<1>2. CASE m < 1
  BY <1>2, SubSeqEmpty
<1>3. CASE m >= 1
  <2>1. /\ SubSeq(s, 1, m) \in Seq(S) /\ Len(SubSeq(s, 1, m)) = m
        /\ \A i \in 1..m : SubSeq(s, 1, m)[i] = s[i]
    BY <1>1, <1>3, SubSeqProperties
  <2>2. /\ SubSeq(t, 1, m) \in Seq(S) /\ Len(SubSeq(t, 1, m)) = m
        /\ \A i \in 1..m : SubSeq(t, 1, m)[i] = t[i]
    BY <1>1, <1>3, SubSeqProperties
  <2> QED
    BY <2>1, <2>2, SeqEqual
<1> QED
  BY <1>2, <1>3

\* A step that neither admits nor finishes a repair, and attributes no feedback.
LEMMA ApprovalQuiet ==
    ASSUME TypeOK, RepairIsApproved, UNCHANGED repairs,
           \A k \in Ordinals : assessments[k].state = "settled" => assessments'[k] = assessments[k],
           \A f \in DOMAIN feedback', k \in Ordinals :
               feedback'[f].repair = k => f \in DOMAIN feedback /\ feedback[f].repair = k
    PROVE  RepairIsApproved'
<1>1. DOMAIN repairs \subseteq Ordinals
  BY Histories, ConstantsAssumption DEF ConstantsAssumption, TypeOK, Ordinals
<1>2. \A k \in DOMAIN repairs : assessments'[k] = assessments[k]
  BY <1>1 DEF RepairIsApproved
<1> QED
  BY <1>1, <1>2 DEF RepairIsApproved

LEMMA ApprovalReserve ==
    ASSUME TypeOK, RepairIsApproved, NEW ms \in 1..MaxEffectMs, ReserveRepair(ms)
    PROVE  RepairIsApproved'
<1> DEFINE new == [status |-> "reserved", from |-> revision, reserved |-> ms, exec |-> NoMs]
           k == Len(repairs) + 1
<1>1. /\ Len(repairs) \in Nat /\ DOMAIN repairs = 1..Len(repairs) /\ repairs \in Seq(Repair)
      /\ Len(feedback) \in Nat /\ DOMAIN feedback = 1..Len(feedback)
  BY Histories DEF TypeOK
<1>2. /\ repairs' = Append(repairs, new)
      /\ UNCHANGED assessments
      /\ ProgressApproves(k)
      /\ feedback' = [f \in DOMAIN feedback |->
                         IF f \in PendingFeedback THEN [feedback[f] EXCEPT !.repair = k]
                                                  ELSE feedback[f]]
  BY DEF ReserveRepair
<1>3. new \in Repair /\ new.from = revision
  BY ConstantsAssumption DEF ConstantsAssumption, Repair, TypeOK
<1> HIDE DEF new
<1>4. /\ Len(repairs') = k /\ repairs' \in Seq(Repair) /\ DOMAIN repairs' = 1..k
      /\ \A j \in 1..Len(repairs) : repairs'[j] = repairs[j]
      /\ repairs'[k] = new
  BY <1>1, <1>2, <1>3, AppendProperties, LenProperties
<1>5. \A j \in 1..k : SubSeq(repairs', 1, j - 1) = SubSeq(repairs, 1, j - 1)
  <2> TAKE j \in 1..k
  <2>1. j - 1 \in Int /\ j - 1 <= Len(repairs) /\ j - 1 <= Len(repairs')
        /\ \A i \in 1..(j - 1) : repairs'[i] = repairs[i]
    BY <1>1, <1>4
  <2> QED
    BY <1>1, <1>4, <2>1, SamePrefix
<1>6. \A f \in DOMAIN feedback', j \in 1..Len(repairs) :
          feedback'[f].repair = j => f \in DOMAIN feedback /\ feedback[f].repair = j
  <2> TAKE f \in DOMAIN feedback', j \in 1..Len(repairs)
  <2>1. f \in DOMAIN feedback /\ feedback[f] \in Feedback
    BY <1>2, Histories
  <2>2. CASE f \in PendingFeedback
    BY <1>1, <1>2, <2>1, <2>2 DEF Feedback
  <2>3. CASE f \notin PendingFeedback
    BY <1>2, <2>1, <2>3
  <2> QED
    BY <2>2, <2>3
<1>7. ASSUME NEW j \in 1..Len(repairs)
      PROVE  /\ assessments'[j].state = "settled"
             /\ assessments'[j].decision = "approve"
             /\ assessments'[j].rev = repairs'[j].from
             /\ assessments'[j].digest[1] = repairs'[j].from
             /\ assessments'[j].digest[5] = SubSeq(repairs', 1, j - 1)
             /\ \A f \in DOMAIN feedback' :
                   feedback'[f].repair = j => f <= Len(assessments'[j].digest[4])
  <2>1. j \in DOMAIN repairs /\ j \in 1..k
    BY <1>1
  <2> QED
    BY <1>2, <1>4, <1>5, <1>6, <2>1 DEF RepairIsApproved
<1>8. /\ assessments'[k].state = "settled"
      /\ assessments'[k].decision = "approve"
      /\ assessments'[k].rev = repairs'[k].from
      /\ assessments'[k].digest[1] = repairs'[k].from
      /\ assessments'[k].digest[5] = SubSeq(repairs', 1, k - 1)
      /\ \A f \in DOMAIN feedback' :
            feedback'[f].repair = k => f <= Len(assessments'[k].digest[4])
  <2>1. SubSeq(repairs, 1, Len(repairs)) = repairs
    BY <1>1, SubSeqFull
  <2>2. /\ k - 1 = Len(repairs) /\ k \in 1..k
    BY <1>1
  <2>3. SubSeq(repairs', 1, k - 1) = repairs
    BY <1>5, <2>1, <2>2
  <2>4. /\ assessments[k].digest[1] = revision
        /\ assessments[k].digest[4] = feedback
        /\ assessments[k].digest[5] = repairs
    BY <1>2 DEF ProgressApproves, EvidenceDigest
  <2>5. \A f \in DOMAIN feedback' : f <= Len(feedback)
    BY <1>1, <1>2
  <2> QED
    BY <1>2, <1>3, <1>4, <2>3, <2>4, <2>5 DEF ProgressApproves
<1>9. \A j \in DOMAIN repairs' : j \in 1..Len(repairs) \/ j = k
  BY <1>1, <1>4
<1> HIDE DEF k
<1> QED
  BY <1>7, <1>8, <1>9 DEF RepairIsApproved

LEMMA ApprovalFinish ==
    ASSUME TypeOK, ExclusionInv, RepairIsApproved, NEW k \in Ordinals,
           NEW status \in {"candidate", "failed"}, NEW ms \in Durations \cup {NoMs},
           FinishRepair(k, status, ms)
    PROVE  RepairIsApproved'
<1>1. /\ Len(repairs) \in Nat /\ DOMAIN repairs = 1..Len(repairs) /\ repairs \in Seq(Repair)
      /\ \A j \in DOMAIN repairs : repairs[j] \in Repair
  BY Histories DEF TypeOK
<1>2. k = Len(repairs) /\ k \in DOMAIN repairs
  BY DEF FinishRepair, ExclusionInv, OutstandingIsCurrent, ReservedRepairs
<1>3. /\ repairs' = [repairs EXCEPT ![k].status = status, ![k].exec = ms]
      /\ UNCHANGED <<assessments, feedback>>
  BY DEF FinishRepair
<1>4. /\ DOMAIN repairs' = DOMAIN repairs
      /\ \A j \in DOMAIN repairs : /\ repairs'[j].from = repairs[j].from
                                   /\ j # k => repairs'[j] = repairs[j]
  BY <1>1, <1>3 DEF Repair
<1>5. repairs' \in Seq(Repair) /\ Len(repairs') = Len(repairs)
  <2>1. TypeOK'
    BY StepTypes DEF Next, RepairStep
  <2>2. repairs' \in Seq(Repair) /\ Len(repairs') \in Nat /\ DOMAIN repairs' = 1..Len(repairs')
    BY <2>1, LenProperties DEF TypeOK
  <2> QED
    BY <1>1, <1>4, <2>2
<1>6. \A j \in DOMAIN repairs : SubSeq(repairs', 1, j - 1) = SubSeq(repairs, 1, j - 1)
  <2> TAKE j \in DOMAIN repairs
  <2>1. j - 1 \in Int /\ j - 1 <= Len(repairs) /\ j - 1 <= Len(repairs')
        /\ \A i \in 1..(j - 1) : repairs'[i] = repairs[i]
    BY <1>1, <1>2, <1>4, <1>5
  <2> QED
    BY <1>1, <1>5, <2>1, SamePrefix
<1>7. ASSUME NEW j \in DOMAIN repairs
      PROVE  /\ assessments'[j].state = "settled"
             /\ assessments'[j].decision = "approve"
             /\ assessments'[j].rev = repairs'[j].from
             /\ assessments'[j].digest[1] = repairs'[j].from
             /\ assessments'[j].digest[5] = SubSeq(repairs', 1, j - 1)
             /\ \A f \in DOMAIN feedback' :
                   feedback'[f].repair = j => f <= Len(assessments'[j].digest[4])
  <2>1. repairs'[j].from = repairs[j].from
    BY <1>4
  <2>2. SubSeq(repairs', 1, j - 1) = SubSeq(repairs, 1, j - 1)
    BY <1>6
  <2> QED
    BY <1>3, <2>1, <2>2 DEF RepairIsApproved
<1> QED
  BY <1>4, <1>7 DEF RepairIsApproved

LEMMA ApprovalInductive ==
    /\ Init => RepairIsApproved
    /\ TypeOK /\ ExclusionInv /\ RepairIsApproved /\ [Next]_vars => RepairIsApproved'
<1>1. ASSUME Init PROVE RepairIsApproved
  <2>1. DOMAIN repairs = {}
    BY <1>1, EmptySeq DEF Init
  <2> QED
    BY <2>1 DEF RepairIsApproved
<1>2. SUFFICES ASSUME TypeOK, ExclusionInv, RepairIsApproved, [Next]_vars
               PROVE  RepairIsApproved'
  BY <1>1
<1>3. \A k \in Ordinals : assessments[k].state = "settled" => assessments'[k] = assessments[k]
  BY <1>2, StepKeeps DEF Kept
<1>4. ASSUME UNCHANGED <<repairs, feedback>> PROVE RepairIsApproved'
  BY <1>2, <1>3, <1>4, ApprovalQuiet
<1>5. CASE FeedbackStep
  <2>1. /\ feedback \in Seq(Feedback) /\ Len(feedback) \in Nat
        /\ DOMAIN feedback = 1..Len(feedback)
        /\ \A f \in DOMAIN feedback : feedback[f] \in Feedback
    BY <1>2, Histories DEF TypeOK
  <2>2. ASSUME NEW ci \in BOOLEAN, NEW review \in BOOLEAN, RecordFeedback(ci, review)
        PROVE  RepairIsApproved'
    <3> DEFINE new == [rev |-> revision, ci |-> ci, review |-> review,
                       class |-> "none", repair |-> 0]
    <3>1. UNCHANGED repairs /\ feedback' = Append(feedback, new)
      BY <2>2 DEF RecordFeedback
    <3>2. new.repair = 0 /\ new \in Feedback
      BY <1>2, ConstantsAssumption DEF Feedback, TypeOK, ConstantsAssumption
    <3> HIDE DEF new
    <3>3. /\ \A f \in DOMAIN feedback' : f \in DOMAIN feedback \/ feedback'[f] = new
          /\ \A f \in DOMAIN feedback : feedback'[f] = feedback[f]
      BY <2>1, <3>1, <3>2, AppendProperties, LenProperties
    <3>4. 0 \notin Ordinals
      BY DEF Ordinals
    <3> QED
      BY <1>2, <1>3, <3>1, <3>2, <3>3, <3>4, ApprovalQuiet
  <2>3. ASSUME NEW f \in DOMAIN feedback, NEW class, ClassifyFeedback(f, class)
        PROVE  RepairIsApproved'
    <3>1. UNCHANGED repairs /\ feedback' = [feedback EXCEPT ![f].class = class]
      BY <2>3 DEF ClassifyFeedback
    <3>2. /\ DOMAIN feedback' = DOMAIN feedback
          /\ \A g \in DOMAIN feedback : feedback'[g].repair = feedback[g].repair
      BY <2>1, <3>1 DEF Feedback
    <3> QED
      BY <1>2, <1>3, <3>1, <3>2, ApprovalQuiet
  <2> QED
    BY <1>5, <2>2, <2>3 DEF FeedbackStep
<1>6. CASE RepairStep
  BY <1>2, <1>6, ApprovalReserve, ApprovalFinish DEF RepairStep
<1>7. CASE EffectStep
  <2>1. \A id, ms : PlanEffect(id, ms) => UNCHANGED <<repairs, feedback>>
    BY DEF PlanEffect
  <2>2. \A id : StartEffect(id) \/ BindEffectReceipt(id) => UNCHANGED <<repairs, feedback>>
    BY DEF StartEffect, BindEffectReceipt
  <2>3. \A id, state : SettleUndelivered(id, state) => UNCHANGED <<repairs, feedback>>
    BY DEF SettleUndelivered
  <2>4. \A id, ref, ms, pull : SettleDelivered(id, ref, ms, pull) => UNCHANGED <<repairs, feedback>>
    BY DEF SettleDelivered
  <2> QED
    BY <1>4, <1>7, <2>1, <2>2, <2>3, <2>4 DEF EffectStep
<1>8. CASE EvidenceStep
  <2>1. \A e : RecordEvidence(e) => UNCHANGED <<repairs, feedback>>
    BY DEF RecordEvidence
  <2>2. AuthorizePublication \/ BindCommit => UNCHANGED <<repairs, feedback>>
    BY DEF AuthorizePublication, BindCommit
  <2> QED
    BY <1>4, <1>8, <2>1, <2>2 DEF EvidenceStep
<1>9. CASE ProgressStep
  BY <1>4, <1>9 DEF ProgressStep, ReserveProgress, StartProgress, BindSubmission,
                    UncertainProgress, SettleProgress
<1>10. CASE InterventionStep
  BY <1>4, <1>10 DEF InterventionStep, Intervene, ResolveIntervention, Finish
<1>11. CASE UNCHANGED vars
  BY <1>4, <1>11 DEF vars
<1> QED
  BY <1>2, <1>5, <1>6, <1>7, <1>8, <1>9, <1>10, <1>11 DEF Next

\* Every repair, from its admission on, carries an approval of the revision it
\* repairs, given after all earlier repairs and in sight of the feedback it answers.
THEOREM Approval == Spec => []RepairIsApproved
BY ApprovalInductive, ExclusionInductive, TypeCorrect, PTL DEF Spec

----------------------------------------------------------------------------
(* Sums over finite sets.  SumFunction chooses a function that satisfies a   *)
(* recursion over the subsets of a finite set.  The subsets of a finite set  *)
(* are well founded by inclusion, so among those at which something fails    *)
(* one has no other within: no induction theorem has to be instantiated.     *)

\* Of any sets over a finite one, some have none of the others within.  What holds of a
\* set when it holds of those within it so holds of all: induction without a predicate.
LEMMA Minimal ==
    ASSUME NEW D, IsFiniteSet(D), NEW Bad, Bad \subseteq SUBSET D, Bad # {}
    PROVE  \E s \in Bad : \A t \in Bad : t \subseteq s => t = s
<1>1. IsWellFoundedOn(StrictSubsetOrdering(D), FiniteSubsetsOf(D))
  BY FS_StrictSubsetOrderingWellFounded
<1>2. FiniteSubsetsOf(D) = SUBSET D
  BY FS_FiniteSubsetsOfFinite
<1>3. PICK s \in Bad : \A t \in Bad : ~ (<<t, s>> \in StrictSubsetOrdering(D))
  BY <1>1, <1>2, WFMin
<1> QED
  BY <1>3 DEF StrictSubsetOrdering

\* The recursion behind SumFunction: g has the sums of f over the subsets of D.
Chosen(s) == CHOOSE x \in s : TRUE
Less(s) == s \ {Chosen(s)}
Sums(f, g, D) == g = [s \in SUBSET D |-> IF s = {} THEN 0 ELSE f[Chosen(s)] + g[Less(s)]]

LEMMA SumUnfolds ==
    ASSUME NEW f
    PROVE  SumFunction(f) = (CHOOSE g : Sums(f, g, DOMAIN f))[DOMAIN f]
BY DEF SumFunction, SumFunctionOnSet, FoldFunctionOnSet, MapThenFoldSet, Sums, Chosen, Less

LEMMA LessIsLess ==
    ASSUME NEW s, s # {}
    PROVE  Chosen(s) \in s /\ Less(s) \subseteq s /\ Less(s) # s
BY DEF Chosen, Less

LEMMA SumsAt ==
    ASSUME NEW f, NEW g, NEW D, Sums(f, g, D), NEW s \in SUBSET D
    PROVE  g[s] = IF s = {} THEN 0 ELSE f[Chosen(s)] + g[Less(s)]
<1> DEFINE G == [t \in SUBSET D |-> IF t = {} THEN 0 ELSE f[Chosen(t)] + g[Less(t)]]
<1>1. g = G
  BY DEF Sums
<1>2. G[s] = IF s = {} THEN 0 ELSE f[Chosen(s)] + g[Less(s)]
  OBVIOUS
<1> HIDE DEF G
<1> QED
  BY <1>1, <1>2

\* The sums of two functions are the same where the functions are.
LEMMA SumsAgree ==
    ASSUME NEW f, NEW g, NEW D, Sums(f, g, D), NEW e, NEW h, NEW E, Sums(e, h, E),
           NEW S \in SUBSET (D \cap E), IsFiniteSet(S), \A x \in S : f[x] = e[x]
    PROVE  \A s \in SUBSET S : g[s] = h[s]
<1> DEFINE Bad == {s \in SUBSET S : g[s] # h[s]}
<1> SUFFICES ASSUME Bad # {} PROVE FALSE
  OBVIOUS
<1>0. Bad \subseteq SUBSET S /\ Bad # {}
  OBVIOUS
<1>1. PICK s \in Bad : \A t \in Bad : t \subseteq s => t = s
  <2> HIDE DEF Bad
  <2> QED
    BY <1>0, Minimal
<1>2. s \in SUBSET D /\ s \in SUBSET E
  OBVIOUS
<1>3. CASE s = {}
  BY <1>1, <1>2, <1>3, SumsAt
<1>4. CASE s # {}
  <2>1. Chosen(s) \in s /\ Less(s) \subseteq s /\ Less(s) # s
    BY <1>4, LessIsLess
  <2>2. g[Less(s)] = h[Less(s)]
    BY <1>1, <2>1
  <2>3. f[Chosen(s)] = e[Chosen(s)]
    BY <2>1
  <2>4. g[s] = f[Chosen(s)] + g[Less(s)] /\ h[s] = e[Chosen(s)] + h[Less(s)]
    BY <1>2, <1>4, SumsAt
  <2> QED
    BY <2>2, <2>3, <2>4
<1> QED
  BY <1>3, <1>4

\* The recursion is well founded.
LEMMA SumsExist ==
    ASSUME NEW f, NEW D, IsFiniteSet(D)
    PROVE  \E g : Sums(f, g, D)
<1> DEFINE Bad == {s \in SUBSET D : ~ \E g : Sums(f, g, s)}
<1> SUFFICES ASSUME D \in Bad PROVE FALSE
  OBVIOUS
<1>0. Bad \subseteq SUBSET D /\ Bad # {}
  OBVIOUS
<1>1. PICK s \in Bad : \A t \in Bad : t \subseteq s => t = s
  <2> HIDE DEF Bad
  <2> QED
    BY <1>0, Minimal
<1> DEFINE Some(t) == CHOOSE g : Sums(f, g, t)
<1>2. \A t \in SUBSET s : t # s => Sums(f, Some(t), t)
  <2> TAKE t \in SUBSET s
  <2> HAVE t # s
  <2>1. \E g : Sums(f, g, t)
    BY <1>1
  <2> QED
    BY <2>1
<1> DEFINE g == [t \in SUBSET s |-> IF t = {} THEN 0 ELSE f[Chosen(t)] + Some(Less(t))[Less(t)]]
<1> HIDE DEF Some
<1>3. \A t \in SUBSET s : t # s => g[t] = Some(t)[t]
  <2> TAKE t \in SUBSET s
  <2> HAVE t # s
  <2>1. Sums(f, Some(t), t)
    BY <1>2
  <2>2. CASE t = {}
    BY <2>1, <2>2, SumsAt
  <2>3. CASE t # {}
    <3>1. Less(t) \in SUBSET t /\ Less(t) \in SUBSET s /\ Less(t) # s
      BY <2>3, LessIsLess
    <3>2. Sums(f, Some(Less(t)), Less(t))
      BY <1>2, <3>1
    <3>3. IsFiniteSet(Less(t))
      BY <3>1, FS_Subset
    <3>4. Some(t)[Less(t)] = Some(Less(t))[Less(t)]
      BY <2>1, <3>1, <3>2, <3>3, SumsAgree
    <3>5. Some(t)[t] = f[Chosen(t)] + Some(t)[Less(t)]
      BY <2>1, <2>3, SumsAt
    <3> QED
      BY <2>3, <3>4, <3>5
  <2> QED
    BY <2>2, <2>3
<1>4. \A t \in SUBSET s : t # {} => Less(t) \in SUBSET s /\ Less(t) # s
  BY LessIsLess
<1>5. g = [t \in SUBSET s |-> IF t = {} THEN 0 ELSE f[Chosen(t)] + g[Less(t)]]
  <2>1. \A t \in SUBSET s : t # {} => Some(Less(t))[Less(t)] = g[Less(t)]
    BY <1>3, <1>4
  <2> QED
    BY <2>1
<1>6. Sums(f, g, s)
  BY <1>5 DEF Sums
<1> QED
  BY <1>1, <1>6

\* Sums of naturals, taken by any element first.
LEMMA SumsOfNaturals ==
    ASSUME NEW D, IsFiniteSet(D), NEW f \in [D -> Nat], NEW g, Sums(f, g, D)
    PROVE  /\ \A s \in SUBSET D : g[s] \in Nat
           /\ \A s \in SUBSET D, x \in D : x \in s => g[s] = f[x] + g[s \ {x}]
<1>1. \A s \in SUBSET D : g[s] \in Nat
  <2> DEFINE Bad == {s \in SUBSET D : g[s] \notin Nat}
  <2> SUFFICES ASSUME Bad # {} PROVE FALSE
    OBVIOUS
  <2>0. Bad \subseteq SUBSET D /\ Bad # {}
    OBVIOUS
  <2>1. PICK s \in Bad : \A t \in Bad : t \subseteq s => t = s
    <3> HIDE DEF Bad
    <3> QED
      BY <2>0, Minimal
  <2>2. CASE s = {}
    BY <2>1, <2>2, SumsAt
  <2>3. CASE s # {}
    <3>1. Chosen(s) \in D /\ Less(s) \in SUBSET D /\ Less(s) \notin Bad
      BY <2>1, <2>3, LessIsLess
    <3>2. f[Chosen(s)] \in Nat /\ g[Less(s)] \in Nat
      BY <3>1
    <3>3. g[s] = f[Chosen(s)] + g[Less(s)]
      BY <2>3, SumsAt
    <3> QED
      BY <3>2, <3>3
  <2> QED
    BY <2>2, <2>3
<1>2. \A s \in SUBSET D : \A x \in s : g[s] = f[x] + g[s \ {x}]
  <2> DEFINE Bad == {s \in SUBSET D : \E x \in s : g[s] # f[x] + g[s \ {x}]}
  <2> SUFFICES ASSUME Bad # {} PROVE FALSE
    OBVIOUS
  <2>0. Bad \subseteq SUBSET D /\ Bad # {}
    OBVIOUS
  <2>1. PICK s \in Bad : \A t \in Bad : t \subseteq s => t = s
    <3> HIDE DEF Bad
    <3> QED
      BY <2>0, Minimal
  <2>2. PICK x \in s : g[s] # f[x] + g[s \ {x}]
    BY <2>1
  <2> DEFINE c == Chosen(s)
             both == s \ {x, c}
  <2>3. c \in s /\ Less(s) = s \ {c} /\ g[s] = f[c] + g[s \ {c}]
    BY <2>2, LessIsLess, SumsAt DEF Less
  <2> HIDE DEF c
  <2>4. x # c
    BY <2>2, <2>3
  <2>5. g[s \ {c}] = f[x] + g[both] /\ g[s \ {x}] = f[c] + g[both]
    <3>1. s \ {c} \in (SUBSET D) \ Bad /\ s \ {x} \in (SUBSET D) \ Bad
      BY <2>1, <2>3
    <3>2. x \in s \ {c} /\ c \in s \ {x}
      BY <2>3, <2>4
    <3>3. (s \ {c}) \ {x} = both /\ (s \ {x}) \ {c} = both
      OBVIOUS
    <3> QED
      BY <3>1, <3>2, <3>3
  <2>6. f[x] \in Nat /\ f[c] \in Nat /\ g[both] \in Nat
    BY <1>1, <2>3
  <2> QED
    BY <2>2, <2>3, <2>5, <2>6
<1> QED
  BY <1>1, <1>2

\* What is needed of SumFunction: its type, and what a changed and what a new summand
\* do to it.
LEMMA SumOfNaturals ==
    ASSUME NEW D, IsFiniteSet(D), NEW f \in [D -> Nat]
    PROVE  \E g : Sums(f, g, D) /\ SumFunction(f) = g[D]
<1>1. DOMAIN f = D
  OBVIOUS
<1>2. \E g : Sums(f, g, D)
  BY SumsExist
<1>3. Sums(f, CHOOSE g : Sums(f, g, D), D)
  BY <1>2
<1> QED
  BY <1>1, <1>3, SumUnfolds

LEMMA SumType ==
    ASSUME NEW D, IsFiniteSet(D), NEW f \in [D -> Nat]
    PROVE  SumFunction(f) \in Nat
BY SumOfNaturals, SumsOfNaturals

LEMMA SumGrows ==
    ASSUME NEW D, IsFiniteSet(D), NEW f \in [D -> Nat], NEW x, x \notin D,
           NEW e \in [D \cup {x} -> Nat], \A y \in D : e[y] = f[y]
    PROVE  SumFunction(e) = SumFunction(f) + e[x]
<1> DEFINE E == D \cup {x}
<1>0. IsFiniteSet(E) /\ E \ {x} = D /\ x \in E /\ e \in [E -> Nat]
  BY FS_AddElement
<1> HIDE DEF E
<1>1. PICK g : Sums(f, g, D) /\ SumFunction(f) = g[D]
  BY SumOfNaturals
<1>2. PICK h : Sums(e, h, E) /\ SumFunction(e) = h[E]
  BY <1>0, SumOfNaturals
<1>3. h[E] = e[x] + h[D]
  <2>1. \A s \in SUBSET E, y \in E : y \in s => h[s] = e[y] + h[s \ {y}]
    BY <1>0, <1>2, SumsOfNaturals
  <2>2. E \in SUBSET E
    OBVIOUS
  <2> QED
    BY <1>0, <2>1, <2>2
<1>4. D \in SUBSET (D \cap E)
  BY <1>0
<1>5. g[D] = h[D]
  BY <1>1, <1>2, <1>4, SumsAgree
<1>6. e[x] \in Nat /\ g[D] \in Nat
  BY <1>0, <1>1, SumsOfNaturals
<1> QED
  BY <1>1, <1>2, <1>3, <1>5, <1>6

LEMMA SumChanges ==
    ASSUME NEW D, IsFiniteSet(D), NEW f \in [D -> Nat], NEW e \in [D -> Nat], NEW x \in D,
           \A y \in D \ {x} : e[y] = f[y]
    PROVE  SumFunction(e) = SumFunction(f) + e[x] - f[x]
<1> DEFINE E == D \ {x}
           r == [y \in E |-> f[y]]
<1>1. IsFiniteSet(E) /\ x \notin E /\ E \cup {x} = D /\ r \in [E -> Nat]
  BY FS_Subset
<1>2. f \in [E \cup {x} -> Nat] /\ e \in [E \cup {x} -> Nat]
  BY <1>1
<1>3. \A y \in E : f[y] = r[y] /\ e[y] = r[y]
  OBVIOUS
<1>4. f[x] \in Nat /\ e[x] \in Nat
  OBVIOUS
<1> HIDE DEF E, r
<1>5. SumFunction(r) \in Nat
  BY <1>1, SumType
<1>6. SumFunction(f) = SumFunction(r) + f[x]
  BY <1>1, <1>2, <1>3, SumGrows
<1>7. SumFunction(e) = SumFunction(r) + e[x]
  BY <1>1, <1>2, <1>3, SumGrows
<1> QED
  BY <1>4, <1>5, <1>6, <1>7

LEMMA SumZero ==
    ASSUME NEW D, IsFiniteSet(D), NEW f \in [D -> Nat], \A x \in D : f[x] = 0
    PROVE  SumFunction(f) = 0
<1>1. PICK g : Sums(f, g, D) /\ SumFunction(f) = g[D]
  BY SumOfNaturals
<1> DEFINE Bad == {s \in SUBSET D : g[s] # 0}
<1> SUFFICES ASSUME Bad # {} PROVE FALSE
  BY <1>1
<1>0. Bad \subseteq SUBSET D /\ Bad # {}
  OBVIOUS
<1>2. PICK s \in Bad : \A t \in Bad : t \subseteq s => t = s
  <2> HIDE DEF Bad
  <2> QED
    BY <1>0, Minimal
<1>3. CASE s = {}
  BY <1>1, <1>2, <1>3, SumsAt
<1>4. CASE s # {}
  <2>1. Chosen(s) \in D /\ Less(s) \in (SUBSET D) \ Bad
    BY <1>2, <1>4, LessIsLess
  <2>2. g[s] = f[Chosen(s)] + g[Less(s)]
    BY <1>1, <1>2, <1>4, SumsAt
  <2> QED
    BY <1>2, <2>1, <2>2
<1> QED
  BY <1>3, <1>4

----------------------------------------------------------------------------
(* The budget.  What is charged to a delivery is a sum over the external     *)
(* work it admitted: a reservation until the work is settled, the time it    *)
(* took from then on.  Admission keeps the sum within the total, settling    *)
(* within a reservation does not raise it, and settling beyond one leaves    *)
(* an intervention that nothing resolves.                                    *)

Timed == {id \in EffectIds : effects[id].reserved > 0}
Held == \E i \in open : i[1] \in {"budget", "scope"}

\* Work that is not settled has no time of its own, and what was never admitted
\* has no reservation.
UnsettledIsReserved ==
    /\ \A id \in EffectIds :
           /\ effects[id].state # "delivered" => effects[id].exec = NoMs
           /\ effects[id].state = "absent" => effects[id].reserved = 0
    /\ \A k \in Ordinals :
           /\ assessments[k].state # "settled" => assessments[k].exec = NoMs
           /\ assessments[k].state = "absent" => assessments[k].reserved = 0
    /\ \A k \in ReservedRepairs : repairs[k].exec = NoMs

BudgetInv == UnsettledIsReserved /\ OverspendIsHeld

LEMMA ChargesChange ==
    ASSUME NEW S, IsFiniteSet(S), NEW old, NEW new, NEW x \in S,
           \A y \in S : Charge(old[y]) \in Nat,
           \A y \in S \ {x} : new[y] = old[y],
           Charge(new[x]) \in Nat
    PROVE  Charges(new, S) = Charges(old, S) + Charge(new[x]) - Charge(old[x])
<1> DEFINE f == [y \in S |-> Charge(old[y])]
           e == [y \in S |-> Charge(new[y])]
<1>1. f \in [S -> Nat] /\ e \in [S -> Nat]
  OBVIOUS
<1>2. f[x] = Charge(old[x]) /\ e[x] = Charge(new[x])
  OBVIOUS
<1>3. \A y \in S \ {x} : e[y] = f[y]
  OBVIOUS
<1> HIDE DEF f, e
<1>4. SumFunction(e) = SumFunction(f) + e[x] - f[x]
  BY <1>1, <1>3, SumChanges
<1> QED
  BY <1>2, <1>4 DEF Charges, f, e

LEMMA ChargesGrow ==
    ASSUME NEW S, IsFiniteSet(S), NEW old, NEW new, NEW x, x \notin S,
           \A y \in S : Charge(old[y]) \in Nat,
           \A y \in S : new[y] = old[y],
           Charge(new[x]) \in Nat
    PROVE  Charges(new, S \cup {x}) = Charges(old, S) + Charge(new[x])
<1> DEFINE f == [y \in S |-> Charge(old[y])]
           e == [y \in S \cup {x} |-> Charge(new[y])]
<1>1. f \in [S -> Nat] /\ e \in [S \cup {x} -> Nat]
  OBVIOUS
<1>2. e[x] = Charge(new[x])
  OBVIOUS
<1>3. \A y \in S : e[y] = f[y]
  OBVIOUS
<1> HIDE DEF f, e
<1>4. SumFunction(e) = SumFunction(f) + e[x]
  BY <1>1, <1>3, SumGrows
<1> QED
  BY <1>2, <1>4 DEF Charges, f, e

LEMMA ChargesZero ==
    ASSUME NEW S, IsFiniteSet(S), NEW work, \A y \in S : Charge(work[y]) = 0
    PROVE  Charges(work, S) = 0
<1> DEFINE f == [y \in S |-> Charge(work[y])]
<1>1. f \in [S -> Nat] /\ \A y \in S : f[y] = 0
  OBVIOUS
<1> HIDE DEF f
<1>2. SumFunction(f) = 0
  BY <1>1, SumZero
<1> QED
  BY <1>2 DEF Charges, f

LEMMA ChargesType ==
    ASSUME NEW S, IsFiniteSet(S), NEW work, \A y \in S : Charge(work[y]) \in Nat
    PROVE  Charges(work, S) \in Nat
<1> DEFINE f == [y \in S |-> Charge(work[y])]
<1>1. f \in [S -> Nat]
  OBVIOUS
<1> HIDE DEF f
<1>2. SumFunction(f) \in Nat
  BY <1>1, SumType
<1> QED
  BY <1>2 DEF Charges, f

LEMMA EffectIdsAreFinite == IsFiniteSet(EffectIds)
<1> USE ConstantsAssumption DEF ConstantsAssumption
<1> DEFINE Tagged == (Kinds \X Revisions) \X (0..MaxTries \cup 0..MaxFeedback \cup {1})
           f == [p \in Tagged |-> <<p[1][1], p[1][2], p[2]>>]
           Image == {f[p] : p \in Tagged}
<1>1. IsFiniteSet(Kinds)
  <2>1. Kinds = {"verification"} \cup {"review"} \cup {"feedback-review"}
                  \cup {"commit"} \cup {"push"} \cup {"create-pr"} \cup {"update-pr"}
    BY DEF Kinds, TimedKinds, EvidenceKinds, PublicationKinds
  <2>2. \A S : IsFiniteSet(S) => \A x : IsFiniteSet(S \cup {x})
    BY FS_AddElement, Zenon
  <2>3. IsFiniteSet({"verification"})
    BY FS_Singleton
  <2> HIDE DEF Kinds
  <2> QED
    BY <2>1, <2>2, <2>3, Zenon
<1>2. IsFiniteSet(0..MaxTries \cup 0..MaxFeedback \cup {1}) /\ IsFiniteSet(Revisions)
  <2>1. IsFiniteSet(0..MaxTries) /\ IsFiniteSet(0..MaxFeedback) /\ IsFiniteSet(Revisions)
    BY FS_Interval DEF Revisions
  <2>2. IsFiniteSet(0..MaxTries \cup 0..MaxFeedback)
    BY <2>1, FS_Union, Zenon
  <2> QED
    BY <2>1, <2>2, FS_AddElement, Zenon
<1>3. IsFiniteSet(Kinds \X Revisions)
  BY <1>1, <1>2, FS_Product
<1>4. IsFiniteSet(Tagged)
  BY <1>2, <1>3, FS_Product
<1>5. f \in Surjection(Tagged, Image)
  BY DEF Surjection
<1>6. IsFiniteSet(Image)
  <2> HIDE DEF Image, f, Tagged
  <2> QED
    BY <1>4, <1>5, FS_Surjection
<1>7. EffectIds \subseteq Image
  <2> SUFFICES ASSUME NEW id \in EffectIds PROVE id \in Image
    OBVIOUS
  <2>1. /\ KindOf(id) \in Kinds /\ RevisionOf(id) \in Revisions
        /\ id[3] \in Slots(KindOf(id)) /\ id = <<KindOf(id), RevisionOf(id), id[3]>>
    BY EffectIdFields
  <2>2. id[3] \in 0..MaxTries \cup 0..MaxFeedback \cup {1}
    BY <2>1 DEF Slots, Kinds, TimedKinds, EvidenceKinds, PublicationKinds
  <2> DEFINE p == <<<<KindOf(id), RevisionOf(id)>>, id[3]>>
  <2>3. p \in Tagged
    BY <2>1, <2>2
  <2>4. f[p] = id
    BY <2>1, <2>3
  <2> QED
    BY <2>3, <2>4
<1> QED
  BY <1>6, <1>7, FS_Subset

\* The three sums are taken over finite sets of naturals.
LEMMA ChargesAreNaturals ==
    ASSUME TypeOK
    PROVE  /\ IsFiniteSet(Timed) /\ \A id \in EffectIds : Charge(effects[id]) \in Nat
           /\ IsFiniteSet(Ordinals) /\ \A k \in Ordinals : Charge(assessments[k]) \in Nat
           /\ IsFiniteSet(DOMAIN repairs)
           /\ \A k \in DOMAIN repairs : Charge(repairs[k]) \in Nat
<1> USE ConstantsAssumption DEF ConstantsAssumption
<1>1. IsFiniteSet(Timed)
  BY EffectIdsAreFinite, FS_Subset DEF Timed
<1>2. IsFiniteSet(Ordinals)
  BY FS_Interval DEF Ordinals
<1>3. IsFiniteSet(DOMAIN repairs)
  BY Histories, FS_Interval
<1>4. \A id \in EffectIds : Charge(effects[id]) \in Nat
  BY DEF TypeOK, Effect, Charge
<1>5. \A k \in Ordinals : Charge(assessments[k]) \in Nat
  BY DEF TypeOK, Assessment, Charge
<1>6. \A k \in DOMAIN repairs : Charge(repairs[k]) \in Nat
  BY Histories DEF Repair, Charge
<1> QED
  BY <1>1, <1>2, <1>3, <1>4, <1>5, <1>6

LEMMA SumsAreNaturals ==
    ASSUME TypeOK
    PROVE  /\ Charges(effects, Timed) \in Nat
           /\ Charges(assessments, Ordinals) \in Nat
           /\ Charges(repairs, DOMAIN repairs) \in Nat
           /\ SpentExecution = InitialMs + Charges(assessments, Ordinals)
                                 + Charges(repairs, DOMAIN repairs) + Charges(effects, Timed)
           /\ SpentExecution \in Nat
<1>1. Charges(effects, Timed) \in Nat
  <2>1. \A id \in Timed : Charge(effects[id]) \in Nat
    BY ChargesAreNaturals DEF Timed
  <2> QED
    BY <2>1, ChargesAreNaturals, ChargesType
<1>2. Charges(assessments, Ordinals) \in Nat /\ Charges(repairs, DOMAIN repairs) \in Nat
  BY ChargesAreNaturals, ChargesType
<1>3. SpentExecution = InitialMs + Charges(assessments, Ordinals)
                         + Charges(repairs, DOMAIN repairs) + Charges(effects, Timed)
  BY DEF SpentExecution, Timed
<1>4. InitialMs \in Nat
  BY ConstantsAssumption DEF ConstantsAssumption
<1>5. \A i, a, r, e \in Nat : i + a + r + e \in Nat
  OBVIOUS
<1> QED
  BY <1>1, <1>2, <1>3, <1>4, <1>5, Zenon

LEMMA SpentIsNatural == (TypeOK => SpentExecution \in Nat)'
<1>1. TypeOK => SpentExecution \in Nat
  BY SumsAreNaturals
<1> QED
  BY <1>1, PTL

\* What a step must show: it is held afterwards, or it stays within the total, or it
\* spends no more than before.
LEMMA Budgeted ==
    ASSUME TypeOK, TypeOK', OverspendIsHeld, Held => Held',
           Held' \/ SpentExecution' <= TotalMs \/ SpentExecution' <= SpentExecution
    PROVE  OverspendIsHeld'
<1>1. SpentExecution \in Nat
  BY SumsAreNaturals
<1>2. SpentExecution' \in Nat
  BY SpentIsNatural
<1>3. TotalMs \in Nat
  BY ConstantsAssumption DEF ConstantsAssumption
<1>4. (OverspendIsHeld <=> (SpentExecution > TotalMs => Held)) /\
      (OverspendIsHeld' <=> (SpentExecution' > TotalMs => Held'))
  BY DEF OverspendIsHeld, Held
<1> HIDE DEF Held, OverspendIsHeld
<1> QED
  BY <1>1, <1>2, <1>3, <1>4

\* A step that admits and settles nothing.
LEMMA BudgetQuiet ==
    ASSUME TypeOK, TypeOK', BudgetInv, UNCHANGED <<effects, assessments, repairs>>,
           Held => Held'
    PROVE  BudgetInv'
<1>1. SpentExecution' = SpentExecution
  BY DEF SpentExecution, Charges, Charge
<1>2. SpentExecution \in Nat
  BY SumsAreNaturals
<1>3. UnsettledIsReserved'
  BY DEF BudgetInv, UnsettledIsReserved, ReservedRepairs
<1> QED
  BY <1>1, <1>2, <1>3, Budgeted DEF BudgetInv

LEMMA ChargesSame ==
    ASSUME NEW S, NEW old, NEW new, \A y \in S : new[y] = old[y]
    PROVE  Charges(new, S) = Charges(old, S)
<1>1. [y \in S |-> Charge(new[y])] = [y \in S |-> Charge(old[y])]
  OBVIOUS
<1> QED
  BY <1>1 DEF Charges

\* One effect is admitted, or changes without giving up its reservation.
LEMMA OneEffectReserved ==
    ASSUME TypeOK, UnsettledIsReserved, NEW id \in EffectIds, NEW entry,
           effects' = [effects EXCEPT ![id] = entry],
           entry.state # "absent", entry.state # "delivered" => entry.exec = NoMs,
           UNCHANGED <<assessments, repairs>>
    PROVE  UnsettledIsReserved'
<1>1. /\ \A e \in EffectIds \ {id} : effects'[e] = effects[e]
      /\ effects'[id] = entry
  BY DEF TypeOK
<1>2. ReservedRepairs' = ReservedRepairs
  BY DEF ReservedRepairs
<1> QED
  BY <1>1, <1>2 DEF UnsettledIsReserved

LEMMA TimedChange ==
    ASSUME NEW id \in Timed, IsFiniteSet(Timed),
           \A e \in Timed : Charge(effects[e]) \in Nat,
           \A e \in Timed \ {id} : effects'[e] = effects[e],
           Charge(effects'[id]) \in Nat
    PROVE  Charges(effects', Timed)
             = Charges(effects, Timed) + Charge(effects'[id]) - Charge(effects[id])
BY ChargesChange

LEMMA TimedGrows ==
    ASSUME NEW id, id \notin Timed, IsFiniteSet(Timed),
           \A e \in Timed : Charge(effects[e]) \in Nat,
           \A e \in Timed : effects'[e] = effects[e],
           Charge(effects'[id]) \in Nat
    PROVE  Charges(effects', Timed \cup {id}) = Charges(effects, Timed) + Charge(effects'[id])
BY ChargesGrow

LEMMA OneEffectCharged ==
    ASSUME TypeOK, NEW id \in EffectIds, NEW entry \in Effect,
           effects' = [effects EXCEPT ![id] = entry],
           entry.reserved = effects[id].reserved,
           Charge(entry) <= Charge(effects[id]),
           UNCHANGED <<assessments, repairs>>
    PROVE  SpentExecution' <= SpentExecution
<1>1. /\ \A e \in EffectIds \ {id} : effects'[e] = effects[e]
      /\ effects'[id] = entry
  BY DEF TypeOK
<1>2. Timed' = Timed
  BY <1>1 DEF Timed
<1>3. SpentExecution' = InitialMs + Charges(assessments, Ordinals)
                          + Charges(repairs, DOMAIN repairs) + Charges(effects', Timed)
  <2>1. SpentExecution' = InitialMs + Charges(assessments', Ordinals)
                            + Charges(repairs', DOMAIN repairs') + Charges(effects', Timed')
    BY DEF SpentExecution, Timed
  <2> QED
    BY <1>2, <2>1
<1>4. Charge(entry) \in Nat /\ Charge(effects[id]) \in Nat
  <2>1. Charge(entry) \in Nat
    BY ConstantsAssumption DEF ConstantsAssumption, Effect, Charge
  <2> QED
    BY <2>1, ChargesAreNaturals
<1>5. /\ Charges(effects, Timed) \in Nat /\ Charges(effects', Timed) \in Int
      /\ Charges(effects', Timed) <= Charges(effects, Timed)
  <2>1. CASE id \notin Timed
    <3>1. \A e \in Timed : effects'[e] = effects[e]
      BY <1>1, <2>1 DEF Timed
    <3>2. Charges(effects', Timed) = Charges(effects, Timed)
      BY <3>1, ChargesSame
    <3> QED
      BY <3>2, SumsAreNaturals
  <2>2. CASE id \in Timed
    <3>1. \A e \in Timed : Charge(effects[e]) \in Nat
      BY ChargesAreNaturals DEF Timed
    <3>2. IsFiniteSet(Timed) /\ \A e \in Timed \ {id} : effects'[e] = effects[e]
      BY <1>1, ChargesAreNaturals DEF Timed
    <3>3. Charge(effects'[id]) \in Nat
      BY <1>1, <1>4
    <3>4. Charges(effects', Timed)
            = Charges(effects, Timed) + Charge(effects'[id]) - Charge(effects[id])
      BY <2>2, <3>1, <3>2, <3>3, TimedChange
    <3>5. Charges(effects, Timed) \in Nat
      BY SumsAreNaturals
    <3> QED
      BY <1>1, <1>4, <3>4, <3>5
  <2> QED
    BY <2>1, <2>2
<1>6. /\ InitialMs \in Nat
      /\ Charges(assessments, Ordinals) \in Nat
      /\ Charges(repairs, DOMAIN repairs) \in Nat
      /\ SpentExecution = InitialMs + Charges(assessments, Ordinals)
                            + Charges(repairs, DOMAIN repairs) + Charges(effects, Timed)
  BY SumsAreNaturals, ConstantsAssumption DEF ConstantsAssumption
<1> QED
  BY <1>3, <1>5, <1>6

LEMMA BudgetEffects ==
    ASSUME TypeOK, TypeOK', BudgetInv, EffectStep
    PROVE  BudgetInv'
<1> USE ConstantsAssumption DEF ConstantsAssumption
<1>1. PICK id \in EffectIds :
        \/ \E ms \in 0..MaxEffectMs : PlanEffect(id, ms)
        \/ StartEffect(id)
        \/ BindEffectReceipt(id)
        \/ \E state \in {"uncertain", "planned"} : SettleUndelivered(id, state)
        \/ \E ref \in ReceiptsOf(KindOf(id)), ms \in Durations \cup {NoMs},
              pull \in PullRequests \cup {None} :
                Outstanding(id) /\ SettleDelivered(id, ref, ms, pull)
  BY DEF EffectStep
<1>2. effects[id] \in Effect /\ effects'[id] \in Effect
  BY DEF TypeOK
<1>3. Charge(effects[id]) \in Nat
  BY ChargesAreNaturals
<1>4. UnsettledIsReserved /\ OverspendIsHeld
  BY DEF BudgetInv
<1>5. ASSUME NEW ms \in 0..MaxEffectMs, PlanEffect(id, ms)
      PROVE  BudgetInv'
  <2> DEFINE entry == [Absent EXCEPT !.state = "planned", !.reserved = ms]
  <2>1. effects' = [effects EXCEPT ![id] = entry] /\ UNCHANGED <<assessments, repairs, open>>
    BY <1>5 DEF PlanEffect
  <2>2. /\ entry.state = "planned" /\ entry.reserved = ms /\ entry.exec = NoMs
        /\ Charge(entry) = ms
    BY DEF Absent, Charge
  <2>3. effects[id].state = "absent" /\ effects[id].reserved = 0 /\ id \notin Timed
    BY <1>4, <1>5 DEF PlanEffect, UnsettledIsReserved, Timed
  <2>4. SpentExecution + ms <= TotalMs
    BY <1>5 DEF PlanEffect
  <2> HIDE DEF entry
  <2>5. UnsettledIsReserved'
    BY <1>4, <2>1, <2>2, OneEffectReserved
  <2>6. \A e \in Timed : effects'[e] = effects[e]
    BY <2>1, <2>3 DEF TypeOK, Timed
  <2>7. effects'[id] = entry
    BY <2>1 DEF TypeOK
  <2>8. \A e \in Timed : Charge(effects[e]) \in Nat
    BY ChargesAreNaturals DEF Timed
  <2>9. SpentExecution' = InitialMs + Charges(assessments, Ordinals)
                            + Charges(repairs, DOMAIN repairs) + Charges(effects', Timed')
    BY <2>1 DEF SpentExecution, Timed
  <2>10. Charges(effects', Timed') = Charges(effects, Timed) + ms
    <3>1. CASE ms = 0
      <4>1. Timed' = Timed
        BY <2>1, <2>2, <2>3, <2>7, <3>1 DEF Timed, TypeOK
      <4>2. Charges(effects', Timed) = Charges(effects, Timed)
        BY <2>6, ChargesSame
      <4> QED
        BY <3>1, <4>1, <4>2, SumsAreNaturals
    <3>2. CASE ms # 0
      <4>1. Timed' = Timed \cup {id}
        BY <2>1, <2>2, <2>3, <2>7, <3>2 DEF Timed, TypeOK
      <4>2. Charge(effects'[id]) = ms /\ ms \in Nat
        BY <2>2, <2>7
      <4>3. Charges(effects', Timed \cup {id}) = Charges(effects, Timed) + Charge(effects'[id])
        BY <2>3, <2>6, <2>8, <4>2, ChargesAreNaturals, TimedGrows
      <4> QED
        BY <4>1, <4>2, <4>3
    <3> QED
      BY <3>1, <3>2
  <2>11. SpentExecution' = SpentExecution + ms
    <3>1. ms \in Nat
      OBVIOUS
    <3> QED
      BY <2>9, <2>10, <3>1, SumsAreNaturals
  <2>12. SpentExecution' <= TotalMs
    BY <2>4, <2>11
  <2>13. Held => Held'
    BY <2>1 DEF Held
  <2> QED
    BY <1>4, <2>5, <2>12, <2>13, Budgeted DEF BudgetInv
<1>6. ASSUME NEW entry \in Effect, effects' = [effects EXCEPT ![id] = entry],
             UNCHANGED <<assessments, repairs>>, effects[id].state # "delivered",
             entry.state # "absent", entry.state # "delivered" => entry.exec = NoMs,
             entry.reserved = effects[id].reserved,
             Held => Held',
             Held' \/ entry.exec = NoMs \/ entry.exec <= entry.reserved
      PROVE  BudgetInv'
  <2>1. UnsettledIsReserved'
    BY <1>4, <1>6, OneEffectReserved
  <2>2. effects[id].exec = NoMs
    BY <1>4, <1>6 DEF UnsettledIsReserved
  <2>3. Held' \/ Charge(entry) <= Charge(effects[id])
    BY <1>2, <1>6, <2>2 DEF Charge, Effect
  <2>4. Held' \/ SpentExecution' <= SpentExecution
    BY <1>6, <2>3, OneEffectCharged
  <2> QED
    BY <1>4, <1>6, <2>1, <2>4, Budgeted DEF BudgetInv
<1>7. CASE StartEffect(id)
  <2> DEFINE entry == [effects[id] EXCEPT !.state = "in-flight"]
  <2>1. /\ effects' = [effects EXCEPT ![id] = entry]
        /\ effects[id].state = "planned"
        /\ UNCHANGED <<assessments, repairs, open>>
    BY <1>7 DEF StartEffect, Startable
  <2>2. /\ entry \in Effect /\ entry.state = "in-flight"
        /\ entry.exec = effects[id].exec /\ entry.reserved = effects[id].reserved
    BY <1>2 DEF Effect
  <2>3. effects[id].exec = NoMs
    BY <1>4, <2>1 DEF UnsettledIsReserved
  <2> HIDE DEF entry
  <2> QED
    BY <1>6, <2>1, <2>2, <2>3 DEF Held
<1>8. CASE BindEffectReceipt(id)
  <2> DEFINE entry == [effects[id] EXCEPT !.receipt = "other"]
  <2>1. /\ effects' = [effects EXCEPT ![id] = entry]
        /\ effects[id].state = "in-flight"
        /\ UNCHANGED <<assessments, repairs, open>>
    BY <1>8 DEF BindEffectReceipt
  <2>2. /\ entry \in Effect /\ entry.state = "in-flight"
        /\ entry.exec = effects[id].exec /\ entry.reserved = effects[id].reserved
    BY <1>2, <2>1 DEF Effect
  <2>3. effects[id].exec = NoMs
    BY <1>4, <2>1 DEF UnsettledIsReserved
  <2> HIDE DEF entry
  <2> QED
    BY <1>6, <2>1, <2>2, <2>3 DEF Held
<1>9. ASSUME NEW state \in {"uncertain", "planned"}, SettleUndelivered(id, state)
      PROVE  BudgetInv'
  <2> DEFINE entry == [effects[id] EXCEPT !.state = state, !.receipt = "other"]
  <2>1. /\ effects' = [effects EXCEPT ![id] = entry]
        /\ effects[id].state \in {"in-flight", "uncertain"}
        /\ UNCHANGED <<assessments, repairs, open>>
    BY <1>9 DEF SettleUndelivered, Outstanding
  <2>2. /\ entry \in Effect /\ entry.state = state
        /\ entry.exec = effects[id].exec /\ entry.reserved = effects[id].reserved
    BY <1>2, <2>1 DEF Effect
  <2>3. effects[id].exec = NoMs
    BY <1>4, <2>1 DEF UnsettledIsReserved
  <2> HIDE DEF entry
  <2> QED
    BY <1>6, <2>1, <2>2, <2>3 DEF Held
<1>10. ASSUME NEW ref \in ReceiptsOf(KindOf(id)), NEW ms \in Durations \cup {NoMs},
              NEW pull \in PullRequests \cup {None}, SettleDelivered(id, ref, ms, pull)
       PROVE  BudgetInv'
  <2> DEFINE entry == [effects[id] EXCEPT !.state = "delivered", !.receipt = ref, !.exec = ms]
  <2>1. /\ effects' = [effects EXCEPT ![id] = entry]
        /\ effects[id].state \in {"in-flight", "uncertain"}
        /\ UNCHANGED <<assessments, repairs>>
        /\ open \subseteq open'
        /\ ms > effects[id].reserved => <<"budget", id>> \in open'
    BY <1>10 DEF SettleDelivered, Outstanding
  <2>2. /\ entry \in Effect /\ entry.state = "delivered"
        /\ entry.exec = ms /\ entry.reserved = effects[id].reserved
    BY <1>2, <2>1 DEF Effect, ReceiptsOf
  <2>3. (Held => Held') /\ (ms > effects[id].reserved => Held')
    BY <2>1 DEF Held
  <2>4. ms \in Int /\ effects[id].reserved \in Nat
    <3>1. effects[id].reserved \in Nat
      BY <1>2 DEF Effect
    <3>2. Durations \subseteq Int /\ NoMs \in Int
      BY DEF NoMs
    <3> QED
      BY <3>1, <3>2
  <2>5. Held' \/ ms <= effects[id].reserved
    BY <2>3, <2>4
  <2> HIDE DEF entry
  <2> QED
    BY <1>6, <2>1, <2>2, <2>3, <2>5
<1> QED
  BY <1>1, <1>5, <1>7, <1>8, <1>9, <1>10

LEMMA AssessmentsChange ==
    ASSUME NEW k \in Ordinals, IsFiniteSet(Ordinals),
           \A j \in Ordinals : Charge(assessments[j]) \in Nat,
           \A j \in Ordinals \ {k} : assessments'[j] = assessments[j],
           Charge(assessments'[k]) \in Nat
    PROVE  Charges(assessments', Ordinals) = Charges(assessments, Ordinals)
             + Charge(assessments'[k]) - Charge(assessments[k])
BY ChargesChange

\* What is charged when one assessment is admitted, or changes.
LEMMA OneAssessmentCharged ==
    ASSUME TypeOK, UnsettledIsReserved, NEW k \in Ordinals, NEW entry \in Assessment,
           assessments' = [assessments EXCEPT ![k] = entry],
           entry.state # "absent", entry.state # "settled" => entry.exec = NoMs,
           UNCHANGED <<effects, repairs>>
    PROVE  /\ UnsettledIsReserved'
           /\ SpentExecution' = SpentExecution + Charge(entry) - Charge(assessments[k])
<1>1. /\ \A j \in Ordinals \ {k} : assessments'[j] = assessments[j]
      /\ assessments'[k] = entry
  BY DEF TypeOK
<1>2. ReservedRepairs' = ReservedRepairs
  BY DEF ReservedRepairs
<1>3. UnsettledIsReserved'
  BY <1>1, <1>2 DEF UnsettledIsReserved
<1>4. Charge(entry) \in Nat /\ Charge(assessments[k]) \in Nat
  <2>1. Charge(entry) \in Nat
    BY ConstantsAssumption DEF ConstantsAssumption, Assessment, Charge
  <2> QED
    BY <2>1, ChargesAreNaturals
<1>5. Charges(assessments', Ordinals)
        = Charges(assessments, Ordinals) + Charge(assessments'[k]) - Charge(assessments[k])
  <2>1. IsFiniteSet(Ordinals) /\ \A j \in Ordinals : Charge(assessments[j]) \in Nat
    BY ChargesAreNaturals
  <2> QED
    BY <1>1, <1>4, <2>1, AssessmentsChange
<1>6. SpentExecution' = InitialMs + Charges(assessments', Ordinals)
                          + Charges(repairs, DOMAIN repairs) + Charges(effects, Timed)
  BY DEF SpentExecution, Timed
<1>7. /\ InitialMs \in Nat
      /\ Charges(assessments, Ordinals) \in Nat
      /\ Charges(repairs, DOMAIN repairs) \in Nat
      /\ Charges(effects, Timed) \in Nat
      /\ SpentExecution = InitialMs + Charges(assessments, Ordinals)
                            + Charges(repairs, DOMAIN repairs) + Charges(effects, Timed)
  BY SumsAreNaturals, ConstantsAssumption DEF ConstantsAssumption
<1>8. SpentExecution' = SpentExecution + Charge(entry) - Charge(assessments[k])
  BY <1>1, <1>4, <1>5, <1>6, <1>7
<1> QED
  BY <1>3, <1>8

LEMMA BudgetProgress ==
    ASSUME TypeOK, TypeOK', BudgetInv, ProgressStep
    PROVE  BudgetInv'
<1> USE ConstantsAssumption DEF ConstantsAssumption
<1>1. UnsettledIsReserved /\ OverspendIsHeld
  BY DEF BudgetInv
<1>2. SpentExecution \in Nat
  BY SumsAreNaturals
<1>3. CASE ReserveProgress
  <2> DEFINE k == Len(repairs) + 1
             ms == Lesser(MaxAssessmentMs, TotalMs - SpentExecution)
             entry == [NoAssessment EXCEPT !.state = "reserved", !.rev = revision,
                                           !.reserved = ms, !.digest = EvidenceDigest]
  <2>1. k \in Ordinals
    BY <1>3, Histories DEF ReserveProgress, Ordinals
  <2>2. /\ assessments' = [assessments EXCEPT ![k] = entry]
        /\ assessments[k].state = "absent"
        /\ UNCHANGED <<effects, repairs, open>>
    BY <1>3 DEF ReserveProgress
  <2>3. /\ entry.state = "reserved" /\ entry.reserved = ms /\ entry.exec = NoMs
        /\ Charge(entry) = ms
    BY DEF NoAssessment, Charge
  <2>4. ms \in Nat /\ SpentExecution + ms <= TotalMs
    <3> DEFINE remaining == TotalMs - SpentExecution
    <3>1. remaining \in 1..TotalMs
      BY <1>3 DEF ReserveProgress
    <3>2. ms = Lesser(MaxAssessmentMs, remaining) /\ remaining = TotalMs - SpentExecution
      OBVIOUS
    <3> HIDE DEF remaining, ms
    <3>3. ms \in Nat /\ ms <= remaining
      BY <3>1, <3>2 DEF Lesser
    <3> QED
      BY <1>2, <3>1, <3>2, <3>3
  <2>5. assessments[k].exec = NoMs /\ assessments[k].reserved = 0
    BY <1>1, <2>1, <2>2 DEF UnsettledIsReserved
  <2>6. Charge(assessments[k]) = 0
    BY <2>5 DEF Charge
  <2> HIDE DEF k, entry, ms
  <2>7. entry \in Assessment
    BY <2>1, <2>2 DEF TypeOK
  <2>8. UnsettledIsReserved' /\ SpentExecution' = SpentExecution + Charge(entry) - 0
    BY <1>1, <2>1, <2>2, <2>3, <2>6, <2>7, OneAssessmentCharged
  <2>9. SpentExecution' <= TotalMs
    BY <1>2, <2>3, <2>4, <2>8
  <2>10. Held => Held'
    BY <2>2 DEF Held
  <2> QED
    BY <1>1, <2>8, <2>9, <2>10, Budgeted DEF BudgetInv
<1>4. ASSUME NEW k \in Ordinals, NEW entry \in Assessment,
             assessments' = [assessments EXCEPT ![k] = entry],
             UNCHANGED <<effects, repairs>>, assessments[k].state # "settled",
             entry.state # "absent", entry.state # "settled" => entry.exec = NoMs,
             entry.reserved = assessments[k].reserved,
             Held => Held',
             Held' \/ entry.exec = NoMs \/ entry.exec <= entry.reserved
      PROVE  BudgetInv'
  <2>1. /\ UnsettledIsReserved'
        /\ SpentExecution' = SpentExecution + Charge(entry) - Charge(assessments[k])
    BY <1>1, <1>4, OneAssessmentCharged
  <2>2. assessments[k].exec = NoMs
    BY <1>1, <1>4 DEF UnsettledIsReserved
  <2>3. Charge(assessments[k]) \in Nat /\ Charge(entry) \in Nat
    <3>1. Charge(entry) \in Nat
      BY DEF Assessment, Charge
    <3> QED
      BY <3>1, ChargesAreNaturals
  <2>4. Held' \/ Charge(entry) <= Charge(assessments[k])
    <3>1. entry.reserved \in Nat
      BY DEF Assessment
    <3> QED
      BY <1>4, <2>2, <3>1 DEF Charge
  <2>5. Held' \/ SpentExecution' <= SpentExecution
    BY <1>2, <2>1, <2>3, <2>4
  <2> QED
    BY <1>1, <1>4, <2>1, <2>5, Budgeted DEF BudgetInv
<1>5. \A k \in Ordinals : assessments[k] \in Assessment
  BY DEF TypeOK
<1>6. ASSUME NEW k \in Ordinals, StartProgress(k)
      PROVE  BudgetInv'
  <2> DEFINE entry == [assessments[k] EXCEPT !.state = "in-flight"]
  <2>1. /\ assessments' = [assessments EXCEPT ![k] = entry]
        /\ assessments[k].state = "reserved"
        /\ UNCHANGED <<effects, repairs, open>>
    BY <1>6 DEF StartProgress
  <2>2. /\ entry \in Assessment /\ entry.state = "in-flight"
        /\ entry.exec = assessments[k].exec /\ entry.reserved = assessments[k].reserved
    BY <1>5 DEF Assessment
  <2>3. assessments[k].exec = NoMs
    BY <1>1, <2>1 DEF UnsettledIsReserved
  <2> HIDE DEF entry
  <2> QED
    BY <1>4, <2>1, <2>2, <2>3 DEF Held
<1>7. ASSUME NEW k \in Ordinals, BindSubmission(k)
      PROVE  BudgetInv'
  <2> DEFINE entry == [assessments[k] EXCEPT !.submitted = TRUE]
  <2>1. /\ assessments' = [assessments EXCEPT ![k] = entry]
        /\ assessments[k].state \in {"in-flight", "uncertain"}
        /\ UNCHANGED <<effects, repairs, open>>
    BY <1>7 DEF BindSubmission
  <2>2. /\ entry \in Assessment /\ entry.state \in {"in-flight", "uncertain"}
        /\ entry.exec = assessments[k].exec /\ entry.reserved = assessments[k].reserved
    BY <1>5, <2>1 DEF Assessment
  <2>3. assessments[k].exec = NoMs
    BY <1>1, <2>1 DEF UnsettledIsReserved
  <2> HIDE DEF entry
  <2> QED
    BY <1>4, <2>1, <2>2, <2>3 DEF Held
<1>8. ASSUME NEW k \in Ordinals, UncertainProgress(k)
      PROVE  BudgetInv'
  <2> DEFINE entry == [assessments[k] EXCEPT !.state = "uncertain"]
  <2>1. /\ assessments' = [assessments EXCEPT ![k] = entry]
        /\ assessments[k].state \in {"reserved", "in-flight"}
        /\ UNCHANGED <<effects, repairs, open>>
    BY <1>8 DEF UncertainProgress
  <2>2. /\ entry \in Assessment /\ entry.state = "uncertain"
        /\ entry.exec = assessments[k].exec /\ entry.reserved = assessments[k].reserved
    BY <1>5 DEF Assessment
  <2>3. assessments[k].exec = NoMs
    BY <1>1, <2>1 DEF UnsettledIsReserved
  <2> HIDE DEF entry
  <2> QED
    BY <1>4, <2>1, <2>2, <2>3 DEF Held
<1>9. ASSUME NEW k \in Ordinals, NEW decision \in {"approve", "escalate"},
             NEW ms \in Durations \cup {NoMs}, SettleProgress(k, decision, ms)
      PROVE  BudgetInv'
  <2> DEFINE entry == [assessments[k] EXCEPT !.state = "settled", !.submitted = TRUE,
                                             !.decision = decision, !.exec = ms]
  <2>1. /\ assessments' = [assessments EXCEPT ![k] = entry]
        /\ assessments[k].state \in {"in-flight", "uncertain"}
        /\ UNCHANGED <<effects, repairs>>
        /\ open \subseteq open'
        /\ ms > assessments[k].reserved => <<"scope", AssessmentCause(k)>> \in open'
    BY <1>9 DEF SettleProgress
  <2>2. /\ entry \in Assessment /\ entry.state = "settled"
        /\ entry.exec = ms /\ entry.reserved = assessments[k].reserved
    BY <1>5 DEF Assessment
  <2>3. (Held => Held') /\ (ms > assessments[k].reserved => Held')
    BY <2>1 DEF Held
  <2>4. ms \in Int /\ assessments[k].reserved \in Nat
    <3>1. assessments[k].reserved \in Nat
      BY <1>5 DEF Assessment
    <3>2. Durations \subseteq Int /\ NoMs \in Int
      BY DEF NoMs
    <3> QED
      BY <3>1, <3>2
  <2>5. Held' \/ ms <= assessments[k].reserved
    BY <2>3, <2>4
  <2> HIDE DEF entry
  <2> QED
    BY <1>4, <2>1, <2>2, <2>3, <2>5
<1> QED
  BY <1>3, <1>6, <1>7, <1>8, <1>9 DEF ProgressStep

LEMMA RepairsChange ==
    ASSUME NEW k \in DOMAIN repairs, IsFiniteSet(DOMAIN repairs),
           \A j \in DOMAIN repairs : Charge(repairs[j]) \in Nat,
           \A j \in DOMAIN repairs \ {k} : repairs'[j] = repairs[j],
           Charge(repairs'[k]) \in Nat
    PROVE  Charges(repairs', DOMAIN repairs)
             = Charges(repairs, DOMAIN repairs) + Charge(repairs'[k]) - Charge(repairs[k])
BY ChargesChange

LEMMA RepairsGrow ==
    ASSUME NEW k, k \notin DOMAIN repairs, IsFiniteSet(DOMAIN repairs),
           \A j \in DOMAIN repairs : Charge(repairs[j]) \in Nat,
           \A j \in DOMAIN repairs : repairs'[j] = repairs[j],
           Charge(repairs'[k]) \in Nat
    PROVE  Charges(repairs', DOMAIN repairs \cup {k})
             = Charges(repairs, DOMAIN repairs) + Charge(repairs'[k])
BY ChargesGrow

LEMMA BudgetRepairs ==
    ASSUME TypeOK, TypeOK', BudgetInv, RepairStep
    PROVE  BudgetInv'
<1> USE ConstantsAssumption DEF ConstantsAssumption
<1>1. UnsettledIsReserved /\ OverspendIsHeld
  BY DEF BudgetInv
<1>2. /\ InitialMs \in Nat
      /\ Charges(assessments, Ordinals) \in Nat
      /\ Charges(repairs, DOMAIN repairs) \in Nat
      /\ Charges(effects, Timed) \in Nat
      /\ SpentExecution = InitialMs + Charges(assessments, Ordinals)
                            + Charges(repairs, DOMAIN repairs) + Charges(effects, Timed)
  BY SumsAreNaturals
<1>3. ASSUME UNCHANGED <<effects, assessments>>
      PROVE  SpentExecution' = InitialMs + Charges(assessments, Ordinals)
                                 + Charges(repairs', DOMAIN repairs') + Charges(effects, Timed)
  BY <1>3 DEF SpentExecution, Timed
<1>4. /\ Len(repairs) \in Nat /\ DOMAIN repairs = 1..Len(repairs)
      /\ \A k \in DOMAIN repairs : repairs[k] \in Repair
      /\ repairs \in Seq(Repair)
  BY Histories DEF TypeOK
<1>5. /\ IsFiniteSet(DOMAIN repairs)
      /\ \A k \in DOMAIN repairs : Charge(repairs[k]) \in Nat
  BY ChargesAreNaturals
<1>6. ASSUME NEW ms \in 1..MaxEffectMs, ReserveRepair(ms)
      PROVE  BudgetInv'
  <2> DEFINE k == Len(repairs) + 1
             entry == [status |-> "reserved", from |-> revision,
                       reserved |-> ms, exec |-> NoMs]
  <2>1. /\ repairs' = Append(repairs, entry)
        /\ SpentExecution + ms <= TotalMs
        /\ UNCHANGED <<effects, assessments, open>>
    BY <1>6 DEF ReserveRepair
  <2>2. entry.exec = NoMs /\ entry.status = "reserved" /\ Charge(entry) = ms /\ ms \in Nat
    BY DEF Charge
  <2>3. entry \in Repair
    BY DEF Repair, TypeOK
  <2> HIDE DEF entry
  <2>4. /\ DOMAIN repairs' = DOMAIN repairs \cup {k}
        /\ k \notin DOMAIN repairs
        /\ repairs'[k] = entry
        /\ \A j \in DOMAIN repairs : repairs'[j] = repairs[j]
    BY <1>4, <2>1, <2>3, AppendProperties
  <2> HIDE DEF k
  <2>5. Charges(repairs', DOMAIN repairs \cup {k})
          = Charges(repairs, DOMAIN repairs) + Charge(repairs'[k])
    BY <1>5, <2>2, <2>4, RepairsGrow
  <2>6. SpentExecution' = InitialMs + Charges(assessments, Ordinals)
                            + (Charges(repairs, DOMAIN repairs) + ms) + Charges(effects, Timed)
    BY <1>3, <2>1, <2>2, <2>4, <2>5
  <2>7. SpentExecution' <= TotalMs
    BY <1>2, <2>1, <2>2, <2>6
  <2>8. UnsettledIsReserved'
    <3>1. \A j \in ReservedRepairs' : repairs'[j].exec = NoMs
      BY <1>1, <2>2, <2>4 DEF UnsettledIsReserved, ReservedRepairs
    <3> QED
      BY <1>1, <2>1, <3>1 DEF UnsettledIsReserved
  <2>9. Held => Held'
    BY <2>1 DEF Held
  <2> QED
    BY <1>1, <2>7, <2>8, <2>9, Budgeted DEF BudgetInv
<1>7. ASSUME NEW k \in Ordinals, NEW status \in {"candidate", "failed"},
             NEW ms \in Durations \cup {NoMs}, FinishRepair(k, status, ms)
      PROVE  BudgetInv'
  <2> DEFINE entry == [repairs[k] EXCEPT !.status = status, !.exec = ms]
  <2>1. /\ k \in ReservedRepairs /\ k \in DOMAIN repairs
        /\ repairs' = [repairs EXCEPT ![k] = entry]
        /\ UNCHANGED <<effects, assessments>>
        /\ open \subseteq open'
        /\ ms > repairs[k].reserved => <<"budget", RepairCause(k)>> \in open'
    BY <1>7 DEF FinishRepair, ReservedRepairs
  <2>2. /\ entry \in Repair /\ entry.status = status
        /\ entry.exec = ms /\ entry.reserved = repairs[k].reserved
        /\ entry.reserved \in Nat
    BY <1>4, <2>1 DEF Repair
  <2>3. Charge(entry) \in Nat /\ Charge(repairs[k]) \in Nat
    BY <1>5, <2>1, <2>2 DEF Repair, Charge
  <2>4. repairs[k].exec = NoMs
    BY <1>1, <2>1 DEF UnsettledIsReserved
  <2> HIDE DEF entry
  <2>5. /\ DOMAIN repairs' = DOMAIN repairs
        /\ repairs'[k] = entry
        /\ \A j \in DOMAIN repairs \ {k} : repairs'[j] = repairs[j]
    BY <2>1
  <2>6. Charges(repairs', DOMAIN repairs)
          = Charges(repairs, DOMAIN repairs) + Charge(repairs'[k]) - Charge(repairs[k])
    BY <1>5, <2>1, <2>3, <2>5, RepairsChange
  <2>7. (Held => Held') /\ (ms > repairs[k].reserved => Held')
    BY <2>1 DEF Held
  <2>8. Held' \/ Charge(entry) <= Charge(repairs[k])
    <3>1. Durations \subseteq Int /\ NoMs \in Int
      BY DEF NoMs
    <3>2. ms \in Int
      BY <3>1
    <3>3. Held' \/ ms <= repairs[k].reserved
      BY <2>2, <2>7, <3>2
    <3> QED
      BY <2>2, <2>4, <3>3 DEF Charge
  <2>9. SpentExecution' = InitialMs + Charges(assessments, Ordinals)
          + (Charges(repairs, DOMAIN repairs) + Charge(entry) - Charge(repairs[k]))
          + Charges(effects, Timed)
    BY <1>3, <2>1, <2>5, <2>6
  <2>10. Held' \/ SpentExecution' <= SpentExecution
    BY <1>2, <2>3, <2>8, <2>9
  <2>11. UnsettledIsReserved'
    <3>1. \A j \in ReservedRepairs' : j \in ReservedRepairs /\ repairs'[j] = repairs[j]
      BY <2>2, <2>5 DEF ReservedRepairs
    <3> QED
      BY <1>1, <2>1, <3>1 DEF UnsettledIsReserved
  <2> QED
    BY <1>1, <2>7, <2>10, <2>11, Budgeted DEF BudgetInv
<1> QED
  BY <1>6, <1>7 DEF RepairStep

LEMMA BudgetOthers ==
    ASSUME TypeOK, TypeOK', BudgetInv, EvidenceStep \/ FeedbackStep \/ InterventionStep
    PROVE  BudgetInv'
<1> DEFINE Calmly == UNCHANGED <<effects, assessments, repairs>> /\ (Held => Held')
<1>1. ASSUME EvidenceStep PROVE Calmly
  <2>1. \A e : RecordEvidence(e) => Calmly
    BY DEF RecordEvidence, Held
  <2>2. (AuthorizePublication => Calmly) /\ (BindCommit => Calmly)
    BY DEF AuthorizePublication, BindCommit, Held
  <2> HIDE DEF Calmly
  <2> QED
    BY <1>1, <2>1, <2>2 DEF EvidenceStep
<1>2. ASSUME FeedbackStep PROVE Calmly
  <2>1. \A ci, review : RecordFeedback(ci, review) => Calmly
    BY DEF RecordFeedback, Held
  <2>2. \A f, class : ClassifyFeedback(f, class) => Calmly
    BY DEF ClassifyFeedback, Held
  <2> HIDE DEF Calmly
  <2> QED
    BY <1>2, <2>1, <2>2 DEF FeedbackStep
<1>3. ASSUME InterventionStep PROVE Calmly
  <2>1. \A i : Intervene(i) => Calmly
    BY DEF Intervene, Held
  <2>2. \A i : ResolveIntervention(i) => Calmly
    BY DEF ResolveIntervention, Resolvable, Held
  <2>3. \A result : Finish(result) => Calmly
    BY DEF Finish, Held
  <2> HIDE DEF Calmly
  <2> QED
    BY <1>3, <2>1, <2>2, <2>3 DEF InterventionStep
<1>4. Calmly
  BY <1>1, <1>2, <1>3
<1> QED
  BY <1>4, BudgetQuiet

LEMMA BudgetInductive ==
    /\ Init => BudgetInv
    /\ TypeOK /\ TypeOK' /\ BudgetInv /\ [Next]_vars => BudgetInv'
<1>1. ASSUME Init PROVE BudgetInv
  <2>1. \A id \in EffectIds : effects[id] = Absent
    BY <1>1 DEF Init
  <2>2. \A k \in Ordinals : assessments[k] = NoAssessment
    BY <1>1 DEF Init
  <2>3. DOMAIN repairs = {} /\ ReservedRepairs = {}
    BY <1>1, EmptySeq DEF Init, ReservedRepairs
  <2>4. UnsettledIsReserved
    BY <2>1, <2>2, <2>3 DEF UnsettledIsReserved, Absent, NoAssessment
  <2>5. Timed = {}
    BY <2>1 DEF Timed, Absent
  <2>6. IsFiniteSet({}) /\ IsFiniteSet(Ordinals)
    BY FS_EmptySet, FS_Interval, ConstantsAssumption DEF ConstantsAssumption, Ordinals
  <2>7. \A k \in Ordinals : Charge(assessments[k]) = 0
    BY <2>2 DEF Charge, NoAssessment
  <2>8. Charges(assessments, Ordinals) = 0
    BY <2>6, <2>7, ChargesZero
  <2>9. Charges(repairs, {}) = 0 /\ Charges(effects, {}) = 0
    BY <2>6, ChargesZero
  <2>10. SpentExecution = InitialMs + Charges(assessments, Ordinals)
                            + Charges(repairs, DOMAIN repairs) + Charges(effects, Timed)
    BY DEF SpentExecution, Timed
  <2>11. SpentExecution = InitialMs
    <3>1. InitialMs \in Nat
      BY ConstantsAssumption DEF ConstantsAssumption
    <3> QED
      BY <2>3, <2>5, <2>8, <2>9, <2>10, <3>1
  <2>12. OverspendIsHeld
    BY <2>11, ConstantsAssumption DEF ConstantsAssumption, OverspendIsHeld
  <2> QED
    BY <2>4, <2>12 DEF BudgetInv
<1>2. ASSUME TypeOK, TypeOK', BudgetInv, UNCHANGED vars PROVE BudgetInv'
  <2>1. UNCHANGED <<effects, assessments, repairs, open>>
    BY <1>2 DEF vars
  <2>2. Held => Held'
    BY <2>1 DEF Held
  <2> QED
    BY <1>2, <2>1, <2>2, BudgetQuiet
<1> QED
  BY <1>1, <1>2, BudgetEffects, BudgetProgress, BudgetRepairs, BudgetOthers DEF Next

\* A delivery that spent more than it was granted is held by an intervention
\* nothing resolves, whatever its external processes report: spentExecution is
\* compared when work is admitted, and never looked at when it is settled.
THEOREM Budget == Spec => []OverspendIsHeld
<1>1. BudgetInv => OverspendIsHeld
  BY DEF BudgetInv
<1> QED
  BY BudgetInductive, StepTypes, TypeCorrect, <1>1, PTL DEF Spec

-----------------------------------------------------------------------------
(* The coordinator and the world.  What carries the argument is what the      *)
(* record says of each work that was dispatched, whatever the step knows of    *)
(* it, and what the step's position says of the work that it carries.          *)

ScopeHeld == <<"scope", Caller>> \in open

\* An effect that was dispatched is in flight or further.  A receipt that was bound
\* before is that of a refusal: the effect was not sent, and holds the delivery once
\* it is planned again.
EffectOK(id) ==
    /\ id \in sent => effects[id].state \in {"in-flight", "uncertain", "delivered"}
    /\ id \in landed => id \in sent
    /\ id \in running => id \in sent /\ id \notin landed /\ Outstanding(id)
    /\ HasEvidence(id) => id \in landed /\ KindOf(id) \in EvidenceKinds
    /\ effects[id].receipt # "none" =>
          /\ effects[id].state # "absent"
          /\ effects[id].state = "planned" => ScopeHeld
          /\ effects[id].state = "in-flight" => id \notin sent
    /\ effects[id].state = "delivered" /\ (KindOf(id) \in PublicationKinds \/ effects[id].receipt = "own") =>
          id \in landed

AssessmentOK(k) ==
    LET work == AssessmentCause(k)
    IN  /\ work \in sent => assessments[k].state \in {"in-flight", "uncertain", "settled"}
        /\ work \in landed => work \in sent
        /\ work \in running => work \in sent /\ work \notin landed /\ Unsettled(k)

\* A launch that was fenced is as good as landed, though nothing was sent.
RepairOK(k) ==
    LET work == RepairCause(k)
    IN  /\ work \in sent \cup landed => k \in DOMAIN repairs
        /\ work \in running => work \in sent /\ work \notin landed /\ k \in ReservedRepairs

WorldInv ==
    /\ \A id \in EffectIds : EffectOK(id)
    /\ \A k \in Ordinals : AssessmentOK(k) /\ RepairOK(k)
    /\ \A i \in resolved : i[1] # "scope"

\* What the position of the step says of an effect, an assessment or a repair that
\* the step carries.
EffectAt(label, id) ==
    /\ label \in {"dispatch", "cleared", "refused", "bound", "held"} =>
          effects[id].state = "in-flight" /\ id \notin sent
    /\ label \in {"dispatch", "cleared"} => effects[id].receipt = "none"
    /\ label = "held" => ScopeHeld
    /\ label \in {"run", "certify"} => Outstanding(id)
    /\ label \in {"certify", "settle", "recover"} => id \in landed
    /\ label = "setup" => KindOf(id) = "verification"

AssessmentAt(label, k) ==
    /\ label \in {"packet", "approve"} => k = Len(repairs) + 1
    /\ label = "dispatch" => assessments[k].state = "in-flight" /\ AssessmentCause(k) \notin sent
    /\ label = "certify" => AssessmentCause(k) \in landed

RepairAt(label, k) ==
    /\ label = "reserve" => k = Len(repairs) + 1
    /\ label = "launch" => k \in ReservedRepairs /\ RepairCause(k) \notin sent \cup landed

Steps == [at : Labels, work : Work \cup {NoEffect}]

StepInv ==
    /\ step \in Steps
    /\ step.work \in EffectIds => EffectAt(step.at, step.work)
    /\ \A k \in Ordinals : step.work = AssessmentCause(k) => AssessmentAt(step.at, k)
    /\ \A k \in Ordinals : step.work = RepairCause(k) => RepairAt(step.at, k)

CoordinatorInv == CoordinatorTypeOK /\ ExclusionInv /\ WorldInv /\ StepInv

\* The three sorts of work.
LEMMA Sorts ==
    /\ \A id \in EffectIds : KindOf(id) \notin {"assessment", "repair", "none"}
    /\ \A k : /\ KindOf(AssessmentCause(k)) = "assessment" /\ OrdinalOf(AssessmentCause(k)) = k
              /\ KindOf(RepairCause(k)) = "repair" /\ OrdinalOf(RepairCause(k)) = k
    /\ \A work \in Assessments :
          /\ OrdinalOf(work) \in Ordinals /\ work = AssessmentCause(OrdinalOf(work))
          /\ work \notin EffectIds /\ KindOf(work) = "assessment"
    /\ \A work \in Work : KindOf(work) = "repair" =>
          OrdinalOf(work) \in Ordinals /\ work = RepairCause(OrdinalOf(work))
    /\ KindOf(NoEffect) = "none" /\ NoEffect \notin Work
<1>1. \A id \in EffectIds : KindOf(id) \notin {"assessment", "repair", "none"}
  BY EffectIdFields DEF Kinds, TimedKinds, EvidenceKinds, PublicationKinds
<1>2. \A k : /\ KindOf(AssessmentCause(k)) = "assessment" /\ OrdinalOf(AssessmentCause(k)) = k
             /\ KindOf(RepairCause(k)) = "repair" /\ OrdinalOf(RepairCause(k)) = k
  BY DEF KindOf, OrdinalOf, AssessmentCause, RepairCause
<1>3. \A work \in Assessments : \E k \in Ordinals : work = AssessmentCause(k)
  BY DEF Assessments
<1>4. \A work \in Work : \/ work \in EffectIds \/ work \in Assessments
                         \/ \E k \in Ordinals : work = RepairCause(k)
  BY DEF Work
<1>5. KindOf(NoEffect) = "none"
  BY DEF KindOf, NoEffect
<1>6. \A work \in Assessments :
          /\ OrdinalOf(work) \in Ordinals /\ work = AssessmentCause(OrdinalOf(work))
          /\ work \notin EffectIds /\ KindOf(work) = "assessment"
  BY <1>1, <1>2, <1>3
<1>7. \A work \in Work : KindOf(work) = "repair" =>
          OrdinalOf(work) \in Ordinals /\ work = RepairCause(OrdinalOf(work))
  BY <1>1, <1>2, <1>4, <1>6
<1> QED
  BY <1>1, <1>2, <1>4, <1>5, <1>6, <1>7

-----------------------------------------------------------------------------
(* Each step commits one command of the record, or none. *)

LEMMA HoldIsStep ==
    ASSUME NEW kind \in {"scope", "budget", "authority", "uncertainty"}, Hold(kind)
    PROVE  [Next]_vars
<1>1. <<kind, Caller>> \in CallerRaised
  BY CoordinatorAssumption DEF CallerRaised
<1> QED
  BY <1>1 DEF Hold, Raise, Next, InterventionStep

LEMMA SetupIsStep ==
    ASSUME NEW id \in EffectIds, KindOf(id) = "verification", Raise(<<"environment", id>>)
    PROVE  [Next]_vars
<1>1. <<"environment", id>> \in CallerRaised
  BY CoordinatorAssumption DEF CallerRaised
<1> QED
  BY <1>1 DEF Raise, Next, InterventionStep

LEMMA CertifyIsStep ==
    ASSUME NEW id \in EffectIds, Certify(id)
    PROVE  Next
<1>1. PICK result \in EvidenceResults, verification \in Citable(id) :
          RecordEvidence([effect |-> id, result |-> result, independent |-> TRUE,
                          verification |-> verification])
  BY DEF Certify
<1>2. effects[id].state # "absent" /\ ~HasEvidence(id)
  BY <1>1 DEF RecordEvidence
<1> QED
  BY <1>1, <1>2 DEF Next, EvidenceStep

LEMMA SettleIsStep ==
    ASSUME NEW id \in EffectIds, NEW ref \in ReceiptsOf(KindOf(id)), NEW ms \in Durations \cup {NoMs},
           NEW pull \in PullRequests \cup {None}, SettleDelivered(id, ref, ms, pull)
    PROVE  Next
BY DEF SettleDelivered, Next, EffectStep

LEMMA LoseIsStep ==
    ASSUME NEW k \in Ordinals, LoseAssessment(k)
    PROVE  [Next]_vars
BY DEF LoseAssessment, Next, ProgressStep

LEMMA SettleProgressIsStep ==
    ASSUME NEW k \in Ordinals, NEW decision \in {"approve", "escalate"}, NEW ms \in Durations \cup {NoMs},
           SettleProgress(k, decision, ms)
    PROVE  Next
BY DEF Next, ProgressStep

LEMMA RecoveryIsStep == ASSUME CoordinatorInv, Recover PROVE [Next]_vars
<1>1. ASSUME NEW k \in Ordinals, RecoverAssessment(k) PROVE [Next]_vars
  BY <1>1, LoseIsStep, SettleProgressIsStep DEF RecoverAssessment
<1>2. ASSUME NEW k \in Ordinals, SettleRepair(k) PROVE [Next]_vars
  BY <1>2 DEF SettleRepair, Next, RepairStep
<1>3. ASSUME NEW id \in EffectIds, RecoverEffect(id) PROVE [Next]_vars
  <2>1. CASE UNCHANGED vars
    BY <2>1
  <2>2. CASE SettleDelivered(id, "other", NoMs, None)
    BY <2>2, SettleIsStep DEF ReceiptsOf
  <2>3. CASE Certify(id)
    BY <2>3, CertifyIsStep
  <2> QED
    BY <1>3, <2>1, <2>2, <2>3 DEF RecoverEffect, LeaveUnseen
<1>4. CASE EndHeld
  BY <1>4, CoordinatorAssumption DEF EndHeld, Next, InterventionStep
<1> QED
  BY <1>1, <1>2, <1>3, <1>4 DEF Recover

LEMMA DecisionIsStep ==
    ASSUME CoordinatorInv,
           \/ Begin \/ Abandon \/ CandidateChanged \/ HoldBlocked \/ PlanNext \/ Watch \/ HoldExhausted
           \/ Ask \/ Reuse \/ HoldUnreadableHistory \/ AdmitAssessment \/ ObserveRepair \/ HoldExecutable
           \/ HoldLostAssessment
    PROVE  [Next]_vars
<1>1. CASE \/ Begin \/ Abandon \/ CandidateChanged \/ HoldExhausted \/ Ask \/ Reuse \/ HoldUnreadableHistory
           \/ ObserveRepair \/ HoldExecutable \/ HoldLostAssessment
  BY <1>1, HoldIsStep DEF Begin, Abandon, CandidateChanged, HoldExhausted, Ask, Reuse, HoldUnreadableHistory,
                          ObserveRepair, HoldExecutable, HoldLostAssessment
<1>2. CASE HoldBlocked
  <2>1. CASE \E i \in BlockedVerification : Raise(<<"environment", evidence[i].effect>>)
    <3>1. PICK i \in BlockedVerification : Raise(<<"environment", evidence[i].effect>>)
      BY <2>1
    <3>2. i \in DOMAIN evidence /\ KindOf(evidence[i].effect) = "verification"
      BY DEF BlockedVerification, Latest, CurrentEvidence, EvidenceOf
    <3>3. evidence[i].effect \in EffectIds
      BY <3>2, Histories DEF CoordinatorInv, CoordinatorTypeOK, Evidence
    <3> QED
      BY <3>1, <3>2, <3>3, SetupIsStep
  <2>2. CASE Hold("authority") \/ Hold("scope")
    BY <2>2, HoldIsStep
  <2> QED
    BY <1>2, <2>1, <2>2 DEF HoldBlocked
<1>3. CASE PlanNext
  <2> DEFINE id == NextEffect
  <2>1. CASE UNCHANGED vars \/ Hold("budget")
    BY <2>1, HoldIsStep
  <2>2. CASE id \in EffectIds /\ \E ms : PlanEffect(id, ms)
    <3>1. PICK ms : PlanEffect(id, ms)
      BY <2>2
    <3>2. ms \in 0..MaxEffectMs
      BY <3>1, ConstantsAssumption DEF PlanEffect
    <3> HIDE DEF id
    <3> QED
      BY <2>2, <3>1, <3>2 DEF Next, EffectStep
  <2> QED
    BY <1>3, <2>1, <2>2 DEF PlanNext
<1>4. CASE Watch
  BY <1>4, HoldIsStep, CoordinatorAssumption DEF Watch, Next, InterventionStep, FeedbackStep
<1>5. CASE AdmitAssessment
  BY <1>5 DEF AdmitAssessment, Next, ProgressStep
<1> QED
  BY <1>1, <1>2, <1>3, <1>4, <1>5

LEMMA EffectIsStep ==
    ASSUME CoordinatorInv, NEW id \in EffectIds, id = step.work, StepEffect(id)
    PROVE  [Next]_vars
<1>1. CASE Claim(id) \/ RecordRefusal(id) \/ SettleRefusal(id) \/ FailEffect(id)
  BY <1>1 DEF Claim, RecordRefusal, SettleRefusal, FailEffect, Next, EffectStep
<1>2. CASE RefuseEffect(id) \/ HoldRefusal(id) \/ Clear(id) \/ Report(id)
  BY <1>2, HoldIsStep DEF RefuseEffect, HoldRefusal, Clear, Report
<1>3. CASE SettleReviewer(id)
  BY <1>3, SettleIsStep DEF SettleReviewer, ReceiptsOf
<1>4. CASE RecordResult(id) \/ RecoverCommit(id)
  BY <1>4, CertifyIsStep DEF RecordResult, RecoverCommit, Next, EvidenceStep
<1>5. CASE SettleEffect(id)
  <2>1. HasEvidence(id) => KindOf(id) \in EvidenceKinds
    BY DEF CoordinatorInv, WorldInv, EffectOK
  <2>2. PICK ms \in Durations \cup {NoMs}, pull \in PullRequests \cup {None} :
            SettleDelivered(id, IF HasEvidence(id) THEN "own" ELSE "other", ms, pull)
    BY <1>5 DEF SettleEffect
  <2> QED
    BY <2>1, <2>2, SettleIsStep DEF ReceiptsOf
<1>6. CASE HoldSetup(id)
  <2>1. KindOf(id) = "verification"
    BY <1>6 DEF HoldSetup, At, CoordinatorInv, StepInv, EffectAt
  <2> QED
    BY <1>6, <2>1, SetupIsStep DEF HoldSetup
<1> QED
  BY <1>1, <1>2, <1>3, <1>4, <1>5, <1>6 DEF StepEffect

LEMMA AssessmentIsStep ==
    ASSUME NEW k \in Ordinals, StepAssessment(k)
    PROVE  [Next]_vars
<1>1. CASE StartAssessment(k) \/ BindAssessment(k) \/ ReadAssessment(k) \/ UseApproval(k)
  BY <1>1, HoldIsStep DEF StartAssessment, BindAssessment, ReadAssessment, UseApproval, Next, ProgressStep
<1>2. CASE FailAssessment(k) \/ AcceptAssessment(k)
  BY <1>2, LoseIsStep, SettleProgressIsStep DEF FailAssessment, AcceptAssessment
<1> QED
  BY <1>1, <1>2 DEF StepAssessment

LEMMA RepairIsStep ==
    ASSUME NEW k, StepRepair(k)
    PROVE  [Next]_vars
<1>1. CASE ExplainUsage(k) \/ HoldFailedRepair(k)
  BY <1>1, HoldIsStep DEF ExplainUsage, HoldFailedRepair
<1>2. CASE AdmitRepair(k)
  <2>1. CASE Hold("budget")
    BY <2>1, HoldIsStep
  <2>2. CASE \E ms : ReserveRepair(ms)
    BY <2>2 DEF ReserveRepair, Next, RepairStep
  <2> QED
    BY <1>2, <2>1, <2>2 DEF AdmitRepair
<1> QED
  BY <1>1, <1>2 DEF StepRepair

LEMMA CoordinatorIsStep ==
    ASSUME CoordinatorInv, [CoordinatorNext]_coordinatorVars
    PROVE  [Next]_vars
<1>1. CASE Advance
  <2>1. CASE UNCHANGED vars
    BY <2>1
  <2>2. step.work \in Assessments => OrdinalOf(step.work) \in Ordinals
    BY Sorts
  <2> QED
    BY <1>1, <2>1, <2>2, RecoveryIsStep, DecisionIsStep, EffectIsStep, AssessmentIsStep, RepairIsStep
       DEF Advance, SendEffect, SendAssessment, Launch, FenceLaunch, Dispatch
<1>2. CASE Operate
  BY <1>2, HoldIsStep DEF Operate, Revoke, Approve, RetryEnvironment, Next, EvidenceStep, InterventionStep
<1>3. CASE WorkEnds \/ MergePull \/ ChangeConfiguration \/ Crash \/ UNCHANGED coordinatorVars
  BY <1>3 DEF WorkEnds, Land, Vanish, MergePull, ChangeConfiguration, Crash, coordinatorVars
<1> QED
  BY <1>1, <1>2, <1>3 DEF CoordinatorNext

-----------------------------------------------------------------------------
(* Where a step may go. *)

LEMMA ReturnKeeps == Return => StepInv'
BY Sorts DEF Return, Idle, StepInv, Steps, Labels, Work, AssessmentCause, RepairCause, NoEffect

LEMMA GotoNowhere ==
    ASSUME NEW label \in Labels, Goto(label, NoEffect)
    PROVE  StepInv'
BY Sorts DEF Goto, StepInv, Steps, Work, AssessmentCause, RepairCause, NoEffect

LEMMA GotoEffect ==
    ASSUME NEW label \in Labels, NEW id \in EffectIds, Goto(label, id), EffectAt(label, id)'
    PROVE  StepInv'
<1>1. step'.at = label /\ step'.work = id /\ step' \in Steps
  BY DEF Goto, Steps, Work
<1>2. \A k \in Ordinals : id # AssessmentCause(k) /\ id # RepairCause(k)
  BY Sorts
<1> QED
  BY <1>1, <1>2 DEF StepInv

LEMMA GotoAssessment ==
    ASSUME NEW label \in Labels, NEW k \in Ordinals, Goto(label, AssessmentCause(k)), AssessmentAt(label, k)'
    PROVE  StepInv'
<1>1. step'.at = label /\ step'.work = AssessmentCause(k) /\ step' \in Steps
  BY DEF Goto, Steps, Work, Assessments
<1>2. /\ AssessmentCause(k) \notin EffectIds
      /\ \A j \in Ordinals : /\ AssessmentCause(k) = AssessmentCause(j) => j = k
                             /\ AssessmentCause(k) # RepairCause(j)
  BY Sorts
<1> QED
  BY <1>1, <1>2 DEF StepInv

LEMMA GotoRepair ==
    ASSUME NEW label \in Labels, NEW k \in Ordinals, Goto(label, RepairCause(k)), RepairAt(label, k)'
    PROVE  StepInv'
<1>1. step'.at = label /\ step'.work = RepairCause(k) /\ step' \in Steps
  BY DEF Goto, Steps, Work
<1>2. /\ RepairCause(k) \notin EffectIds
      /\ \A j \in Ordinals : /\ RepairCause(k) = RepairCause(j) => j = k
                             /\ RepairCause(k) # AssessmentCause(j)
  BY Sorts
<1> QED
  BY <1>1, <1>2 DEF StepInv

\* A step that stays where it is, while the world goes on.
LEMMA StepKept ==
    ASSUME StepInv, UNCHANGED <<step, effects, assessments, repairs, sent>>, landed \subseteq landed',
           landed' \subseteq landed \cup sent, ScopeHeld => ScopeHeld'
    PROVE  StepInv'
<1>1. step.work \in EffectIds => EffectAt(step.at, step.work)'
  BY DEF StepInv, EffectAt, Outstanding
<1>2. \A k \in Ordinals : step.work = AssessmentCause(k) => AssessmentAt(step.at, k)'
  BY DEF StepInv, AssessmentAt
<1>3. \A k \in Ordinals : step.work = RepairCause(k) => RepairAt(step.at, k)'
  BY DEF StepInv, RepairAt, ReservedRepairs
<1> QED
  BY <1>1, <1>2, <1>3 DEF StepInv

-----------------------------------------------------------------------------
(* What a command of the record leaves true of the world. *)

\* A step that only touches what WorldInv does not look at, or raises something.
Calm == /\ UNCHANGED <<effects, evidence, assessments, repairs, world>>
        /\ ScopeHeld => ScopeHeld'
        /\ \A i \in resolved' : i[1] # "scope"

LEMMA CalmKeeps == ASSUME WorldInv, Calm PROVE WorldInv'
<1>1. \A id \in EffectIds : EffectOK(id)'
  BY DEF WorldInv, Calm, EffectOK, Outstanding, HasEvidence, world
<1>2. \A k \in Ordinals : AssessmentOK(k)' /\ RepairOK(k)'
  BY DEF WorldInv, Calm, AssessmentOK, RepairOK, Unsettled, ReservedRepairs, world
<1> QED
  BY <1>1, <1>2 DEF WorldInv, Calm

LEMMA RaiseIsCalm ==
    ASSUME WorldInv, NEW i, Raise(i), UNCHANGED world
    PROVE  Calm
BY DEF Raise, Intervene, Calm, WorldInv, ScopeHeld, vars

LEMMA HoldIsCalm ==
    ASSUME WorldInv, NEW kind, Hold(kind), UNCHANGED world
    PROVE  Calm
BY RaiseIsCalm DEF Hold

LEMMA NothingIsCalm ==
    ASSUME WorldInv, UNCHANGED vars, UNCHANGED world
    PROVE  Calm
BY DEF Calm, WorldInv, ScopeHeld, vars

\* A step that changes one effect.
LEMMA OneEffect ==
    ASSUME WorldInv, UNCHANGED <<evidence, assessments, repairs, resolved, world>>, open \subseteq open',
           NEW id \in EffectIds, \A e \in EffectIds \ {id} : effects'[e] = effects[e], EffectOK(id)'
    PROVE  WorldInv'
<1>1. \A e \in EffectIds \ {id} : EffectOK(e)'
  BY DEF WorldInv, EffectOK, Outstanding, HasEvidence, world, ScopeHeld
<1>2. \A k \in Ordinals : AssessmentOK(k)' /\ RepairOK(k)'
  BY DEF WorldInv, AssessmentOK, RepairOK, Unsettled, ReservedRepairs, world
<1> QED
  BY <1>1, <1>2 DEF WorldInv

\* A step that changes one assessment.
LEMMA OneAssessment ==
    ASSUME WorldInv, UNCHANGED <<effects, evidence, repairs, resolved, world>>, open \subseteq open',
           NEW k \in Ordinals, \A j \in Ordinals \ {k} : assessments'[j] = assessments[j], AssessmentOK(k)'
    PROVE  WorldInv'
<1>1. \A id \in EffectIds : EffectOK(id)'
  BY DEF WorldInv, EffectOK, Outstanding, HasEvidence, world, ScopeHeld
<1>2. \A j \in Ordinals : RepairOK(j)'
  BY DEF WorldInv, RepairOK, ReservedRepairs, world
<1>3. \A j \in Ordinals \ {k} : AssessmentOK(j)'
  BY DEF WorldInv, AssessmentOK, Unsettled, world
<1> QED
  BY <1>1, <1>2, <1>3 DEF WorldInv

\* A step that changes the repairs.
LEMMA SomeRepair ==
    ASSUME WorldInv, UNCHANGED <<effects, evidence, assessments, resolved, world>>, open \subseteq open',
           \A k \in Ordinals : RepairOK(k)'
    PROVE  WorldInv'
<1>1. \A id \in EffectIds : EffectOK(id)'
  BY DEF WorldInv, EffectOK, Outstanding, HasEvidence, world, ScopeHeld
<1>2. \A j \in Ordinals : AssessmentOK(j)'
  BY DEF WorldInv, AssessmentOK, Unsettled, world
<1> QED
  BY <1>1, <1>2 DEF WorldInv

LEMMA PlanKeeps ==
    ASSUME TypeOK, WorldInv, UNCHANGED world, NEW id \in EffectIds, NEW ms, PlanEffect(id, ms)
    PROVE  WorldInv'
<1>1. effects \in [EffectIds -> Effect]
  BY DEF TypeOK
<1>2. /\ effects'[id] = [Absent EXCEPT !.state = "planned", !.reserved = ms]
      /\ effects'[id].state = "planned" /\ effects'[id].receipt = "none"
      /\ \A e \in EffectIds \ {id} : effects'[e] = effects[e]
      /\ effects[id].state = "absent"
  BY <1>1 DEF PlanEffect, Absent
<1>3. id \notin sent /\ id \notin landed /\ id \notin running /\ ~HasEvidence(id)
  BY <1>2 DEF WorldInv, EffectOK
<1>4. EffectOK(id)'
  BY <1>2, <1>3 DEF PlanEffect, EffectOK, HasEvidence, world
<1> QED
  BY <1>2, <1>4, OneEffect DEF PlanEffect

LEMMA StartKeeps ==
    ASSUME TypeOK, WorldInv, UNCHANGED world, NEW id \in EffectIds, StartEffect(id)
    PROVE  /\ WorldInv'
           /\ effects'[id].state = "in-flight" /\ effects'[id].receipt = "none" /\ id \notin sent
<1>1. effects \in [EffectIds -> Effect]
  BY DEF TypeOK
<1>2. /\ effects'[id].state = "in-flight" /\ effects'[id].receipt = effects[id].receipt
      /\ \A e \in EffectIds \ {id} : effects'[e] = effects[e]
      /\ effects[id].state = "planned"
  BY <1>1 DEF StartEffect, Startable, Effect
<1>3. id \notin sent /\ id \notin landed /\ id \notin running /\ ~HasEvidence(id)
  BY <1>2 DEF WorldInv, EffectOK
<1>4. effects[id].receipt = "none"
  BY <1>2 DEF WorldInv, EffectOK, ScopeHeld, StartEffect, Available
<1>5. EffectOK(id)'
  BY <1>2, <1>3, <1>4 DEF StartEffect, EffectOK, HasEvidence, world
<1> QED
  BY <1>2, <1>3, <1>4, <1>5, OneEffect DEF StartEffect

LEMMA BindKeeps ==
    ASSUME TypeOK, WorldInv, UNCHANGED world, NEW id \in EffectIds, id \notin sent, BindEffectReceipt(id)
    PROVE  WorldInv' /\ effects'[id].state = "in-flight"
<1>1. effects \in [EffectIds -> Effect]
  BY DEF TypeOK
<1>2. /\ effects'[id].state = "in-flight" /\ effects'[id].receipt = "other"
      /\ \A e \in EffectIds \ {id} : effects'[e] = effects[e]
      /\ effects[id].state = "in-flight"
  BY <1>1 DEF BindEffectReceipt, Effect
<1>3. EffectOK(id)'
  BY <1>2 DEF BindEffectReceipt, WorldInv, EffectOK, HasEvidence, world, Outstanding
<1> QED
  BY <1>2, <1>3, OneEffect DEF BindEffectReceipt

\* An effect may be planned again only when it was never sent, and the delivery is held.
LEMMA UndeliveredKeeps ==
    ASSUME TypeOK, WorldInv, UNCHANGED world, NEW id \in EffectIds, NEW state, SettleUndelivered(id, state),
           state = "planned" => id \notin sent /\ ScopeHeld
    PROVE  WorldInv'
<1>1. effects \in [EffectIds -> Effect]
  BY DEF TypeOK
<1>2. /\ effects'[id].state = state /\ effects'[id].receipt = "other"
      /\ \A e \in EffectIds \ {id} : effects'[e] = effects[e]
      /\ state \in {"uncertain", "planned"}
  BY <1>1 DEF SettleUndelivered, Effect
<1>3. EffectOK(id)'
  BY <1>2 DEF SettleUndelivered, WorldInv, EffectOK, HasEvidence, world, Outstanding, ScopeHeld
<1> QED
  BY <1>2, <1>3, OneEffect DEF SettleUndelivered

\* An effect may be delivered only when it no longer runs; its result must have been
\* observed where the receipt says so.
LEMMA DeliveredKeeps ==
    ASSUME TypeOK, WorldInv, UNCHANGED world, NEW id \in EffectIds, NEW ref, NEW ms, NEW pull,
           SettleDelivered(id, ref, ms, pull), ref # "none", id \notin running,
           id \in landed \/ (KindOf(id) \notin PublicationKinds /\ ref # "own")
    PROVE  WorldInv'
<1>1. effects \in [EffectIds -> Effect]
  BY DEF TypeOK
<1>2. /\ effects'[id].state = "delivered" /\ effects'[id].receipt = ref
      /\ \A e \in EffectIds \ {id} : effects'[e] = effects[e]
  BY <1>1 DEF SettleDelivered, Effect
<1>3. EffectOK(id)'
  BY <1>2 DEF SettleDelivered, WorldInv, EffectOK, HasEvidence, world
<1> QED
  BY <1>2, <1>3, OneEffect DEF SettleDelivered

\* Evidence is recorded only of what was observed.
LEMMA CertifyKeeps ==
    ASSUME TypeOK, WorldInv, UNCHANGED world, NEW id \in EffectIds, Certify(id), id \in landed
    PROVE  WorldInv'
<1>1. PICK result \in EvidenceResults, verification \in Citable(id) :
          RecordEvidence([effect |-> id, result |-> result, independent |-> TRUE,
                          verification |-> verification])
  BY DEF Certify
<1> DEFINE e == [effect |-> id, result |-> result, independent |-> TRUE, verification |-> verification]
<1>2. KindOf(id) \in EvidenceKinds /\ evidence' = Append(evidence, e)
  BY <1>1 DEF RecordEvidence
<1>3. UNCHANGED <<effects, assessments, repairs, open, resolved>>
  BY <1>1 DEF RecordEvidence
<1>4. e.effect = id
  OBVIOUS
<1> HIDE DEF e
<1>5. \A other \in EffectIds \ {id} : HasEvidence(other)' => HasEvidence(other)
  <2>1. evidence \in Seq(Evidence)
    BY DEF TypeOK
  <2>2. DOMAIN evidence = 1..Len(evidence) /\ Len(evidence) \in Nat
    BY <2>1, LenProperties
  <2>3. \A i \in DOMAIN evidence' :
            \/ i \in DOMAIN evidence /\ evidence'[i] = evidence[i]
            \/ evidence'[i] = e
    BY <1>2, <2>1, <2>2
  <2> QED
    BY <1>4, <2>3 DEF HasEvidence
<1>6. \A other \in EffectIds : EffectOK(other)'
  BY <1>2, <1>3, <1>5 DEF WorldInv, EffectOK, Outstanding, ScopeHeld, world
<1>7. \A k \in Ordinals : AssessmentOK(k)' /\ RepairOK(k)'
  BY <1>3 DEF WorldInv, AssessmentOK, RepairOK, Unsettled, ReservedRepairs, world
<1> QED
  BY <1>3, <1>6, <1>7 DEF WorldInv

LEMMA CommitIsCalm ==
    ASSUME WorldInv, UNCHANGED world, BindCommit
    PROVE  Calm
BY DEF BindCommit, Calm, WorldInv, ScopeHeld

LEMMA ReserveProgressKeeps ==
    ASSUME TypeOK, WorldInv, UNCHANGED world, ReserveProgress
    PROVE  WorldInv'
<1>1. assessments \in [Ordinals -> Assessment]
  BY DEF TypeOK
<1> DEFINE k == Len(repairs) + 1
<1>2. k \in Ordinals
  BY Histories, ConstantsAssumption DEF ReserveProgress, Ordinals
<1>3. PICK n \in Ordinals : n = k
  BY <1>2
<1>4. /\ assessments[n].state = "absent"
      /\ \A j \in Ordinals \ {n} : assessments'[j] = assessments[j]
      /\ UNCHANGED <<effects, evidence, repairs, resolved, open>>
  BY <1>1, <1>3 DEF ReserveProgress
<1>5. AssessmentCause(n) \notin sent /\ AssessmentCause(n) \notin landed /\ AssessmentCause(n) \notin running
  BY <1>4 DEF WorldInv, AssessmentOK
<1>6. AssessmentOK(n)'
  BY <1>5 DEF AssessmentOK, world
<1> QED
  BY <1>4, <1>6, OneAssessment

LEMMA StartProgressKeeps ==
    ASSUME TypeOK, WorldInv, UNCHANGED world, NEW k \in Ordinals, StartProgress(k)
    PROVE  WorldInv' /\ assessments'[k].state = "in-flight" /\ AssessmentCause(k) \notin sent
<1>1. assessments \in [Ordinals -> Assessment]
  BY DEF TypeOK
<1>2. /\ assessments'[k].state = "in-flight"
      /\ assessments[k].state = "reserved"
      /\ \A j \in Ordinals \ {k} : assessments'[j] = assessments[j]
  BY <1>1 DEF StartProgress, Assessment
<1>3. AssessmentOK(k)' /\ AssessmentCause(k) \notin sent
  BY <1>2 DEF WorldInv, AssessmentOK, Unsettled, world
<1> QED
  BY <1>2, <1>3, OneAssessment DEF StartProgress

LEMMA SubmissionKeeps ==
    ASSUME TypeOK, WorldInv, UNCHANGED world, NEW k \in Ordinals, BindSubmission(k)
    PROVE  WorldInv'
<1>1. assessments \in [Ordinals -> Assessment]
  BY DEF TypeOK
<1>2. /\ assessments'[k].state = assessments[k].state
      /\ \A j \in Ordinals \ {k} : assessments'[j] = assessments[j]
  BY <1>1 DEF BindSubmission, Assessment
<1>3. AssessmentOK(k)'
  BY <1>2 DEF WorldInv, AssessmentOK, Unsettled, world
<1> QED
  BY <1>2, <1>3, OneAssessment DEF BindSubmission

LEMMA LoseKeeps ==
    ASSUME TypeOK, WorldInv, UNCHANGED world, NEW k \in Ordinals, LoseAssessment(k),
           Unsettled(k)
    PROVE  WorldInv' /\ StepInv'
<1>1. assessments \in [Ordinals -> Assessment]
  BY DEF TypeOK
<1>2. UNCHANGED vars => WorldInv'
  BY NothingIsCalm, CalmKeeps
<1>3. ASSUME UncertainProgress(k) PROVE WorldInv'
  <2>1. /\ assessments'[k].state = "uncertain"
        /\ \A j \in Ordinals \ {k} : assessments'[j] = assessments[j]
    BY <1>1, <1>3 DEF UncertainProgress, Assessment
  <2>2. AssessmentOK(k)'
    BY <1>3, <2>1 DEF WorldInv, AssessmentOK, Unsettled, world
  <2> QED
    BY <1>3, <2>1, <2>2, OneAssessment DEF UncertainProgress
<1>4. StepInv'
  <2>1. AssessmentAt("judge-failed", k)'
    BY DEF AssessmentAt
  <2> QED
    BY <2>1, GotoAssessment DEF LoseAssessment, Labels
<1> QED
  BY <1>2, <1>3, <1>4 DEF LoseAssessment

\* An assessment may be settled only when its reviewer no longer runs.
LEMMA SettleProgressKeeps ==
    ASSUME TypeOK, WorldInv, UNCHANGED world, NEW k \in Ordinals, NEW decision, NEW ms,
           SettleProgress(k, decision, ms), AssessmentCause(k) \notin running
    PROVE  WorldInv'
<1>1. assessments \in [Ordinals -> Assessment]
  BY DEF TypeOK
<1>2. /\ assessments'[k].state = "settled"
      /\ \A j \in Ordinals \ {k} : assessments'[j] = assessments[j]
  BY <1>1 DEF SettleProgress, Assessment
<1>3. AssessmentOK(k)'
  BY <1>2 DEF WorldInv, AssessmentOK, Unsettled, world
<1> QED
  BY <1>2, <1>3, OneAssessment DEF SettleProgress

LEMMA ReserveRepairKeeps ==
    ASSUME TypeOK, WorldInv, UNCHANGED world, NEW ms, ReserveRepair(ms)
    PROVE  /\ WorldInv'
           /\ \A k \in Ordinals : k = Len(repairs) + 1 =>
                 k \in ReservedRepairs' /\ RepairCause(k) \notin sent \cup landed
<1> DEFINE new == [status |-> "reserved", from |-> revision, reserved |-> ms, exec |-> NoMs]
<1>1. repairs \in Seq(Repair) /\ new \in Repair
  BY ConstantsAssumption DEF TypeOK, Repair, ReserveRepair
<1>2. repairs' = Append(repairs, new) /\ new.status = "reserved"
  BY DEF ReserveRepair
<1>3. Len(repairs) \in Nat /\ DOMAIN repairs = 1..Len(repairs)
  BY <1>1, LenProperties
<1> HIDE DEF new
<1>4. /\ DOMAIN repairs' = 1..(Len(repairs) + 1)
      /\ repairs'[Len(repairs) + 1] = new
      /\ \A k \in DOMAIN repairs : repairs'[k] = repairs[k]
  BY <1>1, <1>2, <1>3
<1>5. ReservedRepairs \subseteq ReservedRepairs' /\ Len(repairs) + 1 \in ReservedRepairs'
  BY <1>2, <1>3, <1>4 DEF ReservedRepairs
<1>6. DOMAIN repairs \subseteq DOMAIN repairs'
  BY <1>3, <1>4
<1>7. \A k \in Ordinals : RepairOK(k)'
  BY <1>5, <1>6 DEF WorldInv, RepairOK, world
<1>8. \A k \in Ordinals : k = Len(repairs) + 1 => RepairCause(k) \notin sent \cup landed
  BY <1>3 DEF WorldInv, RepairOK
<1> QED
  BY <1>5, <1>7, <1>8, SomeRepair DEF ReserveRepair

\* A repair may be finished only when its coding run has.
LEMMA FinishRepairKeeps ==
    ASSUME TypeOK, WorldInv, UNCHANGED world, NEW k \in Ordinals, NEW status, NEW ms,
           FinishRepair(k, status, ms), RepairCause(k) \notin running
    PROVE  WorldInv'
<1>1. repairs \in Seq(Repair) /\ k \in DOMAIN repairs
  BY DEF TypeOK, FinishRepair, ReservedRepairs
<1>2. DOMAIN repairs' = DOMAIN repairs /\ \A j \in DOMAIN repairs \ {k} : repairs'[j] = repairs[j]
  BY <1>1 DEF FinishRepair
<1>3. ReservedRepairs \ {k} \subseteq ReservedRepairs'
  BY <1>2 DEF ReservedRepairs
<1>4. \A j \in Ordinals : RepairOK(j)'
  BY <1>2, <1>3 DEF WorldInv, RepairOK, world
<1> QED
  BY <1>4, SomeRepair DEF FinishRepair

-----------------------------------------------------------------------------
(* The step, position by position. *)

LEMMA RecoverKeeps ==
    ASSUME CoordinatorInv, UNCHANGED world, Recover
    PROVE  WorldInv' /\ StepInv'
<1> USE DEF CoordinatorInv, CoordinatorTypeOK
<1>1. ASSUME NEW k \in Ordinals, RecoverAssessment(k) PROVE WorldInv' /\ StepInv'
  <2>1. Unsettled(k)
    BY <1>1 DEF RecoverAssessment
  <2>2. CASE LoseAssessment(k)
    BY <2>1, <2>2, LoseKeeps
  <2>3. CASE /\ AssessmentCause(k) \notin running
             /\ \E decision, ms : SettleProgress(k, decision, ms)
             /\ Return
    BY <2>3, SettleProgressKeeps, ReturnKeeps
  <2>4. AssessmentCause(k) \in landed => AssessmentCause(k) \notin running
    BY DEF WorldInv, AssessmentOK
  <2> QED
    BY <1>1, <2>2, <2>3, <2>4 DEF RecoverAssessment, EndedSilently
<1>2. ASSUME NEW k \in Ordinals, SettleRepair(k) PROVE WorldInv' /\ StepInv'
  <2>1. RepairCause(k) \notin running
    BY <1>2 DEF SettleRepair, WorldInv, RepairOK
  <2>2. RepairAt("finished", k)'
    BY DEF RepairAt
  <2> QED
    BY <1>2, <2>1, <2>2, FinishRepairKeeps, GotoRepair DEF SettleRepair, Labels
<1>3. ASSUME NEW id \in EffectIds, RecoverEffect(id) PROVE WorldInv' /\ StepInv'
  <2>1. CASE RefusalRecorded(id) /\ UNCHANGED vars /\ Goto("bound", id)
    <3>1. effects[id].state = "in-flight" /\ id \notin sent
      BY <2>1 DEF RefusalRecorded, WorldInv, EffectOK
    <3>2. EffectAt("bound", id)'
      BY <2>1, <3>1 DEF EffectAt, vars, world
    <3> QED
      BY <2>1, <3>2, NothingIsCalm, CalmKeeps, GotoEffect DEF Labels
  <2>2. CASE LeaveUnseen(id) /\ Return
    BY <2>2, NothingIsCalm, CalmKeeps, ReturnKeeps DEF LeaveUnseen
  <2>3. CASE EndedSilently(id) /\ KindOf(id) = "review" /\ SettleDelivered(id, "other", NoMs, None) /\ Return
    BY <2>3, DeliveredKeeps, ReturnKeeps DEF EndedSilently, PublicationKinds
  <2>4. CASE id \in landed /\ Certify(id) /\ Goto("settle", id)
    <3>1. EffectAt("settle", id)'
      BY <2>4 DEF EffectAt, world
    <3> QED
      BY <2>4, <3>1, CertifyKeeps, GotoEffect DEF Labels
  <2>5. CASE id \in landed /\ UNCHANGED vars /\ (Goto("settle", id) \/ Goto("recover", id))
    <3>1. EffectAt("settle", id)' /\ EffectAt("recover", id)'
      BY <2>5 DEF EffectAt, world
    <3> QED
      BY <2>5, <3>1, NothingIsCalm, CalmKeeps, GotoEffect DEF Labels
  <2> QED
    BY <1>3, <2>1, <2>2, <2>3, <2>4, <2>5 DEF RecoverEffect
<1>4. CASE EndHeld
  <2>1. Return
    BY <1>4 DEF EndHeld
  <2>2. Calm
    BY <1>4 DEF EndHeld, Finish, Calm, WorldInv, ScopeHeld
  <2> QED
    BY <2>1, <2>2, CalmKeeps, ReturnKeeps
<1> QED
  BY <1>1, <1>2, <1>3, <1>4 DEF Recover

LEMMA DecisionKeeps ==
    ASSUME CoordinatorInv, UNCHANGED world,
           \/ Begin \/ Abandon \/ CandidateChanged \/ HoldBlocked \/ PlanNext \/ Watch \/ HoldExhausted
           \/ Ask \/ Reuse \/ HoldUnreadableHistory \/ AdmitAssessment \/ ObserveRepair \/ HoldExecutable
           \/ HoldLostAssessment
    PROVE  WorldInv' /\ StepInv'
<1> USE DEF CoordinatorInv, CoordinatorTypeOK
<1>1. CASE (UNCHANGED vars \/ \E i : Raise(i)) /\ (Return \/ Goto("decide", NoEffect))
  BY <1>1, NothingIsCalm, RaiseIsCalm, CalmKeeps, ReturnKeeps, GotoNowhere DEF Labels
<1>2. CASE \/ Begin \/ Abandon \/ CandidateChanged \/ HoldBlocked \/ HoldExhausted \/ HoldUnreadableHistory
           \/ ObserveRepair \/ HoldExecutable \/ HoldLostAssessment
  BY <1>1, <1>2 DEF Begin, Abandon, CandidateChanged, HoldBlocked, HoldExhausted, HoldUnreadableHistory,
                    ObserveRepair, HoldExecutable, HoldLostAssessment, Hold
<1>3. CASE PlanNext
  <2>1. PICK id \in EffectIds : id = NextEffect
    BY <1>3 DEF PlanNext
  <2>2. CASE (UNCHANGED vars \/ Hold("budget")) /\ Return
    BY <1>1, <2>2 DEF Hold
  <2>3. CASE UNCHANGED vars /\ Goto("claim", id)
    BY <2>3, NothingIsCalm, CalmKeeps, GotoEffect DEF Labels, EffectAt
  <2>4. CASE (\E ms : PlanEffect(id, ms)) /\ (Goto("claim", id) \/ Return)
    BY <2>4, PlanKeeps, GotoEffect, ReturnKeeps DEF Labels, EffectAt
  <2> QED
    BY <1>3, <2>1, <2>2, <2>3, <2>4 DEF PlanNext
<1>4. CASE Watch
  <2>1. Return
    BY <1>4 DEF Watch
  <2>2. CASE Finish("merged") \/ RecordFeedback(TRUE, FALSE)
    BY <2>1, <2>2, CalmKeeps, ReturnKeeps DEF Finish, RecordFeedback, Calm, WorldInv, ScopeHeld
  <2> QED
    BY <1>1, <1>4, <2>1, <2>2 DEF Watch, Hold
<1>5. ASSUME Ask \/ Reuse PROVE NextOrdinal \in Ordinals
  BY <1>5, Histories, ConstantsAssumption DEF Ask, Reuse, Asked, Exhausted, NextOrdinal, Ordinals
<1>6. CASE Ask \/ Reuse
  <2>1. PICK k \in Ordinals : k = NextOrdinal
    BY <1>5, <1>6
  <2>2. CASE UNCHANGED vars /\ (Goto("packet", AssessmentCause(k)) \/ Goto("approve", AssessmentCause(k)))
    <3>1. AssessmentAt("packet", k)' /\ AssessmentAt("approve", k)'
      BY <2>1, <2>2 DEF AssessmentAt, NextOrdinal, vars
    <3> QED
      BY <2>2, <3>1, NothingIsCalm, CalmKeeps, GotoAssessment DEF Labels
  <2> QED
    BY <1>1, <1>6, <2>1, <2>2 DEF Ask, Reuse, NextAssessment, Hold
<1>7. CASE AdmitAssessment
  <2>1. step' = [at |-> "judge", work |-> step.work]
    BY <1>7 DEF AdmitAssessment, Goto
  <2>2. StepInv'
    BY <2>1, Sorts DEF StepInv, Steps, Labels, EffectAt, AssessmentAt, RepairAt
  <2> QED
    BY <1>7, <2>2, ReserveProgressKeeps DEF AdmitAssessment
<1> QED
  BY <1>2, <1>3, <1>4, <1>6, <1>7

LEMMA EffectKeeps ==
    ASSUME CoordinatorInv, UNCHANGED world, NEW id \in EffectIds, id = step.work, StepEffect(id)
    PROVE  WorldInv' /\ StepInv'
<1> USE DEF CoordinatorInv, CoordinatorTypeOK
<1>0. EffectAt(step.at, id)
  BY DEF StepInv
<1>1. CASE Claim(id)
  <2>1. WorldInv' /\ effects'[id].state = "in-flight" /\ effects'[id].receipt = "none" /\ id \notin sent
    BY <1>1, StartKeeps DEF Claim
  <2>2. EffectAt("dispatch", id)' /\ EffectAt("refused", id)'
    BY <2>1 DEF EffectAt, world
  <2> QED
    BY <1>1, <2>1, <2>2, GotoEffect DEF Claim, Labels
<1>2. CASE RefuseEffect(id)
  <2>1. effects[id].state = "in-flight" /\ id \notin sent
    BY <1>0, <1>2 DEF RefuseEffect, EffectAt, At
  <2>2. EffectAt("refused", id)'
    BY <1>2, <2>1 DEF RefuseEffect, EffectAt, world, vars
  <2> QED
    BY <1>2, <2>2, NothingIsCalm, CalmKeeps, GotoEffect DEF RefuseEffect, Labels
<1>3. CASE RecordRefusal(id)
  <2>1. id \notin sent
    BY <1>0, <1>3 DEF RecordRefusal, EffectAt, At
  <2>2. WorldInv' /\ effects'[id].state = "in-flight"
    BY <1>3, <2>1, BindKeeps DEF RecordRefusal
  <2>3. EffectAt("bound", id)'
    BY <2>1, <2>2 DEF EffectAt, world
  <2> QED
    BY <1>3, <2>2, <2>3, GotoEffect DEF RecordRefusal, Labels
<1>4. CASE HoldRefusal(id)
  <2>1. effects[id].state = "in-flight" /\ id \notin sent
    BY <1>0, <1>4 DEF HoldRefusal, EffectAt, At
  <2>2. Active
    BY <2>1 DEF ExclusionInv, UnresolvedEffects, Outstanding
  <2>3. Calm /\ effects' = effects
    BY <1>4, HoldIsCalm DEF HoldRefusal, Calm
  <2>4. ScopeHeld'
    BY <1>4, <2>2 DEF HoldRefusal, Hold, Raise, Intervene, WorldInv, ScopeHeld, vars
  <2>5. EffectAt("held", id)'
    BY <2>1, <2>3, <2>4 DEF EffectAt, world
  <2> QED
    BY <1>4, <2>3, <2>5, CalmKeeps, GotoEffect DEF HoldRefusal, Labels
<1>5. CASE SettleRefusal(id)
  <2>1. id \notin sent /\ ScopeHeld
    BY <1>0, <1>5 DEF SettleRefusal, EffectAt, At
  <2> QED
    BY <1>5, <2>1, UndeliveredKeeps, ReturnKeeps DEF SettleRefusal
<1>6. CASE FailEffect(id)
  BY <1>6, UndeliveredKeeps, ReturnKeeps DEF FailEffect
<1>7. CASE Clear(id)
  <2>1. EffectAt("cleared", id)'
    BY <1>0, <1>7 DEF Clear, At, EffectAt, world, vars
  <2> QED
    BY <1>7, <2>1, NothingIsCalm, CalmKeeps, GotoEffect DEF Clear, Labels
<1>8. CASE Report(id)
  <2>1. EffectAt("settle", id)' /\ EffectAt("certify", id)'
    BY <1>0, <1>8 DEF Report, At, EffectAt, Outstanding, world, vars
  <2> QED
    BY <1>8, <2>1, NothingIsCalm, CalmKeeps, GotoEffect DEF Report, Labels
<1>9. CASE SettleReviewer(id)
  BY <1>9, DeliveredKeeps, ReturnKeeps DEF SettleReviewer, EndedSilently, PublicationKinds
<1>10. CASE RecordResult(id) \/ RecoverCommit(id)
  <2>1. id \in landed
    BY <1>0, <1>10 DEF RecordResult, RecoverCommit, At, EffectAt
  <2>2. EffectAt("settle", id)'
    BY <2>1 DEF EffectAt, world
  <2>3. WorldInv'
    BY <1>10, <2>1, CertifyKeeps, CommitIsCalm, NothingIsCalm, CalmKeeps DEF RecordResult, RecoverCommit
  <2> QED
    BY <1>10, <2>2, <2>3, GotoEffect DEF RecordResult, RecoverCommit, Labels
<1>11. CASE SettleEffect(id)
  <2>1. id \in landed /\ id \notin running
    BY <1>0, <1>11 DEF SettleEffect, At, EffectAt, WorldInv, EffectOK
  <2>2. WorldInv'
    BY <1>11, <2>1, DeliveredKeeps DEF SettleEffect
  <2>3. ASSUME Goto("setup", id), \E i \in Latest("verification", "blocked") : evidence[i].effect = id
        PROVE  StepInv'
    <3>1. KindOf(id) = "verification"
      BY <2>3 DEF Latest, CurrentEvidence
    <3>2. EffectAt("setup", id)'
      BY <3>1 DEF EffectAt
    <3> QED
      BY <2>3, <3>2, GotoEffect DEF Labels
  <2> QED
    BY <1>11, <2>2, <2>3, ReturnKeeps DEF SettleEffect
<1>12. CASE HoldSetup(id)
  BY <1>12, NothingIsCalm, RaiseIsCalm, CalmKeeps, ReturnKeeps DEF HoldSetup
<1> QED
  BY <1>1, <1>2, <1>3, <1>4, <1>5, <1>6, <1>7, <1>8, <1>9, <1>10, <1>11, <1>12 DEF StepEffect

LEMMA AssessmentKeeps ==
    ASSUME CoordinatorInv, UNCHANGED world, NEW k \in Ordinals, step.work = AssessmentCause(k), StepAssessment(k)
    PROVE  WorldInv' /\ StepInv'
<1> USE DEF CoordinatorInv, CoordinatorTypeOK
<1>0. AssessmentAt(step.at, k)
  BY DEF StepInv
<1>1. CASE StartAssessment(k)
  <2>1. WorldInv' /\ assessments'[k].state = "in-flight" /\ AssessmentCause(k) \notin sent
    BY <1>1, StartProgressKeeps DEF StartAssessment
  <2>2. AssessmentAt("dispatch", k)'
    BY <2>1 DEF AssessmentAt, world
  <2> QED
    BY <1>1, <2>1, <2>2, GotoAssessment DEF StartAssessment, Labels
<1>2. CASE BindAssessment(k)
  BY <1>2, SubmissionKeeps, GotoAssessment DEF BindAssessment, Labels, AssessmentAt
<1>3. CASE FailAssessment(k)
  <2>1. CASE UNCHANGED vars /\ LoseAssessment(k)
    BY <2>1, NothingIsCalm, CalmKeeps, GotoAssessment DEF LoseAssessment, Labels, AssessmentAt
  <2>2. CASE Unsettled(k) /\ LoseAssessment(k)
    BY <2>2, LoseKeeps
  <2>3. UncertainProgress(k) => Unsettled(k)
    BY DEF UncertainProgress, Unsettled
  <2> QED
    BY <1>3, <2>1, <2>2, <2>3 DEF FailAssessment, LoseAssessment
<1>4. CASE ReadAssessment(k)
  <2>1. AssessmentAt("certify", k)'
    BY <1>4 DEF ReadAssessment, AssessmentAt, world
  <2> QED
    BY <1>4, <2>1, NothingIsCalm, CalmKeeps, GotoAssessment DEF ReadAssessment, Labels
<1>5. CASE AcceptAssessment(k)
  <2>1. AssessmentCause(k) \notin running
    BY <1>0, <1>5 DEF AcceptAssessment, At, AssessmentAt, WorldInv, AssessmentOK
  <2>2. PICK decision \in {"approve", "escalate"}, ms \in Durations :
            /\ SettleProgress(k, decision, ms)
            /\ Goto("approve", AssessmentCause(k)) \/ Return
    BY <1>5 DEF AcceptAssessment
  <2>3. k = Len(repairs) + 1
    BY <2>2 DEF SettleProgress, ExclusionInv, OutstandingIsCurrent, Unsettled
  <2>4. AssessmentAt("approve", k)'
    BY <2>2, <2>3 DEF SettleProgress, AssessmentAt
  <2> QED
    BY <2>1, <2>2, <2>4, SettleProgressKeeps, GotoAssessment, ReturnKeeps DEF Labels
<1>6. CASE UseApproval(k)
  <2>1. CASE Hold("authority") /\ Return
    BY <2>1, HoldIsCalm, CalmKeeps, ReturnKeeps
  <2>2. CASE UNCHANGED vars /\ (Goto("reserve", RepairCause(k)) \/ Return)
    <3>1. RepairAt("reserve", k)'
      BY <1>0, <1>6, <2>2 DEF UseApproval, At, AssessmentAt, RepairAt, vars
    <3> QED
      BY <2>2, <3>1, NothingIsCalm, CalmKeeps, GotoRepair, ReturnKeeps DEF Labels
  <2> QED
    BY <1>6, <2>1, <2>2 DEF UseApproval
<1> QED
  BY <1>1, <1>2, <1>3, <1>4, <1>5, <1>6 DEF StepAssessment

LEMMA RepairKeeps ==
    ASSUME CoordinatorInv, UNCHANGED world, NEW k \in Ordinals, step.work = RepairCause(k), StepRepair(k)
    PROVE  WorldInv' /\ StepInv'
<1> USE DEF CoordinatorInv, CoordinatorTypeOK
<1>0. RepairAt(step.at, k)
  BY DEF StepInv
<1>1. CASE AdmitRepair(k)
  <2>1. CASE Hold("budget") /\ Return
    BY <2>1, HoldIsCalm, CalmKeeps, ReturnKeeps
  <2>2. ASSUME NEW ms, ReserveRepair(ms), Goto("launch", RepairCause(k)) PROVE WorldInv' /\ StepInv'
    <3>1. k = Len(repairs) + 1
      BY <1>0, <1>1 DEF AdmitRepair, At, RepairAt
    <3>2. WorldInv' /\ k \in ReservedRepairs' /\ RepairCause(k) \notin sent \cup landed
      BY <2>2, <3>1, ReserveRepairKeeps
    <3>3. RepairAt("launch", k)'
      BY <3>2 DEF RepairAt, world
    <3> QED
      BY <2>2, <3>2, <3>3, GotoRepair DEF Labels
  <2> QED
    BY <1>1, <2>1, <2>2 DEF AdmitRepair
<1>2. CASE ExplainUsage(k)
  <2>1. Calm /\ UNCHANGED step
    BY <1>2, HoldIsCalm DEF ExplainUsage
  <2> QED
    BY <2>1, CalmKeeps, StepKept DEF Calm, world
<1>3. CASE HoldFailedRepair(k)
  BY <1>3, NothingIsCalm, HoldIsCalm, CalmKeeps, ReturnKeeps DEF HoldFailedRepair
<1> QED
  BY <1>1, <1>2, <1>3 DEF StepRepair

\* What is dispatched was never sent, and is outstanding in the record.
LEMMA SendEffectKeeps ==
    ASSUME CoordinatorInv, NEW id \in EffectIds, id = step.work, SendEffect(id)
    PROVE  WorldInv' /\ StepInv' /\ id \notin sent /\ Outstanding(id)
<1>1. effects[id].state = "in-flight" /\ effects[id].receipt = "none" /\ id \notin sent
  BY DEF SendEffect, At, CoordinatorInv, StepInv, EffectAt
<1>2. /\ running' = running \cup {id} /\ sent' = sent \cup {id} /\ landed' = landed
      /\ UNCHANGED vars /\ Goto("run", id)
  BY DEF SendEffect, Dispatch
<1>3. EffectOK(id)'
  BY <1>1, <1>2 DEF CoordinatorInv, WorldInv, EffectOK, Outstanding, HasEvidence, vars
<1>4. \A e \in EffectIds \ {id} : EffectOK(e)'
  BY <1>2 DEF CoordinatorInv, WorldInv, EffectOK, Outstanding, HasEvidence, ScopeHeld, vars
<1>5. \A k \in Ordinals : AssessmentOK(k)' /\ RepairOK(k)'
  <2>1. \A k \in Ordinals : id # AssessmentCause(k) /\ id # RepairCause(k)
    BY Sorts
  <2> QED
    BY <1>2, <2>1 DEF CoordinatorInv, WorldInv, AssessmentOK, RepairOK, Unsettled, ReservedRepairs, vars
<1>6. WorldInv'
  BY <1>2, <1>3, <1>4, <1>5 DEF CoordinatorInv, WorldInv, vars
<1>7. EffectAt("run", id)'
  BY <1>1, <1>2 DEF EffectAt, Outstanding, vars
<1> QED
  BY <1>1, <1>2, <1>6, <1>7, GotoEffect DEF Labels, Outstanding

LEMMA SendAssessmentKeeps ==
    ASSUME CoordinatorInv, NEW k \in Ordinals, step.work = AssessmentCause(k), SendAssessment(k)
    PROVE  WorldInv' /\ StepInv' /\ AssessmentCause(k) \notin sent /\ Unsettled(k)
<1> DEFINE work == AssessmentCause(k)
<1>1. assessments[k].state = "in-flight" /\ work \notin sent
  BY DEF SendAssessment, At, CoordinatorInv, StepInv, AssessmentAt
<1>2. /\ running' = running \cup {work} /\ sent' = sent \cup {work} /\ landed' = landed
      /\ UNCHANGED vars /\ Goto("bind", work)
  BY DEF SendAssessment, Dispatch
<1>3. /\ work \notin EffectIds
      /\ \A j \in Ordinals : work # RepairCause(j) /\ (work = AssessmentCause(j) => j = k)
  BY Sorts
<1> HIDE DEF work
<1>4. \A e \in EffectIds : EffectOK(e)'
  BY <1>2, <1>3 DEF CoordinatorInv, WorldInv, EffectOK, Outstanding, HasEvidence, ScopeHeld, vars
<1>5. \A j \in Ordinals : RepairOK(j)'
  BY <1>2, <1>3 DEF CoordinatorInv, WorldInv, RepairOK, ReservedRepairs, vars
<1>6. \A j \in Ordinals \ {k} : AssessmentOK(j)'
  BY <1>2, <1>3 DEF CoordinatorInv, WorldInv, AssessmentOK, Unsettled, vars
<1>7. AssessmentOK(k)'
  BY <1>1, <1>2 DEF work, CoordinatorInv, WorldInv, AssessmentOK, Unsettled, vars
<1>8. WorldInv'
  BY <1>2, <1>4, <1>5, <1>6, <1>7 DEF CoordinatorInv, WorldInv, vars
<1> QED
  BY <1>1, <1>2, <1>8, GotoAssessment DEF work, Labels, AssessmentAt, Unsettled

LEMMA LaunchKeeps ==
    ASSUME CoordinatorInv, NEW k \in Ordinals, step.work = RepairCause(k), Launch(k)
    PROVE  WorldInv' /\ StepInv' /\ RepairCause(k) \notin sent /\ k \in ReservedRepairs
<1> DEFINE work == RepairCause(k)
<1>1. k \in ReservedRepairs /\ work \notin sent \cup landed
  BY DEF Launch, At, CoordinatorInv, StepInv, RepairAt
<1>2. /\ running' = running \cup {work} /\ sent' = sent \cup {work} /\ landed' = landed
      /\ UNCHANGED vars /\ Return
  BY DEF Launch, Dispatch
<1>3. /\ work \notin EffectIds
      /\ \A j \in Ordinals : work # AssessmentCause(j) /\ (work = RepairCause(j) => j = k)
  BY Sorts
<1> HIDE DEF work
<1>4. \A e \in EffectIds : EffectOK(e)'
  BY <1>2, <1>3 DEF CoordinatorInv, WorldInv, EffectOK, Outstanding, HasEvidence, ScopeHeld, vars
<1>5. \A j \in Ordinals : AssessmentOK(j)'
  BY <1>2, <1>3 DEF CoordinatorInv, WorldInv, AssessmentOK, Unsettled, vars
<1>6. \A j \in Ordinals \ {k} : RepairOK(j)'
  BY <1>2, <1>3 DEF CoordinatorInv, WorldInv, RepairOK, ReservedRepairs, vars
<1>7. RepairOK(k)'
  BY <1>1, <1>2 DEF work, RepairOK, ReservedRepairs, vars
<1>8. WorldInv'
  BY <1>2, <1>4, <1>5, <1>6, <1>7 DEF CoordinatorInv, WorldInv, vars
<1> QED
  BY <1>1, <1>2, <1>8, ReturnKeeps DEF work

LEMMA FenceKeeps ==
    ASSUME CoordinatorInv, NEW k \in Ordinals, step.work = RepairCause(k), FenceLaunch(k)
    PROVE  WorldInv' /\ StepInv'
<1> DEFINE work == RepairCause(k)
<1>1. k \in ReservedRepairs /\ work \notin sent \cup landed
  BY DEF FenceLaunch, At, CoordinatorInv, StepInv, RepairAt
<1>2. /\ landed \subseteq landed' /\ landed' \subseteq landed \cup {work}
      /\ running' = running /\ sent' = sent /\ UNCHANGED vars /\ Return
  BY DEF FenceLaunch
<1>3. /\ work \notin EffectIds
      /\ \A j \in Ordinals : work # AssessmentCause(j) /\ (work = RepairCause(j) => j = k)
  BY Sorts
<1> HIDE DEF work
<1>4. \A e \in EffectIds : EffectOK(e)'
  BY <1>2, <1>3 DEF CoordinatorInv, WorldInv, EffectOK, Outstanding, HasEvidence, ScopeHeld, vars
<1>5. \A j \in Ordinals : AssessmentOK(j)'
  BY <1>2, <1>3 DEF CoordinatorInv, WorldInv, AssessmentOK, Unsettled, vars
<1>6. \A j \in Ordinals \ {k} : RepairOK(j)'
  BY <1>2, <1>3 DEF CoordinatorInv, WorldInv, RepairOK, ReservedRepairs, vars
<1>7. RepairOK(k)'
  BY <1>1, <1>2 DEF work, CoordinatorInv, WorldInv, RepairOK, ReservedRepairs, vars
<1>8. WorldInv'
  BY <1>2, <1>4, <1>5, <1>6, <1>7 DEF CoordinatorInv, WorldInv, vars
<1> QED
  BY <1>2, <1>8, ReturnKeeps

LEMMA OperateKeeps ==
    ASSUME CoordinatorInv, Operate
    PROVE  WorldInv' /\ StepInv'
<1> USE DEF CoordinatorInv
<1>1. UNCHANGED step /\ UNCHANGED world
  BY DEF Operate, Revoke, Approve, RetryEnvironment, Operator
<1>2. CASE Revoke
  BY <1>1, <1>2, HoldIsCalm, CalmKeeps, StepKept DEF Revoke, Calm, world
<1>3. CASE Approve
  <2>1. Calm
    BY <1>1, <1>3 DEF Approve, AuthorizePublication, Calm, WorldInv, ScopeHeld
  <2> QED
    BY <1>1, <2>1, CalmKeeps, StepKept DEF Calm, world
<1>4. ASSUME NEW i \in open, RetryEnvironment(i) PROVE WorldInv' /\ StepInv'
  <2>1. Calm
    BY <1>1, <1>4 DEF RetryEnvironment, ResolveIntervention, Calm, WorldInv, ScopeHeld
  <2> QED
    BY <1>1, <2>1, CalmKeeps, StepKept DEF Calm, world
<1> QED
  BY <1>2, <1>3, <1>4 DEF Operate

\* Work that ends, observed or not.
LEMMA EndKeeps ==
    ASSUME CoordinatorInv, NEW work, Land(work) \/ Vanish(work)
    PROVE  WorldInv' /\ StepInv'
<1> USE DEF CoordinatorInv
<1>1. /\ work \in running /\ running' = running \ {work} /\ UNCHANGED vars /\ UNCHANGED <<step, sent>>
      /\ landed' = landed \/ landed' = landed \cup {work}
  BY DEF Land, Vanish
<1>2. work \in sent
  <2>1. \/ work \in EffectIds \/ \E k \in Ordinals : work = AssessmentCause(k)
        \/ \E k \in Ordinals : work = RepairCause(k)
    BY <1>1 DEF CoordinatorTypeOK, Work, Assessments
  <2> QED
    BY <1>1, <2>1 DEF WorldInv, EffectOK, AssessmentOK, RepairOK
<1>3. \A e \in EffectIds : EffectOK(e)'
  BY <1>1, <1>2 DEF WorldInv, EffectOK, Outstanding, HasEvidence, ScopeHeld, vars
<1>4. \A k \in Ordinals : AssessmentOK(k)'
  BY <1>1, <1>2 DEF WorldInv, AssessmentOK, Unsettled, vars
<1>5. \A k \in Ordinals : RepairOK(k)'
  BY <1>1, <1>2 DEF WorldInv, RepairOK, ReservedRepairs, vars
<1>6. WorldInv'
  BY <1>1, <1>3, <1>4, <1>5 DEF WorldInv, vars
<1>7. StepInv'
  BY <1>1, <1>2, StepKept DEF ScopeHeld, vars
<1> QED
  BY <1>6, <1>7

-----------------------------------------------------------------------------
(* The invariant of the coordinator. *)

\* The three dispatches, and the stretches of a step that change the record.
LEMMA AdvanceKeeps ==
    ASSUME CoordinatorInv, Advance
    PROVE  WorldInv' /\ StepInv'
<1>1. PICK work \in Work \cup {NoEffect} : work = step.work
  BY DEF CoordinatorInv, StepInv, Steps
<1>2. work \in Assessments => OrdinalOf(work) \in Ordinals /\ work = AssessmentCause(OrdinalOf(work))
  BY Sorts
<1>3. KindOf(work) = "repair" => OrdinalOf(work) \in Ordinals /\ work = RepairCause(OrdinalOf(work))
  BY Sorts
<1>4. CASE UNCHANGED world
  BY <1>1, <1>2, <1>3, <1>4, RecoverKeeps, DecisionKeeps, EffectKeeps, AssessmentKeeps, RepairKeeps,
     SendEffectKeeps, SendAssessmentKeeps, LaunchKeeps, FenceKeeps DEF Advance
<1>5. CASE \/ work \in EffectIds /\ SendEffect(work)
           \/ work \in Assessments /\ SendAssessment(OrdinalOf(work))
           \/ KindOf(work) = "repair" /\ Launch(OrdinalOf(work))
           \/ KindOf(work) = "repair" /\ FenceLaunch(OrdinalOf(work))
  BY <1>1, <1>2, <1>3, <1>5, SendEffectKeeps, SendAssessmentKeeps, LaunchKeeps, FenceKeeps
<1> QED
  BY <1>1, <1>4, <1>5 DEF Advance

LEMMA CoordinatorTypes ==
    ASSUME CoordinatorInv, [CoordinatorNext]_coordinatorVars, StepInv'
    PROVE  CoordinatorTypeOK'
<1>1. TypeOK'
  BY CoordinatorIsStep, StepTypes DEF CoordinatorInv, CoordinatorTypeOK
<1>2. step' \in [at : Labels, work : Work \cup {NoEffect}]
  BY DEF StepInv, Steps
<1>3. \/ UNCHANGED ground
      \/ merged' = TRUE /\ UNCHANGED <<valid, crashes>>
      \/ valid' = FALSE /\ UNCHANGED <<merged, crashes>>
      \/ crashes < MaxCrashes /\ crashes' = crashes + 1 /\ UNCHANGED <<valid, merged>>
  BY DEF CoordinatorNext, Advance, Operate, WorkEnds, MergePull, ChangeConfiguration, Crash, Land, Vanish,
         Revoke, Approve, RetryEnvironment, Operator, coordinatorVars
<1>4. crashes' \in 0..MaxCrashes
  BY <1>3, CoordinatorAssumption DEF CoordinatorInv, CoordinatorTypeOK, ground
<1>5. valid' \in BOOLEAN /\ merged' \in BOOLEAN
  BY <1>3, Zenon DEF CoordinatorInv, CoordinatorTypeOK, ground
<1>6. (running \subseteq Work)' /\ (sent \subseteq Work)' /\ (landed \subseteq Work)'
  <2>1. CASE Advance
    <3>1. PICK work \in Work \cup {NoEffect} : work = step.work
      BY DEF CoordinatorInv, StepInv, Steps
    <3>2. ASSUME NEW w \in Work, Dispatch(w) PROVE (running \cup sent \cup landed \subseteq Work)'
      BY <3>2 DEF Dispatch, CoordinatorInv, CoordinatorTypeOK
    <3>3. CASE work \in EffectIds /\ SendEffect(work)
      BY <3>2, <3>3 DEF SendEffect, Work
    <3>4. CASE work \in Assessments /\ SendAssessment(OrdinalOf(work))
      BY <3>2, <3>4, Sorts DEF SendAssessment, Work
    <3>5. CASE KindOf(work) = "repair" /\ Launch(OrdinalOf(work))
      BY <3>1, <3>2, <3>5, Sorts DEF Launch, Work
    <3>6. CASE KindOf(work) = "repair" /\ FenceLaunch(OrdinalOf(work))
      <4>1. RepairCause(OrdinalOf(work)) \in Work
        BY <3>1, <3>6, Sorts
      <4> QED
        BY <3>6, <4>1 DEF FenceLaunch, CoordinatorInv, CoordinatorTypeOK
    <3>7. CASE UNCHANGED world
      BY <3>7 DEF world, CoordinatorInv, CoordinatorTypeOK
    <3> QED
      BY <2>1, <3>1, <3>3, <3>4, <3>5, <3>6, <3>7 DEF Advance
  <2>2. CASE Operate
    BY <2>2 DEF Operate, Revoke, Approve, RetryEnvironment, Operator, world, CoordinatorInv, CoordinatorTypeOK
  <2>3. CASE WorkEnds
    BY <2>3 DEF WorkEnds, Land, Vanish, CoordinatorInv, CoordinatorTypeOK
  <2>4. CASE MergePull \/ ChangeConfiguration \/ Crash \/ UNCHANGED coordinatorVars
    BY <2>4 DEF MergePull, ChangeConfiguration, Crash, coordinatorVars, world, CoordinatorInv, CoordinatorTypeOK
  <2> QED
    BY <2>1, <2>2, <2>3, <2>4 DEF CoordinatorNext
<1> QED
  BY <1>1, <1>2, <1>4, <1>5, <1>6, Zenon DEF CoordinatorTypeOK

LEMMA CoordinatorStart == CoordinatorInit => CoordinatorInv
<1> SUFFICES ASSUME CoordinatorInit PROVE CoordinatorInv
  OBVIOUS
<1>1. TypeOK /\ ExclusionInv
  BY InitTypeOK, ExclusionInductive DEF CoordinatorInit
<1>2. step = Idle /\ step \in Steps
  BY DEF CoordinatorInit, Idle, Steps, Labels
<1>3. CoordinatorTypeOK
  <2>1. crashes \in 0..MaxCrashes
    BY CoordinatorAssumption DEF CoordinatorInit
  <2> QED
    BY <1>1, <1>2, <2>1, Zenon DEF CoordinatorInit, CoordinatorTypeOK, Steps
<1>4. \A id \in EffectIds : EffectOK(id)
  BY DEF CoordinatorInit, Init, EffectOK, Absent, HasEvidence
<1>5. \A k \in Ordinals : AssessmentOK(k) /\ RepairOK(k)
  BY DEF CoordinatorInit, AssessmentOK, RepairOK
<1>6. WorldInv
  BY <1>4, <1>5 DEF WorldInv, CoordinatorInit, Init
<1>7. StepInv
  BY <1>2, Sorts DEF StepInv, Idle, Work, AssessmentCause, RepairCause, NoEffect
<1> QED
  BY <1>1, <1>3, <1>6, <1>7 DEF CoordinatorInv

LEMMA CoordinatorInductive ==
    ASSUME CoordinatorInv, [CoordinatorNext]_coordinatorVars
    PROVE  CoordinatorInv'
<1>1. ExclusionInv'
  BY CoordinatorIsStep, ExclusionInductive DEF CoordinatorInv, CoordinatorTypeOK
<1>2. WorldInv' /\ StepInv'
  <2>1. CASE Advance
    BY <2>1, AdvanceKeeps
  <2>2. CASE Operate
    BY <2>2, OperateKeeps
  <2>3. CASE WorkEnds
    BY <2>3, EndKeeps DEF WorkEnds
  <2>4. CASE MergePull \/ ChangeConfiguration \/ UNCHANGED coordinatorVars
    <3>1. UNCHANGED vars /\ UNCHANGED world /\ UNCHANGED step
      BY <2>4 DEF MergePull, ChangeConfiguration, coordinatorVars
    <3> QED
      BY <3>1, NothingIsCalm, CalmKeeps, StepKept DEF CoordinatorInv, ScopeHeld, vars, world
  <2>5. CASE Crash
    BY <2>5, NothingIsCalm, CalmKeeps, ReturnKeeps DEF CoordinatorInv, Crash
  <2> QED
    BY <2>1, <2>2, <2>3, <2>4, <2>5 DEF CoordinatorNext
<1> QED
  BY <1>1, <1>2, CoordinatorTypes DEF CoordinatorInv

LEMMA CoordinatorInvariant == CoordinatorSpec => []CoordinatorInv
BY CoordinatorStart, CoordinatorInductive, PTL DEF CoordinatorSpec

-----------------------------------------------------------------------------
(* The theorems. *)

\* The coordinator only ever issues commands of the record: it implements
\* DeliveryAggregate, so that every theorem about the record holds of it.
THEOREM RecordImplemented == CoordinatorSpec => Spec
<1>1. CoordinatorInit => Init
  BY DEF CoordinatorInit
<1>2. CoordinatorInv /\ [CoordinatorNext]_coordinatorVars => [Next]_vars
  BY CoordinatorIsStep
<1> QED
  BY <1>1, <1>2, CoordinatorInvariant, PTL DEF CoordinatorSpec, Spec

\* Between its commits the step stands at one of its labels and carries work of the
\* record, for every number of crashes.
THEOREM CoordinatorTypeCorrect == CoordinatorSpec => []CoordinatorTypeOK
<1>1. CoordinatorInv => CoordinatorTypeOK
  BY DEF CoordinatorInv
<1> QED
  BY <1>1, CoordinatorInvariant, PTL

\* A dispatched effect is never reported as not delivered, and nothing is reported as
\* delivered on a receipt unless it happened.
THEOREM Ledger == CoordinatorSpec => []LedgerIsTrue
<1>1. CoordinatorInv => LedgerIsTrue
  BY DEF CoordinatorInv, WorldInv, EffectOK, LedgerIsTrue
<1> QED
  BY <1>1, CoordinatorInvariant, PTL

\* Work that runs is outstanding in the record, so a record with an outcome has none.
THEOREM QuietEnd == CoordinatorSpec => []EndedIsQuiet
<1>1. CoordinatorInv => EndedIsQuiet
  <2> SUFFICES ASSUME CoordinatorInv, ~Active, NEW work \in running PROVE FALSE
    BY DEF EndedIsQuiet
  <2>1. ~UnresolvedEffects /\ ReservedRepairs = {}
    BY DEF CoordinatorInv, ExclusionInv
  <2>2. \/ work \in EffectIds \/ \E k \in Ordinals : work = AssessmentCause(k)
        \/ \E k \in Ordinals : work = RepairCause(k)
    BY DEF CoordinatorInv, CoordinatorTypeOK, Work, Assessments
  <2> QED
    BY <2>1, <2>2 DEF CoordinatorInv, WorldInv, EffectOK, AssessmentOK, RepairOK, UnresolvedEffects
<1> QED
  BY <1>1, CoordinatorInvariant, PTL

\* Running work is the outstanding work of the record, and there is one at most.
LEMMA NothingElseRuns ==
    ASSUME CoordinatorInv, NEW work \in Work \ sent,
           \/ work \in EffectIds /\ Outstanding(work)
           \/ \E k \in Ordinals : work = AssessmentCause(k) /\ Unsettled(k)
           \/ \E k \in Ordinals : work = RepairCause(k) /\ k \in ReservedRepairs
    PROVE  running = {}
<1> SUFFICES ASSUME NEW other \in running PROVE FALSE
  OBVIOUS
<1>1. \/ other \in EffectIds \/ \E k \in Ordinals : other = AssessmentCause(k)
      \/ \E k \in Ordinals : other = RepairCause(k)
  BY DEF CoordinatorInv, CoordinatorTypeOK, Work, Assessments
<1>2. /\ other \in sent
      /\ \/ other \in EffectIds /\ Outstanding(other)
         \/ \E k \in Ordinals : other = AssessmentCause(k) /\ Unsettled(k)
         \/ \E k \in Ordinals : other = RepairCause(k) /\ k \in ReservedRepairs
  BY <1>1 DEF CoordinatorInv, WorldInv, EffectOK, AssessmentOK, RepairOK
<1>3. other = work
  BY <1>2 DEF CoordinatorInv, ExclusionInv, AtMostOneOutstanding
<1> QED
  BY <1>2, <1>3

\* No work is dispatched twice, and none beside another: the coordinator implements
\* ExternalWork, whatever crashes, revocations and recoveries come in between.
THEOREM Once == CoordinatorSpec => DispatchedOnce
<1>1. CoordinatorInit => External!Init
  BY DEF CoordinatorInit, External!Init
<1>2. ASSUME CoordinatorInv, [CoordinatorNext]_coordinatorVars
      PROVE  [External!Next]_<<sent, running>>
  <2>1. ASSUME NEW work \in Work \ sent, running = {}, Dispatch(work) PROVE External!Next
    BY <2>1 DEF Dispatch, External!Next, External!Start
  <2>2. CASE Advance
    <3>1. PICK work \in Work \cup {NoEffect} : work = step.work
      BY <1>2 DEF CoordinatorInv, StepInv, Steps
    <3>2. CASE work \in EffectIds /\ SendEffect(work)
      <4>1. work \notin sent /\ Outstanding(work) /\ work \in Work /\ Dispatch(work)
        BY <1>2, <3>1, <3>2, SendEffectKeeps DEF SendEffect, Work
      <4> QED
        BY <1>2, <2>1, <3>2, <4>1, NothingElseRuns
    <3>3. CASE work \in Assessments /\ SendAssessment(OrdinalOf(work))
      <4>1. PICK k \in Ordinals : k = OrdinalOf(work) /\ work = AssessmentCause(k)
        BY <3>3, Sorts
      <4>2. work \notin sent /\ Unsettled(k) /\ work \in Work /\ Dispatch(work)
        BY <1>2, <3>1, <3>3, <4>1, SendAssessmentKeeps DEF SendAssessment, Work
      <4> QED
        BY <1>2, <2>1, <4>1, <4>2, NothingElseRuns
    <3>4. CASE KindOf(work) = "repair" /\ Launch(OrdinalOf(work))
      <4>1. PICK k \in Ordinals : k = OrdinalOf(work) /\ work = RepairCause(k)
        BY <3>1, <3>4, Sorts
      <4>2. work \notin sent /\ k \in ReservedRepairs /\ work \in Work /\ Dispatch(work)
        BY <1>2, <3>1, <3>4, <4>1, LaunchKeeps DEF Launch, Work
      <4> QED
        BY <1>2, <2>1, <4>1, <4>2, NothingElseRuns
    <3>5. CASE UNCHANGED world \/ \E k : FenceLaunch(k)
      BY <3>5 DEF world, FenceLaunch
    <3> QED
      BY <2>2, <3>1, <3>2, <3>3, <3>4, <3>5 DEF Advance
  <2>3. CASE Operate \/ MergePull \/ ChangeConfiguration \/ Crash \/ UNCHANGED coordinatorVars
    BY <2>3 DEF Operate, Revoke, Approve, RetryEnvironment, Operator, MergePull, ChangeConfiguration, Crash,
                coordinatorVars, world
  <2>4. CASE WorkEnds
    BY <1>2, <2>4 DEF WorkEnds, Land, Vanish, External!Next, External!End, CoordinatorInv, CoordinatorTypeOK
  <2> QED
    BY <1>2, <2>2, <2>3, <2>4 DEF CoordinatorNext
<1> QED
  BY <1>1, <1>2, CoordinatorInvariant, PTL DEF CoordinatorSpec, DispatchedOnce, External!Spec

\* The pull request and the judge are dispatched on authority looked at in the same
\* stretch.
THEOREM Recheckings == CoordinatorSpec => RecheckedWorkIsAuthorized
<1> DEFINE A == \A work \in sent' \ sent :
                    KindOf(work) \in {"create-pr", "assessment"} => open = {} /\ valid
<1>1. [CoordinatorNext]_coordinatorVars => [A]_coordinatorVars
  <2> SUFFICES ASSUME CoordinatorNext PROVE A
    OBVIOUS
  <2>1. ASSUME NEW work, Dispatch(work) PROVE A
    BY <2>1 DEF Dispatch, Recheck, Authorized
  <2>2. CASE Advance
    BY <2>1, <2>2 DEF Advance, SendEffect, SendAssessment, Launch, FenceLaunch, world
  <2>3. CASE Operate \/ WorkEnds \/ MergePull \/ ChangeConfiguration \/ Crash
    BY <2>3 DEF Operate, Revoke, Approve, RetryEnvironment, Operator, WorkEnds, Land, Vanish, MergePull,
                ChangeConfiguration, Crash, world
  <2> QED
    BY <2>2, <2>3 DEF CoordinatorNext
<1> QED
  BY <1>1, PTL DEF CoordinatorSpec, RecheckedWorkIsAuthorized

=============================================================================
