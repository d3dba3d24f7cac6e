------------------------- MODULE DeliveryAggregate -------------------------
(***************************************************************************)
(* The durable record of one factory delivery: the pipeline row that        *)
(* src/src/modules/factory-delivery/store.ts, delivery-commands.ts and      *)
(* progress-store.ts read, change and write back in one IMMEDIATE           *)
(* transaction.  One action is one committed transaction.  A command the    *)
(* code refuses throws and rolls back, and an exact replay returns the      *)
(* record it found: both leave the row alone and are stuttering steps.      *)
(*                                                                          *)
(* The module says nothing of who issues a command: coordinator tick,       *)
(* operator route or recovery after a restart may issue any command at any  *)
(* time, so what holds here holds for every caller.  DeliveryCoordinator    *)
(* adds the caller the program has.                                         *)
(*                                                                          *)
(* Abstractions.  A revision (run, attempt, digests) is the number of the   *)
(* repair that produced it, 0 for the released candidate.  An effect id is  *)
(* <<kind, revision, n>>; evidence carries the id of its effect, which is   *)
(* unique among evidence.  A receipt is content addressed and only ever     *)
(* compared with the one the evidence of the same effect names: it is that  *)
(* one ("own") or another.  A review's producer is only compared with that  *)
(* of the verification it cites.  Milliseconds are small naturals.          *)
(***************************************************************************)
EXTENDS Integers, Sequences, SequencesExt

CONSTANTS
    MaxRepairs,        \* authorization.maxRepairAttempts
    TotalMs,           \* authorization.totalExecutionMs
    InitialMs,         \* authorization.initialExecutionMs
    MaxEffectMs,       \* the schema's cap on one reservation
    MaxAssessmentMs,   \* progress.limits.maxAssessmentMs
    MaxAssessments,    \* progress.limits.maxAssessments
    Durations,         \* execution times an external process may report
    MaxTries,          \* bound: verification and review effects per revision
    MaxFeedback,       \* bound: feedback observations of one delivery
    Outcomes,          \* bound: terminal outcomes told apart
    CallerKinds,       \* bound: kinds of intervention a caller raises
    PullRequests,      \* pull requests the remote may report
    None

ASSUME ConstantsAssumption ==
    /\ MaxRepairs \in Nat
    /\ TotalMs \in Nat
    /\ InitialMs \in 0..TotalMs
    /\ MaxEffectMs \in Nat
    /\ MaxAssessmentMs \in Nat
    /\ MaxAssessments \in Nat
    /\ Durations \subseteq Nat
    /\ MaxTries \in Nat
    /\ MaxFeedback \in Nat
    /\ CallerKinds \subseteq {"scope", "budget", "authority", "uncertainty", "environment"}
    /\ Outcomes \subseteq {"merged", "closed", "cancelled", "failed"}
    /\ None \notin PullRequests

VARIABLES
    revision,      \* the current candidate
    effects,       \* the ledger of external effects, by id
    evidence,      \* recorded evidence, oldest first
    repairs,       \* reserved and finished repairs; repair k yields revision k
    assessments,   \* progress assessments, by the ordinal of the repair they admit
    feedback,      \* observed pull request feedback, oldest first
    commits,       \* revisions a commit is bound to
    publication,   \* the human publication grant
    pr,            \* the pull request this delivery owns
    open,          \* interventions without a resolution
    resolved,      \* interventions with one
    outcome

vars == <<revision, effects, evidence, repairs, assessments, feedback, commits,
          publication, pr, open, resolved, outcome>>

----------------------------------------------------------------------------
(* The record's fields. *)

NoMs == -1                      \* executionMs: null
Revisions == 0..MaxRepairs
Ordinals == 1..MaxRepairs

EvidenceKinds == {"verification", "review"}
TimedKinds == EvidenceKinds \cup {"feedback-review"}
PublicationKinds == {"commit", "push", "create-pr", "update-pr"}
Kinds == TimedKinds \cup PublicationKinds

Slots(kind) == CASE kind \in EvidenceKinds     -> 1..MaxTries
                 [] kind = "feedback-review"   -> 1..MaxFeedback
                 [] kind \in PublicationKinds  -> {1}

EffectIds == UNION {{kind} \X Revisions \X Slots(kind) : kind \in Kinds}
KindOf(id) == id[1]
RevisionOf(id) == id[2]
NoEffect == <<"none", 0, 0>>

Effect == [state    : {"absent", "planned", "in-flight", "uncertain", "delivered"},
           reserved : Nat,
           exec     : Durations \cup {NoMs},
           receipt  : {"none", "own", "other"}]
Absent == [state |-> "absent", reserved |-> 0, exec |-> NoMs, receipt |-> "none"]

EvidenceResults == {"passed", "failed", "blocked"}
Evidence == [effect       : EffectIds,
             result       : EvidenceResults,
             independent  : BOOLEAN,
             verification : EffectIds \cup {NoEffect}]

Repair == [status   : {"reserved", "candidate", "failed"},
           from     : Revisions,
           reserved : Nat,
           exec     : Durations \cup {NoMs}]

Feedback == [rev      : Revisions,
             ci       : BOOLEAN,
             review   : BOOLEAN,
             class    : {"none", "scoped-repair", "scope-change", "no-action"},
             repair   : 0..MaxRepairs]     \* the repair it admitted, 0 for none

\* Mutant: the approval is not bound to the feedback.
EvidenceDigestWithoutFeedback == <<revision, evidence, effects, <<>>, repairs>>

\* What an approval is bound to.  deliveryProgressEvidenceDigest hashes these
\* fields (and the authorization, which never changes).
EvidenceDigest == <<revision, evidence, effects, feedback, repairs>>

Assessment == [state     : {"absent", "reserved", "in-flight", "uncertain", "settled"},
               rev       : Revisions,
               reserved  : Nat,
               exec      : Durations \cup {NoMs},
               submitted : BOOLEAN,
               decision  : {"none", "approve", "escalate"},
               digest    : (Revisions \X Seq(Evidence) \X [EffectIds -> Effect]
                              \X Seq(Feedback) \X Seq(Repair)) \cup {None}]
NoAssessment == [state |-> "absent", rev |-> 0, reserved |-> 0, exec |-> NoMs,
                 submitted |-> FALSE, decision |-> "none", digest |-> None]

\* An intervention is named by its kind and by what raised it.
Caller == <<"caller", 0, 0>>
RepairCause(k) == <<"repair", k, 1>>
AssessmentCause(k) == <<"assessment", k, 1>>
FeedbackCause(f) == <<"feedback", 0, f>>
Causes == EffectIds \cup {Caller}
            \cup {RepairCause(k) : k \in Ordinals}
            \cup {AssessmentCause(k) : k \in Ordinals}
            \cup {FeedbackCause(f) : f \in 1..MaxFeedback}
InterventionKinds == {"scope", "budget", "authority", "uncertainty", "environment"}
Interventions == InterventionKinds \X Causes

TypeOK ==
    /\ revision \in Revisions
    /\ effects \in [EffectIds -> Effect]
    /\ evidence \in Seq(Evidence)
    /\ repairs \in Seq(Repair)
    /\ Len(repairs) <= MaxRepairs
    /\ assessments \in [Ordinals -> Assessment]
    /\ feedback \in Seq(Feedback)
    /\ Len(feedback) <= MaxFeedback
    /\ commits \subseteq Revisions
    /\ publication \in [rev : Revisions, evidence : SUBSET Nat] \cup {None}
    /\ pr \in PullRequests \cup {None}
    /\ open \subseteq Interventions
    /\ resolved \subseteq Interventions
    /\ outcome \in Outcomes \cup {"none"}

----------------------------------------------------------------------------
(* Projections of the record: delivery-aggregate.ts. *)

Outstanding(id) == effects[id].state \in {"in-flight", "uncertain"}
Unsettled(k) == assessments[k].state \in {"reserved", "in-flight", "uncertain"}
\* Mutant: progress assessments are not counted as outstanding work.
UnresolvedWithoutProgress == \E id \in EffectIds : Outstanding(id)

UnresolvedEffects == (\E id \in EffectIds : Outstanding(id))
                       \/ (\E k \in Ordinals : Unsettled(k))

ReservedRepairs == {k \in DOMAIN repairs : repairs[k].status = "reserved"}

Active == outcome = "none"
Available == Active /\ open = {} /\ ReservedRepairs = {}

Charge(work) == IF work.exec = NoMs THEN work.reserved ELSE work.exec
Charges(work, ids) == SumFunction([id \in ids |-> Charge(work[id])])
SpentExecution ==
    InitialMs
      + Charges(assessments, Ordinals)
      + Charges(repairs, DOMAIN repairs)
      + Charges(effects, {id \in EffectIds : effects[id].reserved > 0})

\* Evidence is only appended, so the positions of a revision's evidence say
\* which evidence it is: they stand for publicationEvidenceFingerprint.
EvidenceOf(rev) == {i \in DOMAIN evidence : RevisionOf(evidence[i].effect) = rev}
CurrentEvidence(kind) == {i \in EvidenceOf(revision) : KindOf(evidence[i].effect) = kind}
IsLatest(i, kind) == i \in CurrentEvidence(kind) /\ \A j \in CurrentEvidence(kind) : j <= i
HasEvidence(id) == \E i \in DOMAIN evidence : evidence[i].effect = id

\* Mutant: evidence counts while its effect is still outstanding.
RecordedEvidence(e) == effects[e.effect].state # "absent"

SettledEvidence(e) == /\ effects[e.effect].state = "delivered"
                      /\ effects[e.effect].receipt = "own"
                      /\ effects[e.effect].exec # NoMs

\* Verification and review effects fill their slots in order.
Planned(kind, rev) == {n \in Slots(kind) : effects[<<kind, rev, n>>].state # "absent"}
LatestEffect(kind, rev) == <<kind, rev, Cardinality(Planned(kind, rev))>>

CurrentPasses ==
    \E i, j \in DOMAIN evidence :
        /\ IsLatest(i, "verification")
        /\ IsLatest(j, "review")
        /\ evidence[i].result = "passed"
        /\ evidence[j].result = "passed"
        /\ evidence[j].independent
        /\ SettledEvidence(evidence[i])
        /\ SettledEvidence(evidence[j])
        /\ evidence[i].effect = LatestEffect("verification", revision)
        /\ evidence[j].effect = LatestEffect("review", revision)
        /\ evidence[j].verification = evidence[i].effect

\* Mutant: the grant covers every revision from the start.
PublicationAuthorizedForAnyRevision ==
    /\ publication # None
    /\ publication.evidence = EvidenceOf(publication.rev)

\* Before there is a pull request the grant covers exactly one revision; once
\* there is one, later revisions publish under the same grant.
PublicationAuthorized ==
    /\ publication # None
    /\ publication.evidence = EvidenceOf(publication.rev)
    /\ pr = None => publication.rev = revision

CurrentFeedback == {f \in DOMAIN feedback : feedback[f].rev = revision}
LatestFeedback(f) == f \in CurrentFeedback /\ \A g \in CurrentFeedback : g <= f
PendingFeedback ==
    {f \in CurrentFeedback :
        /\ LatestFeedback(f)
        /\ feedback[f].repair = 0
        /\ feedback[f].class # "scope-change"
        /\ feedback[f].ci \/ feedback[f].class = "scoped-repair"}

\* The latest evidence of some kind for the current revision failed.
LatestFailed(settled) ==
    \E kind \in EvidenceKinds, i \in DOMAIN evidence :
        /\ IsLatest(i, kind)
        /\ evidence[i].result = "failed"
        /\ settled => SettledEvidence(evidence[i])

AwaitsPublication == /\ publication = None
                     /\ Available
                     /\ ~UnresolvedEffects
                     /\ CurrentPasses

----------------------------------------------------------------------------
(* reserveDeliveryPipeline *)

Init ==
    /\ revision = 0
    /\ effects = [id \in EffectIds |-> Absent]
    /\ evidence = <<>>
    /\ repairs = <<>>
    /\ assessments = [k \in Ordinals |-> NoAssessment]
    /\ feedback = <<>>
    /\ commits = {}
    /\ publication = None
    /\ pr = None
    /\ open = {}
    /\ resolved = {}
    /\ outcome = "none"

----------------------------------------------------------------------------
(* Effects: plan-effect, start-effect, bind-effect-receipt, settle-effect,  *)
(* reconcile-effect.                                                        *)

PublicationGuard(kind) ==
    kind \in PublicationKinds => CurrentPasses /\ PublicationAuthorized

PlanEffect(id, ms) ==
    /\ effects[id].state = "absent"
    /\ RevisionOf(id) = revision
    /\ Available
    /\ ~UnresolvedEffects
    /\ KindOf(id) \in EvidenceKinds =>
           id[3] = Cardinality(Planned(KindOf(id), revision)) + 1
    /\ PublicationGuard(KindOf(id))
    /\ IF KindOf(id) \in TimedKinds THEN ms \in 1..MaxEffectMs ELSE ms = 0
    /\ SpentExecution + ms <= TotalMs
    /\ KindOf(id) = "create-pr" => pr = None
    /\ KindOf(id) = "update-pr" => pr # None
    /\ effects' = [effects EXCEPT ![id] = [Absent EXCEPT !.state = "planned", !.reserved = ms]]
    /\ UNCHANGED <<revision, evidence, repairs, assessments, feedback, commits,
                   publication, pr, open, resolved, outcome>>

Startable(id) == effects[id].state = "planned" /\ RevisionOf(id) = revision

\* Mutant: a pull request does not wait for the push receipt.
PushOptional(kind) == TRUE
PushReceipt(kind) == kind \in {"create-pr", "update-pr"} =>
                         effects[<<"push", revision, 1>>].state = "delivered"

StartEffect(id) ==
    /\ Startable(id)
    /\ Available
    /\ ~UnresolvedEffects
    /\ PublicationGuard(KindOf(id))
    /\ PushReceipt(KindOf(id))
    /\ effects' = [effects EXCEPT ![id].state = "in-flight"]
    /\ UNCHANGED <<revision, evidence, repairs, assessments, feedback, commits,
                   publication, pr, open, resolved, outcome>>

BindEffectReceipt(id) ==
    /\ Active
    /\ effects[id].state = "in-flight"
    /\ effects[id].receipt = "none"
    /\ effects' = [effects EXCEPT ![id].receipt = "other"]
    /\ UNCHANGED <<revision, evidence, repairs, assessments, feedback, commits,
                   publication, pr, open, resolved, outcome>>

\* settle-effect 'uncertain', and reconcile-effect 'not-delivered', which
\* returns the effect to 'planned' so that it may start again: with its receipt,
\* so that bind-effect-receipt can never bind another one.
SettleUndelivered(id, state) ==
    /\ Active
    /\ Outstanding(id)
    /\ state \in {"uncertain", "planned"}
    /\ effects' = [effects EXCEPT ![id].state = state, ![id].receipt = "other"]
    /\ UNCHANGED <<revision, evidence, repairs, assessments, feedback, commits,
                   publication, pr, open, resolved, outcome>>

\* assertRecord refuses a delivered effect whose receipt is not the one its
\* evidence names, and one without accounting that certified a pass.
EvidenceAgrees(id, ref, ms) ==
    \A i \in DOMAIN evidence :
        evidence[i].effect = id =>
            /\ ref = "own"
            /\ ms = NoMs => evidence[i].result # "passed"

\* Mutant: a later receipt replaces the pull request.
PrReceiptRebinding(kind, pull) ==
    IF kind \in {"create-pr", "update-pr"} THEN pull # None ELSE pull = None

PrReceipt(kind, pull) ==
    IF kind \in {"create-pr", "update-pr"}
    THEN pull # None /\ pr \in {None, pull}
    ELSE pull = None

\* settle-effect and reconcile-effect 'delivered'.  Unknown reviewer usage and
\* an overrun of the reservation each raise an intervention in the same write.
SettleDelivered(id, ref, ms, pull) ==
    /\ Active
    /\ Outstanding(id)
    /\ PrReceipt(KindOf(id), pull)
    /\ IF KindOf(id) \in TimedKinds
       THEN KindOf(id) = "verification" => ms # NoMs
       ELSE ms = NoMs
    /\ KindOf(id) \in EvidenceKinds => EvidenceAgrees(id, ref, ms)
    /\ effects' = [effects EXCEPT ![id].state = "delivered",
                                  ![id].receipt = ref,
                                  ![id].exec = ms]
    /\ pr' = IF pull = None THEN pr ELSE pull
    /\ open' = open \cup (IF KindOf(id) \in TimedKinds /\ ms = NoMs
                          THEN {<<"scope", id>>} ELSE {})
                    \cup (IF ms > effects[id].reserved
                          THEN {<<"budget", id>>} ELSE {})
    /\ UNCHANGED <<revision, evidence, repairs, assessments, feedback, commits,
                   publication, resolved, outcome>>

----------------------------------------------------------------------------
(* record-evidence: the only writer of evidence.  It requires neither an    *)
(* available delivery nor an outstanding effect; assertRecord then requires *)
(* an effect of the same kind and revision, and of a review that it cites a *)
(* passed and settled verification of the same revision.                    *)

\* The evidence ids a review may cite; a verification cites none.
Citable(id) ==
    IF KindOf(id) = "verification" THEN {NoEffect}
    ELSE {evidence[i].effect : i \in {j \in DOMAIN evidence :
             /\ KindOf(evidence[j].effect) = "verification"
             /\ RevisionOf(evidence[j].effect) = revision
             /\ evidence[j].result = "passed"
             /\ SettledEvidence(evidence[j])}}

RecordEvidence(e) ==
    /\ Active
    /\ KindOf(e.effect) \in EvidenceKinds
    /\ RevisionOf(e.effect) = revision
    /\ ~HasEvidence(e.effect)
    /\ effects[e.effect].state # "absent"
    /\ effects[e.effect].state = "delivered" =>
           /\ effects[e.effect].receipt = "own"
           /\ effects[e.effect].exec = NoMs => e.result # "passed"
    /\ e.verification \in Citable(e.effect)
    /\ evidence' = Append(evidence, e)
    /\ UNCHANGED <<revision, effects, repairs, assessments, feedback, commits,
                   publication, pr, open, resolved, outcome>>

----------------------------------------------------------------------------
(* Publication: authorize-publication and bind-commit. *)

AuthorizePublication ==
    /\ Available
    /\ publication = None
    /\ CurrentPasses
    /\ ~UnresolvedEffects
    /\ publication' = [rev |-> revision, evidence |-> EvidenceOf(revision)]
    /\ UNCHANGED <<revision, effects, evidence, repairs, assessments, feedback,
                   commits, pr, open, resolved, outcome>>

BindCommit ==
    /\ Active
    /\ Outstanding(<<"commit", revision, 1>>)
    /\ revision \notin commits
    /\ commits' = commits \cup {revision}
    /\ UNCHANGED <<revision, effects, evidence, repairs, assessments, feedback,
                   publication, pr, open, resolved, outcome>>

----------------------------------------------------------------------------
(* Feedback: record-feedback and classify-feedback. *)

RecordFeedback(ci, review) ==
    /\ Available
    /\ revision \in commits
    /\ Len(feedback) < MaxFeedback
    /\ feedback' = Append(feedback, [rev |-> revision, ci |-> ci, review |-> review,
                                     class |-> "none", repair |-> 0])
    /\ UNCHANGED <<revision, effects, evidence, repairs, assessments, commits,
                   publication, pr, open, resolved, outcome>>

ClassifyFeedback(f, class) ==
    /\ Available
    /\ LatestFeedback(f)
    /\ feedback[f].review
    /\ feedback[f].class = "none"
    /\ effects[<<"feedback-review", revision, f>>].state = "delivered"
    /\ effects[<<"feedback-review", revision, f>>].exec # NoMs
    /\ feedback' = [feedback EXCEPT ![f].class = class]
    /\ open' = open \cup (IF class = "scope-change"
                          THEN {<<"scope", FeedbackCause(f)>>} ELSE {})
    /\ UNCHANGED <<revision, effects, evidence, repairs, assessments, commits,
                   publication, pr, resolved, outcome>>

----------------------------------------------------------------------------
(* Progress assessments: one model judgement before each repair. *)

Lesser(a, b) == IF a <= b THEN a ELSE b

ReserveProgress ==
    LET k == Len(repairs) + 1
        remaining == TotalMs - SpentExecution
    IN  /\ Available
        /\ ~UnresolvedEffects
        /\ PendingFeedback # {} \/ LatestFailed(TRUE)
        /\ Len(repairs) < MaxRepairs
        /\ remaining \in 1..TotalMs
        /\ Cardinality({j \in Ordinals : assessments[j].state # "absent"}) < MaxAssessments
        /\ assessments[k].state = "absent"
        /\ assessments' = [assessments EXCEPT ![k] =
              [NoAssessment EXCEPT !.state = "reserved",
                                   !.rev = revision,
                                   !.reserved = Lesser(MaxAssessmentMs, remaining),
                                   !.digest = EvidenceDigest]]
        /\ UNCHANGED <<revision, effects, evidence, repairs, feedback, commits,
                       publication, pr, open, resolved, outcome>>

StartProgress(k) ==
    /\ Available
    /\ assessments[k].state = "reserved"
    /\ assessments[k].digest = EvidenceDigest
    /\ assessments' = [assessments EXCEPT ![k].state = "in-flight"]
    /\ UNCHANGED <<revision, effects, evidence, repairs, feedback, commits,
                   publication, pr, open, resolved, outcome>>

BindSubmission(k) ==
    /\ assessments[k].state \in {"in-flight", "uncertain"}
    /\ ~assessments[k].submitted
    /\ assessments' = [assessments EXCEPT ![k].submitted = TRUE]
    /\ UNCHANGED <<revision, effects, evidence, repairs, feedback, commits,
                   publication, pr, open, resolved, outcome>>

UncertainProgress(k) ==
    /\ assessments[k].state \in {"reserved", "in-flight"}
    /\ assessments' = [assessments EXCEPT ![k].state = "uncertain"]
    /\ UNCHANGED <<revision, effects, evidence, repairs, feedback, commits,
                   publication, pr, open, resolved, outcome>>

\* Only an approval needs current authority; accounting is always recordable.
\* A missing result ("escalate" here too) and an explicit one to escalate have
\* the same effect.
SettleProgress(k, decision, ms) ==
    /\ assessments[k].state \in {"in-flight", "uncertain"}
    /\ decision = "approve" => /\ Available
                               /\ ms # NoMs
                               /\ ms <= assessments[k].reserved
                               /\ assessments[k].digest = EvidenceDigest
    /\ assessments' = [assessments EXCEPT ![k].state = "settled",
                                          ![k].submitted = TRUE,
                                          ![k].decision = decision,
                                          ![k].exec = ms]
    /\ open' = open \cup (IF \/ decision # "approve"
                             \/ ms = NoMs
                             \/ ms > assessments[k].reserved
                          THEN {<<"scope", AssessmentCause(k)>>} ELSE {})
    /\ UNCHANGED <<revision, effects, evidence, repairs, feedback, commits,
                   publication, pr, resolved, outcome>>

----------------------------------------------------------------------------
(* Repairs: reserveDeliveryRepair and finish-repair. *)

ProgressApproves(k) ==
    /\ assessments[k].state = "settled"
    /\ assessments[k].decision = "approve"
    /\ assessments[k].rev = revision
    /\ assessments[k].digest = EvidenceDigest

ReserveRepair(ms) ==
    LET k == Len(repairs) + 1
    IN  /\ Available
        /\ ~UnresolvedEffects
        /\ PendingFeedback # {} \/ LatestFailed(FALSE)
        /\ Len(repairs) < MaxRepairs
        /\ ProgressApproves(k)
        /\ ms \in 1..MaxEffectMs
        /\ SpentExecution + ms <= TotalMs
        /\ repairs' = Append(repairs, [status |-> "reserved", from |-> revision,
                                       reserved |-> ms, exec |-> NoMs])
        /\ feedback' = [f \in DOMAIN feedback |->
                           IF f \in PendingFeedback
                           THEN [feedback[f] EXCEPT !.repair = k]
                           ELSE feedback[f]]
        /\ UNCHANGED <<revision, effects, evidence, assessments, commits,
                       publication, pr, open, resolved, outcome>>

\* Mutant: candidates are numbered as if the initial run were a repair.
CandidateAfterFirstRun(k, status) == IF status = "candidate" THEN k + 1 ELSE revision
CandidateOf(k, status) == IF status = "candidate" THEN k ELSE revision

FinishRepair(k, status, ms) ==
    /\ Active
    /\ k \in ReservedRepairs
    /\ status \in {"candidate", "failed"}
    /\ repairs' = [repairs EXCEPT ![k].status = status, ![k].exec = ms]
    /\ revision' = CandidateOf(k, status)
    /\ open' = open \cup (IF ms > repairs[k].reserved
                          THEN {<<"budget", RepairCause(k)>>} ELSE {})
    /\ UNCHANGED <<effects, evidence, assessments, feedback, commits,
                   publication, pr, resolved, outcome>>

----------------------------------------------------------------------------
(* Interventions and the terminal outcome. *)

Intervene(i) ==
    /\ Active
    /\ i \notin open \cup resolved
    /\ open' = open \cup {i}
    /\ UNCHANGED <<revision, effects, evidence, repairs, assessments, feedback,
                   commits, publication, pr, resolved, outcome>>

\* Mutant: every kind of intervention can be resolved.
ResolvableOfAnyKind(i) == i \in open
Resolvable(i) == i \in open /\ i[1] \notin {"scope", "budget", "authority"}

ResolveIntervention(i) ==
    /\ Active
    /\ Resolvable(i)
    /\ ~UnresolvedEffects
    /\ open' = open \ {i}
    /\ resolved' = resolved \cup {i}
    /\ UNCHANGED <<revision, effects, evidence, repairs, assessments, feedback,
                   commits, publication, pr, outcome>>

Finish(result) ==
    /\ Active
    /\ ~UnresolvedEffects
    /\ ReservedRepairs = {}
    /\ result \in {"merged", "closed"} => pr # None
    /\ outcome' = result
    /\ UNCHANGED <<revision, effects, evidence, repairs, assessments, feedback,
                   commits, publication, pr, open, resolved>>

----------------------------------------------------------------------------

\* A caller names an intervention freely; one name per kind is enough to tell
\* a held delivery from a released one, but an environment intervention names
\* the verification whose setup failed, and is looked up by it.
CallerRaised ==
    {<<kind, Caller>> : kind \in CallerKinds \ {"environment"}}
      \cup (IF "environment" \in CallerKinds
            THEN {<<"environment", id>> : id \in {e \in EffectIds : KindOf(e) = "verification"}}
            ELSE {})

ReceiptsOf(kind) == IF kind \in EvidenceKinds THEN {"own", "other"} ELSE {"other"}

EffectStep ==
    \E id \in EffectIds :
        \/ \E ms \in 0..MaxEffectMs : PlanEffect(id, ms)
        \/ StartEffect(id)
        \/ BindEffectReceipt(id)
        \/ \E state \in {"uncertain", "planned"} : SettleUndelivered(id, state)
        \/ /\ Outstanding(id)
           /\ \E ref \in ReceiptsOf(KindOf(id)), ms \in Durations \cup {NoMs},
                 pull \in PullRequests \cup {None} : SettleDelivered(id, ref, ms, pull)

EvidenceStep ==
    \/ \E id \in {e \in EffectIds : effects[e].state # "absent" /\ ~HasEvidence(e)} :
          \E result \in EvidenceResults, verification \in Citable(id),
             independent \in (IF KindOf(id) = "review" THEN BOOLEAN ELSE {TRUE}) :
                RecordEvidence([effect |-> id, result |-> result, independent |-> independent,
                                verification |-> verification])
    \/ AuthorizePublication
    \/ BindCommit

FeedbackStep ==
    \/ \E ci, review \in BOOLEAN : RecordFeedback(ci, review)
    \/ \E f \in DOMAIN feedback, class \in {"scoped-repair", "scope-change", "no-action"} :
          ClassifyFeedback(f, class)

ProgressStep ==
    \/ ReserveProgress
    \/ \E k \in Ordinals :
          \/ StartProgress(k)
          \/ BindSubmission(k)
          \/ UncertainProgress(k)
          \/ \E decision \in {"approve", "escalate"}, ms \in Durations \cup {NoMs} :
                SettleProgress(k, decision, ms)

RepairStep ==
    \/ \E ms \in 1..MaxEffectMs : ReserveRepair(ms)
    \/ \E k \in Ordinals, status \in {"candidate", "failed"}, ms \in Durations \cup {NoMs} :
          FinishRepair(k, status, ms)

InterventionStep ==
    \/ \E i \in CallerRaised : Intervene(i)
    \/ \E i \in open : ResolveIntervention(i)
    \/ \E result \in Outcomes : Finish(result)

Next == \/ EffectStep
        \/ EvidenceStep
        \/ FeedbackStep
        \/ ProgressStep
        \/ RepairStep
        \/ InterventionStep

Spec == Init /\ [][Next]_vars

----------------------------------------------------------------------------
(* Properties. *)

\* Effects, progress assessments and repairs exclude one another: whatever the
\* callers do, at most one piece of external work is outstanding, although each
\* of the three is admitted by a different function over different fields.
AtMostOneOutstanding ==
    /\ \A a \in EffectIds :
           Outstanding(a) => \A b \in EffectIds : Outstanding(b) => a = b
    /\ \A j, k \in Ordinals : Unsettled(j) /\ Unsettled(k) => j = k
    /\ \A j, k \in ReservedRepairs : j = k
    /\ (\E id \in EffectIds : Outstanding(id)) =>
           ReservedRepairs = {} /\ \A k \in Ordinals : ~Unsettled(k)
    /\ (\E k \in Ordinals : Unsettled(k)) => ReservedRepairs = {}

\* No external work outlives the candidate it was admitted for: finish-repair
\* moves the delivery to a new revision only when nothing is outstanding for
\* the old one, and the assessment under way is for the next repair.
OutstandingIsCurrent ==
    /\ \A id \in EffectIds : Outstanding(id) => RevisionOf(id) = revision
    /\ \A k \in Ordinals :
           Unsettled(k) => assessments[k].rev = revision /\ k = Len(repairs) + 1
    /\ \A k \in ReservedRepairs : k = Len(repairs) /\ repairs[k].from = revision

\* An external process may overrun its reservation, and then the delivery is
\* held by an intervention no environment retry can resolve: the total is
\* never exceeded by a delivery that can still admit work.
OverspendIsHeld ==
    SpentExecution > TotalMs => \E i \in open : i[1] \in {"budget", "scope"}

\* A revision with a settled, passed verification and a settled, passed and
\* independent review of that verification.
Certified(rev) ==
    \E i, j \in DOMAIN evidence :
        LET verification == evidence[i]
            review == evidence[j]
        IN  /\ KindOf(verification.effect) = "verification"
            /\ KindOf(review.effect) = "review"
            /\ RevisionOf(verification.effect) = rev
            /\ RevisionOf(review.effect) = rev
            /\ verification.result = "passed"
            /\ review.result = "passed"
            /\ review.verification = verification.effect
            /\ review.independent
            /\ \A id \in {verification.effect, review.effect} :
                   effects[id].state = "delivered" /\ effects[id].receipt = "own"

\* Whatever was prepared for publication is a candidate that passed
\* verification and an independent review of that verification, both settled,
\* also after later repairs have replaced it as the current revision.
PublishedIsCertified ==
    \A id \in EffectIds :
        KindOf(id) \in PublicationKinds /\ effects[id].state # "absent" =>
            Certified(RevisionOf(id))

\* The human grant names one candidate.  Until its pull request exists nothing
\* of any other revision is published, and no revision older than the granted
\* one ever is.
GrantCoversPublication ==
    \A id \in EffectIds :
        KindOf(id) \in PublicationKinds /\ effects[id].state # "absent" =>
            /\ publication # None
            /\ RevisionOf(id) >= publication.rev
            /\ pr = None => RevisionOf(id) = publication.rev

\* A pull request is bound only once the granted candidate's push is delivered.
PullRequestWasGranted ==
    pr # None => /\ publication # None
                 /\ effects[<<"push", publication.rev, 1>>].state = "delivered"

\* Every repair was admitted by a settled approval of exactly the history it
\* repairs: the same revision, after all earlier repairs had finished, and
\* having seen the feedback that the repair answers.
RepairIsApproved ==
    \A k \in DOMAIN repairs :
        /\ assessments[k].state = "settled"
        /\ assessments[k].decision = "approve"
        /\ assessments[k].rev = repairs[k].from
        /\ assessments[k].digest[1] = repairs[k].from
        /\ assessments[k].digest[5] = SubSeq(repairs, 1, k - 1)
        /\ \A f \in DOMAIN feedback :
              feedback[f].repair = k => f <= Len(assessments[k].digest[4])

\* The terminal outcome ends the record: no later command changes anything.
\* The progress commands do not look at the outcome; they are refused because
\* an outcome is only reached when no assessment is outstanding.
TerminalIsFinal == [][Active]_vars

\* What the record says was done stays said: delivered effects, evidence,
\* bound commits, finished repairs, settled assessments, and the pull request
\* keep their values in every later record.
HistoryIsKept ==
    [][/\ \A id \in EffectIds :
              effects[id].state = "delivered" => effects'[id] = effects[id]
       /\ IsPrefix(evidence, evidence')
       /\ commits \subseteq commits'
       /\ \A k \in DOMAIN repairs :
              k \notin ReservedRepairs => repairs'[k] = repairs[k]
       /\ \A k \in Ordinals :
              assessments[k].state = "settled" => assessments'[k] = assessments[k]
       /\ pr # None => pr' = pr
       /\ publication # None => publication' = publication]_vars

=============================================================================
