------------------------ MODULE DeliveryCoordinator ------------------------
(***************************************************************************)
(* The program that drives one delivery: advanceFactoryDelivery and the     *)
(* functions it calls in src/src/modules/factory-delivery, the operator's    *)
(* three commands, the external processes the delivery starts, and the      *)
(* crash of the process that hosts it all.                                  *)
(*                                                                          *)
(* The aggregate is durable.  The step is not: it is the position of the    *)
(* one attached call of `step` (the `attached` map admits no second), named *)
(* after what it will do next.  JavaScript runs to completion, so between   *)
(* two awaits nothing but a crash comes in between; a label of Synchronous  *)
(* stands between two commits of such a stretch, every other label stands   *)
(* at an await, where the operator and the configuration may move first.    *)
(* Each action commits at most one command of the aggregate.                *)
(*                                                                          *)
(* A guard of the code reads the authority, then awaits the capture of the  *)
(* candidate, then lets the caller go on: an action that passes such a      *)
(* guard checks Authorized and moves to the label where the capture ends.   *)
(***************************************************************************)
EXTENDS DeliveryAggregate

CONSTANT MaxCrashes        \* bound: crashes of the hosting process

\* It raises interventions of every kind, and ends a delivery in two ways.
ASSUME CoordinatorAssumption ==
    /\ MaxCrashes \in Nat
    /\ {"scope", "budget", "authority", "uncertainty", "environment"} \subseteq CallerKinds
    /\ {"merged", "cancelled"} \subseteq Outcomes

VARIABLES
    step,       \* [at, work] of the attached step, lost in a crash
    valid,      \* configuration, release, candidate and target match the grant
    running,    \* external work under way
    sent,       \* external work ever dispatched
    landed,     \* external work whose result can be observed
    merged,     \* a person merged the pull request
    crashes

world == <<running, sent, landed>>
ground == <<valid, merged, crashes>>
coordinatorVars == <<vars, step, world, ground>>

Assessments == {AssessmentCause(k) : k \in Ordinals}
Work == EffectIds \cup Assessments \cup {RepairCause(k) : k \in Ordinals}
OrdinalOf(work) == work[2]

Labels == {"idle", "decide", "claim", "dispatch", "cleared", "run", "certify", "settle",
           "setup", "refused", "bound", "held", "recover", "packet", "judge",
           "judge-failed", "bind", "approve", "reserve", "launch", "finished"}
Synchronous == {"settle", "setup", "refused", "bound", "held", "judge", "judge-failed",
                "finished"}

Idle == [at |-> "idle", work |-> NoEffect]
At(label) == step.at = label
Goto(label, work) == step' = [at |-> label, work |-> work]
Return == step' = Idle

CoordinatorTypeOK ==
    /\ TypeOK
    /\ step \in [at : Labels, work : Work \cup {NoEffect}]
    /\ valid \in BOOLEAN
    /\ merged \in BOOLEAN
    /\ running \subseteq Work
    /\ sent \subseteq Work
    /\ landed \subseteq Work
    /\ crashes \in 0..MaxCrashes

CoordinatorInit ==
    /\ Init
    /\ step = Idle
    /\ valid = TRUE
    /\ running = {}
    /\ sent = {}
    /\ landed = {}
    /\ merged = FALSE
    /\ crashes = 0

----------------------------------------------------------------------------
(* What the step asks of the record. *)

\* assertDeliveryAuthority
Authorized == Active /\ open = {} /\ valid

Revoked == \E i \in open : i[1] = "authority"

\* interveneDelivery: keyed by kind, reason and revision, and quiet at the end.
Raise(i) == IF Active /\ i \notin open \cup resolved
            THEN Intervene(i)
            ELSE UNCHANGED vars
Hold(kind) == Raise(<<kind, Caller>>)

Remaining == TotalMs - SpentExecution

SetupRetries == {i \in resolved : i[1] = "environment" /\ RevisionOf(i[2]) = revision}
SetupResolved(id) == <<"environment", id>> \in resolved

\* The latest evidence of the current candidate, if it has the result.
Latest(kind, result) == {i \in CurrentEvidence(kind) :
                            IsLatest(i, kind) /\ evidence[i].result = result}
Failed == Latest("verification", "failed") \cup Latest("review", "failed")
BlockedVerification == {i \in Latest("verification", "blocked") :
                           ~SetupResolved(evidence[i].effect)}
Unverified == Latest("verification", "passed") = {}
Unreviewed == Latest("review", "passed") = {}
Pushed == effects[<<"push", revision, 1>>].state = "delivered"

\* The effect the candidate needs next; a resolved setup blocker gets a new id.
NextEffect ==
    IF Unverified THEN <<"verification", revision, Cardinality(SetupRetries) + 1>>
    ELSE IF Unreviewed THEN <<"review", revision, 1>>
    ELSE IF revision \notin commits THEN <<"commit", revision, 1>>
    ELSE IF ~Pushed THEN <<"push", revision, 1>>
    ELSE <<"create-pr", revision, 1>>
Published == ~Unverified /\ ~Unreviewed /\ revision \in commits /\ Pushed /\ pr # None

----------------------------------------------------------------------------
(* The start of a step: what is outstanding comes first. *)

Quiet == ~UnresolvedEffects /\ ReservedRepairs = {}

\* failDeliveryProgress: the judge may be running, so its reservation is kept.
LoseAssessment(k) ==
    /\ IF assessments[k].state = "uncertain" THEN UNCHANGED vars ELSE UncertainProgress(k)
    /\ Goto("judge-failed", AssessmentCause(k))

HoldLostAssessment ==
    /\ At("judge-failed")
    /\ Hold("uncertainty")
    /\ Return

\* Mutant: a reviewer that has not answered is taken to have ended.
Unanswered(work) == work \in sent \ landed

\* A reviewer known to have ended without an answer settles the accounting.
EndedSilently(work) == work \in sent \ (running \cup landed)

\* recoverDeliveryProgress
RecoverAssessment(k) ==
    LET work == AssessmentCause(k)
    IN  /\ At("idle")
        /\ Active
        /\ Unsettled(k)
        /\ \/ ~assessments[k].submitted /\ LoseAssessment(k)
           \/ /\ assessments[k].submitted
              /\ EndedSilently(work)
              /\ \/ LoseAssessment(k)
                 \/ SettleProgress(k, "escalate", NoMs) /\ Return
           \/ /\ assessments[k].submitted
              /\ work \in landed
              /\ \E decision \in {"approve", "escalate"}, ms \in Durations :
                    /\ ~Authorized => decision = "escalate"
                    /\ SettleProgress(k, decision, ms)
              /\ Return

\* A planned effect that was refused keeps its receipt; see RefuseEffect.
RefusalRecorded(id) == effects[id].state = "in-flight" /\ effects[id].receipt = "other"

\* The report of an external check or review becomes evidence.
Certify(id) ==
    \E result \in EvidenceResults, verification \in Citable(id) :
        RecordEvidence([effect |-> id, result |-> result, independent |-> TRUE,
                        verification |-> verification])

\* Mutant: what cannot be observed is taken to have failed.
RetryUnseen(id) == SettleUndelivered(id, "planned")

\* Recovery found no trace of the effect: it may still land, so it stays.
LeaveUnseen(id) == UNCHANGED vars

\* recoverKnownDeliveryEffect, after the tick has found the effect outstanding.
RecoverEffect(id) ==
    /\ At("idle")
    /\ Active
    /\ Outstanding(id)
    /\ \/ RefusalRecorded(id) /\ UNCHANGED vars /\ Goto("bound", id)
       \/ /\ ~RefusalRecorded(id)
          /\ id \notin landed
          /\ LeaveUnseen(id)
          /\ Return
       \/ /\ EndedSilently(id)
          /\ KindOf(id) = "review"
          /\ SettleDelivered(id, "other", NoMs, None)
          /\ Return
       \/ /\ id \in landed
          /\ KindOf(id) \in EvidenceKinds
          /\ IF open = {} /\ ~HasEvidence(id)
             THEN Certify(id) /\ Goto("settle", id)
             ELSE UNCHANGED vars /\ Goto("settle", id)
       \/ /\ id \in landed
          /\ KindOf(id) = "commit"
          /\ UNCHANGED vars
          /\ IF open = {} /\ revision \notin commits
             THEN Goto("recover", id)
             ELSE Goto("settle", id)
       \/ /\ id \in landed
          /\ KindOf(id) \in {"push", "create-pr"}
          /\ UNCHANGED vars
          /\ Goto("settle", id)

\* The held snapshot was read before the commit was observed.
RecoverCommit(id) ==
    /\ At("recover")
    /\ BindCommit
    /\ Goto("settle", id)

\* settleRepair: the coding run has reported, or was cancelled before launch.
SettleRepair(k) ==
    /\ At("idle")
    /\ Active
    /\ ~UnresolvedEffects
    /\ k \in ReservedRepairs
    /\ RepairCause(k) \in landed
    /\ \E status \in {"candidate", "failed"}, ms \in Durations \cup {NoMs} :
          /\ RepairCause(k) \notin sent => status = "failed"
          /\ FinishRepair(k, status, ms)
    /\ Goto("finished", RepairCause(k))

\* The two interventions of settleRepair follow finish-repair in the same
\* stretch, so only a crash can keep them from it.
ExplainUsage(k) ==
    /\ At("finished")
    /\ repairs[k].exec = NoMs
    /\ <<"uncertainty", Caller>> \notin open \cup resolved
    /\ Hold("uncertainty")
    /\ UNCHANGED step

\* Mutant: a failed repair is not explained.
HoldNoFailedRepair(k) == At("finished") /\ UNCHANGED vars /\ Return

HoldFailedRepair(k) ==
    /\ At("finished")
    /\ repairs[k].exec = NoMs => <<"uncertainty", Caller>> \in open \cup resolved
    /\ IF repairs[k].status = "failed" THEN Hold("scope") ELSE UNCHANGED vars
    /\ Return

\* Mutant: a held delivery with a pull request waits for its intervention.
EndCancelled ==
    /\ At("idle")
    /\ Quiet
    /\ Revoked
    /\ pr = None
    /\ Finish("cancelled")
    /\ Return

\* Mutant: only a pull request ends a held delivery.
EndMerged ==
    /\ At("idle")
    /\ Quiet
    /\ open # {}
    /\ merged
    /\ Finish("merged")
    /\ Return

\* A revoked delivery without a pull request is cancelled; one with a pull
\* request is watched to its end, however it is held.
EndHeld ==
    /\ At("idle")
    /\ Quiet
    /\ open # {}
    /\ IF pr = None THEN Revoked /\ Finish("cancelled") ELSE merged /\ Finish("merged")
    /\ Return

----------------------------------------------------------------------------
(* A step that may go on: it asserts the authority, captures the candidate   *)
(* and decides on the record it read at its start.  Only the operator can    *)
(* have changed that record since, and only by revoking.                     *)

Begin ==
    /\ At("idle")
    /\ Active
    /\ Quiet
    /\ open = {}
    /\ \/ ~valid /\ Hold("authority") /\ Return
       \/ valid /\ ~AwaitsPublication /\ UNCHANGED vars /\ Goto("decide", NoEffect)

\* A guard that throws leaves the rest to the next tick.
Abandon ==
    /\ step.at \in {"decide", "claim", "packet", "reserve"}
    /\ ~Authorized
    /\ UNCHANGED vars
    /\ Return

CandidateChanged ==
    /\ At("decide")
    /\ ~valid
    /\ Hold("authority")
    /\ Return

Repairing == PendingFeedback # {} \/ Failed # {}
Exhausted == Len(repairs) >= MaxRepairs \/ Remaining <= 0

\* The setup of the check failed, which an environment retry may resolve, or
\* the check could not run at all; a blocked review asks for planning.
HoldBlocked ==
    /\ At("decide")
    /\ ~Repairing
    /\ \/ \E i \in BlockedVerification :
             \/ Raise(<<"environment", evidence[i].effect>>)
             \/ Hold("authority")
       \/ BlockedVerification = {} /\ Latest("review", "blocked") # {} /\ Hold("scope")
    /\ Return

Blocked == BlockedVerification # {} \/ Latest("review", "blocked") # {}

\* The next effect is planned unless an earlier step was cut off after that.
PlanNext ==
    LET id == NextEffect
    IN  /\ At("decide")
        /\ id \in EffectIds    \* bound: MaxTries
        /\ ~Repairing
        /\ ~Blocked
        /\ ~Published
        /\ IF effects[id].state = "delivered" THEN UNCHANGED vars /\ Return
           ELSE IF effects[id].state = "planned"
           THEN /\ Authorized
                /\ UNCHANGED vars
                /\ Goto("claim", id)
           ELSE IF KindOf(id) \in TimedKinds /\ Remaining <= 0
           THEN Hold("budget") /\ Return
           ELSE /\ PlanEffect(id, IF KindOf(id) \in TimedKinds
                                  THEN Lesser(MaxEffectMs, Remaining) ELSE 0)
                /\ IF valid THEN Goto("claim", id) ELSE Return

\* watchFactoryDelivery, reduced to what a merge, a failed check and too much
\* feedback to review do.  A poll that finds nothing new, or not everything,
\* does nothing.
Watch ==
    /\ At("decide")
    /\ ~Repairing
    /\ ~Blocked
    /\ Published
    /\ Authorized
    /\ IF merged
       THEN Finish("merged")
       ELSE RecordFeedback(TRUE, FALSE) \/ Hold("scope") \/ UNCHANGED vars
    /\ Return

----------------------------------------------------------------------------
(* One effect: claimed in the record before anything is dispatched. *)

Claim(id) ==
    /\ At("claim")
    /\ StartEffect(id)
    /\ IF valid THEN Goto("dispatch", id) ELSE Goto("refused", id)

\* Mutant: a push that failed after it was invoked counts as not attempted.
RefuseInvokedPush(id) ==
    /\ step.at \in {"dispatch", "cleared", "run"}
    /\ KindOf(id) = "push"
    /\ UNCHANGED vars
    /\ Goto("refused", id)

\* The first guard refuses an effect whose candidate has changed.  Until the
\* push is invoked every failure of a push says that nothing was sent.
RefuseEffect(id) ==
    /\ \/ At("dispatch") /\ (KindOf(id) = "push" \/ ~valid)
       \/ At("cleared") /\ KindOf(id) = "push" /\ ~valid
    /\ UNCHANGED vars
    /\ Goto("refused", id)

RecordRefusal(id) ==
    /\ At("refused")
    /\ BindEffectReceipt(id)
    /\ Goto("bound", id)

HoldRefusal(id) ==
    /\ At("bound")
    /\ Hold("scope")
    /\ Goto("held", id)

SettleRefusal(id) ==
    /\ At("held")
    /\ SettleUndelivered(id, "planned")
    /\ Return

\* Any other failure leaves the effect to reconciliation.
FailEffect(id) ==
    /\ \/ step.at \in {"dispatch", "cleared"} /\ KindOf(id) # "push"
       \/ At("run")
       \/ At("certify") /\ ~valid
    /\ SettleUndelivered(id, "uncertain")
    /\ Return

\* The inner guard of the operation, which ends in another capture.
Clear(id) ==
    /\ At("dispatch")
    /\ Authorized
    /\ UNCHANGED vars
    /\ Goto("cleared", id)

\* Mutant: the pull request is created on the guard that precedes the lookup.
RecheckNothing(work) == work \in Work

\* createDeliveryPr and the progress reviewer look at the record again in the
\* stretch that dispatches; the other operations rely on the guard.
Recheck(work) ==
    KindOf(work) \in {"create-pr", "assessment"} => Authorized

Dispatch(work) ==
    /\ Recheck(work)
    /\ running' = running \cup {work}
    /\ sent' = sent \cup {work}
    /\ UNCHANGED <<vars, landed>>

SendEffect(id) ==
    /\ At("cleared")
    /\ Dispatch(id)
    /\ Goto("run", id)

Report(id) ==
    /\ At("run")
    /\ id \in landed
    /\ IF KindOf(id) = "create-pr"
       THEN UNCHANGED vars /\ Goto("settle", id)
       ELSE Authorized /\ UNCHANGED vars /\ Goto("certify", id)

\* The reviewer ended without an answer.
SettleReviewer(id) ==
    /\ At("run")
    /\ KindOf(id) = "review"
    /\ EndedSilently(id)
    /\ SettleDelivered(id, "other", NoMs, None)
    /\ Return

\* The authority was checked before the capture that ends here.
RecordResult(id) ==
    /\ At("certify")
    /\ CASE KindOf(id) \in EvidenceKinds -> Certify(id)
         [] KindOf(id) = "commit"        -> BindCommit
         [] OTHER                        -> UNCHANGED vars
    /\ Goto("settle", id)

SettleEffect(id) ==
    LET timed == KindOf(id) \in TimedKinds
        known == HasEvidence(id)
    IN  /\ At("settle")
        /\ \E ms \in (IF timed THEN Durations ELSE {NoMs}),
              pull \in (IF KindOf(id) = "create-pr" THEN PullRequests ELSE {None}) :
              SettleDelivered(id, IF known THEN "own" ELSE "other", ms, pull)
        /\ IF \E i \in Latest("verification", "blocked") : evidence[i].effect = id
           THEN Goto("setup", id)
           ELSE Return

\* A blocked report names its setup or does not; recovery does not look at it
\* when the delivery is already held.
HoldSetup(id) ==
    /\ At("setup")
    /\ \/ Raise(<<"environment", id>>)
       \/ UNCHANGED vars
    /\ Return

----------------------------------------------------------------------------
(* A repair: checkpointDeliveryRepair asks a model whether another attempt   *)
(* is worth it, dispatchCodingRepair reserves and launches it.               *)

NextOrdinal == Len(repairs) + 1
NextAssessment == AssessmentCause(NextOrdinal)
Asked == NextOrdinal \in Ordinals /\ assessments[NextOrdinal].state # "absent"
Fresh(k) == Authorized /\ assessments[k].digest = EvidenceDigest

AssessmentsUsed == Cardinality({k \in Ordinals : assessments[k].state # "absent"})

\* Feedback is repaired whatever the budget says, and then finds it exhausted
\* as a failure does.
HoldExhausted ==
    /\ At("decide")
    /\ Repairing
    /\ ~Asked
    /\ Exhausted \/ AssessmentsUsed >= MaxAssessments
    /\ Hold("budget")
    /\ Return

Ask ==
    /\ At("decide")
    /\ Repairing
    /\ ~Asked
    /\ ~Exhausted
    /\ AssessmentsUsed < MaxAssessments
    /\ Authorized
    /\ UNCHANGED vars
    /\ Goto("packet", NextAssessment)

\* The settled assessment of this ordinal is used, never asked for again.
Reuse ==
    /\ At("decide")
    /\ Repairing
    /\ Asked
    /\ IF Fresh(NextOrdinal)
       THEN UNCHANGED vars /\ Goto("approve", NextAssessment)
       ELSE Hold("authority") /\ Return

HoldUnreadableHistory ==
    /\ At("packet")
    /\ Hold("scope")
    /\ Return

AdmitAssessment ==
    /\ At("packet")
    /\ valid
    /\ ReserveProgress
    /\ Goto("judge", step.work)

StartAssessment(k) ==
    /\ At("judge")
    /\ StartProgress(k)
    /\ Goto("dispatch", AssessmentCause(k))

SendAssessment(k) ==
    /\ At("dispatch")
    /\ Dispatch(AssessmentCause(k))
    /\ Goto("bind", AssessmentCause(k))

BindAssessment(k) ==
    /\ At("bind")
    /\ BindSubmission(k)
    /\ Goto("run", AssessmentCause(k))

FailAssessment(k) ==
    /\ \/ step.at \in {"dispatch", "certify"} /\ ~Authorized
       \/ step.at \in {"bind", "run"}
    /\ LoseAssessment(k)

ReadAssessment(k) ==
    /\ At("run")
    /\ AssessmentCause(k) \in landed
    /\ Fresh(k)
    /\ UNCHANGED vars
    /\ Goto("certify", AssessmentCause(k))

\* settleDeliveryProgress: only current authority makes the answer an approval.
AcceptAssessment(k) ==
    /\ At("certify")
    /\ \E decision \in {"approve", "escalate"}, ms \in Durations :
          /\ ~Fresh(k) => decision = "escalate"
          /\ SettleProgress(k, decision, ms)
          /\ IF decision = "approve"
             THEN Goto("approve", AssessmentCause(k))
             ELSE Return

UseApproval(k) ==
    /\ At("approve")
    /\ IF ~Fresh(k)
       THEN Hold("authority") /\ Return
       ELSE /\ UNCHANGED vars
            /\ IF assessments[k].decision = "approve"
               THEN Goto("reserve", RepairCause(k))
               ELSE Return

\* A request is named after the feedback or the failure it answers.  The same
\* failure makes the same request again, and finds the repair it once reserved.
Replayed ==
    /\ PendingFeedback = {}
    /\ \E k \in DOMAIN repairs :
          /\ repairs[k].from = revision
          /\ \A f \in DOMAIN feedback : feedback[f].repair # k

ObserveRepair ==
    /\ At("reserve")
    /\ Authorized
    /\ Replayed
    /\ UNCHANGED vars
    /\ Return

AdmitRepair(k) ==
    /\ At("reserve")
    /\ Authorized
    /\ ~Replayed
    /\ IF Exhausted
       THEN Hold("budget") /\ Return
       ELSE ReserveRepair(Lesser(MaxEffectMs, Remaining)) /\ Goto("launch", step.work)

\* The coding executable is not the one the first run was admitted with.
HoldExecutable ==
    /\ At("reserve")
    /\ Authorized
    /\ ~Replayed
    /\ ~Exhausted
    /\ Hold("authority")
    /\ Return

Launch(k) ==
    /\ At("launch")
    /\ Authorized
    /\ Dispatch(RepairCause(k))
    /\ Return

\* The launch is fenced and the run is cancelled, or quarantined when the host
\* had not taken it over yet.
FenceLaunch(k) ==
    /\ At("launch")
    /\ landed' \in {landed, landed \cup {RepairCause(k)}}
    /\ UNCHANGED <<vars, running, sent>>
    /\ Return

----------------------------------------------------------------------------
(* The operator, between two steps of any kind. *)

Operator == step.at \notin Synchronous /\ UNCHANGED <<step, world, ground>>

Revoke == Operator /\ Active /\ Hold("authority")

Approve == Operator /\ Authorized /\ AuthorizePublication

RetryEnvironment(i) ==
    /\ Operator
    /\ valid
    /\ i[1] = "environment"
    /\ open = {i}
    /\ Remaining > 0
    /\ Cardinality(SetupRetries) + 1 < MaxTries
    /\ ResolveIntervention(i)

----------------------------------------------------------------------------
(* The world.  Work that was dispatched ends by itself, with or without an    *)
(* observable result, whether or not the program still waits for it.          *)

Land(work) ==
    /\ work \in running
    /\ running' = running \ {work}
    /\ landed' = landed \cup {work}
    /\ UNCHANGED <<vars, step, sent, ground>>

Vanish(work) ==
    /\ work \in running
    /\ running' = running \ {work}
    /\ UNCHANGED <<vars, step, sent, landed, ground>>

MergePull ==
    /\ ~merged
    /\ \E work \in landed : KindOf(work) = "create-pr"
    /\ merged' = TRUE
    /\ UNCHANGED <<vars, step, world, valid, crashes>>

ChangeConfiguration ==
    /\ step.at \notin Synchronous
    /\ valid
    /\ valid' = FALSE
    /\ UNCHANGED <<vars, step, world, merged, crashes>>

\* The process dies and is started again: the record and the world remain.
Crash ==
    /\ ~At("idle")
    /\ crashes < MaxCrashes
    /\ crashes' = crashes + 1
    /\ Return
    /\ UNCHANGED <<vars, world, valid, merged>>

----------------------------------------------------------------------------

\* An effect's or an assessment's part of the step, with the work it carries.
StepEffect(id) ==
    \/ Claim(id)
    \/ RefuseEffect(id)
    \/ RecordRefusal(id)
    \/ HoldRefusal(id)
    \/ SettleRefusal(id)
    \/ FailEffect(id)
    \/ Clear(id)
    \/ Report(id)
    \/ SettleReviewer(id)
    \/ RecordResult(id)
    \/ SettleEffect(id)
    \/ HoldSetup(id)
    \/ RecoverCommit(id)

StepAssessment(k) ==
    \/ StartAssessment(k)
    \/ BindAssessment(k)
    \/ FailAssessment(k)
    \/ ReadAssessment(k)
    \/ AcceptAssessment(k)
    \/ UseApproval(k)

StepRepair(k) ==
    \/ AdmitRepair(k)
    \/ ExplainUsage(k)
    \/ HoldFailedRepair(k)

Recover ==
    \/ \E k \in Ordinals : RecoverAssessment(k) \/ SettleRepair(k)
    \/ \E id \in EffectIds : RecoverEffect(id)
    \/ EndHeld

\* The step of the coordinator, from tick to tick.
Advance ==
    /\ UNCHANGED ground
    /\ \/ /\ UNCHANGED world
          /\ \/ Recover
             \/ Begin
             \/ Abandon
             \/ CandidateChanged
             \/ HoldBlocked
             \/ PlanNext
             \/ Watch
             \/ HoldExhausted
             \/ Ask
             \/ Reuse
             \/ HoldUnreadableHistory
             \/ AdmitAssessment
             \/ ObserveRepair
             \/ HoldExecutable
             \/ HoldLostAssessment
             \/ step.work \in EffectIds /\ StepEffect(step.work)
             \/ step.work \in Assessments /\ StepAssessment(OrdinalOf(step.work))
             \/ KindOf(step.work) = "repair" /\ StepRepair(OrdinalOf(step.work))
       \/ step.work \in EffectIds /\ SendEffect(step.work)
       \/ step.work \in Assessments /\ SendAssessment(OrdinalOf(step.work))
       \/ KindOf(step.work) = "repair" /\ Launch(OrdinalOf(step.work))
       \/ KindOf(step.work) = "repair" /\ FenceLaunch(OrdinalOf(step.work))

Operate ==
    \/ Revoke
    \/ Approve
    \/ \E i \in open : RetryEnvironment(i)

WorkEnds == \E work \in running : Land(work) \/ Vanish(work)

CoordinatorNext ==
    \/ Advance
    \/ Operate
    \/ WorkEnds
    \/ MergePull
    \/ ChangeConfiguration
    \/ Crash

CoordinatorSpec == CoordinatorInit /\ [][CoordinatorNext]_coordinatorVars

\* The ticker calls the coordinator for as long as the delivery has no outcome,
\* and external work has a deadline.  Nobody is obliged to approve, to merge or
\* to retry.
Fairness == /\ WF_coordinatorVars(Advance)
            /\ WF_coordinatorVars(WorkEnds)

FairSpec == CoordinatorSpec /\ Fairness

----------------------------------------------------------------------------
(* Properties. *)

\* Whatever crashes, revocations and recoveries come in between, no check, model
\* call, commit, push, pull request or repair is ever dispatched a second time,
\* and none while another still runs.
External == INSTANCE ExternalWork WITH started <- sent, live <- running
DispatchedOnce == External!Spec

\* A dispatched effect is never reported as not delivered, and nothing is
\* reported as delivered on the strength of a receipt unless it happened.
LedgerIsTrue ==
    \A id \in EffectIds :
        /\ id \in sent => effects[id].state \in {"in-flight", "uncertain", "delivered"}
        /\ effects[id].state = "delivered"
             /\ (KindOf(id) \in PublicationKinds \/ effects[id].receipt = "own")
               => id \in landed

\* A delivery ends when its external work has: nothing is left running behind a
\* terminal outcome, whoever was waiting for it when the process died.
EndedIsQuiet == ~Active => running = {}

\* The pull request and the judge are never started on authority that has been
\* withdrawn since the guard looked: they look again as they dispatch.
RecheckedWorkIsAuthorized ==
    [][\A work \in sent' \ sent :
          KindOf(work) \in {"create-pr", "assessment"} => open = {} /\ valid]_coordinatorVars

\* Whatever the operator should know is shown: work that needs reconciliation,
\* an intervention, a candidate to approve, a published pull request or the end.
Unaccounted == \/ \E id \in EffectIds : effects[id].state = "uncertain"
               \/ \E k \in Ordinals : assessments[k].state = "uncertain"
               \/ \E k \in ReservedRepairs : RepairCause(k) \notin running \cup landed
Shown == ~Active \/ open # {} \/ AwaitsPublication \/ Published \/ Unaccounted

\* A crash between a claim and its dispatch, or between the end of a repair and
\* its explanation, leaves a delivery that nobody is told of (AmbiguousWorkPauses and
\* FailedRepairIsHeld in DeliveryClaims): what follows is promised without one.
Crashed == crashes > 0

\* The delivery does not stay at work for ever: with a live ticker it comes to
\* a point that the operator's view tells from "running", time and again.
OperatorIsTold == []<>(Shown \/ Crashed)

\* Revocation ends a delivery that has no pull request, unless the outcome of some
\* work is unknown.  (Nothing takes a revocation back, so that coming to such a
\* state time and again is to come to it after every revocation.)
RevocationEnds == []<>((Revoked /\ pr = None) => (~Active \/ Unaccounted \/ Crashed))

=============================================================================
