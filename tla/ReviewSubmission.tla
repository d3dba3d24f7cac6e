--------------------------- MODULE ReviewSubmission ---------------------------
(***************************************************************************)
(* The submission of a pull request review to GitHub: the review's record     *)
(* (src/src/modules/pr-reviews/service.ts), the user's drafts                 *)
(* (github/reviews.ts), the route that reserves the one, leases the other and *)
(* posts the review, the reconciliation that finds out what became of a       *)
(* submission without an answer, and the follow-ups that record the posted    *)
(* review as the deck's own.                                                 *)
(*                                                                          *)
(* One pull request.  The n-th reservation is submission n; GitHub's list of  *)
(* reviews is the requests it accepted.  All verdicts are the same, so that   *)
(* nothing but author, head and time tells a posted review from an earlier    *)
(* one.  The server runs all handlers: what lies between two awaits is one    *)
(* action, and a crash may cut off an action that commits more than once.     *)
(***************************************************************************)
EXTENDS Naturals

CONSTANTS
    MaxSubmissions, \* bound: reservations
    MaxRounds,      \* bound: reviews of the pull request
    MaxHeads,       \* bound: revisions of its branch
    MaxDrafts,      \* bound: drafts
    MaxEdits,       \* bound: edits of a draft
    MaxFaults       \* bound: crashes, and requests and answers lost or failed

ASSUME BoundsAssumption ==
    /\ {MaxSubmissions, MaxRounds, MaxHeads, MaxDrafts} \subseteq Nat \ {0}
    /\ {MaxEdits, MaxFaults} \subseteq Nat

Submissions == 1..MaxSubmissions
Drafts == 1..MaxDrafts
Heads == 1..MaxHeads
Revisions == 1..(MaxEdits + 1)

VARIABLES
    head,       \* GitHub: the head of the pull request
    request,    \* GitHub: the request of each submission, what it says of a draft,
                \* and of what was asked for (history); met: the last reservation
                \* when it was accepted
    changed,    \* GitHub: the reviews of which a comment was edited, or moved by a push
    review,     \* the record of the review; late: thirty seconds after the reservation
    round,      \* history: how often the pull request was reviewed
    misread,    \* history: rounds whose grace ended over a list read before their review was there
    draft,      \* the rows of the drafts
    call,       \* the handler of each submission, and what it has read
    recon,      \* the reconciliation in flight
    followup,   \* the row of each accepted request's delivery follow-up
    compared,   \* the follow-ups whose comments are still to be compared with the draft's
    running,    \* in memory: who processes the follow-up
    timer,      \* in memory: a retry is due to fire
    boot,       \* what the recovery at startup has left to do
    faults

github == <<head, request, changed>>
records == <<review, round, misread, draft>>
deliveries == <<followup, compared, running, timer, boot>>
vars == <<github, records, call, recon, deliveries, faults>>

NoSubmission == 0
Live == {"reserved", "leased", "posting", "posted"}
NoCall(at) == [at |-> at, draft |-> 0, asked |-> 0, sent |-> 0, head |-> 1]
Nothing(status) == [status |-> status, draft |-> 0, revision |-> 0, asked |-> 0, head |-> 1,
                    round |-> 0, met |-> NoSubmission]
Idle == [at |-> "idle", found |-> NoSubmission]
\* Who runs a processor: the route or the reconciliation, a timer, the startup.
Processors == {"handler", "timer", "startup"}

ReviewTypeOK ==
    /\ head \in Heads
    /\ request \in [Submissions -> [status : {"none", "sent", "accepted", "rejected", "lost"},
                                    draft : 0..MaxDrafts, revision : {0} \cup Revisions,
                                    asked : {0} \cup Revisions, head : Heads,
                                    round : 0..MaxRounds, met : 0..MaxSubmissions]]
    /\ review \in [status : {"none", "reviewing", "ready", "submitting", "submitted", "failed"},
                   archived : BOOLEAN, head : Heads, submission : 0..MaxSubmissions, late : BOOLEAN,
                   draft : 0..MaxDrafts, revision : {0} \cup Revisions]
    /\ review.draft # 0 <=> review.status \in {"submitting", "submitted"}
    /\ round \in 0..MaxRounds
    /\ misread \subseteq 0..MaxRounds
    /\ draft \in [Drafts -> [status : {"none", "draft", "submitting", "submitted", "discarded"},
                             revision : Revisions, head : Heads]]
    /\ call \in [Submissions -> [at : Live \cup {"idle", "ended"}, draft : 0..MaxDrafts,
                                 asked : {0} \cup Revisions, sent : {0} \cup Revisions,
                                 head : Heads]]
    /\ recon \in [at : {"idle", "fetching", "fetched"}, found : 0..MaxSubmissions]
    /\ followup \in [Submissions -> {"none", "pending", "processing", "completed"}]
    /\ changed \subseteq Submissions /\ compared \subseteq Submissions
    /\ running \in [Submissions -> SUBSET Processors]
    /\ timer \in [Submissions -> BOOLEAN]
    /\ boot \in {"up", "delivery", "evidence"}
    /\ faults \in 0..MaxFaults

Init ==
    /\ head = 1
    /\ request = [n \in Submissions |-> Nothing("none")]
    /\ review = [status |-> "none", archived |-> FALSE, head |-> 1,
                 submission |-> NoSubmission, late |-> FALSE, draft |-> 0, revision |-> 0]
    /\ round = 0
    /\ misread = {}
    /\ changed = {} /\ compared = {}
    /\ draft = [d \in Drafts |-> [status |-> "none", revision |-> 1, head |-> 1]]
    /\ call = [n \in Submissions |-> NoCall("idle")]
    /\ recon = Idle
    /\ followup = [n \in Submissions |-> "none"]
    /\ running = [n \in Submissions |-> {}]
    /\ timer = [n \in Submissions |-> FALSE]
    /\ boot = "up"
    /\ faults = 0

Fault == faults < MaxFaults /\ faults' = faults + 1

----------------------------------------------------------------------------
(* The review's record. *)

\* startPrReview: refused while the review is being written or submitted.
StartReview ==
    /\ review.status \notin {"reviewing", "submitting"}
    /\ round < MaxRounds
    /\ round' = round + 1
    /\ review' = [status |-> "reviewing", archived |-> FALSE, head |-> head,
                  submission |-> NoSubmission, late |-> FALSE, draft |-> 0, revision |-> 0]
    /\ UNCHANGED <<github, misread, draft, call, recon, deliveries, faults>>

\* completePrReview
CompleteReview ==
    /\ review.status = "reviewing"
    /\ review' = [review EXCEPT !.status = "ready"]
    /\ UNCHANGED <<github, round, misread, draft, call, recon, deliveries, faults>>

\* failPrReview: a settlement that comes late fails a ready review as well.
FailReview ==
    /\ review.status \in {"reviewing", "ready"}
    /\ review' = [review EXCEPT !.status = "failed"]
    /\ UNCHANGED <<github, round, misread, draft, call, recon, deliveries, faults>>

\* setPrReviewArchived, by the user or by the refresh of a closed pull request:
\* never while the review is written or submitted.  Whether a failed or a
\* submitted one is archived, nobody asks.
ArchiveReview ==
    /\ review.status = "ready"
    /\ review' = [review EXCEPT !.archived = ~@]
    /\ UNCHANGED <<github, round, misread, draft, call, recon, deliveries, faults>>

\* The branch is pushed to.
Push ==
    /\ head < MaxHeads
    /\ head' = head + 1
    /\ UNCHANGED <<request, changed, records, call, recon, deliveries, faults>>

----------------------------------------------------------------------------
(* The drafts. *)

\* ReviewDraftRepository.requireEditable: the revision is the one just read.
Editable(d) == draft[d].status = "draft"

\* upsertPrReviewDraft, create: no draft may be open.
CreateDraft(d) ==
    /\ draft[d].status = "none"
    /\ \A e \in Drafts : /\ draft[e].status \notin {"draft", "submitting"}
                         /\ e < d => draft[e].status # "none"
    /\ \E h \in 1..head :
          draft' = [draft EXCEPT ![d] = [status |-> "draft", revision |-> 1, head |-> h]]
    /\ UNCHANGED <<github, review, round, misread, call, recon, deliveries, faults>>

\* upsertPrReviewDraft, update; reanchorPrReviewDraft; the edits of comments.
EditDraft(d) ==
    /\ Editable(d)
    /\ draft[d].revision <= MaxEdits
    /\ \E h \in {draft[d].head, head} :
          draft' = [draft EXCEPT ![d].revision = @ + 1, ![d].head = h]
    /\ UNCHANGED <<github, review, round, misread, call, recon, deliveries, faults>>

\* discardPrReviewDraft: of a discarded draft nobody reads more than its status.
DiscardDraft(d) ==
    /\ Editable(d)
    /\ draft' = [draft EXCEPT ![d] = [status |-> "discarded", revision |-> 1, head |-> 1]]
    /\ UNCHANGED <<github, review, round, misread, call, recon, deliveries, faults>>

----------------------------------------------------------------------------
(* The delivery follow-ups. *)

\* enqueue (an existing row is kept), then processPrReviewDeliveryFollowup up
\* to its first await: only a pending row that is due is claimed.
Process(n, who) ==
    \/ /\ followup[n] \in {"none", "pending"}
       /\ followup' = [followup EXCEPT ![n] = "processing"]
       /\ running' = [running EXCEPT ![n] = @ \cup {who}]
    \/ /\ followup[n] \in {"processing", "completed"} \/ (followup[n] = "pending" /\ timer[n])
       /\ UNCHANGED <<followup, running>>

\* Mutant: a failed processing leaves its claim.
RetryUnclaimed(n) == followup

\* retryPrReviewSubmissionFollowup: only what is being processed is set back.
Retry(n) == [followup EXCEPT ![n] = IF @ = "processing" THEN "pending" ELSE @]

\* submittedReviewDeliveryIdentityError: the comments are no longer the draft's.
\* A follow-up enqueued by a reconciliation compares none.
Mismatched(n) == n \in changed \cap compared

\* verifyAndRecordSubmittedReviewDelivery: the delivery and the end of the
\* follow-up commit together, fenced by the claim; a lost claim is retried, and
\* so is what does not match and never will.
ProcessingEnds(n, who) ==
    /\ who \in running[n]
    /\ running' = [running EXCEPT ![n] = @ \ {who}]
    /\ \/ /\ followup[n] = "processing" /\ ~Mismatched(n)
          /\ followup' = [followup EXCEPT ![n] = "completed"]
          /\ compared' = compared \ {n}
          /\ UNCHANGED <<timer, faults>>
       \/ /\ IF followup[n] = "processing" /\ ~Mismatched(n) THEN Fault ELSE UNCHANGED faults
          /\ followup' = Retry(n)
          /\ timer' = [timer EXCEPT ![n] = TRUE]
          /\ UNCHANGED compared
    /\ UNCHANGED <<github, records, call, recon, boot>>

\* scheduleDeliveryFollowupRetry
TimerFires(n) ==
    /\ timer[n]
    /\ "timer" \notin running[n]
    /\ timer' = [timer EXCEPT ![n] = FALSE]
    /\ IF followup[n] = "pending"
       THEN /\ followup' = [followup EXCEPT ![n] = "processing"]
            /\ running' = [running EXCEPT ![n] = @ \cup {"timer"}]
       ELSE UNCHANGED <<followup, running>>
    /\ UNCHANGED <<github, records, call, recon, boot, compared, faults>>

Unfinished == {n \in Submissions : followup[n] \in {"pending", "processing"}}

\* recoverPrReviewDeliveryFollowups: all that is unfinished is claimed.  Where nothing
\* is, nothing is awaited, and the recovery of the evidence finds nothing either.
RecoverDeliveries ==
    /\ boot = "delivery"
    /\ boot' = IF Unfinished = {} THEN "up" ELSE "evidence"
    /\ followup' = [n \in Submissions |-> IF n \in Unfinished THEN "processing" ELSE followup[n]]
    /\ running' = [n \in Submissions |->
          IF n \in Unfinished THEN running[n] \cup {"startup"} ELSE running[n]]
    /\ UNCHANGED <<github, records, call, recon, compared, timer, faults>>

\* recoverPrReviewEvidenceFollowups, once the deliveries were tried: it sets
\* back the rows of both kinds, those in other processors' hands included.
RecoverEvidence ==
    /\ boot = "evidence"
    /\ \A n \in Submissions : "startup" \notin running[n]
    /\ boot' = "up"
    /\ followup' = [n \in Submissions |->
          IF followup[n] = "processing" THEN "pending" ELSE followup[n]]
    /\ UNCHANGED <<github, records, call, recon, compared, running, timer, faults>>

\* The server dies, and with it all that is in memory; startup comes next.
Died ==
    /\ Fault
    /\ call' = [n \in Submissions |->
          IF call[n].at \in Live THEN NoCall("ended") ELSE call[n]]
    /\ recon' = Idle
    /\ running' = [n \in Submissions |-> {}]
    /\ timer' = [n \in Submissions |-> FALSE]
    /\ boot' = "delivery"
    /\ UNCHANGED compared

Crash == Died /\ UNCHANGED <<github, records, followup>>

----------------------------------------------------------------------------
(* The route that submits a review. *)

\* reservePrReviewSubmission and beginPrReviewSubmissionAttempt, after the
\* checks of the draft and the record the user is looking at.
Submit(n, d) ==
    /\ \A m \in Submissions : m < n => call[m].at # "idle"
    /\ call[n].at = "idle"
    /\ draft[d].status = "draft"
    /\ review.status = "ready" /\ ~review.archived
    /\ draft[d].head = review.head
    /\ review' = [review EXCEPT !.status = "submitting", !.submission = n, !.late = FALSE,
                                !.draft = d, !.revision = draft[d].revision]
    /\ call' = [call EXCEPT ![n] = [at |-> "reserved", draft |-> d, asked |-> draft[d].revision,
                                    sent |-> 0, head |-> review.head]]
    /\ UNCHANGED <<github, round, misread, draft, recon, deliveries, faults>>

At(n, from) == call[n].at = from
Goes(n, to) == call' = [call EXCEPT ![n].at = to]
Ends(n) == call' = [call EXCEPT ![n] = NoCall("ended")]
Drafted(n) == draft[call[n].draft]

\* Mutant: the record keeps the draft it was reserved for.
ReopenedWithDraft == [review EXCEPT !.status = "ready", !.submission = NoSubmission,
                                    !.late = FALSE, !.revision = 0]

\* What a release writes.
Reopened == [review EXCEPT !.status = "ready", !.submission = NoSubmission,
                           !.late = FALSE, !.draft = 0, !.revision = 0]

\* releasePrReviewSubmission: the reservation it releases is of the same head.
Released(n) ==
    IF review.status = "submitting" /\ review.head = call[n].head
    THEN Reopened
    ELSE review

\* releaseDraftSubmissionLease
Unleased(n) ==
    [draft EXCEPT ![call[n].draft].status = IF @ = "submitting" THEN "draft" ELSE @]

\* Mutant: whatever the draft holds by now is posted.
LeasableAsIs(n) == Drafted(n).status = "draft"

\* leaseDraftForSubmission
Leasable(n) == Drafted(n).status = "draft" /\ Drafted(n).revision = call[n].asked

Lease(n) ==
    /\ At(n, "reserved")
    /\ Leasable(n)
    /\ draft' = [draft EXCEPT ![call[n].draft].status = "submitting"]
    /\ call' = [call EXCEPT ![n].at = "leased", ![n].sent = Drafted(n).revision]
    /\ UNCHANGED <<github, review, round, misread, recon, deliveries, faults>>

\* The draft has changed, or the request is refused before the lease.
Refuse(n) ==
    /\ At(n, "reserved")
    /\ review' = Released(n)
    /\ Ends(n)
    /\ UNCHANGED <<github, round, misread, draft, recon, deliveries, faults>>

\* The head of the branch is still the draft's: the request goes out.
Post(n) ==
    /\ At(n, "leased")
    /\ Drafted(n).head = head
    /\ request' = [request EXCEPT ![n] =
          [status |-> "sent", draft |-> call[n].draft, revision |-> call[n].sent,
           asked |-> call[n].asked, head |-> head, round |-> round, met |-> NoSubmission]]
    /\ Goes(n, "posting")
    /\ UNCHANGED <<head, changed, records, recon, deliveries, faults>>

\* The attempt failed for certain: the head has moved, GitHub refuses to tell it, the
\* draft cannot be posted, or GitHub has rejected it.
FailedForCertain(n) ==
    \/ At(n, "leased")
    \/ At(n, "posting") /\ request[n].status = "rejected"

GiveUp(n) ==
    /\ FailedForCertain(n)
    /\ draft' = Unleased(n)
    /\ review' = Released(n)
    /\ Ends(n)
    /\ UNCHANGED <<github, round, misread, recon, deliveries, faults>>

\* The head cannot be read, by a connection that is lost or a GitHub that fails: no
\* request was started, so the lease is released, but the error is the uncertain one
\* and the reservation stays.
HeadUnread(n) ==
    /\ At(n, "leased")
    /\ Fault
    /\ draft' = Unleased(n)
    /\ Ends(n)
    /\ UNCHANGED <<github, review, round, misread, recon, deliveries>>

\* The server dies between the release of the draft and that of the record.
DieGivingUp(n) ==
    /\ FailedForCertain(n)
    /\ draft' = Unleased(n)
    /\ Died
    /\ UNCHANGED <<github, review, round, misread, followup>>

\* The connection is lost or times out, or GitHub fails: submission-uncertain,
\* and lease and reservation stay.
LoseTouch(n) ==
    /\ At(n, "posting")
    /\ IF request[n].status = "lost" THEN UNCHANGED faults ELSE Fault
    /\ Ends(n)
    /\ UNCHANGED <<github, records, recon, deliveries>>

\* Mutant: the draft is settled and the follow-up left to the route.
Unrecorded(n) == followup

\* markDraftSubmitted commits the draft and the delivery follow-up together.
Recorded(n) == [followup EXCEPT ![n] = IF @ = "none" THEN "pending" ELSE @]

\* GitHub's answer arrives; without the lease the outcome counts as uncertain.
Answered(n) ==
    /\ At(n, "posting")
    /\ request[n].status = "accepted"
    /\ IF Drafted(n).status = "submitting"
       THEN /\ draft' = [draft EXCEPT ![call[n].draft].status = "submitted"]
            /\ followup' = Recorded(n)
            /\ compared' = IF followup[n] = "none" THEN compared \cup {n} ELSE compared
            /\ Goes(n, "posted")
       ELSE Ends(n) /\ UNCHANGED <<draft, followup, compared>>
    /\ UNCHANGED <<github, review, round, misread, recon, running, timer, boot, faults>>

\* submitPrReview
Submitted == IF review.status = "submitting" THEN [review EXCEPT !.status = "submitted", !.late = FALSE]
                                             ELSE review

\* postGitHubPrReview returns, having started the follow-up, and the record is
\* settled.
Return(n) ==
    /\ At(n, "posted")
    /\ Process(n, "handler")
    /\ review' = Submitted
    /\ Ends(n)
    /\ UNCHANGED <<github, round, misread, draft, recon, timer, boot, compared, faults>>

----------------------------------------------------------------------------
(* GitHub. *)

\* The last reservation so far.
Latest == CHOOSE n \in 0..MaxSubmissions :
    \A m \in Submissions : call[m].at # "idle" <=> m <= n

\* A request is met, rejected or lost; none is lost without a fault.
Meet(n) ==
    /\ request[n].status = "sent"
    /\ \/ /\ request' = [request EXCEPT ![n].status = "accepted", ![n].met = Latest]
          /\ UNCHANGED faults
       \/ request' = [request EXCEPT ![n] = Nothing("rejected")] /\ UNCHANGED faults
       \/ request' = [request EXCEPT ![n] = Nothing("lost")] /\ Fault
    /\ UNCHANGED <<head, changed, records, call, recon, deliveries>>

\* A comment of the review is edited on GitHub, or a push moves it or makes it
\* outdated.  Bound: as long as the follow-up is there to be compared; an earlier change
\* has the effect of one made then, and a later one none.
CommentChanges(n) ==
    /\ request[n].status = "accepted"
    /\ n \in compared \ changed
    /\ Fault
    /\ changed' = changed \cup {n}
    /\ UNCHANGED <<head, request, records, call, recon, deliveries>>

----------------------------------------------------------------------------
(* The reconciliation of a submission that nobody is working on. *)

\* Mutant: an attempt is never taken off the set.
Unattempted == recon.at = "idle" /\ \A n \in Submissions : call[n].at = "idle"

Settled == \A n \in Submissions : request[n].status # "sent"

\* GitHub holds a review of this round.
ReviewIsThere == \E n \in Submissions : request[n].status = "accepted" /\ request[n].round = round

\* activeSubmissionAttempts: forgotten in a crash.
Inactive == recon.at = "idle" /\ \A n \in Submissions : call[n].at \notin Live

\* The grace of thirty seconds since the reservation, which restarts for none: by
\* its end GitHub has met or lost every request.  It may end while a list that was
\* read before waits to be judged, for the clock is read after the list: a review
\* accepted in between is then misread as absent.
GraceEnds ==
    /\ review.status = "submitting"
    /\ ~review.late
    /\ Settled
    /\ review' = [review EXCEPT !.late = TRUE]
    /\ misread' = IF recon.at = "fetched" /\ recon.found = NoSubmission /\ ReviewIsThere
                  THEN misread \cup {round} ELSE misread
    /\ UNCHANGED <<github, round, draft, call, recon, deliveries, faults>>

Reconcile ==
    /\ review.status = "submitting"
    /\ Inactive
    /\ recon' = [at |-> "fetching", found |-> NoSubmission]
    /\ UNCHANGED <<github, records, call, deliveries, faults>>

\* Mutant: a review of the author at this head will do, whenever it was posted.
MatchingOfAnyTime == {n \in Submissions : request[n].status = "accepted" /\ request[n].head = review.head}

\* matchingSubmittedReview: the reviews of the author at the reserved head that
\* are no older than the reservation.
Matching == {n \in Submissions :
    /\ request[n].status = "accepted"
    /\ request[n].head = review.head
    /\ request[n].met >= review.submission}

\* GitHub reads the list of reviews; after the grace, of all that was requested.
Fetch ==
    /\ recon.at = "fetching"
    /\ review.late => Settled
    /\ recon' = [at |-> "fetched",
                 found |-> IF Matching = {} THEN NoSubmission
                           ELSE CHOOSE n \in Matching : \A m \in Matching : m <= n]
    /\ UNCHANGED <<github, records, call, deliveries, faults>>

\* The list cannot be read.
FetchFails ==
    /\ recon.at = "fetching"
    /\ Fault
    /\ recon' = Idle
    /\ UNCHANGED <<github, records, call, deliveries>>

\* settlePrReviewDraftSubmission of the reserved draft.
Settleable(to) ==
    LET d == review.draft
    IN  \/ draft[d].status = to
        \/ draft[d].status = "submitting" /\ draft[d].revision = review.revision
SettledTo(to) == [draft EXCEPT ![review.draft].status = to]

\* The review is found: follow-up, draft and record are settled, in this order.
\* A draft that cannot be settled leaves the record as it is.
SettleFound ==
    /\ recon.at = "fetched" /\ recon.found # NoSubmission
    /\ Process(recon.found, "handler")
    /\ IF Settleable("submitted")
       THEN draft' = SettledTo("submitted") /\ review' = Submitted
       ELSE UNCHANGED <<draft, review>>
    /\ recon' = Idle
    /\ UNCHANGED <<github, round, misread, call, timer, boot, compared, faults>>

\* Mutant: a reservation is released as soon as no review is found for it.
NoGrace == recon.at = "fetched"

\* More than submissionReconcileGraceMs since the reservation.
GraceOver == review.late

\* None is found, within the grace.
StillPending ==
    /\ recon.at = "fetched" /\ recon.found = NoSubmission
    /\ ~GraceOver
    /\ recon' = Idle
    /\ UNCHANGED <<github, records, call, deliveries, faults>>

\* None is found, and the grace is over: the draft may be submitted again.
\* A draft that cannot be settled leaves the record reserved.
SettleAbsent ==
    /\ recon.at = "fetched" /\ recon.found = NoSubmission
    /\ GraceOver
    /\ IF Settleable("draft")
       THEN /\ draft' = SettledTo("draft")
            /\ review' = Reopened
       ELSE UNCHANGED <<draft, review>>
    /\ recon' = Idle
    /\ UNCHANGED <<github, round, misread, call, deliveries, faults>>

\* The server dies before the record is settled, or even the draft.
DieSettling ==
    /\ recon.at = "fetched"
    /\ LET found == recon.found # NoSubmission
           to == IF found THEN "submitted" ELSE "draft"
       IN  /\ found \/ GraceOver
           /\ \/ Settleable(to) /\ draft' = SettledTo(to)
              \/ found /\ UNCHANGED draft
           /\ followup' = IF found THEN Recorded(recon.found) ELSE followup
    /\ Died
    /\ UNCHANGED <<github, review, round, misread>>

----------------------------------------------------------------------------

\* What a handler does next when nothing kills it.
Handle(n) ==
    \/ Lease(n) \/ Refuse(n) \/ Post(n) \/ GiveUp(n) \/ HeadUnread(n)
    \/ LoseTouch(n) \/ Answered(n) \/ Return(n)

FollowUp(n) == TimerFires(n) \/ \E who \in Processors : ProcessingEnds(n, who)

FinishReconciliation == Fetch \/ SettleFound \/ StillPending \/ SettleAbsent

Next ==
    \/ StartReview \/ CompleteReview \/ FailReview \/ ArchiveReview \/ Push
    \/ \E d \in Drafts : CreateDraft(d) \/ EditDraft(d) \/ DiscardDraft(d)
    \/ \E n \in Submissions :
          \/ \E d \in Drafts : Submit(n, d)
          \/ Handle(n) \/ DieGivingUp(n) \/ Meet(n) \/ CommentChanges(n) \/ FollowUp(n)
    \/ GraceEnds \/ Reconcile \/ FinishReconciliation \/ FetchFails \/ DieSettling
    \/ RecoverDeliveries \/ RecoverEvidence \/ Crash

Spec == Init /\ [][Next]_vars

\* Every handler runs on, and so do the recovery at startup and the timers;
\* GitHub meets a request in the end; the user reconciles a submission for as
\* long as it stays unsettled, and not only across the end of the grace.
Fairness ==
    /\ \A n \in Submissions :
          WF_vars(Handle(n)) /\ WF_vars(Meet(n)) /\ WF_vars(FollowUp(n))
    /\ SF_vars(GraceEnds) /\ WF_vars(Reconcile) /\ WF_vars(FinishReconciliation)
    /\ WF_vars(RecoverDeliveries) /\ WF_vars(RecoverEvidence)

LiveSpec == Spec /\ Fairness

\* Bound: the last push, the last fault and an edit that is still there are not all
\* in one behaviour.
NotAllAtOnce ==
    head = MaxHeads /\ faults = MaxFaults => \A d \in Drafts : draft[d].revision = 1

----------------------------------------------------------------------------
(* Properties. *)

Accepted(n) == request[n].status = "accepted"

\* GitHub holds at most one review of each review round: a submission that is
\* tried again after a crash, a lost answer or a failed attempt never posts a
\* second one.  Excepted is a round whose grace ended while a list was waiting to be
\* judged that had been read before GitHub accepted the review: the code takes the
\* time after the list.
OneReviewPosted ==
    \A m, n \in Submissions :
        Accepted(m) /\ Accepted(n) /\ request[m].round = request[n].round =>
            m = n \/ request[m].round \in misread

\* GitHub holds what the user sent off, the very revision of the draft at the
\* head that was reviewed, and the draft shown as submitted still says it.
PostedIsExact ==
    /\ \A n \in Submissions : Accepted(n) => request[n].revision = request[n].asked
    /\ \A d \in Drafts : draft[d].status = "submitted" =>
          \E n \in Submissions : /\ Accepted(n)
                                 /\ request[n].draft = d
                                 /\ request[n].revision = draft[d].revision
                                 /\ request[n].head = draft[d].head

\* The two records agree.  A draft is leased only by the reservation of the
\* review's record, which alone leads to its reconciliation; and a review shown
\* as submitted is one that GitHub holds, with its draft shown as submitted.
RecordsAgree ==
    /\ \A d \in Drafts : draft[d].status = "submitting" =>
          review.status = "submitting" /\ review.draft = d
    /\ review.status = "submitted" =>
          /\ draft[review.draft].status = "submitted"
          /\ \E n \in Submissions : Accepted(n) /\ request[n].round = round

\* What the deck knows GitHub to hold, the watch of the pull request knows for
\* the deck's own: its follow-up is on the books, whoever crashed in between, with
\* the exception of OneReviewPosted.
OwnReviewIsKnown ==
    \A n \in Submissions :
        Accepted(n) /\ draft[request[n].draft].status = "submitted" =>
            followup[n] # "none" \/ request[n].round \in misread

\* A reservation is settled in the end, through crashes, lost answers and unread
\* heads, unless its draft was discarded, or handed back by a reconciliation that
\* misread the list and died before it released the record.
SubmissionSettles ==
    review.status = "submitting" ~>
        \/ review.status # "submitting"
        \/ draft[review.draft].status = "discarded"
        \/ draft[review.draft].status = "draft" /\ round \in misread

\* A follow-up is completed in the end, through crashes, failures and the recoveries
\* that take it from the processor it is with, unless a comment changed on GitHub
\* before it was compared: that is refused at every retry.
FollowupSettles ==
    \A n \in Submissions :
        followup[n] # "none" ~> followup[n] = "completed" \/ Mismatched(n)

\* The two statements below are not the code's to keep.

\* The user is told "GitHub has no matching review; the local draft is ready to
\* submit again" (server/routes/reviews.ts:304) when that is so.
NoMatchIsTold ==
    [][ review.status = "submitting" /\ recon.at = "fetched" /\ review'.status = "ready" =>
            Matching = {} ]_vars

\* An interrupted submission is recovered from GitHub or its stale reservation
\* released (pr-reviews.test.ts:1313).
ReservationIsReleased == review.status = "submitting" ~> review.status # "submitting"
=============================================================================
