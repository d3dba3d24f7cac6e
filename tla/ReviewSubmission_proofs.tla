------------------------- MODULE ReviewSubmission_proofs -------------------------
(***************************************************************************)
(* Proofs about the submission of a review, for any numbers of reservations, *)
(* rounds, heads, drafts, edits and faults: types, that what is posted is what *)
(* was asked for, that draft and record agree, and, for each review round but  *)
(* those in which the grace ended over a list that showed no review, that it   *)
(* posts one review, which the watch of the pull request knows.                *)
(***************************************************************************)
EXTENDS ReviewSubmission, TLAPS

\* Submission n has the reservation.
Reserving(n) == review.status = "submitting" /\ review.submission = n

\* Reservations are numbered in turn, and the one that stands is the last.
LatestInv ==
    /\ \A m, n \in Submissions : m < n /\ call[n].at # "idle" => call[m].at # "idle"
    /\ review.status = "submitting" =>
          /\ review.submission \in Submissions
          /\ call[review.submission].at # "idle"
          /\ \A n \in Submissions : call[n].at # "idle" => n <= review.submission

\* A handler at work has the reservation to itself, and from the lease on the draft.
HandlerOK(n) ==
    /\ call[n].at \in Live =>
          /\ Reserving(n) /\ recon.at = "idle"
          /\ call[n].draft = review.draft
          /\ call[n].asked = review.revision
          /\ call[n].head = review.head
    /\ call[n].at = "reserved" => Drafted(n).status # "submitting"
    /\ call[n].at \in {"leased", "posting"} =>
          call[n].sent = call[n].asked /\ Drafted(n).status = "submitting"
    /\ call[n].at = "posted" => Accepted(n) /\ Drafted(n).status = "submitted"

\* A request asks for what was reserved; one that was sent and not yet met is of
\* the reservation that stands.
RequestOK(n) ==
    /\ call[n].at \in {"idle", "reserved", "leased"} => request[n].status = "none"
    /\ request[n].status = "sent" => Reserving(n)
    /\ Accepted(n) => request[n].met = n
    /\ request[n].status \in {"sent", "accepted"} =>
          /\ request[n].revision = request[n].asked
          /\ request[n].draft \in Drafts
          /\ request[n].round <= round
          /\ Reserving(n) => /\ request[n].draft = review.draft
                             /\ request[n].revision = review.revision
                             /\ request[n].head = review.head
                             /\ request[n].round = round

\* A draft is leased by the reservation, at the revision and head it reserves.
DraftInv ==
    /\ \A d \in Drafts : draft[d].status = "submitting" =>
          /\ review.status = "submitting" /\ review.draft = d
          /\ draft[d].revision = review.revision
    /\ review.status = "submitting" =>
          LET held == draft[review.draft]
          IN  /\ held.status # "none"
              /\ held.status \in {"draft", "submitting"} =>
                    /\ review.revision <= held.revision
                    /\ held.revision = review.revision => held.head = review.head

\* A reconciliation works alone, on the reservation that stands; what it found is
\* the review of that reservation, and after the grace nothing is on its way.
ReconInv ==
    /\ recon.at # "idle" => review.status = "submitting"
    /\ recon.at = "fetched" /\ recon.found # NoSubmission =>
          recon.found = review.submission /\ Accepted(recon.found)
    /\ recon.at = "fetched" /\ review.late => Settled

\* A review posted for the round makes it a submitted one, and its draft.
SubmittedInv == review.status = "submitted" =>
    /\ draft[review.draft].status = "submitted"
    /\ \E n \in Submissions : Accepted(n) /\ request[n].round = round

Core ==
    /\ LatestInv
    /\ \A n \in Submissions : HandlerOK(n) /\ RequestOK(n)
    /\ DraftInv /\ ReconInv /\ SubmittedInv /\ PostedIsExact

Inv == ReviewTypeOK /\ Core

\* Unless the grace ended over a list that was read too early, nothing that GitHub
\* accepted is ever taken for absent.
NoneOverlooked ==
    recon.at = "fetched" /\ review.late /\ recon.found = NoSubmission =>
        ~Accepted(review.submission) \/ round \in misread
DraftOK(n) ==
    /\ request[n].status = "sent" => draft[request[n].draft].status = "submitting"
    /\ Accepted(n) /\ request[n].round \notin misread =>
          \/ Reserving(n) /\ draft[request[n].draft].status = "submitting"
          \/ draft[request[n].draft].status = "submitted" /\ followup[n] # "none"
    /\ Accepted(n) /\ request[n].round = round /\ round \notin misread =>
          Reserving(n) \/ review.status = "submitted"
KnownInv == NoneOverlooked /\ (\A n \in Submissions : DraftOK(n)) /\ OneReviewPosted

-----------------------------------------------------------------------------
(* What the reservations are to GitHub. *)

\* A request that is met carries the number of the last reservation: its own.
LEMMA MetByItself ==
    ASSUME Inv, NEW n \in Submissions, request[n].status = "sent"
    PROVE  Latest = n
<1>1. \A m \in Submissions : call[m].at # "idle" <=> m <= n
  BY BoundsAssumption DEF Inv, Core, ReviewTypeOK, LatestInv, RequestOK, Reserving, Submissions
<1>2. n \in 0..MaxSubmissions
  BY BoundsAssumption DEF Submissions
<1>3. ASSUME NEW k \in 0..MaxSubmissions, \A m \in Submissions : call[m].at # "idle" <=> m <= k
      PROVE  k = n
  <2>1. CASE k < n
    <3>1. n <= k
      BY <1>1, <1>3, BoundsAssumption DEF Submissions
    <3> QED
      BY <2>1, <3>1, BoundsAssumption DEF Submissions
  <2>2. CASE k > n
    <3>1. k \in Submissions
      BY <2>2, BoundsAssumption DEF Submissions
    <3>2. k <= n
      BY <1>1, <1>3, <3>1
    <3> QED
      BY <2>2, <3>2, BoundsAssumption DEF Submissions
  <2> QED
    BY <2>1, <2>2, BoundsAssumption DEF Submissions
<1> QED
  BY <1>1, <1>2, <1>3 DEF Latest

\* The review that is looked for is that of the reservation that stands.
LEMMA MatchingIsOwn ==
    ASSUME Inv, review.status = "submitting"
    PROVE  Matching = IF Accepted(review.submission) THEN {review.submission} ELSE {}
<1>1. review.submission \in Submissions
  BY DEF Inv, Core, LatestInv
<1>2. ASSUME NEW n \in Matching
      PROVE  n = review.submission
  <2>1. n \in Submissions /\ Accepted(n) /\ request[n].met = n /\ n >= review.submission
    BY <1>2 DEF Matching, Inv, Core, RequestOK, Accepted
  <2>2. call[n].at # "idle"
    BY <2>1 DEF Inv, Core, RequestOK, Accepted
  <2> QED
    BY <1>1, <2>1, <2>2, BoundsAssumption DEF Inv, Core, LatestInv, Submissions
<1>3. Accepted(review.submission) => review.submission \in Matching
  <2>1. Accepted(review.submission) =>
           request[review.submission].met = review.submission
           /\ request[review.submission].head = review.head
    BY <1>1 DEF Inv, Core, RequestOK, Reserving, Accepted
  <2> QED
    BY <1>1, <2>1, BoundsAssumption DEF Matching, Submissions, Accepted
<1> QED
  BY <1>2, <1>3 DEF Matching, Accepted

LEMMA FetchedIsOwn ==
    ASSUME Inv, Fetch
    PROVE  recon' = [at |-> "fetched",
                     found |-> IF Accepted(review.submission) THEN review.submission ELSE NoSubmission]
<1> DEFINE s == review.submission
           Greatest(S) == CHOOSE n \in S : \A m \in S : m <= n
<1>1. review.status = "submitting" /\ s \in Submissions
  BY DEF Fetch, Inv, Core, ReconInv, LatestInv
<1>2. s \in Nat
  BY <1>1, BoundsAssumption DEF Submissions
<1>3. \E n \in {s} : \A m \in {s} : m <= n
  BY <1>2
<1>4. Greatest({s}) = s
  <2>1. Greatest({s}) \in {s}
    BY <1>3
  <2> QED
    BY <2>1
<1>5. recon' = [at |-> "fetched", found |-> IF Matching = {} THEN NoSubmission ELSE Greatest(Matching)]
  BY DEF Fetch
<1>6. Matching = IF Accepted(s) THEN {s} ELSE {}
  BY <1>1, MatchingIsOwn
<1> HIDE DEF Greatest, s
<1> QED
  BY <1>4, <1>5, <1>6 DEF s

\* Two reservations never stand together.
LEMMA OneReserved ==
    \A m, n \in Submissions : Reserving(m) /\ Reserving(n) => m = n
BY DEF Reserving

-----------------------------------------------------------------------------
(* Types. *)

Calls == [at : Live \cup {"idle", "ended"}, draft : 0..MaxDrafts, asked : {0} \cup Revisions,
          sent : {0} \cup Revisions, head : Heads]
Requests == [status : {"none", "sent", "accepted", "rejected", "lost"}, draft : 0..MaxDrafts,
             revision : {0} \cup Revisions, asked : {0} \cup Revisions, head : Heads,
             round : 0..MaxRounds, met : 0..MaxSubmissions]
Reviews == [status : {"none", "reviewing", "ready", "submitting", "submitted", "failed"},
            archived : BOOLEAN, head : Heads, submission : 0..MaxSubmissions, late : BOOLEAN,
            draft : 0..MaxDrafts, revision : {0} \cup Revisions]
DraftRows == [status : {"none", "draft", "submitting", "submitted", "discarded"},
              revision : Revisions, head : Heads]
Recons == [at : {"idle", "fetching", "fetched"}, found : 0..MaxSubmissions]

ReviewTyped == review \in Reviews /\ (review.draft # 0 <=> review.status \in {"submitting", "submitted"})

\* The parts of the type a step may disturb.
CoreTyped == /\ request \in [Submissions -> Requests]
             /\ ReviewTyped
             /\ draft \in [Drafts -> DraftRows]
             /\ call \in [Submissions -> Calls]
             /\ recon \in Recons
OtherTyped == /\ head \in Heads
              /\ round \in 0..MaxRounds
              /\ misread \subseteq 0..MaxRounds
              /\ changed \subseteq Submissions /\ compared \subseteq Submissions
              /\ followup \in [Submissions -> {"none", "pending", "processing", "completed"}]
              /\ running \in [Submissions -> SUBSET Processors]
              /\ timer \in [Submissions -> BOOLEAN]
              /\ boot \in {"up", "delivery", "evidence"}
              /\ faults \in 0..MaxFaults

LEMMA Typed == ReviewTypeOK <=> CoreTyped /\ OtherTyped
BY DEF ReviewTypeOK, CoreTyped, OtherTyped, ReviewTyped, Calls, Requests, Reviews, DraftRows, Recons

LEMMA SmallFacts ==
    /\ Submissions \subseteq Nat \ {0} /\ Drafts \subseteq Nat \ {0} /\ Heads \subseteq Nat \ {0}
    /\ Revisions \subseteq Nat \ {0}
    /\ 1 \in Heads /\ 1 \in Revisions /\ 0 \notin Drafts
    /\ Submissions \subseteq 0..MaxSubmissions /\ Drafts \subseteq 0..MaxDrafts
    /\ NoSubmission \in 0..MaxSubmissions /\ 0 \in 0..MaxDrafts /\ 0 \in 0..MaxRounds
    /\ 0 \in 0..MaxFaults
BY BoundsAssumption DEF Submissions, Drafts, Heads, Revisions, NoSubmission

LEMMA FaultTyped == Fault /\ faults \in 0..MaxFaults => faults' \in 0..MaxFaults
BY BoundsAssumption DEF Fault

LEMMA Followups ==
    ASSUME OtherTyped, NEW n
    PROVE  /\ \A who \in Processors : Process(n, who) =>
                 /\ followup' \in [Submissions -> {"none", "pending", "processing", "completed"}]
                 /\ running' \in [Submissions -> SUBSET Processors]
           /\ Recorded(n) \in [Submissions -> {"none", "pending", "processing", "completed"}]
           /\ Retry(n) \in [Submissions -> {"none", "pending", "processing", "completed"}]
<1>1. Recorded(n) \in [Submissions -> {"none", "pending", "processing", "completed"}]
  BY DEF OtherTyped, Recorded
<1>2. Retry(n) \in [Submissions -> {"none", "pending", "processing", "completed"}]
  BY DEF OtherTyped, Retry
<1>3. ASSUME NEW who \in Processors, Process(n, who)
      PROVE  /\ followup' \in [Submissions -> {"none", "pending", "processing", "completed"}]
             /\ running' \in [Submissions -> SUBSET Processors]
  <2>1. CASE UNCHANGED <<followup, running>>
    BY <2>1 DEF OtherTyped
  <2>2. CASE ~UNCHANGED <<followup, running>>
    <3>1. followup' \in [Submissions -> {"none", "pending", "processing", "completed"}]
      BY <1>3, <2>2 DEF OtherTyped, Process
    <3>2. running' \in [Submissions -> SUBSET Processors]
      BY <1>3, <2>2 DEF OtherTyped, Process
    <3> QED
      BY <3>1, <3>2
  <2> QED
    BY <2>1, <2>2
<1> QED
  BY <1>1, <1>2, <1>3

LEMMA OtherTypes ==
    ASSUME OtherTyped, Next
    PROVE  OtherTyped'
<1> USE DEF OtherTyped, vars, github, records, deliveries
<1>1. CASE StartReview
  BY <1>1, BoundsAssumption DEF StartReview
<1>2. CASE CompleteReview \/ FailReview \/ ArchiveReview
  BY <1>2 DEF CompleteReview, FailReview, ArchiveReview
<1>3. CASE Push
  BY <1>3, BoundsAssumption DEF Push, Heads
<1>4. CASE \E d \in Drafts : CreateDraft(d) \/ EditDraft(d) \/ DiscardDraft(d)
  BY <1>4 DEF CreateDraft, EditDraft, DiscardDraft
<1>5. ASSUME NEW n \in Submissions,
             \/ \E d \in Drafts : Submit(n, d)
             \/ Lease(n) \/ Refuse(n) \/ Post(n) \/ GiveUp(n)
      PROVE  OtherTyped'
  BY <1>5 DEF Submit, Lease, Refuse, Post, GiveUp
<1>6. ASSUME NEW n \in Submissions, HeadUnread(n) \/ LoseTouch(n) \/ Meet(n) \/ CommentChanges(n)
      PROVE  OtherTyped'
  BY <1>6, FaultTyped DEF HeadUnread, LoseTouch, Meet, CommentChanges
<1>7. ASSUME NEW n \in Submissions, Answered(n) \/ Return(n)
      PROVE  OtherTyped'
  BY <1>7, Followups DEF Answered, Return, Processors
<1>8. ASSUME NEW n \in Submissions, FollowUp(n)
      PROVE  OtherTyped'
  <2>1. CASE TimerFires(n)
    BY <2>1 DEF TimerFires, Processors
  <2>2. ASSUME NEW who \in Processors, ProcessingEnds(n, who)
        PROVE  OtherTyped'
    <3>1. faults' \in 0..MaxFaults
      BY <2>2, FaultTyped DEF ProcessingEnds
    <3>2. followup' \in [Submissions -> {"none", "pending", "processing", "completed"}]
      BY <2>2, Followups DEF ProcessingEnds
    <3> QED
      BY <2>2, <3>1, <3>2 DEF ProcessingEnds
  <2> QED
    BY <1>8, <2>1, <2>2 DEF FollowUp
<1>9. CASE Crash \/ DieSettling \/ \E n \in Submissions : DieGivingUp(n)
  <2>1. Died /\ UNCHANGED <<head, changed, round, misread>>
        /\ followup' \in [Submissions -> {"none", "pending", "processing", "completed"}]
    BY <1>9, Followups DEF Crash, DieSettling, DieGivingUp
  <2> QED
    BY <2>1, FaultTyped DEF Died
<1>10. CASE GraceEnds \/ Reconcile \/ Fetch \/ StillPending \/ SettleAbsent \/ FetchFails
  BY <1>10, FaultTyped DEF GraceEnds, Reconcile, Fetch, StillPending, SettleAbsent, FetchFails
<1>11. CASE SettleFound
  BY <1>11, Followups DEF SettleFound, Processors
<1>12. CASE RecoverDeliveries \/ RecoverEvidence
  <2>1. followup' \in [Submissions -> {"none", "pending", "processing", "completed"}]
    BY <1>12 DEF RecoverDeliveries, RecoverEvidence
  <2>2. running' \in [Submissions -> SUBSET Processors]
    BY <1>12 DEF RecoverDeliveries, RecoverEvidence, Processors
  <2>3. boot' \in {"up", "delivery", "evidence"}
    BY <1>12 DEF RecoverDeliveries, RecoverEvidence
  <2> QED
    BY <1>12, <2>1, <2>2, <2>3 DEF RecoverDeliveries, RecoverEvidence
<1> QED
  BY <1>1, <1>2, <1>3, <1>4, <1>5, <1>6, <1>7, <1>8, <1>9, <1>10, <1>11, <1>12
     DEF Next, Handle, FinishReconciliation

\* What the writes make of records of their types.
LEMMA Writes ==
    ASSUME CoreTyped
    PROVE  /\ review \in Reviews => Reopened \in Reviews /\ Submitted \in Reviews
           /\ [review EXCEPT !.late = TRUE] \in Reviews
           /\ Reopened.draft = 0 /\ Reopened.status = "ready"
           /\ Submitted.draft = review.draft
           /\ Submitted.status = IF review.status = "submitting" THEN "submitted" ELSE review.status
           /\ \A d, to : to \in {"none", "draft", "submitting", "submitted", "discarded"} =>
                 [draft EXCEPT ![d].status = to] \in [Drafts -> DraftRows]
           /\ \A n : Unleased(n) \in [Drafts -> DraftRows]
           /\ \A to \in {"draft", "submitted"} : SettledTo(to) \in [Drafts -> DraftRows]
           /\ \A n : Ends(n) => call' \in [Submissions -> Calls]
           /\ \A n \in Submissions, to \in Live : Goes(n, to) => call' \in [Submissions -> Calls]
           /\ Idle \in Recons
<1>1. /\ Reopened \in Reviews /\ Submitted \in Reviews
      /\ [review EXCEPT !.late = TRUE] \in Reviews
      /\ Reopened.draft = 0 /\ Reopened.status = "ready"
      /\ Submitted.draft = review.draft
      /\ Submitted.status = IF review.status = "submitting" THEN "submitted" ELSE review.status
  BY SmallFacts DEF CoreTyped, ReviewTyped, Reviews, Reopened, Submitted
<1>2. \A d, to : to \in {"none", "draft", "submitting", "submitted", "discarded"} =>
          [draft EXCEPT ![d].status = to] \in [Drafts -> DraftRows]
  BY DEF CoreTyped, DraftRows
<1>7. ASSUME NEW n
      PROVE  Unleased(n) \in [Drafts -> DraftRows]
  <2>1. \A d \in Drafts : [draft[d] EXCEPT !.status = IF @ = "submitting" THEN "draft" ELSE @] \in DraftRows
    BY DEF CoreTyped, DraftRows
  <2> QED
    BY <2>1 DEF Unleased, CoreTyped
<1>8. \A to \in {"draft", "submitted"} : SettledTo(to) \in [Drafts -> DraftRows]
  BY <1>2 DEF SettledTo
<1>3. NoCall("ended") \in Calls
  BY SmallFacts DEF NoCall, Calls
<1>4. \A n : Ends(n) => call' \in [Submissions -> Calls]
  BY <1>3 DEF Ends, CoreTyped
<1>5. ASSUME NEW n \in Submissions, NEW to \in Live, Goes(n, to)
      PROVE  call' \in [Submissions -> Calls]
  <2>1. [call[n] EXCEPT !.at = to] \in Calls
    BY DEF CoreTyped, Calls
  <2> QED
    BY <1>5, <2>1 DEF Goes, CoreTyped
<1>6. Idle \in Recons
  BY SmallFacts DEF Idle, Recons
<1> QED
  BY <1>1, <1>2, <1>4, <1>5, <1>6, <1>7, <1>8

LEMMA CoreTypes == 
    ASSUME Inv, Next 
    PROVE  CoreTyped'
<1>1. CoreTyped /\ OtherTyped
  BY Typed DEF Inv
<1> USE <1>1 DEF CoreTyped, OtherTyped, ReviewTyped, vars, github, records, deliveries
<1>2. CASE StartReview
  <2>1. [status |-> "reviewing", archived |-> FALSE, head |-> head, submission |-> NoSubmission,
         late |-> FALSE, draft |-> 0, revision |-> 0] \in Reviews
    BY SmallFacts DEF Reviews
  <2> QED
    BY <1>2, <2>1 DEF StartReview
<1>3. CASE CompleteReview \/ FailReview \/ ArchiveReview
  <2>1. \A to \in {"ready", "failed"} : [review EXCEPT !.status = to] \in Reviews
    BY DEF Reviews
  <2>2. [review EXCEPT !.archived = ~@] \in Reviews
    BY DEF Reviews
  <2> QED
    BY <1>3, <2>1, <2>2 DEF CompleteReview, FailReview, ArchiveReview, Reviews
<1>4. CASE Push \/ RecoverDeliveries \/ RecoverEvidence
           \/ \E n \in Submissions : FollowUp(n) \/ CommentChanges(n)
  BY <1>4 DEF Push, RecoverDeliveries, RecoverEvidence, FollowUp, TimerFires, ProcessingEnds,
              CommentChanges
<1>5. ASSUME NEW d \in Drafts, CreateDraft(d) \/ DiscardDraft(d)
      PROVE  CoreTyped'
  <2>1. [status |-> "discarded", revision |-> 1, head |-> 1] \in DraftRows
    BY SmallFacts DEF DraftRows
  <2>2. \A h \in 1..head : [status |-> "draft", revision |-> 1, head |-> h] \in DraftRows
    BY SmallFacts, BoundsAssumption DEF DraftRows, Heads
  <2>3. CASE CreateDraft(d)
    BY <2>2, <2>3 DEF CreateDraft
  <2>4. CASE DiscardDraft(d)
    BY <2>1, <2>4 DEF DiscardDraft
  <2> QED
    BY <1>5, <2>3, <2>4
<1>6. ASSUME NEW d \in Drafts, EditDraft(d)
      PROVE  CoreTyped'
  <2>1. PICK h \in Heads : draft' = [draft EXCEPT ![d].revision = @ + 1, ![d].head = h]
    BY <1>6 DEF EditDraft, DraftRows
  <2>2. draft[d].revision + 1 \in Revisions
    BY <1>6, BoundsAssumption DEF EditDraft, DraftRows, Revisions
  <2>3. [draft[d] EXCEPT !.revision = @ + 1, !.head = h] \in DraftRows
    BY <2>2 DEF DraftRows
  <2> QED
    BY <1>6, <2>1, <2>3 DEF EditDraft
<1>7. ASSUME NEW n \in Submissions, NEW d \in Drafts, Submit(n, d)
      PROVE  CoreTyped'
  <2>1. draft[d].revision \in Revisions
    BY DEF DraftRows
  <2>2. [review EXCEPT !.status = "submitting", !.submission = n, !.late = FALSE,
                       !.draft = d, !.revision = draft[d].revision] \in Reviews
    BY <2>1, SmallFacts DEF Reviews
  <2>3. [at |-> "reserved", draft |-> d, asked |-> draft[d].revision, sent |-> 0,
         head |-> review.head] \in Calls
    BY <2>1, SmallFacts DEF Calls, Live, Reviews
  <2> QED
    BY <1>7, <2>2, <2>3, SmallFacts DEF Submit, Reviews
<1>8. ASSUME NEW n \in Submissions, Lease(n)
      PROVE  CoreTyped'
  <2>1. Drafted(n).revision \in {0} \cup Revisions
    BY <1>8 DEF Lease, Leasable, Calls
  <2>2. [call[n] EXCEPT !.at = "leased", !.sent = Drafted(n).revision] \in Calls
    BY <2>1 DEF Calls, Live
  <2> QED
    BY <1>8, <2>2, Writes DEF Lease
<1>9. ASSUME NEW n \in Submissions, LoseTouch(n) \/ Answered(n)
      PROVE  CoreTyped'
  <2>1. CASE LoseTouch(n)
    BY <2>1, Writes DEF LoseTouch
  <2>2. CASE Answered(n)
    <3>1. call' \in [Submissions -> Calls]
      BY <2>2, Writes DEF Answered, Live
    <3>2. draft' \in [Drafts -> DraftRows]
      <4>1. \A d \in Drafts : [draft[d] EXCEPT !.status = "submitted"] \in DraftRows
        BY DEF DraftRows
      <4> QED
        BY <2>2, <4>1 DEF Answered
    <3> QED
      BY <2>2, <3>1, <3>2 DEF Answered
  <2> QED
    BY <1>9, <2>1, <2>2
<1>10. ASSUME NEW n \in Submissions, Post(n)
      PROVE  CoreTyped'
  <2>1. [status |-> "sent", draft |-> call[n].draft, revision |-> call[n].sent,
         asked |-> call[n].asked, head |-> head, round |-> round, met |-> NoSubmission] \in Requests
    BY SmallFacts DEF Requests, Calls
  <2> QED
    BY <1>10, <2>1, Writes DEF Post, Live
<1>11. ASSUME NEW n \in Submissions, Refuse(n) \/ GiveUp(n) \/ HeadUnread(n) \/ Return(n)
      PROVE  CoreTyped'
  <2>1. review' \in {review, Reopened, Submitted} /\ Ends(n) /\ UNCHANGED <<request, recon>>
    BY <1>11 DEF Refuse, GiveUp, HeadUnread, Return, Released
  <2>2. draft' \in [Drafts -> DraftRows]
    BY <1>11, Writes DEF Refuse, GiveUp, HeadUnread, Return
  <2> QED
    BY <2>1, <2>2, Writes
<1>12. ASSUME NEW n \in Submissions, Meet(n)
      PROVE  CoreTyped'
  <2>1. Latest \in 0..MaxSubmissions
    BY <1>12, MetByItself, SmallFacts DEF Meet
  <2>2. Nothing("rejected") \in Requests /\ Nothing("lost") \in Requests
    BY SmallFacts DEF Nothing, Requests
  <2>3. [request[n] EXCEPT !.status = "accepted", !.met = Latest] \in Requests
    <3>1. request[n] \in Requests
      BY <1>12
    <3> QED
      BY <2>1, <3>1 DEF Requests
  <2>4. request' \in [Submissions -> Requests]
    BY <1>12, <2>2, <2>3 DEF Meet
  <2> QED
    BY <1>12, <2>4 DEF Meet
<1>13. CASE Crash \/ DieSettling \/ \E n \in Submissions : DieGivingUp(n)
  <2>1. Died /\ UNCHANGED <<request, review>>
    BY <1>13 DEF Crash, DieSettling, DieGivingUp
  <2>2. call' \in [Submissions -> Calls]
    BY <2>1, SmallFacts DEF Died, NoCall, Calls
  <2>3. draft' \in [Drafts -> DraftRows]
    <3>1. CASE Crash
      BY <3>1 DEF Crash
    <3>2. CASE DieSettling
      BY <3>2, Writes DEF DieSettling
    <3>3. CASE \E n \in Submissions : DieGivingUp(n)
      BY <3>3, Writes DEF DieGivingUp
    <3> QED
      BY <1>13, <3>1, <3>2, <3>3
  <2> QED
    BY <2>1, <2>2, <2>3, Writes DEF Died
<1>14. CASE GraceEnds \/ Reconcile \/ StillPending \/ FetchFails
  <2>1. [at |-> "fetching", found |-> NoSubmission] \in Recons
    BY SmallFacts DEF Recons
  <2>2. [review EXCEPT !.late = TRUE].status = review.status /\ [review EXCEPT !.late = TRUE].draft = review.draft
    BY DEF Reviews
  <2> QED
    BY <1>14, <2>1, <2>2, Writes DEF GraceEnds, Reconcile, StillPending, FetchFails
<1>15. CASE Fetch
  <2>1. review.status = "submitting" /\ review.submission \in Submissions
    BY <1>15 DEF Fetch, Inv, Core, ReconInv, LatestInv
  <2>2. recon' \in Recons
    <3>1. recon' = [at |-> "fetched",
                    found |-> IF Accepted(review.submission) THEN review.submission ELSE NoSubmission]
      BY <1>15, FetchedIsOwn
    <3>2. review.submission \in 0..MaxSubmissions /\ NoSubmission \in 0..MaxSubmissions
      BY <2>1, SmallFacts
    <3> QED
      BY <3>1, <3>2 DEF Recons
  <2> QED
    BY <1>15, <2>2 DEF Fetch
<1>16. CASE SettleFound \/ SettleAbsent
  <2>1. review' \in {review, Reopened, Submitted} /\ recon' = Idle /\ UNCHANGED <<request, call>>
    BY <1>16 DEF SettleFound, SettleAbsent
  <2>2. draft' \in [Drafts -> DraftRows]
    <3>1. CASE SettleFound
      BY <3>1, Writes DEF SettleFound
    <3>2. CASE SettleAbsent
      BY <3>2, Writes DEF SettleAbsent
    <3> QED
      BY <1>16, <3>1, <3>2
  <2> QED
    BY <2>1, <2>2, Writes
<1> QED
  BY <1>2, <1>3, <1>4, <1>5, <1>6, <1>7, <1>8, <1>9, <1>10, <1>11, <1>12, <1>13, <1>14, <1>15, <1>16
     DEF Next, Handle, FinishReconciliation

-----------------------------------------------------------------------------
(* What the steps do to calls, drafts and the record. *)

LEMMA CallFacts ==
    ASSUME CoreTyped, NEW n \in Submissions
    PROVE  /\ \A to : Goes(n, to) =>
                 /\ call'[n].at = to
                 /\ call'[n].draft = call[n].draft /\ call'[n].asked = call[n].asked
                 /\ call'[n].sent = call[n].sent /\ call'[n].head = call[n].head
           /\ Ends(n) => call'[n].at = "ended"
           /\ (Ends(n) \/ \E to : Goes(n, to)) => \A m \in Submissions : m # n => call'[m] = call[m]
BY DEF CoreTyped, Calls, Goes, Ends, NoCall

LEMMA DraftFacts ==
    ASSUME CoreTyped, NEW d \in Drafts, NEW to, draft' = [draft EXCEPT ![d].status = to]
    PROVE  /\ draft'[d].status = to
           /\ draft'[d].revision = draft[d].revision /\ draft'[d].head = draft[d].head
           /\ \A e \in Drafts : e # d => draft'[e] = draft[e]
BY DEF CoreTyped, DraftRows

LEMMA RecordFacts ==
    ASSUME CoreTyped
    PROVE  /\ Reopened.status = "ready"
           /\ review.status = "submitting" =>
                 /\ Submitted.status = "submitted" /\ Submitted.draft = review.draft
           /\ review.status = "submitting" => review.draft \in Drafts
BY BoundsAssumption DEF CoreTyped, ReviewTyped, Reviews, Reopened, Submitted, Drafts

\* Where nothing is reserved, nothing is under way.
LEMMA NothingReserved ==
    ASSUME Inv, review.status # "submitting"
    PROVE  /\ \A n \in Submissions : call[n].at \notin Live /\ request[n].status # "sent"
           /\ \A d \in Drafts : draft[d].status # "submitting"
           /\ recon.at = "idle"
BY DEF Inv, Core, HandlerOK, RequestOK, DraftInv, ReconInv, Reserving, ReviewTypeOK

-----------------------------------------------------------------------------
(* The core of the invariant, action by action. *)

LEMMA StillSteps ==
    ASSUME Core, UNCHANGED <<request, review, round, draft, call, recon>>
    PROVE  Core'
<1> USE DEF Core
<1>1. LatestInv'
  BY DEF LatestInv
<1>2. \A n \in Submissions : HandlerOK(n)' /\ RequestOK(n)'
  BY DEF HandlerOK, RequestOK, Reserving, Drafted, Accepted
<1>3. DraftInv' /\ ReconInv'
  BY DEF DraftInv, ReconInv, Settled, Accepted
<1>4. SubmittedInv' /\ PostedIsExact'
  BY DEF SubmittedInv, PostedIsExact, Accepted
<1> QED
  BY <1>1, <1>2, <1>3, <1>4

\* The review is written, fails, is archived or started again.
LEMMA ReviewSteps ==
    ASSUME Inv, review.status # "submitting", review'.status \notin {"submitting", "submitted"},
           round' = round \/ round' = round + 1, UNCHANGED <<request, draft, call, recon>>
    PROVE  Core'
<1>1. LatestInv'
  BY DEF Inv, Core, LatestInv
<1>2. \A n \in Submissions : HandlerOK(n)'
  BY NothingReserved DEF Inv, Core, HandlerOK, Drafted, Accepted, Live
<1>3. \A n \in Submissions : RequestOK(n)'
  <2>1. round \in Nat /\ \A n \in Submissions : request[n].round \in Nat
    BY BoundsAssumption DEF Inv, ReviewTypeOK
  <2> QED
    BY <2>1, NothingReserved DEF Inv, Core, RequestOK, Reserving, Accepted
<1>4. DraftInv' /\ ReconInv'
  BY NothingReserved DEF Inv, Core, DraftInv, ReconInv
<1>5. SubmittedInv' /\ PostedIsExact'
  BY DEF Inv, Core, SubmittedInv, PostedIsExact, Accepted
<1> QED
  BY <1>1, <1>2, <1>3, <1>4, <1>5 DEF Core

\* A draft is created, edited or discarded.
LEMMA DraftSteps ==
    ASSUME Inv, NEW d \in Drafts, CreateDraft(d) \/ EditDraft(d) \/ DiscardDraft(d)
    PROVE  Core'
<1>0. CoreTyped
  BY Typed DEF Inv
<1>1. UNCHANGED <<request, review, round, call, recon>>
  BY DEF CreateDraft, EditDraft, DiscardDraft, github
<1>2. /\ draft[d].status \in {"none", "draft"}
      /\ draft'[d].status \in {"draft", "discarded"}
      /\ draft'[d].status = "draft" /\ draft[d].status = "draft" =>
            draft'[d].revision = draft[d].revision + 1
      /\ \A e \in Drafts : e # d => draft'[e] = draft[e]
  BY <1>0 DEF CreateDraft, EditDraft, DiscardDraft, Editable, CoreTyped, DraftRows
<1>3. LatestInv'
  BY <1>1 DEF Inv, Core, LatestInv
<1>4. \A n \in Submissions : HandlerOK(n)'
  <2> SUFFICES ASSUME NEW n \in Submissions PROVE HandlerOK(n)'
    OBVIOUS
  <2>1. call[n].at \in Live => call[n].draft \in Drafts
    BY <1>0, RecordFacts DEF Inv, Core, HandlerOK, Reserving
  <2> QED
    BY <1>1, <1>2, <2>1 DEF Inv, Core, HandlerOK, Drafted, Accepted, Reserving, Live
<1>5. \A n \in Submissions : RequestOK(n)'
  BY <1>1 DEF Inv, Core, RequestOK, Reserving, Accepted
<1>6. DraftInv'
  <2>1. review.status = "submitting" => review.draft \in Drafts
    BY <1>0, RecordFacts
  <2>2. \A e \in Drafts : draft[e].revision \in Nat
    BY <1>0, SmallFacts DEF CoreTyped, DraftRows
  <2>3. review.status = "submitting" => review.revision \in Nat
    <3>1. \A k \in {0} \cup Revisions : k \in Nat
      BY SmallFacts
    <3> QED
      BY <1>0, <3>1 DEF CoreTyped, ReviewTyped, Reviews
  <2> QED
    BY <1>1, <1>2, <2>1, <2>2, <2>3 DEF Inv, Core, DraftInv
<1>7. ReconInv'
  BY <1>1 DEF Inv, Core, ReconInv, Settled, Accepted
<1>8. SubmittedInv'
  <2>1. review.status = "submitted" => review.draft \in Drafts
    BY <1>0, BoundsAssumption DEF CoreTyped, ReviewTyped, Reviews, Drafts
  <2> QED
    BY <1>1, <1>2, <2>1 DEF Inv, Core, SubmittedInv, Accepted
<1>9. PostedIsExact'
  BY <1>1, <1>2 DEF Inv, Core, PostedIsExact, Accepted
<1> QED
  BY <1>3, <1>4, <1>5, <1>6, <1>7, <1>8, <1>9 DEF Core

LEMMA SubmitSteps ==
    ASSUME Inv, NEW n \in Submissions, NEW d \in Drafts, Submit(n, d)
    PROVE  Core'
<1>0. CoreTyped /\ review.status # "submitting"
  BY Typed DEF Inv, Submit
<1>1. /\ UNCHANGED <<request, round, draft, recon>>
      /\ review'.status = "submitting" /\ review'.submission = n
      /\ review'.draft = d /\ review'.revision = draft[d].revision /\ review'.head = review.head
      /\ draft[d].status = "draft" /\ draft[d].head = review.head
      /\ call'[n] = [at |-> "reserved", draft |-> d, asked |-> draft[d].revision, sent |-> 0,
                     head |-> review.head]
      /\ \A m \in Submissions : m # n => call'[m] = call[m]
      /\ \A m \in Submissions : m < n => call[m].at # "idle"
      /\ call[n].at = "idle"
  BY <1>0 DEF Submit, github, CoreTyped, ReviewTyped, Reviews
<1>2. LatestInv'
  BY <1>1, BoundsAssumption DEF Inv, Core, LatestInv, Submissions
<1>3. \A m \in Submissions : HandlerOK(m)'
  BY <1>0, <1>1, NothingReserved DEF HandlerOK, Reserving, Live, Drafted
<1>4. \A m \in Submissions : RequestOK(m)'
  <2>1. request[n].status = "none"
    BY <1>1 DEF Inv, Core, RequestOK
  <2> QED
    BY <1>0, <1>1, <2>1, NothingReserved DEF Inv, Core, RequestOK, Reserving, Accepted
<1>5. DraftInv'
  <2>1. \A k \in Revisions : k <= k
    BY SmallFacts
  <2> QED
    BY <1>0, <1>1, <2>1, NothingReserved DEF DraftInv, CoreTyped, DraftRows
<1>6. ReconInv'
  BY <1>0, <1>1, NothingReserved DEF ReconInv
<1>7. SubmittedInv' /\ PostedIsExact'
  BY <1>1 DEF Inv, Core, SubmittedInv, PostedIsExact, Accepted
<1> QED
  BY <1>2, <1>3, <1>4, <1>5, <1>6, <1>7 DEF Core

\* What a handler at work knows.
LEMMA HandlerFacts ==
    ASSUME Inv, NEW n \in Submissions, call[n].at \in Live
    PROVE  /\ CoreTyped /\ Reserving(n) /\ recon.at = "idle"
           /\ call[n].draft = review.draft /\ call[n].draft \in Drafts
           /\ call[n].asked = review.revision /\ call[n].head = review.head
           /\ HandlerOK(n) /\ RequestOK(n)
           /\ \A m \in Submissions : m # n => call[m].at \notin Live /\ request[m].status # "sent"
BY Typed, RecordFacts, OneReserved DEF Inv, Core, HandlerOK, RequestOK, Reserving

LEMMA LeaseSteps ==
    ASSUME Inv, NEW n \in Submissions, Lease(n)
    PROVE  Core'
<1>0. call[n].at \in Live
  BY DEF Lease, At, Live
<1> DEFINE d == call[n].draft
<1>1. CoreTyped /\ d \in Drafts /\ Reserving(n) /\ d = review.draft
      /\ draft[d].revision = call[n].asked /\ call[n].asked = review.revision
      /\ draft[d].status = "draft"
  BY <1>0, HandlerFacts DEF Lease, Leasable, Drafted
<1>2. /\ call'[n].at = "leased" /\ call'[n].sent = call[n].asked
      /\ call'[n].asked = call[n].asked /\ call'[n].draft = d /\ call'[n].head = call[n].head
      /\ \A m \in Submissions : m # n => call'[m] = call[m]
  BY <1>1 DEF Lease, Drafted, CoreTyped, Calls
<1>3. draft' = [draft EXCEPT ![d].status = "submitting"] /\ UNCHANGED <<request, review, round, recon>>
  BY DEF Lease, github
<1>4. /\ draft'[d].status = "submitting"
      /\ draft'[d].revision = draft[d].revision /\ draft'[d].head = draft[d].head
      /\ \A e \in Drafts : e # d => draft'[e] = draft[e]
  BY <1>1, <1>3, DraftFacts
<1> HIDE DEF d
<1>5. LatestInv'
  BY <1>2, <1>3 DEF Inv, Core, LatestInv, Lease, At
<1>6. \A m \in Submissions : HandlerOK(m)'
  <2>1. ASSUME NEW m \in Submissions, m # n PROVE call'[m].at \notin Live
    BY <1>0, <1>2, <2>1, HandlerFacts
  <2>2. HandlerOK(n)'
    BY <1>0, <1>2, <1>3, <1>4, HandlerFacts DEF HandlerOK, Reserving, Drafted, Live, d
  <2> QED
    BY <2>1, <2>2 DEF HandlerOK, Live
<1>7. \A m \in Submissions : RequestOK(m)'
  <2>1. request[n].status = "none" /\ RequestOK(n)
    BY DEF Inv, Core, RequestOK, Lease, At
  <2>2. RequestOK(n)'
    BY <1>3, <2>1 DEF RequestOK, Accepted
  <2>3. ASSUME NEW m \in Submissions, m # n PROVE RequestOK(m)'
    BY <1>2, <1>3, <2>3 DEF Inv, Core, RequestOK, Reserving, Accepted
  <2> QED
    BY <2>2, <2>3
<1>8. DraftInv'
  BY <1>1, <1>3, <1>4 DEF Inv, Core, DraftInv, Reserving
<1>9. ReconInv' /\ SubmittedInv'
  BY <1>1, <1>3 DEF Inv, Core, ReconInv, Settled, Accepted, SubmittedInv, Reserving
<1>10. PostedIsExact'
  BY <1>1, <1>3, <1>4 DEF Inv, Core, PostedIsExact, Accepted
<1> QED
  BY <1>5, <1>6, <1>7, <1>8, <1>9, <1>10 DEF Core

\* The handler sends the request: nothing was sent of this reservation before.
LEMMA PostSteps ==
    ASSUME Inv, NEW n \in Submissions, Post(n)
    PROVE  Core'
<1>0. call[n].at \in Live /\ call[n].at = "leased"
  BY DEF Post, At, Live
<1>1. /\ CoreTyped /\ Reserving(n) /\ recon.at = "idle" /\ request[n].status = "none"
      /\ call[n].draft = review.draft /\ call[n].draft \in Drafts
      /\ call[n].sent = call[n].asked /\ call[n].asked = review.revision
      /\ Drafted(n).status = "submitting"
  BY <1>0, HandlerFacts DEF HandlerOK, RequestOK
<1>2. Drafted(n).revision = review.revision /\ Drafted(n).head = review.head
  BY <1>1 DEF Inv, Core, DraftInv, Drafted, Reserving
<1>3. /\ call'[n].at = "posting"
      /\ call'[n].draft = call[n].draft /\ call'[n].asked = call[n].asked
      /\ call'[n].sent = call[n].sent /\ call'[n].head = call[n].head
      /\ \A m \in Submissions : m # n => call'[m] = call[m]
  BY <1>1, CallFacts DEF Post
<1>4. /\ request'[n] = [status |-> "sent", draft |-> call[n].draft, revision |-> call[n].sent,
                        asked |-> call[n].asked, head |-> head, round |-> round, met |-> NoSubmission]
      /\ \A m \in Submissions : m # n => request'[m] = request[m]
      /\ UNCHANGED <<review, round, draft, recon>> /\ head = review.head
  BY <1>1, <1>2 DEF Post, records, CoreTyped
<1>6. LatestInv'
  BY <1>0, <1>3, <1>4 DEF Inv, Core, LatestInv
<1>7. \A m \in Submissions : HandlerOK(m)'
  <2>1. ASSUME NEW m \in Submissions, m # n PROVE call'[m].at \notin Live
    BY <1>0, <1>3, <2>1, HandlerFacts
  <2>2. HandlerOK(n)'
    BY <1>0, <1>1, <1>3, <1>4, HandlerFacts DEF HandlerOK, Reserving, Drafted, Live
  <2> QED
    BY <2>1, <2>2 DEF HandlerOK, Live
<1>8. \A m \in Submissions : RequestOK(m)'
  <2>1. round \in Nat
    BY BoundsAssumption DEF Inv, ReviewTypeOK
  <2>2. RequestOK(n)'
    BY <1>1, <1>3, <1>4, <2>1 DEF RequestOK, Reserving, Accepted
  <2>3. ASSUME NEW m \in Submissions, m # n PROVE RequestOK(m)'
    BY <1>3, <1>4, <2>3 DEF Inv, Core, RequestOK, Reserving, Accepted
  <2> QED
    BY <2>2, <2>3
<1>9. DraftInv' /\ ReconInv' /\ SubmittedInv'
  BY <1>1, <1>4 DEF Inv, Core, DraftInv, ReconInv, SubmittedInv, Reserving
<1>10. PostedIsExact'
  BY <1>1, <1>4 DEF Inv, Core, PostedIsExact, Accepted
<1> QED
  BY <1>6, <1>7, <1>8, <1>9, <1>10 DEF Core

\* A call that ends leaves no handler behind.
LEMMA Ending ==
    ASSUME Inv, NEW n \in Submissions, call[n].at \in Live, Ends(n)
    PROVE  /\ \A m \in Submissions : call'[m].at \notin Live
           /\ \A m \in Submissions : HandlerOK(m)'
           /\ \A m \in Submissions : call'[m].at = "idle" <=> call[m].at = "idle"
           /\ \A m \in Submissions : call'[m].at \notin {"reserved", "leased"}
<1>1. CoreTyped
  BY Typed DEF Inv
<1>2. /\ call'[n].at = "ended"
      /\ \A m \in Submissions : m # n => call'[m] = call[m] /\ call[m].at \notin Live
  BY <1>1, CallFacts, HandlerFacts
<1> QED
  BY <1>2 DEF HandlerOK, Live

\* A reservation that is released: its request, if it was sent, was rejected.
LEMMA ReleaseSteps ==
    ASSUME Inv, NEW n \in Submissions, Refuse(n) \/ GiveUp(n)
    PROVE  Core'
<1>0. call[n].at \in Live /\ Ends(n) /\ request[n].status \in {"none", "rejected"}
  BY DEF Refuse, GiveUp, FailedForCertain, At, Live, Inv, Core, RequestOK
<1> DEFINE d == call[n].draft
<1>1. /\ CoreTyped /\ Reserving(n) /\ recon.at = "idle"
      /\ d = review.draft /\ d \in Drafts /\ call[n].head = review.head
  BY <1>0, HandlerFacts
<1>2. review' = Reopened /\ review'.status = "ready" /\ UNCHANGED <<request, round, recon>>
  BY <1>1, RecordFacts DEF Refuse, GiveUp, Released, Reserving, github
<1>3. /\ \A e \in Drafts : e # d => draft'[e] = draft[e]
      /\ draft'[d].status = IF draft[d].status = "submitting" THEN "draft" ELSE draft[d].status
  <2>1. CASE Refuse(n)
    <3>1. HandlerOK(n) /\ draft' = draft /\ call[n].at = "reserved"
      BY <1>0, <2>1, HandlerFacts DEF Refuse, At
    <3>2. draft[d].status # "submitting"
      BY <3>1 DEF HandlerOK, Drafted
    <3> QED
      BY <3>1, <3>2
  <2>2. CASE GiveUp(n)
    BY <1>1, <2>2 DEF GiveUp, Unleased, CoreTyped, DraftRows
  <2> QED
    BY <2>1, <2>2
<1> HIDE DEF d
<1>4. LatestInv'
  BY <1>0, <1>2, Ending DEF Inv, Core, LatestInv
<1>5. \A m \in Submissions : HandlerOK(m)'
  BY <1>0, Ending
<1>6. \A m \in Submissions : RequestOK(m)'
  <2>1. ASSUME NEW m \in Submissions PROVE request[m].status # "sent"
    BY <1>0, HandlerFacts
  <2> QED
    BY <1>0, <1>2, <2>1, Ending DEF Inv, Core, RequestOK, Reserving, Accepted
<1>7. DraftInv'
  <2>1. \A e \in Drafts : e # d => draft[e].status # "submitting"
    BY <1>1 DEF Inv, Core, DraftInv
  <2> QED
    BY <1>1, <1>2, <1>3, <2>1 DEF DraftInv
<1>8. ReconInv' /\ SubmittedInv'
  BY <1>1, <1>2 DEF ReconInv, SubmittedInv
<1>9. PostedIsExact'
  <2>1. \A e \in Drafts : draft'[e].status = "submitted" => draft'[e] = draft[e]
    <3>1. draft'[d].status = "submitted" => draft' = draft
      <4>1. CASE Refuse(n)
        BY <4>1 DEF Refuse
      <4>2. CASE GiveUp(n)
        <5>1. At(n, "leased") \/ At(n, "posting")
          BY <4>2 DEF GiveUp, FailedForCertain
        <5>2. draft[d].status = "submitting"
          BY <1>0, <5>1, HandlerFacts DEF HandlerOK, Drafted, At, d
        <5> QED
          BY <1>3, <5>2
      <4> QED
        BY <4>1, <4>2
    <3> QED
      BY <1>3, <3>1
  <2> QED
    BY <1>2, <2>1 DEF Inv, Core, PostedIsExact, Accepted
<1> QED
  BY <1>4, <1>5, <1>6, <1>7, <1>8, <1>9 DEF Core

\* The head cannot be read: the lease is released, and the reservation stays.
LEMMA UnreadSteps ==
    ASSUME Inv, NEW n \in Submissions, HeadUnread(n)
    PROVE  Core'
<1> DEFINE d == call[n].draft
<1>0. /\ call[n].at \in Live /\ call[n].at = "leased" /\ Ends(n)
      /\ UNCHANGED <<request, review, round, recon>>
  BY DEF HeadUnread, At, Live, github
<1>1. /\ CoreTyped /\ Reserving(n) /\ recon.at = "idle" /\ d = review.draft /\ d \in Drafts
      /\ draft[d].status = "submitting"
  BY <1>0, HandlerFacts DEF HandlerOK, Drafted
<1>2. /\ draft'[d].status = "draft"
      /\ draft'[d].revision = draft[d].revision /\ draft'[d].head = draft[d].head
      /\ \A e \in Drafts : e # d => draft'[e] = draft[e]
  BY <1>1 DEF HeadUnread, Unleased, CoreTyped, DraftRows
<1> HIDE DEF d
<1>3. LatestInv'
  BY <1>0, Ending DEF Inv, Core, LatestInv
<1>4. \A m \in Submissions : HandlerOK(m)'
  BY <1>0, Ending
<1>5. \A m \in Submissions : RequestOK(m)'
  BY <1>0, Ending DEF Inv, Core, RequestOK, Reserving, Accepted
<1>6. DraftInv'
  BY <1>0, <1>1, <1>2 DEF Inv, Core, DraftInv
<1>7. ReconInv' /\ SubmittedInv'
  BY <1>0, <1>1 DEF ReconInv, SubmittedInv, Reserving
<1>8. PostedIsExact'
  BY <1>0, <1>1, <1>2 DEF Inv, Core, PostedIsExact, Accepted
<1> QED
  BY <1>3, <1>4, <1>5, <1>6, <1>7, <1>8 DEF Core

\* The handler loses touch: the reservation and the lease stay.
LEMMA LostSteps ==
    ASSUME Inv, NEW n \in Submissions, LoseTouch(n)
    PROVE  Core'
<1>0. call[n].at \in Live /\ Ends(n) /\ UNCHANGED <<request, review, round, draft, recon>>
  BY DEF LoseTouch, At, Live, github, records
<1>1. LatestInv'
  BY <1>0, Ending DEF Inv, Core, LatestInv
<1>2. \A m \in Submissions : HandlerOK(m)'
  BY <1>0, Ending
<1>3. \A m \in Submissions : RequestOK(m)'
  BY <1>0, Ending DEF Inv, Core, RequestOK, Reserving, Accepted
<1>4. DraftInv' /\ ReconInv' /\ SubmittedInv' /\ PostedIsExact'
  BY <1>0 DEF Inv, Core, DraftInv, ReconInv, SubmittedInv, PostedIsExact, Settled, Accepted
<1> QED
  BY <1>1, <1>2, <1>3, <1>4 DEF Core

\* The draft that a review was posted of says what the review says.
LEMMA DraftOfReview ==
    ASSUME Inv, NEW n \in Submissions, Reserving(n), Accepted(n),
           draft[review.draft].status = "submitting",
           draft' = [draft EXCEPT ![review.draft].status = "submitted"], UNCHANGED request
    PROVE  /\ PostedIsExact'
           /\ draft'[review.draft].status = "submitted"
           /\ \A e \in Drafts : e # review.draft => draft'[e] = draft[e]
           /\ \A e \in Drafts : draft'[e].status # "submitting"
           /\ request[n].round = round /\ request[n].draft = review.draft
<1> DEFINE d == review.draft
<1>1. CoreTyped /\ d \in Drafts
  BY Typed, RecordFacts DEF Inv, Reserving
<1>2. /\ draft'[d].status = "submitted"
      /\ draft'[d].revision = draft[d].revision /\ draft'[d].head = draft[d].head
      /\ \A e \in Drafts : e # d => draft'[e] = draft[e]
  BY <1>1, DraftFacts
<1>3. /\ request[n].draft = d /\ request[n].revision = review.revision
      /\ request[n].head = review.head /\ request[n].round = round
  BY DEF Inv, Core, RequestOK, Accepted
<1>4. draft[d].revision = review.revision /\ draft[d].head = review.head
  BY <1>1 DEF Inv, Core, DraftInv, Reserving
<1>5. \A e \in Drafts : e # d => draft[e].status # "submitting"
  BY <1>1 DEF Inv, Core, DraftInv
<1> HIDE DEF d
<1>6. PostedIsExact'
  <2>1. ASSUME NEW e \in Drafts, draft'[e].status = "submitted"
        PROVE  \E k \in Submissions : /\ request[k].status = "accepted"
                                      /\ request[k].draft = e
                                      /\ request[k].revision = draft'[e].revision
                                      /\ request[k].head = draft'[e].head
    <3>1. CASE e = d
      BY <1>2, <1>3, <1>4, <3>1 DEF Accepted
    <3>2. CASE e # d
      <4>1. draft'[e] = draft[e] /\ draft[e].status = "submitted"
        BY <1>2, <2>1, <3>2
      <4> QED
        BY <4>1 DEF Inv, Core, PostedIsExact, Accepted
    <3> QED
      BY <3>1, <3>2
  <2> QED
    BY <2>1 DEF Inv, Core, PostedIsExact, Accepted
<1> QED
  BY <1>1, <1>2, <1>3, <1>5, <1>6 DEF d

\* The answer arrives, and the draft is settled.
LEMMA AnswerSteps ==
    ASSUME Inv, NEW n \in Submissions, Answered(n)
    PROVE  Core'
<1>0. call[n].at \in Live /\ call[n].at = "posting" /\ Accepted(n)
  BY DEF Answered, At, Live, Accepted
<1>1. /\ CoreTyped /\ Reserving(n) /\ recon.at = "idle" /\ call[n].draft = review.draft
      /\ review.draft \in Drafts /\ draft[review.draft].status = "submitting"
      /\ call[n].asked = review.revision /\ call[n].head = review.head
  BY <1>0, HandlerFacts DEF HandlerOK, Drafted
<1>2. /\ draft' = [draft EXCEPT ![review.draft].status = "submitted"] /\ Goes(n, "posted")
      /\ UNCHANGED <<request, review, round, recon>>
  BY <1>1 DEF Answered, Drafted, github
<1>3. /\ PostedIsExact' /\ draft'[review.draft].status = "submitted"
      /\ \A e \in Drafts : draft'[e].status # "submitting"
  BY <1>0, <1>1, <1>2, DraftOfReview
<1>4. /\ call'[n].at = "posted"
      /\ call'[n].draft = call[n].draft /\ call'[n].asked = call[n].asked
      /\ call'[n].sent = call[n].sent /\ call'[n].head = call[n].head
      /\ \A m \in Submissions : m # n => call'[m] = call[m] /\ call[m].at \notin Live
  BY <1>0, <1>1, <1>2, CallFacts, HandlerFacts
<1>5. LatestInv'
  BY <1>0, <1>2, <1>4 DEF Inv, Core, LatestInv
<1>6. \A m \in Submissions : HandlerOK(m)'
  <2>1. HandlerOK(n)'
    BY <1>0, <1>1, <1>2, <1>3, <1>4 DEF HandlerOK, Reserving, Drafted, Live, Accepted
  <2> QED
    BY <1>4, <2>1 DEF HandlerOK, Live
<1>7. \A m \in Submissions : RequestOK(m)'
  BY <1>0, <1>2, <1>4 DEF Inv, Core, RequestOK, Reserving, Accepted
<1>8. DraftInv'
  BY <1>1, <1>2, <1>3 DEF DraftInv, Reserving
<1>9. ReconInv' /\ SubmittedInv'
  BY <1>1, <1>2 DEF ReconInv, SubmittedInv, Reserving
<1> QED
  BY <1>3, <1>5, <1>6, <1>7, <1>8, <1>9 DEF Core

\* The record is settled behind it.
LEMMA ReturnSteps ==
    ASSUME Inv, NEW n \in Submissions, Return(n)
    PROVE  Core'
<1>0. call[n].at \in Live /\ call[n].at = "posted" /\ Ends(n)
  BY DEF Return, At, Live
<1>1. /\ CoreTyped /\ Reserving(n) /\ recon.at = "idle" /\ call[n].draft = review.draft
      /\ draft[review.draft].status = "submitted" /\ Accepted(n)
  BY <1>0, HandlerFacts DEF HandlerOK, Drafted
<1>2. /\ review'.status = "submitted" /\ review'.draft = review.draft
      /\ UNCHANGED <<request, round, draft, recon>>
  BY <1>1, RecordFacts DEF Return, github, Reserving
<1>3. request[n].round = round
  BY <1>1 DEF Inv, Core, RequestOK, Accepted
<1>4. LatestInv'
  BY <1>0, <1>2, Ending DEF Inv, Core, LatestInv
<1>5. \A m \in Submissions : HandlerOK(m)'
  BY <1>0, Ending
<1>6. \A m \in Submissions : RequestOK(m)'
  <2>1. ASSUME NEW m \in Submissions PROVE request[m].status # "sent"
    BY <1>0, <1>1, HandlerFacts DEF Accepted
  <2> QED
    BY <1>0, <1>2, <2>1, Ending DEF Inv, Core, RequestOK, Reserving, Accepted
<1>7. DraftInv'
  BY <1>1, <1>2 DEF Inv, Core, DraftInv
<1>8. ReconInv'
  BY <1>1, <1>2 DEF ReconInv
<1>9. SubmittedInv' /\ PostedIsExact'
  BY <1>1, <1>2, <1>3 DEF Inv, Core, SubmittedInv, PostedIsExact, Accepted
<1> QED
  BY <1>4, <1>5, <1>6, <1>7, <1>8, <1>9 DEF Core

\* GitHub meets a request, or the request is lost.
LEMMA MeetSteps ==
    ASSUME Inv, NEW n \in Submissions, Meet(n)
    PROVE  Core'
<1>1. CoreTyped /\ request[n].status = "sent" /\ Latest = n
  BY Typed, MetByItself DEF Inv, Meet
<1>2. /\ Reserving(n) /\ RequestOK(n)
      /\ call[n].at \notin {"idle", "reserved", "leased", "posted"}
  BY <1>1 DEF Inv, Core, RequestOK, HandlerOK, Accepted
<1>3. /\ \A m \in Submissions : m # n => request'[m] = request[m]
      /\ UNCHANGED <<review, round, draft, call, recon>>
      /\ \/ request'[n] = [request[n] EXCEPT !.status = "accepted", !.met = n]
         \/ request'[n] = Nothing("rejected")
         \/ request'[n] = Nothing("lost")
  BY <1>1 DEF Meet, CoreTyped, records
<1>4. \/ /\ request'[n].status = "accepted" /\ request'[n].met = n
         /\ request'[n].revision = request[n].revision /\ request'[n].asked = request[n].asked
         /\ request'[n].draft = request[n].draft /\ request'[n].head = request[n].head
         /\ request'[n].round = request[n].round
      \/ request'[n].status \in {"rejected", "lost"}
  <2>1. request[n] \in Requests
    BY <1>1 DEF CoreTyped
  <2>2. CASE request'[n] = [request[n] EXCEPT !.status = "accepted", !.met = n]
    BY <2>1, <2>2 DEF Requests
  <2>3. CASE request'[n] = Nothing("rejected") \/ request'[n] = Nothing("lost")
    BY <2>3 DEF Nothing
  <2> QED
    BY <1>3, <2>2, <2>3
<1>5. LatestInv'
  BY <1>3 DEF Inv, Core, LatestInv
<1>6. \A m \in Submissions : HandlerOK(m)'
  BY <1>2, <1>3 DEF Inv, Core, HandlerOK, Reserving, Drafted, Accepted
<1>7. \A m \in Submissions : RequestOK(m)'
  <2>1. RequestOK(n)'
    BY <1>1, <1>2, <1>3, <1>4 DEF RequestOK, Reserving, Accepted
  <2>2. ASSUME NEW m \in Submissions, m # n PROVE RequestOK(m)'
    BY <1>3, <2>2 DEF Inv, Core, RequestOK, Reserving, Accepted
  <2> QED
    BY <2>1, <2>2
<1>8. DraftInv'
  BY <1>3 DEF Inv, Core, DraftInv
<1>9. \A m \in Submissions : Accepted(m) => m # n /\ Accepted(m)' /\ request'[m] = request[m]
  BY <1>1, <1>3 DEF Accepted
<1>10. ReconInv'
  <2>1. recon.at = "fetched" /\ recon.found # NoSubmission => recon.found \in Submissions
    BY DEF Inv, Core, ReconInv, LatestInv
  <2>2. recon.at = "fetched" /\ review.late => FALSE
    BY <1>1 DEF Inv, Core, ReconInv, Settled
  <2> QED
    BY <1>3, <1>9, <2>1, <2>2 DEF Inv, Core, ReconInv, Accepted
<1>11. SubmittedInv'
  BY <1>2, <1>3 DEF SubmittedInv, Reserving
<1>12. PostedIsExact'
  <2>1. \A m \in Submissions : Accepted(m)' => request'[m].revision = request'[m].asked
    BY <1>7 DEF RequestOK, Accepted
  <2> QED
    BY <1>3, <1>9, <2>1 DEF Inv, Core, PostedIsExact, Accepted
<1> QED
  BY <1>5, <1>6, <1>7, <1>8, <1>10, <1>11, <1>12 DEF Core

-----------------------------------------------------------------------------
(* The reconciliation, and the death of the server. *)

\* Looking for the review changes the reconciliation at most, and the grace.
LEMMA LookSteps ==
    ASSUME Inv, GraceEnds \/ Reconcile \/ Fetch \/ FetchFails \/ StillPending
    PROVE  Core'
<1>0. CoreTyped /\ review.status = "submitting"
  BY Typed DEF Inv, Core, ReconInv, GraceEnds, Reconcile, Fetch, FetchFails, StillPending
<1>1. /\ UNCHANGED <<request, round, draft, call>>
      /\ review'.status = review.status /\ review'.submission = review.submission
      /\ review'.draft = review.draft /\ review'.revision = review.revision
      /\ review'.head = review.head
  BY <1>0 DEF GraceEnds, Reconcile, Fetch, FetchFails, StillPending, github, records,
              CoreTyped, ReviewTyped, Reviews
<1>2. recon' = recon \/ recon'.at = "idle" \/ \A n \in Submissions : call[n].at \notin Live
  BY DEF GraceEnds, Reconcile, Fetch, FetchFails, StillPending, Idle, Inactive, Inv, Core, HandlerOK
<1>3. LatestInv'
  BY <1>1 DEF Inv, Core, LatestInv
<1>4. \A n \in Submissions : HandlerOK(n)'
  BY <1>1, <1>2 DEF Inv, Core, HandlerOK, Reserving, Drafted, Accepted, Live
<1>5. \A n \in Submissions : RequestOK(n)'
  BY <1>1 DEF Inv, Core, RequestOK, Reserving, Accepted
<1>6. DraftInv'
  BY <1>1 DEF Inv, Core, DraftInv
<1>7. ReconInv'
  <2>1. CASE GraceEnds
    BY <1>0, <1>1, <2>1 DEF GraceEnds, Inv, Core, ReconInv, Settled, Accepted
  <2>2. CASE Reconcile
    BY <1>0, <2>2 DEF Reconcile, records, ReconInv
  <2>3. CASE Fetch
    <3>1. /\ recon' = [at |-> "fetched",
                       found |-> IF Accepted(review.submission) THEN review.submission ELSE NoSubmission]
          /\ review' = review /\ (review.late => Settled)
      BY <2>3, FetchedIsOwn DEF Fetch, records
    <3> QED
      BY <1>0, <1>1, <3>1 DEF ReconInv, Settled, Accepted
  <2>4. CASE FetchFails \/ StillPending
    BY <2>4 DEF FetchFails, StillPending, Idle, ReconInv
  <2> QED
    BY <2>1, <2>2, <2>3, <2>4
<1>8. SubmittedInv' /\ PostedIsExact'
  BY <1>0, <1>1 DEF Inv, Core, SubmittedInv, PostedIsExact, Accepted
<1> QED
  BY <1>3, <1>4, <1>5, <1>6, <1>7, <1>8 DEF Core

\* What is known when a list that was read is acted on.
LEMMA FetchedFacts ==
    ASSUME Inv, recon.at = "fetched"
    PROVE  /\ CoreTyped /\ review.status = "submitting" /\ review.draft \in Drafts
           /\ review.submission \in Submissions
           /\ \A n \in Submissions : call[n].at \notin Live
           /\ recon.found # NoSubmission =>
                 recon.found = review.submission /\ Accepted(review.submission)
           /\ \A e \in Drafts : e # review.draft => draft[e].status # "submitting"
BY Typed, RecordFacts DEF Inv, Core, ReconInv, LatestInv, DraftInv, HandlerOK

LEMMA FoundSteps ==
    ASSUME Inv, SettleFound
    PROVE  Core'
<1> DEFINE d == review.draft
           s == review.submission
<1>0. recon.at = "fetched" /\ recon.found # NoSubmission
  BY DEF SettleFound
<1>1. /\ CoreTyped /\ review.status = "submitting" /\ d \in Drafts /\ s \in Submissions
      /\ Reserving(s) /\ Accepted(s)
      /\ \A n \in Submissions : call[n].at \notin Live
      /\ \A e \in Drafts : e # d => draft[e].status # "submitting"
  BY <1>0, FetchedFacts DEF Reserving
<1>2. recon'.at = "idle" /\ UNCHANGED <<request, round, call>>
  BY DEF SettleFound, Idle, github
<1>3. CASE ~Settleable("submitted")
  <2>1. UNCHANGED <<draft, review>>
    BY <1>3 DEF SettleFound
  <2>2. \A n \in Submissions : HandlerOK(n)' /\ RequestOK(n)'
    BY <1>1, <1>2, <2>1 DEF Inv, Core, HandlerOK, RequestOK, Reserving, Accepted, Live
  <2>3. LatestInv' /\ DraftInv' /\ ReconInv' /\ SubmittedInv' /\ PostedIsExact'
    BY <1>2, <2>1 DEF Inv, Core, LatestInv, DraftInv, ReconInv, SubmittedInv, PostedIsExact, Accepted
  <2> QED
    BY <2>2, <2>3 DEF Core
<1>4. CASE Settleable("submitted")
  <2>1. /\ draft' = [draft EXCEPT ![d].status = "submitted"]
        /\ review'.status = "submitted" /\ review'.draft = d
    BY <1>1, <1>4, RecordFacts DEF SettleFound, SettledTo
  <2>2. /\ PostedIsExact' /\ draft'[d].status = "submitted"
        /\ \A e \in Drafts : draft'[e].status # "submitting"
    <3>1. CASE draft[d].status = "submitting"
      BY <1>1, <1>2, <2>1, <3>1, DraftOfReview
    <3>2. CASE draft[d].status = "submitted"
      <4>1. draft' = draft
        BY <1>1, <2>1, <3>2 DEF CoreTyped, DraftRows
      <4> QED
        BY <1>1, <1>2, <3>2, <4>1 DEF Inv, Core, PostedIsExact, Accepted
    <3> QED
      BY <1>4, <3>1, <3>2 DEF Settleable
  <2>3. request[s].round = round
    BY <1>1 DEF Inv, Core, RequestOK, Accepted
  <2> HIDE DEF d, s
  <2>4. LatestInv'
    BY <1>2, <2>1 DEF Inv, Core, LatestInv
  <2>5. \A n \in Submissions : HandlerOK(n)'
    BY <1>1, <1>2 DEF HandlerOK, Live
  <2>6. \A n \in Submissions : RequestOK(n)'
    <3>1. ASSUME NEW n \in Submissions PROVE request[n].status # "sent"
      BY <1>1, OneReserved DEF Inv, Core, RequestOK, Accepted
    <3> QED
      BY <1>2, <2>1, <3>1 DEF Inv, Core, RequestOK, Reserving, Accepted
  <2>7. DraftInv' /\ ReconInv'
    BY <1>2, <2>1, <2>2 DEF DraftInv, ReconInv
  <2>8. SubmittedInv'
    BY <1>1, <1>2, <2>1, <2>2, <2>3 DEF SubmittedInv, Accepted
  <2> QED
    BY <2>2, <2>4, <2>5, <2>6, <2>7, <2>8 DEF Core
<1> QED
  BY <1>3, <1>4

\* A draft that is handed back: the reservation's, where its review is absent.
LEMMA HandedBack ==
    ASSUME Inv, recon.at = "fetched", Settleable("draft"), draft' = SettledTo("draft"), UNCHANGED request
    PROVE  /\ PostedIsExact'
           /\ draft'[review.draft].status = "draft"
           /\ draft'[review.draft].revision = draft[review.draft].revision
           /\ draft'[review.draft].head = draft[review.draft].head
           /\ \A e \in Drafts : e # review.draft => draft'[e] = draft[e]
           /\ \A e \in Drafts : draft'[e].status # "submitting"
<1> DEFINE d == review.draft
<1>1. /\ CoreTyped /\ d \in Drafts
      /\ \A e \in Drafts : e # d => draft[e].status # "submitting"
  BY FetchedFacts
<1>2. /\ draft'[d].status = "draft"
      /\ draft'[d].revision = draft[d].revision /\ draft'[d].head = draft[d].head
      /\ \A e \in Drafts : e # d => draft'[e] = draft[e]
  BY <1>1, DraftFacts DEF SettledTo
<1>3. PostedIsExact'
  BY <1>1, <1>2 DEF Inv, Core, PostedIsExact, Accepted
<1> QED
  BY <1>1, <1>2, <1>3

LEMMA AbsentSteps ==
    ASSUME Inv, SettleAbsent
    PROVE  Core'
<1>0. /\ recon.at = "fetched" /\ recon.found = NoSubmission /\ review.late
      /\ recon'.at = "idle" /\ UNCHANGED <<request, round, call>>
  BY DEF SettleAbsent, Idle, github, GraceOver
<1>1. /\ CoreTyped /\ review.status = "submitting"
      /\ \A n \in Submissions : call[n].at \notin Live
      /\ \A n \in Submissions : request[n].status # "sent"
  BY <1>0, FetchedFacts DEF Inv, Core, ReconInv, Settled
<1>2. \A n \in Submissions : HandlerOK(n)'
  BY <1>0, <1>1 DEF HandlerOK, Live
<1>3. CASE ~Settleable("draft")
  <2>1. UNCHANGED <<draft, review>>
    BY <1>3 DEF SettleAbsent
  <2>2. \A n \in Submissions : RequestOK(n)'
    BY <1>0, <2>1 DEF Inv, Core, RequestOK, Reserving, Accepted
  <2>3. LatestInv' /\ DraftInv' /\ ReconInv' /\ SubmittedInv' /\ PostedIsExact'
    BY <1>0, <2>1 DEF Inv, Core, LatestInv, DraftInv, ReconInv, SubmittedInv, PostedIsExact, Accepted
  <2> QED
    BY <1>2, <2>2, <2>3 DEF Core
<1>4. CASE Settleable("draft")
  <2>1. draft' = SettledTo("draft") /\ review'.status = "ready"
    BY <1>1, <1>4, RecordFacts DEF SettleAbsent
  <2>2. PostedIsExact' /\ \A e \in Drafts : draft'[e].status # "submitting"
    BY <1>0, <1>4, <2>1, HandedBack
  <2>3. \A n \in Submissions : RequestOK(n)'
    BY <1>0, <1>1, <2>1 DEF Inv, Core, RequestOK, Reserving, Accepted
  <2>4. LatestInv' /\ DraftInv' /\ ReconInv' /\ SubmittedInv'
    BY <1>0, <2>1, <2>2 DEF Inv, Core, LatestInv, DraftInv, ReconInv, SubmittedInv
  <2> QED
    BY <1>2, <2>2, <2>3, <2>4 DEF Core
<1> QED
  BY <1>3, <1>4

\* The server dies: the calls are forgotten, and a draft may be settled or unleased
\* without the record.
LEMMA Dying ==
    ASSUME Inv, Died, UNCHANGED <<request, review, round>>, DraftInv', PostedIsExact',
           \A e \in Drafts : draft[e].status = "submitted" => draft'[e] = draft[e]
    PROVE  Core'
<1>1. CoreTyped
  BY Typed DEF Inv
<1>2. /\ \A n \in Submissions : call'[n].at \notin Live /\ (call'[n].at = "idle" <=> call[n].at = "idle")
      /\ recon'.at = "idle"
  BY DEF Died, NoCall, Idle, Live
<1>3. LatestInv'
  BY <1>2 DEF Inv, Core, LatestInv
<1>4. \A n \in Submissions : HandlerOK(n)'
  BY <1>2 DEF HandlerOK, Live
<1>5. \A n \in Submissions : RequestOK(n)'
  BY <1>2 DEF Inv, Core, RequestOK, Reserving, Accepted, Live
<1>6. ReconInv'
  BY <1>2 DEF ReconInv
<1>7. SubmittedInv'
  <2>1. review.status = "submitted" => review.draft \in Drafts
    BY <1>1, BoundsAssumption DEF CoreTyped, ReviewTyped, Reviews, Drafts
  <2> QED
    BY <2>1 DEF Inv, Core, SubmittedInv, Accepted
<1> QED
  BY <1>3, <1>4, <1>5, <1>6, <1>7 DEF Core

LEMMA CrashSteps ==
    ASSUME Inv, Crash
    PROVE  Core'
<1>1. Died /\ UNCHANGED <<request, review, round, draft>>
  BY DEF Crash, github, records
<1>2. DraftInv' /\ PostedIsExact'
  BY <1>1 DEF Inv, Core, DraftInv, PostedIsExact, Accepted
<1> QED
  BY <1>1, <1>2, Dying

LEMMA DieGivingUpSteps ==
    ASSUME Inv, NEW n \in Submissions, DieGivingUp(n)
    PROVE  Core'
<1> DEFINE d == call[n].draft
<1>0. call[n].at \in Live /\ call[n].at \in {"leased", "posting"}
      /\ Died /\ UNCHANGED <<request, review, round>>
  BY DEF DieGivingUp, FailedForCertain, At, Live, github
<1>1. /\ CoreTyped /\ Reserving(n) /\ d = review.draft /\ d \in Drafts
      /\ draft[d].status = "submitting"
  BY <1>0, HandlerFacts DEF HandlerOK, Drafted
<1>2. /\ draft'[d].status = "draft"
      /\ draft'[d].revision = draft[d].revision /\ draft'[d].head = draft[d].head
      /\ \A e \in Drafts : e # d => draft'[e] = draft[e]
  BY <1>1 DEF DieGivingUp, Unleased, CoreTyped, DraftRows
<1> HIDE DEF d
<1>3. DraftInv'
  BY <1>0, <1>1, <1>2 DEF Inv, Core, DraftInv
<1>4. PostedIsExact'
  BY <1>0, <1>1, <1>2 DEF Inv, Core, PostedIsExact, Accepted
<1> QED
  BY <1>0, <1>1, <1>2, <1>3, <1>4, Dying

LEMMA DieSettlingSteps ==
    ASSUME Inv, DieSettling
    PROVE  Core'
<1>0. Died /\ UNCHANGED <<request, review, round>> /\ recon.at = "fetched"
  BY DEF DieSettling, github
<1>1. /\ CoreTyped /\ review.draft \in Drafts /\ review.submission \in Submissions
      /\ review.status = "submitting"
      /\ recon.found # NoSubmission => Accepted(review.submission)
  BY <1>0, FetchedFacts
<1>2. CASE UNCHANGED draft
  <2>1. DraftInv' /\ PostedIsExact'
    BY <1>0, <1>2 DEF Inv, Core, DraftInv, PostedIsExact, Accepted
  <2> QED
    BY <1>0, <1>2, <2>1, Dying
<1>3. CASE recon.found # NoSubmission /\ Settleable("submitted") /\ draft' = SettledTo("submitted")
  <2>1. CASE draft[review.draft].status = "submitting"
    <3>1. /\ PostedIsExact' /\ draft'[review.draft].status = "submitted"
          /\ \A e \in Drafts : e # review.draft => draft'[e] = draft[e]
          /\ \A e \in Drafts : draft'[e].status # "submitting"
      BY <1>0, <1>1, <1>3, <2>1, DraftOfReview DEF SettledTo, Reserving
    <3>2. DraftInv'
      BY <1>0, <1>1, <3>1 DEF DraftInv
    <3> QED
      BY <1>0, <2>1, <3>1, <3>2, Dying
  <2>2. CASE draft[review.draft].status = "submitted"
    <3>1. draft' = draft
      BY <1>1, <1>3, <2>2 DEF SettledTo, CoreTyped, DraftRows
    <3> QED
      BY <1>2, <3>1
  <2> QED
    BY <1>3, <2>1, <2>2 DEF Settleable
<1>4. CASE recon.found = NoSubmission /\ Settleable("draft") /\ draft' = SettledTo("draft")
  <2>1. /\ PostedIsExact' /\ draft'[review.draft].status = "draft"
        /\ draft'[review.draft].revision = draft[review.draft].revision
        /\ draft'[review.draft].head = draft[review.draft].head
        /\ \A e \in Drafts : e # review.draft => draft'[e] = draft[e]
        /\ \A e \in Drafts : draft'[e].status # "submitting"
    BY <1>0, <1>4, HandedBack
  <2>2. draft[review.draft].status \in {"draft", "submitting"}
    BY <1>4 DEF Settleable
  <2>3. DraftInv'
    BY <1>0, <1>1, <2>1, <2>2 DEF Inv, Core, DraftInv
  <2> QED
    BY <1>0, <1>1, <2>1, <2>2, <2>3, Dying
<1> QED
  BY <1>2, <1>3, <1>4 DEF DieSettling

-----------------------------------------------------------------------------

LEMMA InitInv == Init => Inv
<1> SUFFICES ASSUME Init PROVE Inv
  OBVIOUS
<1>1. ReviewTypeOK
  BY SmallFacts DEF Init, ReviewTypeOK, Nothing, NoCall, Idle
<1>2. Core
  BY SmallFacts DEF Init, Core, LatestInv, HandlerOK, RequestOK, DraftInv, ReconInv, SubmittedInv,
                    PostedIsExact, Nothing, NoCall, Idle, Live, Accepted, Reserving
<1> QED
  BY <1>1, <1>2 DEF Inv

LEMMA StepInv == Inv /\ [Next]_vars => Inv'
<1> SUFFICES ASSUME Inv, [Next]_vars PROVE Inv'
  OBVIOUS
<1>1. CASE Next
  <2>1. ReviewTypeOK'
    BY <1>1, Typed, CoreTypes, OtherTypes DEF Inv, CoreTyped, OtherTyped, ReviewTypeOK, ReviewTyped, Calls, Requests, Reviews, DraftRows, Recons
  <2>2. ASSUME StartReview \/ CompleteReview \/ FailReview \/ ArchiveReview
        PROVE  Core'
    <3>1. CoreTyped
      BY Typed DEF Inv
    <3>2. /\ review.status # "submitting" /\ review'.status \notin {"submitting", "submitted"}
          /\ (round' = round \/ round' = round + 1) /\ UNCHANGED <<request, draft, call, recon>>
      BY <2>2, <3>1 DEF StartReview, CompleteReview, FailReview, ArchiveReview, github,
                        CoreTyped, ReviewTyped, Reviews
    <3> QED
      BY <3>2, ReviewSteps
  <2>3. ASSUME Push \/ RecoverDeliveries \/ RecoverEvidence
               \/ \E n \in Submissions : FollowUp(n) \/ CommentChanges(n)
        PROVE  Core'
    <3>1. UNCHANGED <<request, review, round, draft, call, recon>>
      BY <2>3 DEF Push, RecoverDeliveries, RecoverEvidence, FollowUp, TimerFires, ProcessingEnds,
                  CommentChanges, github, records
    <3> QED
      BY <3>1, StillSteps DEF Inv
  <2>4. ASSUME NEW n \in Submissions, Handle(n)
        PROVE  Core'
    BY <2>4, LeaseSteps, ReleaseSteps, UnreadSteps, PostSteps, LostSteps, AnswerSteps, ReturnSteps DEF Handle
  <2>5. Core'
    BY <1>1, <2>2, <2>3, <2>4, DraftSteps, SubmitSteps, MeetSteps, DieGivingUpSteps, LookSteps, FoundSteps,
       AbsentSteps, DieSettlingSteps, CrashSteps DEF Next, FinishReconciliation
  <2> QED
    BY <2>1, <2>5 DEF Inv
<1>2. CASE UNCHANGED vars
  BY <1>2, StillSteps DEF vars, github, records, deliveries, Inv, ReviewTypeOK
<1> QED
  BY <1>1, <1>2

LEMMA Invariant == Spec => []Inv
BY InitInv, StepInv, PTL DEF Spec

-----------------------------------------------------------------------------
(* One review of each round, but of those whose grace ended over an empty list. *)

\* What was misread stays so, and only the end of the grace adds to it.
LEMMA MisreadGrows ==
    ASSUME Next
    PROVE  misread \subseteq misread' /\ (~GraceEnds => misread' = misread)
<1> USE DEF records
<1>1. CASE StartReview \/ CompleteReview \/ FailReview \/ ArchiveReview \/ Push
  BY <1>1 DEF StartReview, CompleteReview, FailReview, ArchiveReview, Push
<1>2. CASE \E d \in Drafts : CreateDraft(d) \/ EditDraft(d) \/ DiscardDraft(d)
  BY <1>2 DEF CreateDraft, EditDraft, DiscardDraft
<1>3. ASSUME NEW m \in Submissions,
             (\E d \in Drafts : Submit(m, d)) \/ Handle(m) \/ DieGivingUp(m)
      PROVE  misread' = misread
  BY <1>3 DEF Submit, Handle, Lease, Refuse, Post, GiveUp, HeadUnread, LoseTouch, Answered, Return,
              DieGivingUp
<1>4. ASSUME NEW m \in Submissions, Meet(m) \/ CommentChanges(m) \/ FollowUp(m)
      PROVE  misread' = misread
  BY <1>4 DEF Meet, CommentChanges, FollowUp, TimerFires, ProcessingEnds
<1>5. CASE GraceEnds
  BY <1>5 DEF GraceEnds
<1>6. CASE Reconcile \/ FinishReconciliation \/ FetchFails \/ DieSettling
  BY <1>6 DEF Reconcile, FinishReconciliation, Fetch, SettleFound, StillPending, SettleAbsent,
              FetchFails, DieSettling
<1>7. CASE RecoverDeliveries \/ RecoverEvidence \/ Crash
  BY <1>7 DEF RecoverDeliveries, RecoverEvidence, Crash
<1> QED
  BY <1>1, <1>2, <1>3, <1>4, <1>5, <1>6, <1>7 DEF Next

\* A follow-up on the books stays there.
LEMMA FollowupStays ==
    ASSUME ReviewTypeOK, Next, NEW n \in Submissions, followup[n] # "none"
    PROVE  followup'[n] # "none"
<1> USE DEF ReviewTypeOK
<1>1. CASE StartReview \/ CompleteReview \/ FailReview \/ ArchiveReview \/ Push
  BY <1>1 DEF StartReview, CompleteReview, FailReview, ArchiveReview, Push, deliveries
<1>2. CASE \E d \in Drafts : CreateDraft(d) \/ EditDraft(d) \/ DiscardDraft(d)
  BY <1>2 DEF CreateDraft, EditDraft, DiscardDraft, deliveries
<1>3. ASSUME NEW m \in Submissions,
             \/ \E d \in Drafts : Submit(m, d)
             \/ Lease(m) \/ Refuse(m) \/ Post(m) \/ GiveUp(m) \/ HeadUnread(m) \/ LoseTouch(m)
             \/ Meet(m) \/ CommentChanges(m)
      PROVE  followup'[n] # "none"
  BY <1>3 DEF Submit, Lease, Refuse, Post, GiveUp, HeadUnread, LoseTouch, Meet, CommentChanges,
              deliveries
<1>4. ASSUME NEW m \in Submissions, Answered(m) \/ Return(m) \/ FollowUp(m)
      PROVE  followup'[n] # "none"
  BY <1>4 DEF Answered, Recorded, Return, Process, FollowUp, TimerFires, ProcessingEnds, Retry
<1>5. CASE GraceEnds \/ Reconcile \/ Fetch \/ StillPending \/ SettleAbsent \/ FetchFails
  BY <1>5 DEF GraceEnds, Reconcile, Fetch, StillPending, SettleAbsent, FetchFails, deliveries
<1>6. CASE SettleFound
  BY <1>6 DEF SettleFound, Process
<1>7. CASE Crash \/ DieSettling \/ \E m \in Submissions : DieGivingUp(m)
  BY <1>7 DEF Crash, DieSettling, DieGivingUp, Recorded
<1>8. CASE RecoverDeliveries \/ RecoverEvidence
  BY <1>8 DEF RecoverDeliveries, RecoverEvidence, Unfinished
<1> QED
  BY <1>1, <1>2, <1>3, <1>4, <1>5, <1>6, <1>7, <1>8 DEF Next, Handle, FinishReconciliation

\* The lemma of the steps that post and accept nothing: what was accepted of the
\* reservation stays with it or is settled, and of no other is anything changed.
LEMMA Settling ==
    ASSUME Inv, KnownInv, Next, UNCHANGED request, NoneOverlooked',
           \A n \in Submissions : request[n].status = "sent" =>
               draft'[request[n].draft].status = "submitting",
           \A d \in Drafts : draft[d].status = "submitted" => draft'[d].status = "submitted",
           \A n \in Submissions : Accepted(n) /\ Reserving(n) /\ request[n].round \notin misread =>
               \/ Reserving(n)' /\ draft'[request[n].draft] = draft[request[n].draft]
               \/ draft'[request[n].draft].status = "submitted" /\ followup'[n] # "none",
           \A n \in Submissions :
               Accepted(n) /\ request[n].round = round' /\ request[n].round \notin misread =>
                   Reserving(n)' \/ review'.status = "submitted"
    PROVE  KnownInv'
<1>0. misread \subseteq misread'
  BY MisreadGrows
<1>1. OneReviewPosted'
  BY <1>0 DEF KnownInv, OneReviewPosted, Accepted
<1>2. ASSUME NEW n \in Submissions PROVE DraftOK(n)'
  <2>1. Accepted(n) => request[n].draft \in Drafts
    BY DEF Inv, Core, RequestOK, Accepted
  <2>2. Accepted(n) /\ request[n].round \notin misread =>
          \/ Reserving(n)' /\ draft'[request[n].draft].status = "submitting"
          \/ draft'[request[n].draft].status = "submitted" /\ followup'[n] # "none"
    <3>1. CASE Accepted(n) /\ Reserving(n) /\ draft[request[n].draft].status = "submitting"
      BY <3>1
    <3>2. CASE Accepted(n) /\ draft[request[n].draft].status = "submitted" /\ followup[n] # "none"
      BY <2>1, <3>2, FollowupStays DEF Inv
    <3> QED
      BY <3>1, <3>2 DEF KnownInv, DraftOK
  <2> QED
    BY <1>0, <2>2 DEF DraftOK, Accepted
<1> QED
  BY <1>1, <1>2 DEF KnownInv

\* Steps that leave drafts and reservation as they are.
LEMMA Resting ==
    ASSUME Inv, KnownInv, Next, UNCHANGED <<request, round, draft>>, NoneOverlooked',
           review'.status = review.status, review'.submission = review.submission
    PROVE  KnownInv'
BY Settling DEF KnownInv, DraftOK, Reserving

LEMMA KnownReviewSteps ==
    ASSUME Inv, KnownInv, Next, StartReview \/ CompleteReview \/ FailReview \/ ArchiveReview
    PROVE  KnownInv'
<1>1. CoreTyped
  BY Typed DEF Inv
<1>2. /\ review.status # "submitting" /\ recon = recon' /\ UNCHANGED <<request, draft>>
      /\ \/ round' = round + 1
         \/ review.status # "submitted" /\ round' = round
  BY <1>1 DEF StartReview, CompleteReview, FailReview, ArchiveReview, github
<1>3. NoneOverlooked'
  BY <1>2, NothingReserved DEF NoneOverlooked
<1>4. \A n \in Submissions : request[n].status # "sent" /\ ~Reserving(n)
  BY <1>2, NothingReserved DEF Reserving
<1>5. \A n \in Submissions : Accepted(n) /\ request[n].round \notin misread => request[n].round # round'
  <2>1. round \in Nat /\ \A n \in Submissions : request[n].round \in Nat
    BY BoundsAssumption DEF Inv, ReviewTypeOK
  <2>2. \A n \in Submissions : Accepted(n) => request[n].round <= round
    BY DEF Inv, Core, RequestOK, Accepted
  <2> QED
    BY <1>2, <1>4, <2>1, <2>2 DEF KnownInv, DraftOK
<1> QED
  BY <1>2, <1>3, <1>4, <1>5, Settling

LEMMA KnownDraftSteps ==
    ASSUME Inv, KnownInv, Next, NEW d \in Drafts, CreateDraft(d) \/ EditDraft(d) \/ DiscardDraft(d)
    PROVE  KnownInv'
<1>1. CoreTyped
  BY Typed DEF Inv
<1>2. /\ draft[d].status \in {"none", "draft"}
      /\ \A e \in Drafts : e # d => draft'[e] = draft[e]
      /\ UNCHANGED <<request, review, round, recon>>
  BY <1>1 DEF CreateDraft, EditDraft, DiscardDraft, Editable, CoreTyped, github
<1>3. NoneOverlooked'
  BY <1>2, MisreadGrows DEF KnownInv, NoneOverlooked, Accepted
<1>4. \A n \in Submissions :
         /\ request[n].status \in {"sent", "accepted"} => request[n].draft \in Drafts
         /\ request[n].status = "sent" => draft[request[n].draft].status = "submitting"
         /\ Accepted(n) /\ Reserving(n) /\ request[n].round \notin misread =>
               draft[request[n].draft].status \in {"submitting", "submitted"}
  BY DEF KnownInv, DraftOK, Inv, Core, RequestOK, Accepted
<1>5. \A n \in Submissions : /\ request[n].status = "sent" => draft'[request[n].draft].status = "submitting"
                             /\ Accepted(n) /\ Reserving(n) /\ request[n].round \notin misread =>
                                   draft'[request[n].draft] = draft[request[n].draft]
  BY <1>2, <1>4 DEF Accepted
<1> QED
  BY <1>2, <1>3, <1>5, Settling DEF KnownInv, DraftOK, Reserving

LEMMA KnownSubmitSteps ==
    ASSUME Inv, KnownInv, Next, NEW n \in Submissions, NEW d \in Drafts, Submit(n, d)
    PROVE  KnownInv'
<1>1. /\ review.status = "ready" /\ UNCHANGED <<request, round, draft, recon>>
  BY DEF Submit, github
<1>2. NoneOverlooked'
  BY <1>1, NothingReserved DEF NoneOverlooked
<1>3. \A m \in Submissions : /\ request[m].status # "sent" /\ ~Reserving(m)
                             /\ Accepted(m) /\ request[m].round \notin misread =>
                                   request[m].round # round
  BY <1>1, NothingReserved DEF Reserving, KnownInv, DraftOK
<1> QED
  BY <1>1, <1>2, <1>3, Settling

\* The steps of a handler whose request was not accepted.
LEMMA KnownUnacceptedSteps ==
    ASSUME Inv, KnownInv, Next, NEW n \in Submissions,
           Lease(n) \/ Refuse(n) \/ GiveUp(n) \/ HeadUnread(n) \/ DieGivingUp(n)
    PROVE  KnownInv'
<1> DEFINE d == call[n].draft
<1>1. call[n].at \in Live
  BY DEF Lease, Refuse, GiveUp, HeadUnread, DieGivingUp, FailedForCertain, At, Live
<1>2. /\ CoreTyped /\ Reserving(n) /\ recon.at = "idle" /\ d \in Drafts /\ d = review.draft
      /\ HandlerOK(n) /\ RequestOK(n)
      /\ \A m \in Submissions : m # n => request[m].status # "sent"
  BY <1>1, HandlerFacts
<1>3. request[n].status \in {"none", "rejected"} /\ UNCHANGED <<request, round>>
  BY <1>2 DEF Lease, Refuse, GiveUp, HeadUnread, DieGivingUp, FailedForCertain, At, RequestOK, github
<1>4. \A e \in Drafts : draft[e].status = "submitted" => draft'[e].status = "submitted"
  <2>1. CASE Refuse(n)
    BY <2>1 DEF Refuse, github
  <2>2. CASE Lease(n)
    BY <1>2, <2>2 DEF Lease, Leasable, Drafted, CoreTyped
  <2>3. CASE GiveUp(n) \/ HeadUnread(n) \/ DieGivingUp(n)
    <3>1. draft' = Unleased(n)
      BY <2>3 DEF GiveUp, HeadUnread, DieGivingUp
    <3> QED
      BY <1>2, <3>1 DEF Unleased, CoreTyped
  <2> QED
    BY <2>1, <2>2, <2>3
<1>5. NoneOverlooked'
  BY <1>2 DEF Lease, Refuse, GiveUp, HeadUnread, DieGivingUp, Died, Idle, NoneOverlooked, deliveries
<1>6. \A m \in Submissions : /\ request[m].status # "sent"
                             /\ Accepted(m) => ~Reserving(m)
                             /\ Accepted(m) /\ request[m].round \notin misread =>
                                   request[m].round # round
  BY <1>2, <1>3, OneReserved DEF Accepted, KnownInv, DraftOK, Reserving
<1> HIDE DEF d
<1> QED
  BY <1>3, <1>4, <1>5, <1>6, Settling

\* The steps of a handler whose request is on its way or answered.
LEMMA KnownPostSteps ==
    ASSUME Inv, KnownInv, Next, NEW n \in Submissions, Post(n)
    PROVE  KnownInv'
<1>1. call[n].at \in Live /\ At(n, "leased")
  BY DEF Post, At, Live
<1>2. /\ CoreTyped /\ recon.at = "idle" /\ request[n].status = "none" /\ call[n].draft \in Drafts
      /\ draft[call[n].draft].status = "submitting"
  BY <1>1, HandlerFacts DEF At, HandlerOK, RequestOK, Drafted
<1>3. /\ request'[n].status = "sent" /\ request'[n].draft = call[n].draft
      /\ \A m \in Submissions : m # n => request'[m] = request[m]
      /\ UNCHANGED <<review, round, misread, draft, recon, followup>>
  BY <1>2 DEF Post, CoreTyped, records, deliveries
<1>4. NoneOverlooked'
  BY <1>2, <1>3 DEF NoneOverlooked
<1>5. \A m \in Submissions : DraftOK(m)'
  <2>1. DraftOK(n)'
    BY <1>2, <1>3 DEF DraftOK, Accepted
  <2>2. ASSUME NEW m \in Submissions, m # n PROVE DraftOK(m)'
    BY <1>3, <2>2 DEF KnownInv, DraftOK, Reserving, Accepted
  <2> QED
    BY <2>1, <2>2
<1>6. OneReviewPosted'
  BY <1>3 DEF KnownInv, OneReviewPosted, Accepted
<1> QED
  BY <1>4, <1>5, <1>6 DEF KnownInv

LEMMA KnownAnswerSteps ==
    ASSUME Inv, KnownInv, Next, NEW n \in Submissions, LoseTouch(n) \/ Answered(n) \/ Return(n)
    PROVE  KnownInv'
<1>1. call[n].at \in Live
  BY DEF LoseTouch, Answered, Return, At, Live
<1>2. /\ CoreTyped /\ Reserving(n) /\ recon.at = "idle" /\ call[n].draft = review.draft
      /\ HandlerOK(n) /\ RequestOK(n) /\ review.draft \in Drafts
  BY <1>1, HandlerFacts
<1>3. NoneOverlooked'
  BY <1>2 DEF LoseTouch, Answered, Return, NoneOverlooked
<1>4. CASE LoseTouch(n)
  BY <1>3, <1>4, Resting DEF LoseTouch, github, records
<1>5. CASE Answered(n)
  <2>1. /\ Accepted(n) /\ request[n].draft = review.draft
        /\ draft[review.draft].status = "submitting"
        /\ UNCHANGED <<request, review, round>>
        /\ draft' = [draft EXCEPT ![review.draft].status = "submitted"]
        /\ followup' = Recorded(n)
    BY <1>2, <1>5 DEF Answered, At, HandlerOK, RequestOK, Accepted, Drafted, github
  <2>2. /\ draft'[review.draft].status = "submitted"
        /\ \A e \in Drafts : e # review.draft => draft'[e] = draft[e]
    BY <1>2, <2>1, DraftFacts
  <2>3. followup'[n] # "none"
    BY <2>1 DEF Recorded, Inv, ReviewTypeOK
  <2>4. \A m \in Submissions : /\ request[m].status # "sent"
                               /\ Accepted(m) /\ Reserving(m) => m = n
    BY <1>1, <1>2, <2>1, HandlerFacts, OneReserved DEF Accepted
  <2>5. \A m \in Submissions :
            Accepted(m) /\ request[m].round = round /\ request[m].round \notin misread =>
                Reserving(m)' \/ review'.status = "submitted"
    BY <2>1 DEF KnownInv, DraftOK, Reserving
  <2> QED
    BY <1>2, <1>3, <2>1, <2>2, <2>3, <2>4, <2>5, Settling
<1>6. CASE Return(n)
  <2>1. /\ UNCHANGED <<request, round, draft>> /\ review'.status = "submitted"
        /\ Accepted(n) /\ request[n].draft = review.draft /\ draft[review.draft].status = "submitted"
    BY <1>2, <1>6, RecordFacts DEF Return, At, HandlerOK, RequestOK, Accepted, Drafted, github, Reserving
  <2>2. request[n].round \notin misread => followup'[n] # "none"
    BY <2>1, FollowupStays DEF KnownInv, DraftOK, Inv
  <2>3. \A m \in Submissions : /\ request[m].status # "sent"
                               /\ Accepted(m) /\ Reserving(m) => m = n
    BY <1>1, <1>2, <2>1, HandlerFacts, OneReserved DEF Accepted
  <2> QED
    BY <1>3, <2>1, <2>2, <2>3, Settling
<1> QED
  BY <1>4, <1>5, <1>6

\* A review is accepted: its round had none.
LEMMA KnownMeetSteps ==
    ASSUME Inv, KnownInv, Next, NEW n \in Submissions, Meet(n)
    PROVE  KnownInv'
<1>1. CoreTyped /\ request[n].status = "sent" /\ Reserving(n) /\ request[n].round = round
  BY Typed DEF Inv, Core, RequestOK, Meet
<1>2. /\ \A m \in Submissions : m # n => request'[m] = request[m]
      /\ UNCHANGED <<review, round, misread, draft, recon, followup>>
      /\ request'[n].status # "sent"
      /\ request'[n].status = "accepted" =>
            request'[n].draft = request[n].draft /\ request'[n].round = request[n].round
  <2>1. /\ \A m \in Submissions : m # n => request'[m] = request[m]
        /\ UNCHANGED <<review, round, misread, draft, recon, followup>>
        /\ \/ request'[n] = [request[n] EXCEPT !.status = "accepted", !.met = Latest]
           \/ request'[n] = Nothing("rejected")
           \/ request'[n] = Nothing("lost")
    BY <1>1 DEF Meet, CoreTyped, records, deliveries
  <2>2. request[n] \in Requests
    BY <1>1 DEF CoreTyped
  <2>3. CASE request'[n] = [request[n] EXCEPT !.status = "accepted", !.met = Latest]
    BY <2>1, <2>2, <2>3 DEF Requests
  <2>4. CASE request'[n] = Nothing("rejected") \/ request'[n] = Nothing("lost")
    BY <2>1, <2>4 DEF Nothing
  <2> QED
    BY <2>1, <2>3, <2>4
<1>3. NoneOverlooked'
  <2>1. ~(recon.at = "fetched" /\ review.late)
    BY <1>1 DEF Inv, Core, ReconInv, Settled
  <2> QED
    BY <1>2, <2>1 DEF NoneOverlooked
<1>4. \A m \in Submissions : DraftOK(m)'
  <2>1. DraftOK(n)'
    BY <1>1, <1>2 DEF KnownInv, DraftOK, Accepted, Reserving
  <2>2. ASSUME NEW m \in Submissions, m # n PROVE DraftOK(m)'
    BY <1>2, <2>2 DEF KnownInv, DraftOK, Reserving, Accepted
  <2> QED
    BY <2>1, <2>2
<1>5. OneReviewPosted'
  <2>1. \A m \in Submissions :
            Accepted(m) /\ request[m].round \notin misread => request[m].round # round
    BY <1>1, OneReserved DEF KnownInv, DraftOK, Reserving, Accepted
  <2> QED
    BY <1>1, <1>2, <2>1 DEF KnownInv, OneReviewPosted, Accepted
<1> QED
  BY <1>3, <1>4, <1>5 DEF KnownInv

\* The grace that ends over a list read before its review makes its round a misread one.
LEMMA KnownLookSteps ==
    ASSUME Inv, KnownInv, Next,
           GraceEnds \/ Reconcile \/ Fetch \/ FetchFails \/ StillPending
    PROVE  KnownInv'
<1>0. CoreTyped
  BY Typed DEF Inv
<1>1. /\ UNCHANGED <<request, round, draft>>
      /\ review'.status = review.status /\ review'.submission = review.submission
  BY <1>0 DEF GraceEnds, Reconcile, Fetch, FetchFails, StillPending, github, records,
              CoreTyped, ReviewTyped, Reviews
<1>2. NoneOverlooked'
  <2>1. CASE GraceEnds
    <3>1. CASE recon.at = "fetched" /\ recon.found = NoSubmission /\ ReviewIsThere
      BY <1>0, <2>1, <3>1 DEF GraceEnds, NoneOverlooked, Inv, ReviewTypeOK
    <3>2. CASE recon.at = "fetched" /\ ~ReviewIsThere
      <4>1. review.submission \in Submissions /\ Reserving(review.submission)
        BY <3>2, FetchedFacts DEF Reserving
      <4>2. ~Accepted(review.submission)
        BY <3>2, <4>1 DEF ReviewIsThere, Inv, Core, RequestOK, Accepted
      <4> QED
        BY <1>1, <4>2 DEF NoneOverlooked, Accepted
    <3>3. recon' = recon
      BY <2>1 DEF GraceEnds
    <3> QED
      BY <3>1, <3>2, <3>3 DEF NoneOverlooked
  <2>2. CASE Reconcile \/ FetchFails \/ StillPending
    BY <2>2 DEF Reconcile, FetchFails, StillPending, Idle, NoneOverlooked
  <2>3. CASE Fetch
    <3>1. recon'.found = IF Accepted(review.submission) THEN review.submission ELSE NoSubmission
      BY <2>3, FetchedIsOwn
    <3>2. review.submission # NoSubmission
      BY <2>3, SmallFacts DEF Fetch, Inv, Core, ReconInv, LatestInv, NoSubmission
    <3> QED
      BY <1>1, <3>1, <3>2 DEF NoneOverlooked, Accepted
  <2> QED
    BY <2>1, <2>2, <2>3
<1> QED
  BY <1>1, <1>2, Resting

LEMMA KnownSettleSteps ==
    ASSUME Inv, KnownInv, Next, SettleFound \/ SettleAbsent \/ DieSettling
    PROVE  KnownInv'
<1> DEFINE d == review.draft
           s == review.submission
<1>0. recon.at = "fetched" /\ UNCHANGED <<request, round>>
  BY DEF SettleFound, SettleAbsent, DieSettling, github
<1>1. /\ CoreTyped /\ review.status = "submitting" /\ d \in Drafts /\ s \in Submissions
      /\ recon.found # NoSubmission => recon.found = s /\ Accepted(s)
      /\ Reserving(s) /\ \A m \in Submissions : Reserving(m) => m = s
      /\ Accepted(s) => request[s].draft = d /\ request[s].round = round
  BY <1>0, FetchedFacts, OneReserved DEF Reserving, Inv, Core, RequestOK, Accepted
<1>2. NoneOverlooked'
  BY DEF SettleFound, SettleAbsent, DieSettling, Died, Idle, NoneOverlooked
<1>3. CASE UNCHANGED <<draft, review>>
  BY <1>0, <1>2, <1>3, Resting
<1>4. CASE recon.found # NoSubmission /\ draft' = SettledTo("submitted")
  <2>1. /\ draft'[d].status = "submitted"
        /\ \A e \in Drafts : e # d => draft'[e] = draft[e]
    BY <1>1, <1>4, DraftFacts DEF SettledTo
  <2>2. followup'[s] # "none"
    BY <1>1, <1>4 DEF SettleFound, SettleAbsent, DieSettling, Process, Recorded, Inv, ReviewTypeOK
  <2>3. \A m \in Submissions : request[m].status # "sent"
    BY <1>1, <1>4 DEF Inv, Core, RequestOK, Accepted
  <2>4. review' = review \/ review'.status = "submitted"
    BY <1>1, <1>4, RecordFacts DEF SettleFound, SettleAbsent, DieSettling
  <2>5. \A m \in Submissions :
            Accepted(m) /\ request[m].round = round /\ request[m].round \notin misread =>
                Reserving(m)' \/ review'.status = "submitted"
    BY <1>1, <2>4 DEF KnownInv, DraftOK, Reserving
  <2> HIDE DEF d, s
  <2> QED
    BY <1>0, <1>1, <1>2, <2>1, <2>2, <2>3, <2>5, Settling
<1>5. CASE recon.found = NoSubmission /\ review.late /\ Settleable("draft") /\ draft' = SettledTo("draft")
  <2>1. (~Accepted(s) \/ round \in misread) /\ \A m \in Submissions : request[m].status # "sent"
    BY <1>0, <1>5 DEF KnownInv, NoneOverlooked, Inv, Core, ReconInv, Settled
  <2>2. /\ \A e \in Drafts : e # d => draft'[e] = draft[e]
        /\ draft[d].status # "submitted"
    BY <1>1, <1>5, DraftFacts DEF SettledTo, Settleable
  <2>3. \A m \in Submissions : Accepted(m) /\ request[m].round \notin misread =>
            ~Reserving(m) /\ request[m].round # round
    BY <1>1, <2>1 DEF KnownInv, DraftOK
  <2> HIDE DEF d, s
  <2> QED
    BY <1>0, <1>2, <2>1, <2>2, <2>3, Settling
<1> QED
  BY <1>3, <1>4, <1>5 DEF SettleFound, SettleAbsent, DieSettling, GraceOver

LEMMA KnownStep == Inv /\ KnownInv /\ [Next]_vars => KnownInv'
<1> SUFFICES ASSUME Inv, KnownInv, [Next]_vars
             PROVE  KnownInv'
  OBVIOUS
<1>1. CASE Next
  <2>1. CASE Push \/ RecoverDeliveries \/ RecoverEvidence \/ Crash
             \/ \E n \in Submissions : FollowUp(n) \/ CommentChanges(n)
    <3>1. UNCHANGED <<request, review, round, misread, draft>> /\ (recon' = recon \/ recon'.at = "idle")
      BY <2>1 DEF Push, RecoverDeliveries, RecoverEvidence, FollowUp, TimerFires, ProcessingEnds,
                  CommentChanges, Crash, Died, Idle, github, records
    <3>2. NoneOverlooked'
      BY <3>1 DEF KnownInv, NoneOverlooked, Accepted
    <3> QED
      BY <1>1, <3>1, <3>2, Resting
  <2>2. ASSUME NEW n \in Submissions, Handle(n) \/ DieGivingUp(n)
        PROVE  KnownInv'
    BY <1>1, <2>2, KnownUnacceptedSteps, KnownPostSteps, KnownAnswerSteps DEF Handle
  <2> QED
    BY <1>1, <2>1, <2>2, KnownReviewSteps, KnownDraftSteps, KnownSubmitSteps, KnownMeetSteps,
       KnownLookSteps, KnownSettleSteps DEF Next, FinishReconciliation
<1>2. CASE UNCHANGED vars
  BY <1>2 DEF vars, github, records, deliveries, KnownInv, NoneOverlooked, DraftOK, OneReviewPosted,
              Accepted, Reserving
<1> QED
  BY <1>1, <1>2

LEMMA KnownInit == Init => KnownInv
BY DEF Init, KnownInv, NoneOverlooked, DraftOK, OneReviewPosted, Accepted, Nothing, Idle

-----------------------------------------------------------------------------

\* Every variable keeps its type, and a review names a draft exactly while it is
\* submitting or submitted.
THEOREM TypeCorrect == Spec => []ReviewTypeOK
BY Invariant, PTL DEF Inv

\* GitHub holds the very revision that the user asked for, at the head that was
\* reviewed, and a draft shown as submitted still says it; however late a list is.
THEOREM Exactness == Spec => []PostedIsExact
BY Invariant, PTL DEF Inv, Core

\* A draft is leased by the reservation of the record only, and a review shown as
\* submitted is one that GitHub holds, of this round and of its draft.
THEOREM Agreement == Spec => []RecordsAgree
<1>1. Inv => RecordsAgree
  BY DEF Inv, Core, DraftInv, SubmittedInv, RecordsAgree
<1> QED
  BY <1>1, Invariant, PTL

\* GitHub holds one review of each round, but of one whose grace ended over a list that
\* showed none: any other reservation is handed back only when its request has been met
\* or lost, and a list that was read after that shows no review.
THEOREM OnePosted == Spec => []OneReviewPosted
<1>1. Inv /\ KnownInv /\ [Next]_vars => KnownInv'
  BY KnownStep
<1> QED
  BY <1>1, Invariant, KnownInit, PTL DEF Spec, KnownInv

\* ... and, with the same exception, of what the deck knows GitHub to hold the
\* follow-up is on the books.
THEOREM OwnKnown == Spec => []OwnReviewIsKnown
<1>1. Inv /\ KnownInv /\ [Next]_vars => KnownInv'
  BY KnownStep
<1>2. KnownInv => OwnReviewIsKnown
  BY DEF KnownInv, DraftOK, OwnReviewIsKnown
<1> QED
  BY <1>1, <1>2, Invariant, KnownInit, PTL DEF Spec

=============================================================================
