--------------------------- MODULE FactoryWriteback ---------------------------
(***************************************************************************)
(* The write-back of one factory task to its GitHub issue,                   *)
(* src/src/modules/factory: an outbox of effects (writeback-store.ts), the    *)
(* single runner that delivers them and reconciles what it cannot know        *)
(* (writeback.ts), the human who consents, asks, repairs or relinquishes, and *)
(* the ingestion that meets the deck's own comments (github-reconcile.ts).    *)
(*                                                                          *)
(* A status comment is posted once and edited afterwards; a question is       *)
(* posted once.  GitHub has no conditional write and may meet a request long  *)
(* after the runner has given it up.  The effects of a task are numbered in   *)
(* the order they are made, and a comment by the effect that created it; the  *)
(* revision of a comment, the provider's updated_at, is its number of edits.  *)
(* Retry times are left out: the runner takes any effect that is due.         *)
(***************************************************************************)
EXTENDS Naturals, Sequences, FiniteSets, TLC

CONSTANTS
    Bodies,         \* the texts publicStatusBody makes of a task
    MaxEffects,     \* bound: effects of the task
    MaxEvents       \* bound: what meets the runner, that is changes of the task, its mapping
                    \* and the policy, questions, edits by others, crashes, calls lost or failed

ASSUME BodiesAssumption == Bodies # {} /\ Bodies \cap {"question", "foreign", "none"} = {}
ASSUME BoundsAssumption == {MaxEffects, MaxEvents} \subseteq Nat

\* The texts are told apart by being different only.
BodySymmetry == Permutations(Bodies)

Effects == 1..MaxEffects
None == 0

VARIABLES
    template,   \* the body the task's status has by now
    version,    \* version of the task
    source,     \* version of its source
    mapping,    \* the fingerprint of the connection its source is mapped to by now
    moved,      \* the issue or its repository is not where it was admitted from
    policy,     \* [enabled, epoch]
    status,     \* the row of the managed comment
    effects,    \* the rows of the outbox
    preview,    \* the repair the human was shown
    run,        \* what the runner is at, with the effect it has in hand
    comments,   \* GitHub: each comment's revisions, how often it was posted, if it is there
    request,    \* GitHub: the request of each effect
    retained,   \* the comments ingestion has stored
    events      \* how much has met the runner

task == <<template, version, source, mapping, moved>>
rows == <<policy, status, effects, preview>>
github == <<comments, request>>
vars == <<task, rows, run, github, retained, events>>

Text(body, marker) == [body |-> body, marker |-> marker]

\* The mapping of the admission, another one for the same repository, and none.
Mappings == {"admitted", "other", "gone"}

Foreign == Text("foreign", None)
NoText == Text("none", None)

NoEffect == [kind |-> "status", state |-> "none", text |-> NoText, epoch |-> None,
             version |-> None, source |-> None, mapping |-> "gone", approval |-> "none",
             remote |-> None, expects |-> NoText, rev |-> None]
NoPreview == [of |-> None]
NoRequest == [status |-> "none", rev |-> None, raced |-> FALSE]
Idle == [at |-> "idle", on |-> None, e |-> NoEffect, found |-> None]

Texts == [body : Bodies \cup {"question", "foreign", "none"}, marker : Effects \cup {None}]
Rows == [kind : {"status", "question"},
         state : {"none", "pending", "sending", "uncertain", "sent", "failed", "repair",
                  "cancelled"},
         text : Texts, epoch : Nat, version : Nat, source : Nat, mapping : Mappings,
         approval : {"none", "observed", "missing"},
         remote : Effects \cup {None}, expects : Texts, rev : Nat]

WritebackTypeOK ==
    /\ template \in Bodies /\ version \in Nat /\ source \in Nat
    /\ mapping \in Mappings /\ moved \in BOOLEAN
    /\ policy \in [enabled : BOOLEAN, epoch : Nat]
    /\ status \in [marker : Effects \cup {None}, remote : Effects \cup {None}, text : Texts,
                   rev : Nat, relinquished : BOOLEAN, repairRequired : BOOLEAN]
    /\ effects \in [Effects -> Rows]
    /\ preview \in {NoPreview} \cup
          [of : Effects, epoch : Nat, version : Nat, body : Bodies, observed : BOOLEAN,
           remote : Effects, text : Texts, rev : Nat]
    /\ run \in [at : {"idle", "probing", "fencing", "sending", "recalling", "verifying"},
                on : Effects \cup {None}, e : Rows, found : Effects \cup {None}]
    /\ comments \in [Effects -> [live : BOOLEAN, posts : Nat, log : Seq(Texts)]]
    /\ request \in [Effects -> [status : {"none", "sent", "met", "rejected", "lost", "missing"},
                                rev : Nat, raced : BOOLEAN]]
    /\ retained \in [Effects -> [rev : Nat,
                                 echo : {"none", "confirmed", "awaiting-receipt", "external",
                                         "deleted"}]]
    /\ events \in 0..MaxEvents

Init ==
    /\ template \in Bodies /\ version = 0 /\ source = 0
    /\ mapping = "admitted" /\ moved = FALSE
    /\ policy = [enabled |-> TRUE, epoch |-> 0]
    /\ status = [marker |-> None, remote |-> None, text |-> NoText, rev |-> None,
                 relinquished |-> FALSE, repairRequired |-> FALSE]
    /\ effects = [n \in Effects |-> NoEffect]
    /\ preview = NoPreview
    /\ run = Idle
    /\ comments = [n \in Effects |-> [live |-> FALSE, posts |-> 0, log |-> <<>>]]
    /\ request = [n \in Effects |-> NoRequest]
    /\ retained = [n \in Effects |-> [rev |-> None, echo |-> "none"]]
    /\ events = 0

Event == events < MaxEvents /\ events' = events + 1

Made == {n \in Effects : effects[n].state # "none"}
Last == Cardinality(Made)
Room == Last < MaxEffects
StatusEffects == {n \in Made : effects[n].kind = "status"}

\* The text of a comment by now, and its revision.
Rev(c) == Len(comments[c].log)
Now(c) == comments[c].log[Rev(c)]
Created(c) == Rev(c) > 0

----------------------------------------------------------------------------
(* writeback-store.ts *)

\* effectAuthorized
Authorized(e) ==
    /\ policy.enabled
    /\ e.epoch = policy.epoch /\ e.version = version /\ e.source = source
    /\ e.mapping = mapping
    /\ e.kind = "status" => e.text.body = template

\* makeEffect
Effect(kind, text, approval, remote, expects, rev) ==
    [kind |-> kind, state |-> "pending", text |-> text, epoch |-> policy.epoch,
     version |-> version, source |-> source, mapping |-> mapping, approval |-> approval,
     remote |-> remote, expects |-> expects, rev |-> rev]

\* Mutant: an effect in doubt is left to the human.
OnlySending == {"sending"}

\* Sent, or perhaps: from here on the runner only reads.
Dispatched == {"sending", "uncertain"}

\* A status effect that carries an approved repair.
Repair(e) == e.kind = "status" /\ e.approval # "none"

\* What an effect becomes that must not be sent.
Refused(e) == IF Repair(e) THEN "repair" ELSE "cancelled"

\* The update that carries the status by now.
Update == Effect("status", Text(template, status.marker), "none",
                 status.remote, status.text, status.rev)

\* queueStatus.  An approved repair comes first, and is reviewed again once it has
\* lapsed; else the status is queued unless its management was given up or hangs on a
\* repair, an effect blocks it, or the one that waits says what it should.
PendingRepairs == {n \in StatusEffects : effects[n].state = "pending" /\ Repair(effects[n])}
Lapsed == {n \in PendingRepairs :
              /\ policy.enabled /\ ~Authorized(effects[n])
              /\ \A m \in PendingRepairs : n <= m}
Queueing ==
    policy.enabled /\ PendingRepairs = {} /\ ~status.relinquished /\ ~status.repairRequired
Blocking(n) ==
    \/ effects[n].state \in {"sending", "uncertain", "repair"}
    \/ effects[n].state = "failed" /\ (Repair(effects[n]) \/ Authorized(effects[n]))
Waiting == {n \in StatusEffects : effects[n].state = "pending"}
UpToDate(n) ==
    /\ effects[n].text = Update.text
    /\ effects[n].epoch = policy.epoch /\ effects[n].version = version
Free ==
    /\ Queueing
    /\ ~\E n \in StatusEffects : Blocking(n)
    /\ ~\E n \in Waiting : Waiting = {n} /\ UpToDate(n)
Renewing == Free /\ status.text # Update.text

\* What the status replaces: failed effects whose authority is gone, and what waits.
Superseded(n) ==
    \/ Queueing /\ n \in StatusEffects /\ effects[n].state = "failed" /\ ~Blocking(n)
    \/ Free /\ n \in Waiting

Queued == [n \in Effects |->
    CASE Renewing /\ n = Last + 1 -> Update
      [] n \in Lapsed -> [effects[n] EXCEPT !.state = "repair"]
      [] n \in Made /\ Superseded(n) -> [effects[n] EXCEPT !.state = "cancelled"]
      [] OTHER -> effects[n]]

\* invalidateWriteback, before the policy changes.
Revoked(n) == effects[n].state \in {"pending", "failed"}
Invalidated == [n \in Effects |->
    IF Revoked(n) THEN [effects[n] EXCEPT !.state = Refused(effects[n])] ELSE effects[n]]

----------------------------------------------------------------------------
(* The task, its human and others on GitHub. *)

\* The task or its source changes, and perhaps what its status says.
ChangeTask(body) ==
    /\ Event
    /\ template' = body
    /\ version' = version + 1
    /\ UNCHANGED <<source, mapping, moved, rows, run, github, retained>>

\* A coding run goes on or a summary is approved: the body changes, no version does.
ChangeFacts(body) ==
    /\ body # template
    /\ Event
    /\ template' = body
    /\ UNCHANGED <<version, source, mapping, moved, rows, run, github, retained>>

\* setWritebackPolicy.  An approved summary is bound to the epoch, so that the body may
\* change with it.
SetPolicy(on, body) ==
    /\ mapping # "gone"
    /\ Event
    /\ effects' = Invalidated
    /\ policy' = [enabled |-> on, epoch |-> policy.epoch + 1]
    /\ template' = body
    /\ UNCHANGED <<version, source, mapping, moved, status, preview, run, github, retained>>

\* markSourceAttention: the source has changed; a released task goes back to shaping.
Attention == source' = source + 1 /\ version' = version + 1 /\ template' \in Bodies

\* invalidateReleasesForConfig: another mapping asks for attention and withdraws
\* consent.  To restore the first costs no event.
Reconfigure(to) ==
    /\ to # mapping
    /\ IF to = "admitted" THEN UNCHANGED events ELSE Event
    /\ mapping' = to
    /\ Attention
    /\ effects' = Invalidated
    /\ policy' = [enabled |-> FALSE, epoch |-> policy.epoch + 1]
    /\ UNCHANGED <<moved, status, preview, run, github, retained>>

\* The issue is transferred or its repository renamed, which the next reading of the
\* issue takes for a change of the source; or it comes back.
Move ==
    /\ moved' = ~moved
    /\ IF moved THEN UNCHANGED <<template, version, source, events>> ELSE Event /\ Attention
    /\ UNCHANGED <<mapping, rows, run, github, retained>>

\* approveWriteback of a question, of the task as the human sees it.
ApproveQuestion ==
    /\ policy.enabled
    /\ Room
    /\ Event
    /\ effects' = [effects EXCEPT ![Last + 1] =
          Effect("question", Text("question", Last + 1), "none", None, NoText, None)]
    /\ UNCHANGED <<task, policy, status, preview, run, github, retained>>

\* recoverWriteback: a failed effect is tried again while it is authorized.
Retry(n) ==
    /\ n \in Made /\ effects[n].state = "failed"
    /\ Authorized(effects[n])
    /\ effects' = [effects EXCEPT ![n].state = "pending"]
    /\ UNCHANGED <<task, policy, status, preview, run, github, retained, events>>

\* recoverWriteback: the human gives up a question, or the management of the status.
\* Its answer shows the mapping, and without one all is rolled back.
Relinquish(n) ==
    /\ mapping # "gone"
    /\ n \in Made /\ effects[n].state # "sending"
    /\ IF n \in StatusEffects
       THEN /\ status' = [status EXCEPT !.relinquished = TRUE]
            /\ effects' = [m \in Effects |->
                  IF m \in StatusEffects /\ effects[m].state # "sent"
                  THEN [effects[m] EXCEPT !.state = "cancelled"] ELSE effects[m]]
       ELSE /\ effects' = [effects EXCEPT ![n].state = "cancelled"]
            /\ UNCHANGED status
    /\ UNCHANGED <<task, policy, preview, run, github, retained, events>>

\* previewWritebackRepair: the managed comment as it is, or its absence.
PreviewRepair(n) ==
    /\ policy.enabled /\ ~moved
    /\ n \in StatusEffects /\ effects[n].state = "repair"
    /\ status.remote # None /\ ~status.relinquished
    /\ LET c == status.remote
       IN  preview' = [of |-> n, epoch |-> policy.epoch, version |-> version, body |-> template,
                       observed |-> comments[c].live, remote |-> c,
                       text |-> Now(c), rev |-> Rev(c)]
    /\ UNCHANGED <<task, policy, status, effects, run, github, retained, events>>

\* approveWritebackRepair: what was shown is written, under the same conditions.  A
\* comment that is gone is posted anew, under a marker of its own.
ApproveRepair ==
    /\ preview.of # None
    /\ policy.enabled /\ preview.epoch = policy.epoch
    /\ preview.version = version /\ preview.body = template
    /\ effects[preview.of].state = "repair"
    /\ ~status.relinquished
    /\ Room
    /\ status' = [status EXCEPT !.repairRequired = TRUE]
    /\ effects' = [effects EXCEPT
          ![preview.of].state = "cancelled",
          ![Last + 1] =
             IF preview.observed
             THEN Effect("status", Text(template, status.marker), "observed",
                         preview.remote, preview.text, preview.rev)
             ELSE Effect("status", Text(template, Last + 1), "missing", None, NoText, None)]
    /\ UNCHANGED <<task, policy, preview, run, github, retained, events>>

\* The runner has looked at the comment for effect n, and the request is not met yet.
Undone(n) ==
    \/ run.at = "fencing" /\ run.on = n
    \/ request[n].status = "sent"
Raced(c) == [n \in Effects |->
    IF effects[n].remote = c /\ Undone(n) THEN [request[n] EXCEPT !.raced = TRUE]
                                          ELSE request[n]]

\* Somebody edits a comment of the deck, or deletes it.
Edit(c) ==
    /\ Event
    /\ comments[c].live
    /\ comments' = [comments EXCEPT ![c].log = Append(@, Foreign)]
    /\ request' = Raced(c)
    /\ UNCHANGED <<task, rows, run, retained>>

Delete(c) ==
    /\ Event
    /\ comments[c].live
    /\ comments' = [comments EXCEPT ![c].live = FALSE]
    /\ UNCHANGED <<task, rows, run, request, retained>>

----------------------------------------------------------------------------
(* github-reconcile.ts: the comments of the issue are stored, in the same loop and *)
(* before the runner.                                                             *)

\* echoDisposition
Received(c) ==
    \E n \in Made : /\ effects[n].state = "sent" /\ effects[n].remote = c
                    /\ effects[n].expects = Now(c) /\ effects[n].rev = Rev(c)
Awaited(c) ==
    \E n \in Made : /\ effects[n].state \in Dispatched /\ effects[n].text = Now(c)
                    /\ effects[n].remote \in {None, c}
Echo(c) == IF Received(c) THEN "confirmed" ELSE IF Awaited(c) THEN "awaiting-receipt" ELSE "external"

\* observeOwnedCommentChange: a copy of the last receipt asks for a repair.
Receipts(c) == {n \in StatusEffects : effects[n].state = "sent" /\ effects[n].remote = c}
Observable(c) ==
    /\ status.remote = c /\ ~status.relinquished
    /\ \A n \in StatusEffects : effects[n].state \in {"sent", "failed", "cancelled"}
    /\ Receipts(c) # {}
Observe(c) ==
    IF Observable(c)
    THEN /\ Room
         /\ LET last == CHOOSE n \in Receipts(c) : \A m \in Receipts(c) : m <= n
            IN  effects' = [effects EXCEPT ![Last + 1] = [effects[last] EXCEPT !.state = "repair"]]
    ELSE UNCHANGED effects

\* reconcileIssue, which needs the mapping and the issue in its place.
Readable == run.at = "idle" /\ mapping # "gone" /\ ~moved

\* saveComment
Ingest(c) ==
    /\ Readable
    /\ comments[c].live /\ retained[c].echo # "deleted"
    /\ LET row == [rev |-> Rev(c), echo |-> Echo(c)]
           news == row # retained[c]
       IN  /\ news
           /\ retained' = [retained EXCEPT ![c] = row]
           /\ IF row.echo = "external" THEN Observe(c) /\ Attention
                                       ELSE UNCHANGED <<effects, template, version, source>>
    /\ UNCHANGED <<mapping, moved, policy, status, preview, run, github, events>>

\* A retained comment is gone.
IngestDeletion(c) ==
    /\ Readable
    /\ ~comments[c].live /\ retained[c].echo \notin {"none", "deleted"}
    /\ retained' = [retained EXCEPT ![c].echo = "deleted"]
    /\ Observe(c) /\ Attention
    /\ UNCHANGED <<mapping, moved, policy, status, preview, run, github, events>>

\* Mutant: the receipt settles the outbox alone.
NotConfirming(c, rev) == retained

\* The stored revision that a receipt is of.
Confirming(c, rev) ==
    [retained EXCEPT ![c].echo = IF retained[c].rev = rev /\ @ # "deleted" THEN "confirmed" ELSE @]

----------------------------------------------------------------------------
(* runFactoryWriteback: one effect at a time, from the pick to its last word. *)

\* Mutant: a request without an answer may be sent again.
UnansweredFails == "failed"

Unanswered == "uncertain"

\* What was dispatched under another mapping is not reconciled: it stays uncertain
\* until a human has restored that one.
Pick(n) ==
    /\ run.at = "idle"
    /\ Renewing => Room
    /\ LET e == Queued[n]
       IN  \/ /\ e.state \in Dispatched /\ e.mapping = mapping
              /\ effects' = Queued
              /\ run' = [at |-> "recalling", on |-> n, e |-> e, found |-> None]
           \/ /\ e.state \in Dispatched /\ e.mapping # mapping
              /\ effects' = [Queued EXCEPT ![n].state = Unanswered]
              /\ UNCHANGED run
           \/ /\ e.state = "pending" /\ Authorized(e)
              /\ effects' = Queued
              /\ run' = [at |-> "probing", on |-> n, e |-> e, found |-> None]
           \/ /\ e.state = "pending" /\ ~Authorized(e)
              /\ effects' = [Queued EXCEPT ![n].state = Refused(e)]
              /\ UNCHANGED run
    /\ UNCHANGED <<task, policy, status, preview, github, retained, events>>

\* No effect is due: the status is queued all the same.
QueueOnly ==
    /\ run.at = "idle"
    /\ Renewing => Room
    /\ Queued # effects
    /\ effects' = Queued
    /\ UNCHANGED <<task, policy, status, preview, run, github, retained, events>>

\* save: the effect in hand is written over its row.
Save(to) ==
    /\ effects' = [effects EXCEPT ![run.on] = [run.e EXCEPT !.state = to]]
    /\ run' = Idle

\* The end of an effect that was not dispatched; one that was cancelled is left alone.
Abandon(to) ==
    IF effects[run.on].state = "cancelled"
    THEN run' = Idle /\ UNCHANGED effects
    ELSE Save(to)

\* A read of GitHub that fails may say that something is not there, and the runner
\* takes it for the managed comment, whatever it was that it read.
Unreadable(otherwise) == IF run.e.remote = None THEN {otherwise} ELSE {otherwise, "repair"}

\* The repository, the issue, the identity or the comment cannot be read.
ProbeFails ==
    /\ run.at = "probing"
    /\ Event
    /\ \E to \in Unreadable("failed") : Abandon(to)
    /\ UNCHANGED <<task, policy, status, preview, github, retained>>

\* The issue is not what was admitted.
SourceMoved ==
    /\ run.at = "probing"
    /\ Event
    /\ Abandon(Refused(run.e))
    /\ UNCHANGED <<task, policy, status, preview, github, retained>>

\* The repository or the issue that is read first is not the admitted one.
Astray ==
    /\ moved
    /\ \/ run.at = "probing" /\ Abandon(Refused(run.e))
       \/ run.at = "recalling" /\ Save(Unanswered)
    /\ UNCHANGED <<task, policy, status, preview, github, retained, events>>

\* The credential is of another user than the one the managed comment is of.
IdentityChanged ==
    /\ run.at = "probing" /\ run.e.remote # None
    /\ ~moved
    /\ Event
    /\ Save("repair")
    /\ UNCHANGED <<task, policy, status, preview, github, retained>>

\* Mutant: a comment of the deck is there to be edited.
Confirmed(c, e) == comments[c].live

\* The managed comment says what its last receipt, or the human, says it does.
Unedited(c, e) == comments[c].live /\ Now(c) = e.expects /\ Rev(c) = e.rev

\* The comment is read before it is edited.
Compare ==
    /\ run.at = "probing" /\ run.e.remote # None /\ ~moved
    /\ LET c == run.e.remote
       IN  IF Unedited(c, run.e)
           THEN /\ run' = [run EXCEPT !.at = "fencing"]
                /\ request' = [request EXCEPT ![run.on] = NoRequest]
                /\ UNCHANGED effects
           ELSE /\ IF comments[c].live THEN Save("repair") ELSE Abandon("repair")
                /\ UNCHANGED request
    /\ UNCHANGED <<task, policy, status, preview, comments, retained, events>>

\* A comment that was gone when the human looked has to be gone still.
CheckAbsence ==
    /\ run.at = "probing" /\ run.e.approval = "missing" /\ ~moved
    /\ IF status.remote # None /\ ~comments[status.remote].live
       THEN run' = [run EXCEPT !.at = "fencing"] /\ UNCHANGED effects
       ELSE Abandon("repair")
    /\ UNCHANGED <<task, policy, status, preview, github, retained, events>>

NothingToCompare ==
    /\ run.at = "probing" /\ run.e.remote = None /\ run.e.approval # "missing" /\ ~moved
    /\ run' = [run EXCEPT !.at = "fencing"]
    /\ UNCHANGED <<task, rows, github, retained, events>>

\* Mutant: the fence looks at the row alone.
StillPending == effects[run.on].state = "pending"

Fence == effects[run.on].state = "pending" /\ Authorized(run.e)

\* The fence, and the request behind it, without an await in between.
Dispatch ==
    /\ run.at = "fencing"
    /\ Fence
    /\ effects' = [effects EXCEPT ![run.on] = [run.e EXCEPT !.state = "sending"]]
    /\ request' = [request EXCEPT ![run.on].status = "sent"]
    /\ run' = [run EXCEPT !.at = "sending", !.e = [@ EXCEPT !.state = "sending"]]
    /\ UNCHANGED <<task, policy, status, preview, comments, retained, events>>

FenceHolds ==
    /\ run.at = "fencing"
    /\ ~Fence
    /\ Abandon(Refused(run.e))
    /\ UNCHANGED <<task, policy, status, preview, github, retained, events>>

\* Mutant: the receipt is of the status as it is by now.
SettledByNow(c, rev) == [status EXCEPT
    !.marker = run.e.text.marker, !.remote = c, !.rev = rev,
    !.text = Text(template, run.e.text.marker), !.repairRequired = FALSE]

SettledStatus(c, rev) == [status EXCEPT
    !.marker = run.e.text.marker, !.remote = c, !.rev = rev,
    !.text = comments[c].log[rev], !.repairRequired = FALSE]

\* receipt: the effect, the status and what ingestion retained are settled together.
Receipt(c, rev) ==
    /\ effects' = [effects EXCEPT ![run.on] =
          [run.e EXCEPT !.state = "sent", !.remote = c, !.expects = comments[c].log[rev], !.rev = rev]]
    /\ status' = IF run.e.kind = "status" THEN SettledStatus(c, rev) ELSE status
    /\ retained' = Confirming(c, rev)
    /\ run' = Idle
    /\ UNCHANGED <<task, policy, preview, github, events>>

\* What the response of GitHub says.
Answered ==
    /\ run.at = "sending"
    /\ request[run.on].status = "met"
    /\ Receipt(IF run.e.remote = None THEN run.on ELSE run.e.remote, request[run.on].rev)

\* 401, 403, 422 or 429: for certain not written.  404: the comment is gone.
Rejected ==
    /\ run.at = "sending"
    /\ \/ request[run.on].status = "rejected" /\ Save("failed")
       \/ request[run.on].status = "missing" /\ Save("repair")
    /\ UNCHANGED <<task, policy, status, preview, github, retained, events>>

\* No answer in time, or one that says nothing.
LoseTouch ==
    /\ run.at = "sending"
    /\ request[run.on].status = "lost" => UNCHANGED events
    /\ request[run.on].status # "lost" => Event
    /\ Save(Unanswered)
    /\ UNCHANGED <<task, policy, status, preview, github, retained>>

\* Mutant: the marker tells the deck's own comment.
ExactMarker(c, e) == comments[c].live /\ Now(c).marker = e.text.marker

\* exact
Exact(c, e) == comments[c].live /\ Now(c) = e.text

\* A dispatched effect whose comment is known: it says what was sent, or a human is asked.
Recall ==
    /\ run.at = "recalling" /\ run.e.remote # None /\ ~moved
    /\ IF Exact(run.e.remote, run.e)
       THEN Receipt(run.e.remote, Rev(run.e.remote))
       ELSE /\ Save("repair")
            /\ UNCHANGED <<task, policy, status, preview, github, retained, events>>

\* One whose comment is not known: the comments of the issue are searched for it.
Scan ==
    /\ run.at = "recalling" /\ run.e.remote = None /\ ~moved
    /\ LET matches == {c \in Effects : Created(c) /\ Exact(c, run.e)}
       IN  \/ \E c \in matches : /\ matches = {c}
                                 /\ run' = [run EXCEPT !.at = "verifying", !.found = c]
                                 /\ UNCHANGED effects
           \/ Cardinality(matches) # 1 /\ Save("uncertain")
    /\ UNCHANGED <<task, policy, status, preview, github, retained, events>>

\* The one that was found is read again.
Verify ==
    /\ run.at = "verifying"
    /\ IF Exact(run.found, run.e)
       THEN Receipt(run.found, Rev(run.found))
       ELSE /\ Save("uncertain")
            /\ UNCHANGED <<task, policy, status, preview, github, retained, events>>

\* The same of an effect in doubt, which stays so.
ReadFails ==
    /\ run.at \in {"recalling", "verifying"}
    /\ Event
    /\ \E to \in Unreadable("uncertain") : Save(to)
    /\ UNCHANGED <<task, policy, status, preview, github, retained>>

\* The server dies; what it has sent may still arrive.
Crash ==
    /\ run.at # "idle"
    /\ Event
    /\ run' = Idle
    /\ UNCHANGED <<task, rows, github, retained>>

----------------------------------------------------------------------------
(* GitHub. *)

\* A request is met, rejected or lost, however late.
Meet(n) ==
    /\ request[n].status = "sent"
    /\ LET new == effects[n].remote = None
           c == IF new THEN n ELSE effects[n].remote
           met == comments[c].live \/ new
       IN  \/ /\ met
              /\ comments' = [comments EXCEPT ![c] =
                    [live |-> TRUE, posts |-> @.posts + (IF new THEN 1 ELSE 0),
                     log |-> Append(@.log, effects[n].text)]]
              /\ request' = [request EXCEPT ![n].status = "met", ![n].rev = Rev(c) + 1]
              /\ UNCHANGED events
           \/ /\ ~met
              /\ request' = [request EXCEPT ![n].status = "missing"]
              /\ UNCHANGED <<comments, events>>
           \/ /\ Event
              /\ \E end \in {"rejected", "lost"} : request' = [request EXCEPT ![n].status = end]
              /\ UNCHANGED comments
    /\ UNCHANGED <<task, rows, run, retained>>

----------------------------------------------------------------------------

\* What the runner does next when nothing goes wrong.
RunnerStep ==
    \/ Compare \/ CheckAbsence \/ NothingToCompare \/ Dispatch \/ FenceHolds
    \/ Answered \/ Rejected \/ LoseTouch \/ Recall \/ Scan \/ Verify \/ Astray

Next ==
    \/ \E b \in Bodies : ChangeTask(b) \/ ChangeFacts(b) \/ \E on \in BOOLEAN : SetPolicy(on, b)
    \/ \E m \in Mappings : Reconfigure(m)
    \/ Move \/ ApproveQuestion \/ ApproveRepair
    \/ \E n \in Effects :
          \/ Retry(n) \/ Relinquish(n) \/ PreviewRepair(n)
          \/ Edit(n) \/ Delete(n) \/ Ingest(n) \/ IngestDeletion(n)
          \/ Pick(n) \/ Meet(n)
    \/ QueueOnly \/ RunnerStep \/ ProbeFails \/ SourceMoved \/ IdentityChanged \/ ReadFails \/ Crash

Spec == Init /\ [][Next]_vars

\* The loop ticks every fifteen seconds and takes the oldest effect that is due;
\* calls return, and GitHub meets a request in the end.
Fairness ==
    /\ \A n \in Effects : SF_vars(Pick(n)) /\ WF_vars(Meet(n))
    /\ WF_vars(QueueOnly) /\ WF_vars(RunnerStep)
LiveSpec == Spec /\ Fairness

----------------------------------------------------------------------------
(* Properties. *)

\* "A timeout, interrupted send or lost receipt never causes a blind second POST"
\* (.plans/factory/INCREMENT_5_OPERATOR.md:85): an effect is posted once, and GitHub
\* shows two status comments only where a human had two missing ones posted anew.
StatusComments == {c \in Effects : comments[c].live /\ effects[c].kind = "status"}
NoBlindPost ==
    /\ \A c \in Effects : comments[c].posts <= 1
    /\ \A c, d \in StatusComments :
          c # d => effects[c].approval = "missing" /\ effects[d].approval = "missing"

\* What is shown as sent was on GitHub, in the very words that were authorized.
SentWasShown ==
    \A n \in Made : effects[n].state = "sent" =>
        /\ Created(effects[n].remote)
        /\ comments[effects[n].remote].log[effects[n].rev] = effects[n].text

\* A revision with a receipt is known for the deck's own wherever it is stored,
\* whether ingestion or the receipt came first, and never handed to the planner.
ReceiptsAreEchoes ==
    \A n \in Made : /\ effects[n].state = "sent"
                    /\ retained[effects[n].remote].rev = effects[n].rev
                    => retained[effects[n].remote].echo \in {"confirmed", "deleted"}

\* "Revocation": no request goes out under a consent, a task or a status that is not
\* the current one, although the issue was read in between.
DispatchIsAuthorized ==
    [][\A n \in Effects : request[n].status # "sent" /\ request'[n].status = "sent" =>
          Authorized(effects'[n])]_vars

\* A comment somebody edited is overwritten only by a repair of that very edit, or
\* when the edit came after the runner had looked ("Another remote edit can race the
\* final read/write window", .plans/factory/INCREMENT_5_OPERATOR.md:121).
EditsAreKept ==
    [][\A n \in Effects : LET c == effects[n].remote IN
          /\ c # None /\ request[n].status = "sent" /\ request'[n].status = "met"
          /\ Now(c) = Foreign
          => Rev(c) = effects[n].rev \/ request[n].raced]_vars

\* The comment comes to say what the status is, or a human has something to decide,
\* whatever was lost on the way, unless the issue itself is gone from its place.
Asked == \E n \in StatusEffects : effects[n].state \in {"failed", "uncertain", "repair"}
Shown == /\ status.remote # None
         /\ comments[status.remote].log[status.rev].body = template
StatusIsShown ==
    []<>(Shown \/ Asked \/ ~policy.enabled \/ status.relinquished \/ moved \/ ~Room)

\* A request that was met, and whose answer was lost, gets its receipt, as long as the
\* comment says what was sent.  "uncertain" is a dead end only while the mapping it was
\* sent under, or the issue in its place, is missing ("restore the intended mapping",
\* .plans/factory/INCREMENT_5_OPERATOR.md:53); once restored, the receipt is found.
Findable(n) ==
    /\ effects[n].state \in {"sending", "uncertain"} /\ request[n].status = "met"
    /\ Exact(IF effects[n].remote = None THEN n ELSE effects[n].remote, effects[n])
Reached(n) == effects[n].mapping = mapping /\ ~moved
AnswersAreFound == \A n \in Effects : Findable(n) ~> ~Findable(n) \/ ~Reached(n) \/ ~Room

----------------------------------------------------------------------------
(* What the handbook and the tests say and the code does not do. *)

\* "maintains one status comment" (src/src/modules/factory/writeback.test.ts:188).
OneComment == \A c, d \in StatusComments : c = d

\* "Relinquish status management ... stops further management"
\* (.plans/factory/INCREMENT_5_OPERATOR.md:117).
RelinquishedIsLeft ==
    [][\A n \in Effects : request[n].status # "sent" /\ request'[n].status = "sent" =>
          effects[n].kind = "question" \/ ~status.relinquished]_vars

\* "Repair payloads never coalesce: changed task, context, consent or replacement
\* requires a new exact repair review" (.plans/factory/INCREMENT_5_OPERATOR.md:72):
\* an approved repair that failed and has lapsed is offered for review again.
StaleRepair(n) ==
    policy.enabled /\ effects[n].state = "failed" /\ Repair(effects[n]) /\ ~Authorized(effects[n])
StaleRepairIsReviewed == \A n \in Effects : StaleRepair(n) ~> ~StaleRepair(n)
=============================================================================
