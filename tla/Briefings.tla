------------------------------- MODULE Briefings -------------------------------
(***************************************************************************)
(* The briefings of one conversation: src/src/modules/briefings, the branch   *)
(* of the scheduler's tick that admits and recovers them, and the scheduled   *)
(* runs they belong to (ScheduledTasks).                                      *)
(*                                                                            *)
(* A briefing is a row, written before it is dispatched to Flue under its own *)
(* id.  It is admitted by the user or by the tick, one admission at a time;   *)
(* a tick recovers what is queued while the user's admission is under way.    *)
(* The end of a submission reaches its row through an observation in memory,  *)
(* or through the conversation's history when somebody reads it.              *)
(*                                                                            *)
(* Each action is one transaction or one call of Flue.  One process ticks     *)
(* (SchedulerTick has several).  The turns of the conversation take no order  *)
(* here.  Left out: the profile and its task's edits, the change of session,  *)
(* the snapshot and notifications.                                            *)
(***************************************************************************)
EXTENDS ScheduledTasks

CONSTANTS
    MaxBriefings,   \* bound: briefings created
    Commanded,      \* those the user asks for with a chat command, if the user does
    MaxFaults       \* bound: crashes and failed calls

Briefings == 1..MaxBriefings

ASSUME BriefingsAssumption ==
    /\ MaxBriefings \in Nat
    /\ Commanded \subseteq Briefings
    /\ MaxFaults \in Nat

VARIABLES
    briefings,  \* briefing_runs: status, whether dispatch_id is set, and the scheduled run
    commands,   \* the chat command event of each briefing of the user
    flue,       \* Flue's submission of each briefing
    pending,    \* what the process still has to do for a submission, lost in a crash:
                \* "observe" and "task" its two observers, "close" the rest of
                \* finalizeBriefingTerminal, "refuse" the failure told to the command
    early,      \* pendingBriefingTerminals, lost in a crash too
    admission,  \* admitBriefingLocked, and the run that it is for
    tick,       \* the tick of the scheduler
    faults

briefingVars == <<storeVars, briefings, commands, flue, pending, early, admission, tick, faults>>

Row == [status : {"none", "queued", "ready", "failed"}, bound : BOOLEAN, run : RunIds \cup {None}]
NoRow == [status |-> "none", bound |-> FALSE, run |-> None]
NoAdmission == [at |-> "idle", run |-> None, b |-> 0]
IdleTick == [at |-> "idle", rows |-> {}, todo |-> {}, run |-> None, b |-> 0]

BriefingsTypeOK ==
    /\ StoreTypeOK
    /\ briefings \in [Briefings -> Row]
    /\ commands \in [Briefings -> {"none", "open", "completed", "failed"}]
    /\ flue \in [Briefings -> {"none", "accepted", "working", "completed", "failed"}]
    /\ pending \subseteq {"observe", "task", "close", "refuse"} \X Briefings
    /\ early \subseteq Briefings
    /\ admission.at \in {"idle", "find", "resend", "reattach", "recall", "history", "check",
                         "create", "dispatch", "fail", "attach", "early"}
    /\ admission.run \in RunIds \cup {None}
    /\ admission.b \in 0..MaxBriefings
    /\ tick.at \in {"idle", "recover", "attach", "history", "early", "link", "begin", "await",
                    "activate", "defer", "error"}
    /\ tick.rows \subseteq Briefings \X BOOLEAN
    /\ tick.todo \subseteq RunIds
    /\ tick.run \in RunIds \cup {None}
    /\ tick.b \in 0..MaxBriefings
    /\ faults \in 0..MaxFaults

BriefingsInit ==
    /\ StoreInit
    /\ briefings = [b \in Briefings |-> NoRow]
    /\ commands = [b \in Briefings |-> "none"]
    /\ flue = [b \in Briefings |-> "none"]
    /\ pending = {}
    /\ early = {}
    /\ admission = NoAdmission
    /\ tick = IdleTick
    /\ faults = 0

Queued(b) == briefings[b].status = "queued"
Bound(b) == briefings[b].bound
Ended(b) == flue[b] \in {"completed", "failed"}

Unwritten == {b \in Briefings : briefings[b].status = "none"}

Active == {b \in Briefings : Queued(b)}
Oldest == CHOOSE b \in Active : \A c \in Active : b <= c

Fail == faults < MaxFaults /\ faults' = faults + 1
Admitting(stage) == admission.at = stage /\ UNCHANGED <<commands, tick>>
Proceed(stage) == admission' = [admission EXCEPT !.at = stage]
Ticking(stage) == tick.at = stage /\ UNCHANGED <<commands, admission>>
Step(stage) == tick' = [tick EXCEPT !.at = stage, !.b = IF stage = "recover" THEN 0 ELSE @]

----------------------------------------------------------------------------
(* What both admission and recovery are made of. *)

\* dispatch to Flue, which accepts an idempotency key once
Accepted(b) == IF flue[b] = "none" THEN [flue EXCEPT ![b] = "accepted"] ELSE flue

\* attachBriefingDispatch
Attach(b) == briefings' = IF Queued(b) THEN [briefings EXCEPT ![b].bound = TRUE] ELSE briefings

\* settleBriefingRun, within finalizeBriefingTerminal: whoever changed the row
\* goes on to close the submission, where a run or a command waits for it.
Closing(b) == IF briefings[b].run # None \/ commands[b] # "none" THEN {<<"close", b>>} ELSE {}
Settleable(b) == Queued(b) /\ Bound(b)
WithEnd(b) == [briefings EXCEPT ![b].status = IF flue[b] = "completed" THEN "ready" ELSE "failed"]
Settle(b) ==
    IF Settleable(b)
    THEN briefings' = WithEnd(b) /\ pending' = pending \cup Closing(b)
    ELSE UNCHANGED <<briefings, pending>>

\* reconcileBriefingSettlementFromHistory
SettleFromHistory(b) ==
    IF Ended(b) THEN Settle(b) ELSE UNCHANGED <<briefings, pending>>

\* reconcilePendingBriefingTerminal: a terminal is used once, if it is not too old.
SettleFromMemory(b) ==
    /\ early' = early \ {b}
    /\ \/ b \in early /\ Bound(b) /\ Settle(b)
       \/ UNCHANGED <<briefings, pending>>

----------------------------------------------------------------------------
(* The admission: admitBriefingLocked, for the user or for a run of the tick. *)

\* runBriefingNow
RunNow ==
    /\ admission.at = "idle"
    /\ Unwritten # {}
    /\ admission' = [NoAdmission EXCEPT !.at = "find"]
    /\ UNCHANGED <<storeVars, briefings, commands, flue, pending, early, tick, faults>>

\* The tick goes on with the outcome; the user's call returns it.
Return(outcome) ==
    /\ admission' = NoAdmission
    /\ tick' = IF admission.run = None THEN tick ELSE [tick EXCEPT !.at = outcome]

FindActive ==
    /\ Admitting("find")
    /\ admission' = IF Active = {} THEN [admission EXCEPT !.at = "create"]
                    ELSE [admission EXCEPT !.at = IF Bound(Oldest) THEN "history" ELSE "resend",
                                           !.b = Oldest]
    /\ UNCHANGED <<storeVars, briefings, flue, pending, early, faults>>

\* A queued briefing without a submission is dispatched once more.
Resend ==
    /\ admission.at = "resend"
    /\ \/ /\ flue' = Accepted(admission.b)
          /\ Proceed("reattach")
          /\ UNCHANGED <<tick, faults>>
       \/ flue' \in {flue, Accepted(admission.b)} /\ Fail /\ Return("error")
    /\ UNCHANGED <<storeVars, briefings, commands, pending, early>>

\* recordBriefingAdmission, which gives up after three attempts
Reattach ==
    /\ Admitting("reattach")
    /\ \/ /\ Attach(admission.b)
          /\ Proceed(IF admission.b \in early THEN "recall" ELSE "history")
          /\ UNCHANGED faults
       \/ UNCHANGED briefings /\ Proceed("check") /\ Fail
    /\ UNCHANGED <<storeVars, flue, pending, early>>

Recall ==
    /\ Admitting("recall")
    /\ SettleFromMemory(admission.b)
    /\ Proceed("history")
    /\ UNCHANGED <<storeVars, flue, faults>>

ReadHistory ==
    /\ Admitting("history")
    /\ \/ SettleFromHistory(admission.b) /\ UNCHANGED faults
       \/ UNCHANGED <<briefings, pending>> /\ Fail
    /\ Proceed("check")
    /\ UNCHANGED <<storeVars, flue, early>>

CheckActive ==
    /\ admission.at = "check"
    /\ IF Active # {} THEN Return("defer") /\ UNCHANGED early
       ELSE early' = early \ {admission.b} /\ Proceed("create") /\ UNCHANGED tick
    /\ UNCHANGED <<storeVars, briefings, commands, flue, pending, faults>>

\* createBriefingRun; a briefing past the bound is refused like one too many.
Create ==
    LET b == CHOOSE b \in Unwritten : \A c \in Unwritten : b <= c
    IN  /\ admission.at = "create"
        /\ IF Active # {} \/ Unwritten = {}
           THEN Return("defer") /\ UNCHANGED <<briefings, commands>>
           ELSE /\ briefings' = [briefings EXCEPT ![b] =
                       [status |-> "queued", bound |-> FALSE, run |-> admission.run]]
                /\ commands' = IF admission.run = None /\ b \in Commanded
                               THEN [commands EXCEPT ![b] = "open"] ELSE commands
                /\ admission' = [admission EXCEPT !.at = "dispatch", !.b = b]
                /\ UNCHANGED tick
        /\ UNCHANGED <<storeVars, flue, pending, early, faults>>

Dispatch ==
    /\ Admitting("dispatch")
    /\ \/ flue' = Accepted(admission.b) /\ Proceed("attach") /\ UNCHANGED faults
       \/ flue' \in {flue, Accepted(admission.b)} /\ Proceed("fail") /\ Fail
    /\ UNCHANGED <<storeVars, briefings, pending, early>>

\* failBriefingRunBeforeDispatch, of whatever has become of the row
FailBeforeDispatch ==
    /\ admission.at = "fail"
    /\ briefings' = [briefings EXCEPT ![admission.b].status = "failed"]
    /\ pending' = IF commands[admission.b] # "none" THEN pending \cup {<<"refuse", admission.b>>}
                  ELSE pending
    /\ Return("error")
    /\ UNCHANGED <<storeVars, commands, flue, early, faults>>

AttachNew ==
    /\ admission.at = "attach"
    /\ \/ /\ Attach(admission.b)
          /\ IF admission.b \in early THEN Proceed("early") /\ UNCHANGED tick ELSE Return("activate")
          /\ UNCHANGED faults
       \/ UNCHANGED briefings /\ Fail /\ Return("activate")
    /\ UNCHANGED <<storeVars, commands, flue, pending, early>>

UseEarly ==
    /\ admission.at = "early"
    /\ SettleFromMemory(admission.b)
    /\ Return("activate")
    /\ UNCHANGED <<storeVars, commands, flue, faults>>

AdmissionStep ==
    \/ FindActive \/ Resend \/ Reattach \/ Recall \/ ReadHistory \/ CheckActive
    \/ Create \/ Dispatch \/ FailBeforeDispatch \/ AttachNew \/ UseEarly

----------------------------------------------------------------------------
(* The tick: recoverInterruptedBriefingAdmissions over the rows as they were  *)
(* listed, ... *)

ListQueued ==
    /\ Ticking("idle")
    /\ tick' = [tick EXCEPT !.at = "recover", !.rows = {<<b, Bound(b)>> : b \in Active}]
    /\ UNCHANGED <<storeVars, briefings, flue, pending, early, faults>>

RecoverQueued ==
    /\ Ticking("recover")
    /\ \E row \in tick.rows :
          LET next(stage, b) == tick' = [tick EXCEPT !.at = stage, !.b = b, !.rows = @ \ {row}]
          IN  IF row[2] THEN next("history", row[1]) /\ UNCHANGED <<flue, faults>>
              ELSE \/ flue' = Accepted(row[1]) /\ next("attach", row[1]) /\ UNCHANGED faults
                   \/ flue' \in {flue, Accepted(row[1])} /\ next("recover", 0) /\ Fail
    /\ UNCHANGED <<storeVars, briefings, pending, early>>

AttachQueued ==
    /\ Ticking("attach")
    /\ \/ Attach(tick.b) /\ Step("history") /\ UNCHANGED faults
       \/ UNCHANGED briefings /\ Step("recover") /\ Fail
    /\ UNCHANGED <<storeVars, flue, pending, early>>

\* Mutant: a recovered briefing is left to the observations.
LeaveToObservation(b) == UNCHANGED <<briefings, pending>>
LearnEnd(b) == SettleFromHistory(b)

ReadQueuedHistory ==
    /\ Ticking("history")
    /\ \/ /\ LearnEnd(tick.b)
          /\ Step(IF tick.b \in early THEN "early" ELSE "recover")
          /\ UNCHANGED faults
       \/ UNCHANGED <<briefings, pending>> /\ Step("recover") /\ Fail
    /\ UNCHANGED <<storeVars, flue, early>>

RecallQueued ==
    /\ Ticking("early")
    /\ SettleFromMemory(tick.b)
    /\ Step("recover")
    /\ UNCHANGED <<storeVars, flue, faults>>

(* ... recoverScheduledBriefingSubmissions, ... *)

Recoverable(r) == Unsettled(r)

ListRuns ==
    /\ Ticking("recover")
    /\ tick.rows = {}
    /\ tick' = [tick EXCEPT !.at = "link", !.b = 0,
                            !.todo = {r \in RunIds : Recoverable(r)}]
    /\ UNCHANGED <<storeVars, briefings, flue, pending, early, faults>>

\* Mutant: whatever has a submission is linked as a success.
SettledAs(b) == "completed"
OutcomeOf(b) == IF briefings[b].status = "failed" THEN "failed" ELSE "completed"

\* activateScheduledTaskResultSubmission and settleScheduledTaskSubmission: a crash
\* between the two leaves what the next tick settles.
LinkedRun(r, b) ==
    IF ~Bound(b)
    THEN IF Claimed(r) /\ briefings[b].status = "failed" THEN "failed" ELSE runs[r].status
    ELSE IF Queued(b) THEN "active" ELSE OutcomeOf(b)

Link ==
    /\ Ticking("link")
    /\ \E r \in tick.todo :
          /\ tick' = [tick EXCEPT !.todo = @ \ {r}]
          /\ IF \E b \in Briefings : briefings[b].run = r
             THEN LET b == CHOOSE b \in Briefings : briefings[b].run = r
                  IN  /\ runs' = [runs EXCEPT ![r] =
                             IF Unsettled(r)
                             THEN [status |-> LinkedRun(r, b), submission |-> @.submission \/ Bound(b)]
                             ELSE @]
                      /\ tasks' = IF Unsettled(r) /\ LinkedRun(r, b) # "claimed"
                                  THEN ReturnClaim(r, tasks[taskOf[r]]) ELSE tasks
             ELSE UNCHANGED storeVars
    /\ UNCHANGED <<briefings, flue, pending, early, faults>>

(* ... and what is due. *)

ClaimTasks ==
    /\ Ticking("link")
    /\ tick.todo = {}
    /\ ClaimDue
    /\ tick' = [tick EXCEPT !.at = "begin", !.todo = NewRuns]
    /\ UNCHANGED <<briefings, flue, pending, early, faults>>

BeginRun ==
    /\ tick.at = "begin"
    /\ \E r \in tick.todo :
          LET next(stage) == tick' = [tick EXCEPT !.at = stage, !.run = r, !.todo = @ \ {r}]
          IN  IF admission.at = "idle"
              THEN /\ admission' = [at |-> "find", run |-> r, b |-> 0]
                   /\ next("await")
              ELSE next("defer") /\ UNCHANGED admission
    /\ UNCHANGED <<storeVars, briefings, commands, flue, pending, early, faults>>

\* A claim that lapsed meanwhile cannot be activated, and the run, given up
\* already, not failed.
ConcludeRun ==
    /\ UNCHANGED <<briefings, commands, flue, pending, early, admission, faults>>
    /\ tick' = [tick EXCEPT !.at = "begin", !.run = None]
    /\ \/ /\ tick.at = "activate"
          /\ IF Claimed(tick.run)
             THEN /\ runs' = [runs EXCEPT ![tick.run] = [status |-> "active", submission |-> TRUE]]
                  /\ tasks' = ReturnClaim(tick.run, tasks[taskOf[tick.run]])
             ELSE SettleRun(tick.run, "failed")
       \/ tick.at = "defer" /\ DeferClaim(tick.run)
       \/ tick.at = "error" /\ SettleRun(tick.run, "failed")

EndTick ==
    /\ Ticking("begin")
    /\ tick.todo = {}
    /\ tick' = IdleTick
    /\ UNCHANGED <<storeVars, briefings, flue, pending, early, faults>>

TickStep ==
    \/ ListQueued \/ RecoverQueued \/ AttachQueued \/ ReadQueuedHistory \/ RecallQueued
    \/ ListRuns \/ Link \/ ClaimTasks \/ BeginRun \/ ConcludeRun \/ EndTick

----------------------------------------------------------------------------
(* Flue, and what observes it. *)

Observers(b) == {<<"observe", b>>} \cup (IF briefings[b].run = None THEN {} ELSE {<<"task", b>>})

\* prepareBriefingAgentDelivery refuses a briefing that is no longer queued.
StartTurn(b) ==
    /\ flue[b] = "accepted"
    /\ flue' = [flue EXCEPT ![b] = IF Queued(b) THEN "working" ELSE "failed"]
    /\ pending' = IF Queued(b) THEN pending ELSE pending \cup Observers(b)
    /\ UNCHANGED <<storeVars, briefings, commands, early, admission, tick, faults>>

EndTurn(b) ==
    /\ flue[b] = "working"
    /\ \E outcome \in {"completed", "failed"} : flue' = [flue EXCEPT ![b] = outcome]
    /\ pending' = pending \cup Observers(b)
    /\ UNCHANGED <<storeVars, briefings, commands, early, admission, tick, faults>>

Turn(b) == StartTurn(b) \/ EndTurn(b)

Handled(call, b) == <<call, b>> \in pending /\ UNCHANGED <<flue, admission, tick, faults>>
Done(call, b) == pending' = pending \ {<<call, b>>}
SettlesRunOf(b) == IF briefings[b].run = None THEN UNCHANGED storeVars
                   ELSE SettleSubmission(briefings[b].run, flue[b])

\* settleBriefingObservation remembers the end of a submission it cannot place.
Observe(b) ==
    /\ Handled("observe", b)
    /\ IF Settleable(b)
       THEN /\ briefings' = WithEnd(b)
            /\ pending' = (pending \ {<<"observe", b>>}) \cup Closing(b)
            /\ UNCHANGED early
       ELSE /\ Done("observe", b)
            /\ early' = IF Bound(b) THEN early ELSE early \cup {b}
            /\ UNCHANGED briefings
    /\ UNCHANGED <<storeVars, commands>>

\* settleScheduledTaskSubmission, started beside the other by the same event
ObserveTask(b) ==
    /\ Handled("task", b)
    /\ SettlesRunOf(b)
    /\ Done("task", b)
    /\ UNCHANGED <<briefings, commands, early>>

\* A command that is completed or failed stays so.
Tell(b, status) == commands' = IF commands[b] = "open" THEN [commands EXCEPT ![b] = status]
                               ELSE commands

\* the rest of finalizeBriefingTerminal
Close(b) ==
    /\ Handled("close", b)
    /\ SettlesRunOf(b)
    /\ Tell(b, flue[b])
    /\ Done("close", b)
    /\ UNCHANGED <<briefings, early>>

\* the handler of the error in runBriefingNow
Refuse(b) ==
    /\ Handled("refuse", b)
    /\ Tell(b, "failed")
    /\ Done("refuse", b)
    /\ UNCHANGED <<storeVars, briefings, early>>

Handle(b) == Observe(b) \/ ObserveTask(b) \/ Close(b) \/ Refuse(b)

----------------------------------------------------------------------------
(* Time and faults. *)

\* Only the claim asks whether a task is due.
BecomesDue(t) ==
    /\ tick.at = "link"
    /\ tick.todo = {}
    /\ Unwritten # {}
    /\ Arrive(t)
    /\ UNCHANGED <<briefings, commands, flue, pending, early, admission, tick, faults>>

\* A claim that the tick has in hand is returned before anything asks whether it
\* has lapsed.
Made(r) == tick.at # "link" /\ r \in {tick.run} \cup tick.todo

ClaimLapses(t) ==
    /\ ~Made(tasks[t].claim)
    /\ Lapse(t)
    /\ UNCHANGED <<briefings, commands, flue, pending, early, admission, tick, faults>>

Crash ==
    /\ Fail
    /\ pending' = {}
    /\ early' = {}
    /\ admission' = NoAdmission
    /\ tick' = IdleTick
    /\ UNCHANGED <<storeVars, briefings, commands, flue>>

BriefingsNext ==
    \/ RunNow \/ AdmissionStep \/ TickStep
    \/ \E b \in Briefings : Turn(b) \/ Handle(b)
    \/ \E t \in Tasks : BecomesDue(t) \/ ClaimLapses(t)
    \/ Crash

BriefingsSpec == BriefingsInit /\ [][BriefingsNext]_briefingVars

\* The process that died is started again and ticks, its calls go on, Flue ends
\* what it accepted, and claims lapse.
BriefingsFairness ==
    /\ WF_briefingVars(TickStep)
    /\ WF_briefingVars(AdmissionStep)
    /\ \A b \in Briefings : WF_briefingVars(Turn(b)) /\ WF_briefingVars(Handle(b))
    /\ \A t \in Tasks : WF_briefingVars(ClaimLapses(t))

FairBriefingsSpec == BriefingsSpec /\ BriefingsFairness

----------------------------------------------------------------------------
(* Properties. *)

\* However the user's admission, the tick's and the recovery interleave, and
\* wherever they crash, a conversation has at most one briefing that is queued.
OneBriefing == \A b, c \in Active : b = c

\* A scheduled run ends as its briefing did, although the two are settled in
\* separate transactions, by two observers, by the next tick or by the next
\* admission.
RunTellsBriefing ==
    \A b \in Briefings :
        LET r == briefings[b].run
        IN  r # None /\ ~Queued(b) /\ runs[r].status \in Settled =>
                (runs[r].status = "completed" <=> briefings[b].status = "ready")

\* No briefing stays queued for ever, whatever crashed or failed on its way, and no
\* run that one was made for stays unsettled.
BriefingSettles ==
    /\ \A b \in Briefings : []<>~Queued(b)
    /\ \A r \in RunIds : []<>~Unsettled(r)

----------------------------------------------------------------------------
(* What the repository says of briefings and the code does not do. *)

\* A briefing with an attached submission is active until it settles, and "no
\* duplicate was submitted" beside it (src/src/modules/briefings/store.ts:63).
Live(b) == Bound(b) /\ flue[b] \in {"accepted", "working"}
OneSubmission == \A b, c \in Briefings : Live(b) /\ Live(c) => b = c

\* The end of a briefing of the user reaches the command it was asked with.
CommandSettles == \A b \in Briefings : commands[b] = "open" ~> commands[b] # "open"
=============================================================================
