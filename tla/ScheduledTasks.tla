--------------------------- MODULE ScheduledTasks ---------------------------
(***************************************************************************)
(* The scheduled tasks and their runs: the two tables that                  *)
(* src/src/modules/scheduled-tasks/store.ts changes, one operation per      *)
(* transaction.  Any process may issue any operation at any time;           *)
(* SchedulerTick adds the processes the program has.                        *)
(*                                                                          *)
(* Abstractions.  Time is not counted: next_run_at is null ("never"), in    *)
(* the future ("later") or reached ("now"), and a claim has lapsed when its *)
(* claim_expires_at is reached.  The claim id and the run id are created    *)
(* together and stand for each other.  A run that ended keeps why: settled  *)
(* by its own tick ("completed", "failed"), or given up ("expired",         *)
(* "released", "deferred", all three told apart by their messages).         *)
(***************************************************************************)
EXTENDS Naturals, FiniteSets

CONSTANTS
    Tasks,
    Instructions,   \* the run-agent-instruction tasks; the others run in the tick
    OneShots,       \* the tasks with a 'once' trigger
    RunIds,         \* bound: the runs that can be created,
    taskOf,         \* and the task of each
    None

ASSUME TasksAssumption ==
    /\ IsFiniteSet(Tasks)
    /\ Instructions \subseteq Tasks
    /\ OneShots \subseteq Tasks
    /\ IsFiniteSet(RunIds)
    /\ taskOf \in [RunIds -> Tasks]
    /\ None \notin RunIds

VARIABLES
    tasks,     \* scheduled_tasks, by id
    runs       \* scheduled_task_runs, by id

storeVars == <<tasks, runs>>

Settled == {"completed", "failed"}
GivenUp == {"expired", "released", "deferred"}
Terminal == Settled \cup GivenUp

Task == [exists  : BOOLEAN,
         enabled : BOOLEAN,
         due     : {"never", "later", "now"},
         claim   : RunIds \cup {None},
         lapsed  : BOOLEAN]
Run == [status     : {"absent", "claimed", "active", "deleted"} \cup Terminal,
        submission : BOOLEAN]
Absent == [status |-> "absent", submission |-> FALSE]

StoreTypeOK ==
    /\ tasks \in [Tasks -> Task]
    /\ runs \in [RunIds -> Run]

StoreInit ==
    /\ tasks = [t \in Tasks |->
                   [exists |-> TRUE, enabled |-> TRUE, due |-> "later",
                    claim |-> None, lapsed |-> FALSE]]
    /\ runs = [r \in RunIds |-> Absent]

----------------------------------------------------------------------------

Claimed(r) == runs[r].status = "claimed"
Running(r) == runs[r].status = "active"
Unsettled(r) == Claimed(r) \/ Running(r)
HoldsClaim(r) == tasks[taskOf[r]].claim = r

Unclaimed(task) == [task EXCEPT !.claim = None, !.lapsed = FALSE]
NextOccurrence(t) == IF t \in OneShots THEN "never" ELSE "later"

\* The updates are guarded by the run's status and the task's claim, each on
\* its own: a run that is not unsettled, or a claim that is another run's, is
\* left alone.
End(r, status) == IF Unsettled(r) THEN [runs EXCEPT ![r].status = status] ELSE runs
ReturnClaim(r, task) == IF HoldsClaim(r) THEN [tasks EXCEPT ![taskOf[r]] = Unclaimed(task)]
                                         ELSE tasks

----------------------------------------------------------------------------
(* claimDueScheduledTasks: one transaction that gives up what has lapsed,    *)
(* then claims whatever is due.                                              *)

Lapsed == {t \in Tasks : tasks[t].claim # None /\ tasks[t].lapsed}

\* Mutant: a claim that lapsed is cleared and nothing more.
ClaimCleared(t) == IF t \in Lapsed THEN Unclaimed(tasks[t]) ELSE tasks[t]

\* A one-shot whose claim lapsed gets its only occurrence back.
Freed(t) ==
    IF t \notin Lapsed THEN tasks[t]
    ELSE IF t \in OneShots
    THEN Unclaimed([tasks[t] EXCEPT !.enabled = TRUE, !.due = "now"])
    ELSE Unclaimed(tasks[t])

RunsOf(t) == {r \in RunIds : taskOf[r] = t}
Unused(t) == {r \in RunsOf(t) : runs[r].status = "absent"}
NewRun(t) == CHOOSE r \in Unused(t) : TRUE

Due == {t \in Tasks : /\ Freed(t).enabled
                      /\ Freed(t).due = "now"
                      /\ Freed(t).claim = None
                      /\ \A r \in RunsOf(t) : ~Running(r)
                      /\ Unused(t) # {}}
NewRuns == {NewRun(t) : t \in Due}

ClaimDue ==
    /\ tasks' = [t \in Tasks |->
                    IF t \in Due
                    THEN [Freed(t) EXCEPT !.enabled = t \notin OneShots,
                                          !.due = NextOccurrence(t),
                                          !.claim = NewRun(t)]
                    ELSE Freed(t)]
    /\ runs' = [r \in RunIds |->
                   IF r \in NewRuns THEN [Absent EXCEPT !.status = "claimed"]
                   ELSE IF Claimed(r) /\ taskOf[r] \in Lapsed
                   THEN [runs[r] EXCEPT !.status = "expired"]
                   ELSE runs[r]]

----------------------------------------------------------------------------
(* The fate of one claim. *)

\* releaseUnstartedScheduledTaskClaim restores the task as the claim found it.
ReleaseClaim(r) ==
    /\ runs' = End(r, "released")
    /\ tasks' = ReturnClaim(r, [tasks[taskOf[r]] EXCEPT !.enabled = TRUE, !.due = "now"])

\* deferUnstartedScheduledTaskClaim
DeferClaim(r) ==
    /\ runs' = End(r, "deferred")
    /\ tasks' = ReturnClaim(r, [tasks[taskOf[r]] EXCEPT !.enabled = TRUE, !.due = "later"])

\* canAdmitScheduledSubmission
CanAdmit(r, limit) ==
    /\ \A s \in RunsOf(taskOf[r]) : ~Running(s)
    /\ Cardinality({s \in RunIds : Running(s)}) < limit

\* Mutant: a claim that lapsed may still be activated.
Exists(r) == runs[r].status \notin {"absent", "deleted"}
Activatable(r) == Claimed(r)

\* activateScheduledTaskSubmission
ActivateSubmission(r) ==
    /\ Activatable(r)
    /\ runs' = [runs EXCEPT ![r].status = "active"]
    /\ tasks' = ReturnClaim(r, tasks[taskOf[r]])

\* attachScheduledTaskSubmissionId
AttachSubmission(r) ==
    /\ runs' = IF Running(r) THEN [runs EXCEPT ![r].submission = TRUE] ELSE runs
    /\ UNCHANGED tasks

\* settleScheduledTaskSubmission
SettleSubmission(r, status) ==
    /\ runs' = IF Running(r) /\ runs[r].submission
               THEN [runs EXCEPT ![r].status = status]
               ELSE runs
    /\ UNCHANGED tasks

\* Mutant: a late settlement rewrites a run that was given up.
AlwaysSettles(r) == Exists(r)
Settles(r) == Unsettled(r)

\* settleScheduledTaskRun
SettleRun(r, status) ==
    IF Settles(r)
    THEN /\ runs' = [runs EXCEPT ![r].status = status]
         /\ tasks' = ReturnClaim(r, tasks[taskOf[r]])
    ELSE UNCHANGED storeVars

----------------------------------------------------------------------------
(* The operator, and time. *)

\* setScheduledTaskEnabled
Pause(t) ==
    /\ tasks[t].exists
    /\ tasks[t].enabled
    /\ tasks' = [tasks EXCEPT ![t].enabled = FALSE]
    /\ UNCHANGED runs

Resume(t) ==
    LET resumeAt == IF tasks[t].due = "later" THEN "later" ELSE NextOccurrence(t)
    IN  /\ tasks[t].exists
        /\ ~tasks[t].enabled
        /\ tasks' = [tasks EXCEPT ![t].enabled = t \in OneShots => resumeAt # "never",
                                  ![t].due = resumeAt]
        /\ UNCHANGED runs

\* Mutant: the runs of a deleted task are kept.
RunsKept(t) == runs

\* deleteScheduledTask
RunsWithout(t) == [r \in RunIds |->
                      IF taskOf[r] = t THEN [Absent EXCEPT !.status = "deleted"] ELSE runs[r]]
Delete(t) ==
    /\ tasks[t].exists
    /\ tasks' = [tasks EXCEPT ![t] = [exists |-> FALSE, enabled |-> FALSE, due |-> "never",
                                      claim |-> None, lapsed |-> FALSE]]
    /\ runs' = RunsWithout(t)

Arrive(t) ==
    /\ tasks[t].due = "later"
    /\ tasks' = [tasks EXCEPT ![t].due = "now"]
    /\ UNCHANGED runs

Lapse(t) ==
    /\ tasks[t].claim # None
    /\ ~tasks[t].lapsed
    /\ tasks' = [tasks EXCEPT ![t].lapsed = TRUE]
    /\ UNCHANGED runs

RunStep(r) ==
    \/ ReleaseClaim(r)
    \/ DeferClaim(r)
    \/ ActivateSubmission(r)
    \/ AttachSubmission(r)
    \/ \E status \in Settled : SettleSubmission(r, status) \/ SettleRun(r, status)

StoreNext ==
    \/ ClaimDue
    \/ \E r \in RunIds : RunStep(r)
    \/ \E t \in Tasks : Pause(t) \/ Resume(t) \/ Delete(t) \/ Arrive(t) \/ Lapse(t)

StoreSpec == StoreInit /\ [][StoreNext]_storeVars

----------------------------------------------------------------------------
(* Properties. *)

\* However many processes tick, with whatever stale claims in hand, a task has
\* at most one run that is claimed or active, and a task that is claimed is
\* claimed for that run.
OneUnsettledRun ==
    /\ \A t \in Tasks : \A r, s \in RunsOf(t) : Unsettled(r) /\ Unsettled(s) => r = s
    /\ \A r \in RunIds : Claimed(r) <=> HoldsClaim(r)

\* A run that ended keeps its end: no late settlement, by a tick that lost its
\* claim or by a submission observed twice, rewrites it.
TerminalRunsStay ==
    [][\A r \in RunIds :
          runs[r].status \in Terminal =>
              runs'[r].status \in {runs[r].status, "deleted"}]_storeVars

=============================================================================
