--------------------------- MODULE MCSchedulerTick ---------------------------
(* Small instances of SchedulerTick.  A reminder runs once and a digest       *)
(* recurs, both as instructions to a session; a sweep recurs inside the tick. *)
EXTENDS SchedulerTick, TLC

Once == {"reminder"}
Peers == Permutations(Processes)

\* For the safety properties: a reminder that can be claimed twice, and a digest;
\* the operator pauses, resumes and deletes both.
SubmittedTasks == {"reminder", "digest"}
TwoReminders == {<<"reminder", 1>>, <<"reminder", 2>>, <<"digest", 1>>}
TaskOfTwo == [r \in TwoReminders |-> r[1]]

\* For the liveness properties: one run more than there are faults, and a sweep.
OnceAndSweep == {"reminder", "sweep"}
CarriedRuns == (Once \X (1..3)) \cup {<<"sweep", 1>>}
TaskOfCarried == [r \in CarriedRuns |-> r[1]]

\* "Pause a scheduled task without deleting its run history"
\* (src/src/modules/scheduled-tasks/actions.ts:65): once paused, a recurring
\* task is enabled again by resuming it and by nothing else.
PauseSticks ==
    [][\A t \in Tasks \ OneShots :
          tasks[t].exists /\ ~tasks[t].enabled /\ tasks'[t].enabled => Resume(t)]_schedulerVars
=============================================================================
