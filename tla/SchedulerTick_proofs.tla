------------------------- MODULE SchedulerTick_proofs -------------------------
(***************************************************************************)
(* Proofs about scheduled tasks, for any tasks, runs, processes and faults.  *)
(* First the store, whoever issues its transactions and in any order: its    *)
(* type, the exclusion of unsettled runs and the finality of ended ones.     *)
(* Then the ticks: their type, that they use the store as ScheduledTasks     *)
(* allows, and that no accepted submission is forgotten.                     *)
(***************************************************************************)
EXTENDS SchedulerTick, TLAPS

-----------------------------------------------------------------------------
(* The store. *)

StoreInv == StoreTypeOK /\ OneUnsettledRun

\* A run is created for a task that is due, and was never used before.
LEMMA NewRunIsFresh ==
    ASSUME NEW t \in Due
    PROVE  /\ NewRun(t) \in RunIds
           /\ taskOf[NewRun(t)] = t
           /\ runs[NewRun(t)].status = "absent"
  <1>1. Unused(t) # {}
    BY DEF Due
  <1>2. NewRun(t) \in Unused(t)
    BY <1>1 DEF NewRun
  <1> QED
    BY <1>2 DEF Unused, RunsOf

\* The type of a task that a lapsed claim returns.
LEMMA FreedIsTask ==
    ASSUME StoreTypeOK, NEW t \in Tasks
    PROVE  /\ Freed(t) \in Task
           /\ Freed(t).claim = (IF t \in Lapsed THEN None ELSE tasks[t].claim)
           /\ Freed(t).exists = tasks[t].exists
  BY DEF StoreTypeOK, Freed, Unclaimed, Task

\* Whatever the run's claim is returned as, only its own task changes.
LEMMA ReturnClaimType ==
    ASSUME StoreTypeOK, NEW r \in RunIds, NEW task \in Task
    PROVE  ReturnClaim(r, task) \in [Tasks -> Task]
  BY TasksAssumption DEF StoreTypeOK, TasksAssumption, ReturnClaim, Unclaimed, Task

LEMMA EndType ==
    ASSUME StoreTypeOK, NEW r \in RunIds, NEW status \in Terminal
    PROVE  End(r, status) \in [RunIds -> Run]
  BY DEF StoreTypeOK, End, Run

-----------------------------------------------------------------------------
(* Type correctness. *)

LEMMA InitType == StoreInit => StoreTypeOK
  BY DEF StoreInit, StoreTypeOK, Task, Run, Absent

LEMMA ClaimDueType ==
    ASSUME StoreTypeOK, ClaimDue
    PROVE  StoreTypeOK'
  <1>1. ASSUME NEW t \in Tasks PROVE tasks'[t] \in Task
    <2>1. CASE t \in Due
      <3>1. tasks'[t] = [Freed(t) EXCEPT !.enabled = t \notin OneShots,
                                         !.due = NextOccurrence(t),
                                         !.claim = NewRun(t)]
        BY <2>1 DEF ClaimDue
      <3> QED
        BY <3>1, <2>1, FreedIsTask, NewRunIsFresh DEF Task, NextOccurrence
    <2>2. CASE t \notin Due
      BY <2>2, FreedIsTask DEF ClaimDue
    <2> QED
      BY <2>1, <2>2
  <1>2. ASSUME NEW r \in RunIds PROVE runs'[r] \in Run
    BY DEF ClaimDue, StoreTypeOK, Run, Absent, Terminal, GivenUp, Settled
  <1> QED
    BY <1>1, <1>2 DEF ClaimDue, StoreTypeOK

LEMMA RunStepType ==
    ASSUME StoreTypeOK, NEW r \in RunIds, RunStep(r)
    PROVE  StoreTypeOK'
  <1> DEFINE task == tasks[taskOf[r]]
  <1>1. task \in Task
    BY TasksAssumption DEF StoreTypeOK, TasksAssumption
  <1>2. CASE ReleaseClaim(r)
    <2>1. [task EXCEPT !.enabled = TRUE, !.due = "now"] \in Task
      BY <1>1 DEF Task
    <2> QED
      BY <1>2, <2>1, EndType, ReturnClaimType DEF ReleaseClaim, StoreTypeOK, Terminal, GivenUp
  <1>3. CASE DeferClaim(r)
    <2>1. [task EXCEPT !.enabled = TRUE, !.due = "later"] \in Task
      BY <1>1 DEF Task
    <2> QED
      BY <1>3, <2>1, EndType, ReturnClaimType DEF DeferClaim, StoreTypeOK, Terminal, GivenUp
  <1>4. CASE ActivateSubmission(r)
    BY <1>4, <1>1, ReturnClaimType DEF ActivateSubmission, StoreTypeOK, Run
  <1>5. CASE AttachSubmission(r)
    BY <1>5 DEF AttachSubmission, StoreTypeOK, Run
  <1>6. ASSUME NEW status \in Settled, SettleSubmission(r, status)
        PROVE  StoreTypeOK'
    BY <1>6 DEF SettleSubmission, StoreTypeOK, Run, Terminal
  <1>7. ASSUME NEW status \in Settled, SettleRun(r, status)
        PROVE  StoreTypeOK'
    <2>1. CASE Settles(r)
      <3>1. status \in Terminal
        BY DEF Terminal
      <3>2. /\ runs' = [runs EXCEPT ![r].status = status]
            /\ tasks' = ReturnClaim(r, task)
        BY <1>7, <2>1 DEF SettleRun
      <3>3. tasks' \in [Tasks -> Task]
        BY <3>2, <1>1, ReturnClaimType
      <3> QED
        BY <3>1, <3>2, <3>3 DEF StoreTypeOK, Run
    <2>2. CASE ~Settles(r)
      BY <1>7, <2>2 DEF SettleRun, StoreTypeOK, storeVars
    <2> QED
      BY <2>1, <2>2
  <1> QED
    BY <1>2, <1>3, <1>4, <1>5, <1>6, <1>7 DEF RunStep

LEMMA TaskStepType ==
    ASSUME StoreTypeOK, NEW t \in Tasks,
           Pause(t) \/ Resume(t) \/ Delete(t) \/ Arrive(t) \/ Lapse(t)
    PROVE  StoreTypeOK'
  <1>1. CASE Pause(t)
    BY <1>1 DEF Pause, StoreTypeOK, Task
  <1>2. CASE Resume(t)
    <2> DEFINE resumeAt == IF tasks[t].due = "later" THEN "later" ELSE NextOccurrence(t)
    <2>1. resumeAt \in {"never", "later", "now"}
      BY DEF NextOccurrence
    <2>2. (t \in OneShots => resumeAt # "never") \in BOOLEAN
      OBVIOUS
    <2>3. /\ tasks' = [tasks EXCEPT ![t].enabled = t \in OneShots => resumeAt # "never",
                                    ![t].due = resumeAt]
          /\ UNCHANGED runs
      BY <1>2 DEF Resume
    <2> HIDE DEF resumeAt
    <2>4. tasks'[t] = [tasks[t] EXCEPT !.enabled = t \in OneShots => resumeAt # "never",
                                       !.due = resumeAt]
      BY <2>3 DEF StoreTypeOK
    <2>5. tasks'[t] \in Task
      BY <2>1, <2>2, <2>4 DEF StoreTypeOK, Task
    <2> QED
      BY <2>3, <2>5 DEF StoreTypeOK
  <1>3. CASE Delete(t)
    BY <1>3 DEF Delete, RunsWithout, StoreTypeOK, Task, Run, Absent
  <1>4. CASE Arrive(t)
    BY <1>4 DEF Arrive, StoreTypeOK, Task
  <1>5. CASE Lapse(t)
    BY <1>5 DEF Lapse, StoreTypeOK, Task
  <1> QED
    BY <1>1, <1>2, <1>3, <1>4, <1>5

LEMMA StoreType ==
    ASSUME StoreTypeOK, [StoreNext]_storeVars
    PROVE  StoreTypeOK'
  <1>1. CASE UNCHANGED storeVars
    BY <1>1 DEF storeVars, StoreTypeOK
  <1>2. CASE StoreNext
    BY <1>2, ClaimDueType, RunStepType, TaskStepType DEF StoreNext
  <1> QED
    BY <1>1, <1>2

\* The store's type is an invariant, for any tasks and runs.
THEOREM StoreTypeCorrect == StoreSpec => []StoreTypeOK
  <1> QED
    BY InitType, StoreType, PTL DEF StoreSpec

-----------------------------------------------------------------------------
(* One unsettled run of a task.  The invariant is inductive as it stands: a  *)
(* task that is due has no active run, and its claimed runs are exactly the  *)
(* holder of the claim, which ClaimDue has just given up.                    *)

LEMMA InitUnsettled == TasksAssumption /\ StoreInit => OneUnsettledRun
  BY DEF TasksAssumption, StoreInit, OneUnsettledRun, Unsettled, Claimed, Running, HoldsClaim,
         Absent, RunsOf

LEMMA ClaimDueUnsettled ==
    ASSUME StoreInv, ClaimDue
    PROVE  OneUnsettledRun'
  <1> USE TasksAssumption DEF TasksAssumption, StoreInv
  <1>1. ASSUME NEW r \in RunIds, r \in NewRuns
        PROVE  /\ taskOf[r] \in Due
               /\ r = NewRun(taskOf[r])
    BY <1>1, NewRunIsFresh DEF NewRuns
  <1>2. ASSUME NEW r \in RunIds, r \notin NewRuns
        PROVE  runs'[r].status = (IF Claimed(r) /\ taskOf[r] \in Lapsed THEN "expired"
                                                                        ELSE runs[r].status)
    BY <1>2 DEF ClaimDue, StoreTypeOK, Run
  <1>3. ASSUME NEW r \in RunIds, r \in NewRuns
        PROVE  Claimed(r)'
    BY <1>3 DEF ClaimDue, Claimed, Absent
  <1>4. ASSUME NEW r \in RunIds, r \notin NewRuns, taskOf[r] \in Due
        PROVE  ~Unsettled(r)'
    <2>1. ~Running(r)
      BY <1>4 DEF Due, RunsOf
    <2>2. ASSUME Claimed(r) PROVE taskOf[r] \in Lapsed
      <3>1. tasks[taskOf[r]].claim = r /\ Freed(taskOf[r]).claim = None
        BY <2>2, <1>4 DEF OneUnsettledRun, HoldsClaim, Due
      <3> QED
        BY <3>1, FreedIsTask
    <2> QED
      BY <1>2, <1>4, <2>1, <2>2 DEF Unsettled, Claimed, Running
  <1>5. ASSUME NEW t \in Tasks
        PROVE  tasks'[t].claim = (IF t \in Due THEN NewRun(t) ELSE Freed(t).claim)
    BY FreedIsTask DEF ClaimDue, Task
  <1>6. ASSUME NEW t \in Tasks, NEW r \in RunsOf(t), NEW s \in RunsOf(t),
               Unsettled(r)', Unsettled(s)'
        PROVE  r = s
    <2>1. CASE t \in Due
      BY <1>1, <1>4, <1>6, <2>1 DEF RunsOf
    <2>2. CASE t \notin Due
      BY <1>1, <1>2, <1>6, <2>2 DEF RunsOf, Unsettled, Claimed, Running, OneUnsettledRun
    <2> QED
      BY <2>1, <2>2
  <1>7. ASSUME NEW r \in RunIds
        PROVE  (Claimed(r) <=> HoldsClaim(r))'
    <2>1. CASE r \in NewRuns
      BY <1>1, <1>3, <1>5, <2>1 DEF HoldsClaim
    <2>2. CASE r \notin NewRuns /\ taskOf[r] \in Due
      BY <1>4, <1>5, <2>2 DEF HoldsClaim, NewRuns, Unsettled
    <2>3. CASE taskOf[r] \notin Due
      <3>1. r \notin NewRuns
        BY <1>1, <2>3
      <3>2. tasks'[taskOf[r]].claim = (IF taskOf[r] \in Lapsed THEN None
                                                               ELSE tasks[taskOf[r]].claim)
        BY <1>5, <2>3, FreedIsTask
      <3> QED
        BY <1>2, <3>1, <3>2 DEF HoldsClaim, Claimed, OneUnsettledRun
    <2> QED
      BY <2>1, <2>2, <2>3
  <1> QED
    BY <1>6, <1>7 DEF OneUnsettledRun, RunsOf

\* A step that ends or keeps one run, and takes the claim from it alone.
LEMMA OneRunEnds ==
    ASSUME StoreInv, NEW r \in RunIds,
           \A s \in RunIds \ {r} : runs'[s].status = runs[s].status,
           \A t \in Tasks : tasks'[t].claim = (IF t = taskOf[r] /\ HoldsClaim(r)
                                               THEN None ELSE tasks[t].claim),
           runs'[r].status # "claimed",
           runs'[r].status = "active" => Unsettled(r)
    PROVE  OneUnsettledRun'
  BY TasksAssumption DEF TasksAssumption, StoreInv, OneUnsettledRun, RunsOf, Unsettled, Claimed,
     Running, HoldsClaim

\* The claims that ReturnClaim leaves, and the runs that End leaves.
LEMMA ReturnedClaims ==
    ASSUME StoreTypeOK, NEW r \in RunIds, NEW task \in Task,
           task.claim = tasks[taskOf[r]].claim,
           tasks' = ReturnClaim(r, task), NEW t \in Tasks
    PROVE  tasks'[t].claim = (IF t = taskOf[r] /\ HoldsClaim(r) THEN None ELSE tasks[t].claim)
  BY TasksAssumption DEF TasksAssumption, ReturnClaim, Unclaimed, StoreTypeOK, Task

LEMMA EndedRuns ==
    ASSUME StoreTypeOK, NEW r \in RunIds, NEW status, runs' = End(r, status)
    PROVE  /\ \A s \in RunIds \ {r} : runs'[s] = runs[s]
           /\ runs'[r].status = (IF Unsettled(r) THEN status ELSE runs[r].status)
  BY DEF End, StoreTypeOK, Run

LEMMA RunStepUnsettled ==
    ASSUME StoreInv, NEW r \in RunIds, RunStep(r)
    PROVE  OneUnsettledRun'
  <1> USE TasksAssumption DEF TasksAssumption
  <1> DEFINE task == tasks[taskOf[r]]
  <1>1. StoreTypeOK /\ OneUnsettledRun /\ task \in Task
    BY DEF StoreInv, StoreTypeOK
  <1>2. CASE ReleaseClaim(r)
    <2> DEFINE restored == [task EXCEPT !.enabled = TRUE, !.due = "now"]
    <2>1. restored \in Task /\ restored.claim = task.claim
      BY <1>1 DEF Task
    <2>2. runs' = End(r, "released") /\ tasks' = ReturnClaim(r, restored)
      BY <1>2 DEF ReleaseClaim
    <2> HIDE DEF restored
    <2> QED
      BY <1>1, <2>1, <2>2, EndedRuns, ReturnedClaims, OneRunEnds
      DEF Unsettled, Claimed, Running
  <1>3. CASE DeferClaim(r)
    <2> DEFINE restored == [task EXCEPT !.enabled = TRUE, !.due = "later"]
    <2>1. restored \in Task /\ restored.claim = task.claim
      BY <1>1 DEF Task
    <2>2. runs' = End(r, "deferred") /\ tasks' = ReturnClaim(r, restored)
      BY <1>3 DEF DeferClaim
    <2> HIDE DEF restored
    <2> QED
      BY <1>1, <2>1, <2>2, EndedRuns, ReturnedClaims, OneRunEnds
      DEF Unsettled, Claimed, Running
  <1>4. CASE ActivateSubmission(r)
    <2>1. Claimed(r) /\ runs' = [runs EXCEPT ![r].status = "active"]
      BY <1>4 DEF ActivateSubmission, Activatable
    <2>2. /\ \A s \in RunIds \ {r} : runs'[s].status = runs[s].status
          /\ runs'[r].status = "active"
      BY <1>1, <2>1 DEF StoreTypeOK, Run
    <2> QED
      BY <1>1, <1>4, <2>1, <2>2, ReturnedClaims, OneRunEnds DEF ActivateSubmission, Unsettled
  <1>5. CASE AttachSubmission(r)
    <2>1. \A s \in RunIds : runs'[s].status = runs[s].status
      BY <1>1, <1>5 DEF AttachSubmission, StoreTypeOK, Run
    <2> QED
      BY <1>1, <1>5, <2>1
      DEF AttachSubmission, OneUnsettledRun, RunsOf, Unsettled, Claimed, Running, HoldsClaim
  <1>6. ASSUME NEW status \in Settled, SettleSubmission(r, status)
        PROVE  OneUnsettledRun'
    <2>1. CASE Running(r) /\ runs[r].submission
      <3>1. /\ \A s \in RunIds \ {r} : runs'[s] = runs[s]
            /\ runs'[r].status = status
            /\ UNCHANGED tasks
        BY <1>1, <1>6, <2>1 DEF SettleSubmission, StoreTypeOK, Run
      <3>2. ~HoldsClaim(r)
        BY <1>1, <2>1 DEF OneUnsettledRun, Claimed, Running
      <3> QED
        BY <1>6, <3>1, <3>2, OneRunEnds DEF Settled
    <2>2. CASE ~(Running(r) /\ runs[r].submission)
      BY <1>1, <1>6, <2>2
      DEF SettleSubmission, OneUnsettledRun, Unsettled, Claimed, Running, HoldsClaim
    <2> QED
      BY <2>1, <2>2
  <1>7. ASSUME NEW status \in Settled, SettleRun(r, status)
        PROVE  OneUnsettledRun'
    <2>1. CASE Settles(r)
      <3>1. /\ runs' = [runs EXCEPT ![r].status = status]
            /\ tasks' = ReturnClaim(r, task)
        BY <1>7, <2>1 DEF SettleRun
      <3>2. /\ \A s \in RunIds \ {r} : runs'[s].status = runs[s].status
            /\ runs'[r].status = status
        BY <1>1, <3>1 DEF StoreTypeOK, Run
      <3> QED
        BY <1>1, <1>7, <3>1, <3>2, ReturnedClaims, OneRunEnds DEF Settled
    <2>2. CASE ~Settles(r)
      BY <1>1, <1>7, <2>2
      DEF SettleRun, storeVars, OneUnsettledRun, Unsettled, Claimed, Running, HoldsClaim
    <2> QED
      BY <2>1, <2>2
  <1> QED
    BY <1>2, <1>3, <1>4, <1>5, <1>6, <1>7 DEF RunStep

LEMMA TaskStepUnsettled ==
    ASSUME StoreInv, NEW t \in Tasks,
           Pause(t) \/ Resume(t) \/ Delete(t) \/ Arrive(t) \/ Lapse(t)
    PROVE  OneUnsettledRun'
  <1> USE TasksAssumption DEF TasksAssumption, StoreInv
  <1>1. CASE Delete(t)
    <2>1. \A u \in Tasks : tasks'[u].claim = (IF u = t THEN None ELSE tasks[u].claim)
      BY <1>1 DEF Delete, StoreTypeOK
    <2>2. \A r \in RunIds :
             runs'[r].status = (IF taskOf[r] = t THEN "deleted" ELSE runs[r].status)
      BY <1>1 DEF Delete, RunsWithout, Absent
    <2> QED
      BY <2>1, <2>2 DEF OneUnsettledRun, RunsOf, Unsettled, Claimed, Running, HoldsClaim
  <1>2. ASSUME UNCHANGED runs, \A u \in Tasks : tasks'[u].claim = tasks[u].claim
        PROVE  OneUnsettledRun'
    BY <1>2 DEF OneUnsettledRun, RunsOf, Unsettled, Claimed, Running, HoldsClaim
  <1>3. CASE Pause(t)
    BY <1>2, <1>3 DEF Pause, StoreTypeOK, Task
  <1>4. CASE Resume(t)
    BY <1>2, <1>4 DEF Resume, StoreTypeOK, Task
  <1>5. CASE Arrive(t)
    BY <1>2, <1>5 DEF Arrive, StoreTypeOK, Task
  <1>6. CASE Lapse(t)
    BY <1>2, <1>6 DEF Lapse, StoreTypeOK, Task
  <1> QED
    BY <1>1, <1>3, <1>4, <1>5, <1>6

LEMMA StoreInvStep ==
    ASSUME StoreInv, [StoreNext]_storeVars
    PROVE  StoreInv'
  <1>1. StoreTypeOK'
    BY StoreType DEF StoreInv
  <1>2. ASSUME UNCHANGED storeVars PROVE OneUnsettledRun'
    BY <1>2 DEF storeVars, StoreInv, OneUnsettledRun, RunsOf, Unsettled, Claimed, Running,
                HoldsClaim
  <1>3. ASSUME StoreNext PROVE OneUnsettledRun'
    BY <1>3, ClaimDueUnsettled, RunStepUnsettled, TaskStepUnsettled DEF StoreNext
  <1> QED
    BY <1>1, <1>2, <1>3 DEF StoreInv

\* A task has at most one run that is claimed or active, and a claimed task is
\* claimed for that run, whatever the order of the store's transactions.
THEOREM Exclusion == StoreSpec => []OneUnsettledRun
  <1>1. StoreInit => StoreInv
    BY TasksAssumption, InitType, InitUnsettled DEF StoreInv
  <1>2. StoreInv => OneUnsettledRun
    BY DEF StoreInv
  <1> QED
    BY <1>1, <1>2, StoreInvStep, PTL DEF StoreSpec

-----------------------------------------------------------------------------
(* Runs that ended. *)

TerminalKept ==
    \A r \in RunIds :
        runs[r].status \in Terminal => runs'[r].status \in {runs[r].status, "deleted"}

LEMMA TerminalStep ==
    ASSUME StoreTypeOK, [StoreNext]_storeVars
    PROVE  TerminalKept
  <1> USE TasksAssumption DEF TasksAssumption
  <1> SUFFICES ASSUME NEW s \in RunIds, runs[s].status \in Terminal
               PROVE  runs'[s].status \in {runs[s].status, "deleted"}
    BY DEF TerminalKept
  <1>1. ~Unsettled(s) /\ runs[s].status # "absent"
    BY DEF Terminal, Settled, GivenUp, Unsettled, Claimed, Running
  <1>2. CASE UNCHANGED storeVars
    BY <1>2 DEF storeVars
  <1>3. CASE ClaimDue
    <2>1. s \notin NewRuns
      BY <1>1, NewRunIsFresh DEF NewRuns
    <2> QED
      BY <1>1, <1>3, <2>1 DEF ClaimDue, Unsettled
  <1>4. ASSUME NEW r \in RunIds, RunStep(r)
        PROVE  runs'[s].status = runs[s].status
    <2>1. CASE ReleaseClaim(r)
      BY <1>1, <2>1, EndedRuns DEF ReleaseClaim
    <2>2. CASE DeferClaim(r)
      BY <1>1, <2>2, EndedRuns DEF DeferClaim
    <2>3. CASE ActivateSubmission(r)
      BY <1>1, <2>3 DEF ActivateSubmission, Activatable, Unsettled, StoreTypeOK
    <2>4. CASE AttachSubmission(r)
      BY <2>4 DEF AttachSubmission, StoreTypeOK, Run
    <2>5. ASSUME NEW status \in Settled, SettleSubmission(r, status)
          PROVE  runs'[s].status = runs[s].status
      BY <1>1, <2>5 DEF SettleSubmission, Unsettled, StoreTypeOK
    <2>6. ASSUME NEW status \in Settled, SettleRun(r, status)
          PROVE  runs'[s].status = runs[s].status
      BY <1>1, <2>6 DEF SettleRun, Settles, StoreTypeOK, storeVars
    <2> QED
      BY <1>4, <2>1, <2>2, <2>3, <2>4, <2>5, <2>6 DEF RunStep
  <1>5. ASSUME NEW t \in Tasks, Pause(t) \/ Resume(t) \/ Arrive(t) \/ Lapse(t)
        PROVE  runs'[s].status = runs[s].status
    BY <1>5 DEF Pause, Resume, Arrive, Lapse
  <1>6. ASSUME NEW t \in Tasks, Delete(t)
        PROVE  runs'[s].status \in {runs[s].status, "deleted"}
    BY <1>6 DEF Delete, RunsWithout, Absent
  <1> QED
    BY <1>2, <1>3, <1>4, <1>5, <1>6 DEF StoreNext

\* A run that was settled, expired, released or deferred keeps its end, until
\* its task is deleted.
THEOREM EndsAreKept == StoreSpec => TerminalRunsStay
  <1>1. ASSUME StoreTypeOK, [StoreNext]_storeVars
        PROVE  [TerminalKept]_storeVars
    BY <1>1, TerminalStep
  <1>2. StoreSpec => [][TerminalKept]_storeVars
    BY <1>1, StoreTypeCorrect, PTL DEF StoreSpec
  <1> QED
    BY <1>2 DEF TerminalRunsStay, TerminalKept

-----------------------------------------------------------------------------
(* The ticks. *)

\* A tick at a stage, with or without a run in hand.
TickType == [at   : Stages,
             run  : RunIds \cup {None},
             todo : SUBSET RunIds,
             back : {"recover", "loop"}]
TickOK(tick) == tick \in TickType /\ (tick.at \in WithRun <=> tick.run # None)

LEMMA SchedulerInitType == SchedulerInit => SchedulerTypeOK
  <1> SUFFICES ASSUME SchedulerInit PROVE SchedulerTypeOK
    OBVIOUS
  <1> USE TicksAssumption, TasksAssumption DEF TicksAssumption, TasksAssumption
  <1>1. StoreTypeOK
    BY InitType DEF SchedulerInit
  <1>2. \A p \in Processes : TickOK(ticks[p])
    BY DEF SchedulerInit, Idle, TickOK, TickType, Stages, WithRun
  <1> QED
    BY <1>1, <1>2 DEF SchedulerInit, SchedulerTypeOK, NoLease, Idle, Stages, TickOK, TickType

LEMMA ClaimDueTicks ==
    ASSUME NEW r \in NewRuns
    PROVE  r \in RunIds
  BY NewRunIsFresh DEF NewRuns

\* The steps of a tick leave it a tick.
LEMMA TickSteps ==
    ASSUME SchedulerTypeOK, NEW p \in Processes, Tick(p)
    PROVE  \A q \in Processes : TickOK(ticks'[q])
  <1> USE TasksAssumption, TicksAssumption DEF TasksAssumption, TicksAssumption
  <1>1. ticks \in [Processes -> TickType] /\ \A q \in Processes : TickOK(ticks[q])
    BY DEF SchedulerTypeOK, TickType, TickOK
  <1>2. ASSUME TickOK(ticks'[p]), \A q \in Processes \ {p} : ticks'[q] = ticks[q]
        PROVE  \A q \in Processes : TickOK(ticks'[q])
    BY <1>1, <1>2
  <1> USE DEF TickOK, TickType, Stages, WithRun
  <1>3. CASE Acquire(p)
    BY <1>1, <1>2, <1>3 DEF Acquire, At, Goto
  <1>4. CASE ListActive(p)
    <2>1. Recoverable \subseteq RunIds
      BY DEF Recoverable
    <2> QED
      BY <1>1, <1>2, <1>4, <2>1 DEF ListActive
  <1>5. CASE RecoverRun(p)
    <2>1. PICK r \in Todo(p) :
            \/ ticks' = [ticks EXCEPT ![p].at = "dispatch", ![p].run = r, ![p].todo = @ \ {r}]
            \/ ticks' = [ticks EXCEPT ![p].todo = @ \ {r}]
      BY <1>5 DEF RecoverRun, RecoverAdmission, Take
    <2>2. r \in RunIds /\ ticks[p].at = "recover"
      BY <1>1, <1>5, <2>1 DEF Todo, RecoverRun, At
    <2>3. CASE ticks' = [ticks EXCEPT ![p].at = "dispatch", ![p].run = r, ![p].todo = @ \ {r}]
      BY <1>1, <1>2, <2>2, <2>3
    <2>4. CASE ticks' = [ticks EXCEPT ![p].todo = @ \ {r}]
      BY <1>1, <1>2, <2>2, <2>4
    <2> QED
      BY <2>1, <2>3, <2>4
  <1>6. CASE ClaimTasks(p)
    <2>1. NewRuns \subseteq RunIds
      BY ClaimDueTicks
    <2> QED
      BY <1>1, <1>2, <1>6, <2>1 DEF ClaimTasks
  <1>7. CASE BeginTask(p)
    <2>1. PICK r \in Todo(p) :
            \/ ticks' = [ticks EXCEPT ![p].at = "release"]
            \/ \E stage \in {"admit", "execute"} :
                  ticks' = [ticks EXCEPT ![p].at = stage, ![p].run = r, ![p].todo = @ \ {r}]
      BY <1>7 DEF BeginTask, Take, Goto
    <2>2. r \in RunIds /\ ticks[p].at = "loop"
      BY <1>1, <1>7, <2>1 DEF Todo, BeginTask, At
    <2>3. CASE ticks' = [ticks EXCEPT ![p].at = "release"]
      BY <1>1, <1>2, <2>2, <2>3
    <2>4. ASSUME NEW stage \in {"admit", "execute"},
                 ticks' = [ticks EXCEPT ![p].at = stage, ![p].run = r, ![p].todo = @ \ {r}]
          PROVE  \A q \in Processes : TickOK(ticks'[q])
      BY <1>1, <1>2, <2>2, <2>4
    <2> QED
      BY <2>1, <2>3, <2>4
  <1>8. CASE ReleaseTask(p)
    BY <1>1, <1>2, <1>8 DEF ReleaseTask
  <1>9. ASSUME GoBack(p) PROVE TickOK(ticks'[p])
    BY <1>1, <1>9 DEF GoBack
  <1>10. CASE ExecuteTask(p)
    BY <1>1, <1>2, <1>9, <1>10 DEF ExecuteTask, GoBack
  <1>11. CASE AdmitTask(p)
    BY <1>1, <1>2, <1>9, <1>11 DEF AdmitTask, GoBack, Goto, At
  <1>12. CASE ActivateTask(p)
    BY <1>1, <1>2, <1>9, <1>12 DEF ActivateTask, GoBack, Goto, At
  <1>13. CASE Dispatch(p)
    BY <1>1, <1>2, <1>9, <1>13 DEF Dispatch, GoBack, Goto, At
  <1>14. CASE AttachTask(p)
    BY <1>1, <1>2, <1>9, <1>14 DEF AttachTask, GoBack
  <1>15. CASE FinishTick(p)
    BY <1>1, <1>2, <1>15 DEF FinishTick, Idle
  <1> QED
    BY <1>3, <1>4, <1>5, <1>6, <1>7, <1>8, <1>10, <1>11, <1>12, <1>13, <1>14, <1>15 DEF Tick

-----------------------------------------------------------------------------
(* Every step of the scheduler is a transaction of the store, or none. *)

LEMMA RunInHand ==
    ASSUME SchedulerTypeOK, NEW p \in Processes, ticks[p].at \in WithRun
    PROVE  ticks[p].run \in RunIds
  BY DEF SchedulerTypeOK

LEMMA TickIsStoreStep ==
    ASSUME SchedulerTypeOK, NEW p \in Processes, Tick(p)
    PROVE  [StoreNext]_storeVars
  <1>1. ASSUME NEW r \in RunIds, RunStep(r)
        PROVE  StoreNext
    BY <1>1 DEF StoreNext
  <1>2. CASE ClaimTasks(p)
    BY <1>2 DEF ClaimTasks, StoreNext
  <1>3. CASE ReleaseTask(p)
    BY <1>1, <1>3 DEF ReleaseTask, Todo, RunStep, SchedulerTypeOK
  <1>4. CASE ExecuteTask(p)
    <2>1. ticks[p].run \in RunIds
      BY <1>4, RunInHand DEF ExecuteTask, At, WithRun
    <2> QED
      BY <1>1, <1>4, <2>1 DEF ExecuteTask, RunStep
  <1>5. CASE AdmitTask(p)
    <2>1. ticks[p].run \in RunIds
      BY <1>5, RunInHand DEF AdmitTask, At, WithRun
    <2> QED
      BY <1>1, <1>5, <2>1 DEF AdmitTask, RunStep
  <1>6. CASE ActivateTask(p)
    <2>1. ticks[p].run \in RunIds
      BY <1>6, RunInHand DEF ActivateTask, At, WithRun
    <2> QED
      BY <1>1, <1>6, <2>1 DEF ActivateTask, RunStep, Settled
  <1>7. CASE AttachTask(p)
    <2>1. ticks[p].run \in RunIds
      BY <1>7, RunInHand DEF AttachTask, At, WithRun
    <2> QED
      BY <1>1, <1>7, <2>1 DEF AttachTask, RunStep
  <1>8. CASE Dispatch(p)
    BY <1>8 DEF Dispatch, RetryAdmission
  <1>9. CASE Acquire(p) \/ ListActive(p) \/ RecoverRun(p) \/ BeginTask(p) \/ FinishTick(p)
    BY <1>9 DEF Acquire, ListActive, RecoverRun, BeginTask, FinishTick
  <1> QED
    BY <1>2, <1>3, <1>4, <1>5, <1>6, <1>7, <1>8, <1>9 DEF Tick

LEMMA IsStoreStep ==
    ASSUME SchedulerTypeOK, [SchedulerNext]_schedulerVars
    PROVE  [StoreNext]_storeVars
  <1>1. CASE UNCHANGED schedulerVars
    BY <1>1 DEF schedulerVars
  <1>2. ASSUME NEW p \in Processes, Tick(p) \/ Renew(p) \/ ThrowTick(p) \/ Crash(p)
        PROVE  [StoreNext]_storeVars
    BY <1>2, TickIsStoreStep DEF Renew, ThrowTick, Crash
  <1>3. ASSUME NEW p \in Processes, NEW r \in watched[p], SettleWatched(p, r) \/ LoseWatch(p, r)
        PROVE  [StoreNext]_storeVars
    <2>1. r \in RunIds
      BY DEF SchedulerTypeOK
    <2>2. CASE SettleWatched(p, r)
      BY <2>1, <2>2 DEF SettleWatched, StoreNext, RunStep
    <2>3. CASE LoseWatch(p, r)
      BY <2>3 DEF LoseWatch
    <2> QED
      BY <1>3, <2>2, <2>3
  <1>4. ASSUME NEW r \in admitted, EndSubmission(r)
        PROVE  [StoreNext]_storeVars
    BY <1>4 DEF EndSubmission
  <1>5. ASSUME NEW t \in Tasks, BecomesDue(t) \/ ClaimLapses(t) \/ Operate(t)
        PROVE  StoreNext
    BY <1>5 DEF BecomesDue, ClaimLapses, Operate, StoreNext
  <1>6. CASE LeaseLapses
    BY <1>6 DEF LeaseLapses
  <1> QED
    BY <1>1, <1>2, <1>3, <1>4, <1>5, <1>6 DEF SchedulerNext

-----------------------------------------------------------------------------
(* Type correctness. *)

LEMMA FaultsType ==
    ASSUME SchedulerTypeOK, Fail \/ UNCHANGED faults
    PROVE  faults' \in 0..MaxFaults
  BY TicksAssumption DEF TicksAssumption, SchedulerTypeOK, Fail

LEMMA TickKeepsType ==
    ASSUME SchedulerTypeOK, NEW p \in Processes, Tick(p)
    PROVE  SchedulerTypeOK'
  <1> USE TasksAssumption, TicksAssumption DEF TasksAssumption, TicksAssumption
  <1>1. StoreTypeOK'
    BY TickIsStoreStep, StoreType DEF SchedulerTypeOK
  <1>2. /\ \A q \in Processes : TickOK(ticks'[q])
        /\ ticks' \in [Processes -> [at : Stages, run : RunIds \cup {None},
                                     todo : SUBSET RunIds, back : {"recover", "loop"}]]
    <2>1. \A q \in Processes : TickOK(ticks'[q])
      BY TickSteps
    <2>2. ticks' = [q \in Processes |-> ticks'[q]]
      BY DEF Tick, Acquire, ListActive, RecoverRun, RecoverAdmission, ClaimTasks, BeginTask,
             ReleaseTask, ExecuteTask, AdmitTask, ActivateTask, Dispatch, AttachTask, FinishTick,
             GoBack, Goto, Take, SchedulerTypeOK
    <2> QED
      BY <2>1, <2>2 DEF TickOK, TickType
  <1>3. faults' \in 0..MaxFaults
    <2>1. Fail \/ UNCHANGED faults
      BY DEF Tick, Acquire, ListActive, RecoverRun, ClaimTasks, BeginTask, ReleaseTask,
             ExecuteTask, AdmitTask, ActivateTask, Dispatch, AttachTask, FinishTick, ReleaseLease
    <2> QED
      BY <2>1, FaultsType
  <1>6. lease' \in [owner : Processes \cup {None}, live : BOOLEAN]
    <2>1. lease' \in {lease, NoLease, [owner |-> p, live |-> TRUE]}
      BY DEF Tick, Acquire, ListActive, RecoverRun, ClaimTasks, BeginTask, ReleaseTask,
             ExecuteTask, AdmitTask, ActivateTask, Dispatch, AttachTask, FinishTick, ReleaseLease
    <2>2. /\ NoLease \in [owner : Processes \cup {None}, live : BOOLEAN]
          /\ [owner |-> p, live |-> TRUE] \in [owner : Processes \cup {None}, live : BOOLEAN]
          /\ lease \in [owner : Processes \cup {None}, live : BOOLEAN]
      BY DEF NoLease, SchedulerTypeOK
    <2> QED
      BY <2>1, <2>2
  <1>4. /\ admitted' \subseteq RunIds
        /\ ended' \subseteq admitted'
    <2>1. CASE Dispatch(p)
      <3>1. ticks[p].run \in RunIds
        BY <2>1, RunInHand DEF Dispatch, At, WithRun
      <3> QED
        BY <2>1, <3>1 DEF Dispatch, SchedulerTypeOK
    <2>2. CASE ~Dispatch(p)
      BY <2>2 DEF Tick, Acquire, ListActive, RecoverRun, ClaimTasks, BeginTask, ReleaseTask,
             ExecuteTask, AdmitTask, ActivateTask, AttachTask, FinishTick, sessions,
             SchedulerTypeOK
    <2> QED
      BY <2>1, <2>2
  <1>5. watched' \in [Processes -> SUBSET RunIds]
    <2>1. CASE AttachTask(p)
      <3>1. ticks[p].run \in RunIds
        BY <2>1, RunInHand DEF AttachTask, At, WithRun
      <3> QED
        BY <2>1, <3>1 DEF AttachTask, SchedulerTypeOK
    <2>2. CASE RecoverRun(p)
      BY <2>2 DEF RecoverRun, RecoverAdmission, Todo, SchedulerTypeOK
    <2>3. CASE ~AttachTask(p) /\ ~RecoverRun(p)
      BY <2>3 DEF Tick, Acquire, ListActive, ClaimTasks, BeginTask, ReleaseTask, ExecuteTask,
             AdmitTask, ActivateTask, Dispatch, FinishTick, SchedulerTypeOK
    <2> QED
      BY <2>1, <2>2, <2>3
  <1> QED
    BY <1>1, <1>2, <1>3, <1>4, <1>5, <1>6 DEF SchedulerTypeOK, TickOK

LEMMA SchedulerType ==
    ASSUME SchedulerTypeOK, [SchedulerNext]_schedulerVars
    PROVE  SchedulerTypeOK'
  <1> USE TasksAssumption, TicksAssumption DEF TasksAssumption, TicksAssumption
  <1>1. StoreTypeOK'
    BY IsStoreStep, StoreType DEF SchedulerTypeOK
  <1>2. CASE UNCHANGED schedulerVars
    BY <1>1, <1>2 DEF schedulerVars, sessions, SchedulerTypeOK
  <1>3. ASSUME NEW p \in Processes, Renew(p) \/ ThrowTick(p) \/ Crash(p)
        PROVE  SchedulerTypeOK'
    <2>1. Idle \in TickType /\ TickOK(Idle)
      BY DEF Idle, TickOK, TickType, Stages, WithRun
    <2>2. CASE Renew(p)
      BY <1>1, <2>2 DEF Renew, sessions, SchedulerTypeOK
    <2>3. CASE ThrowTick(p)
      BY <1>1, <2>1, <2>3 DEF ThrowTick, Fail, NoLease, sessions, SchedulerTypeOK, TickOK, TickType
    <2>4. CASE Crash(p)
      BY <1>1, <2>1, <2>4 DEF Crash, Fail, sessions, SchedulerTypeOK, TickOK, TickType
    <2> QED
      BY <1>3, <2>2, <2>3, <2>4
  <1>4. ASSUME NEW p \in Processes, NEW r \in watched[p], SettleWatched(p, r) \/ LoseWatch(p, r)
        PROVE  SchedulerTypeOK'
    BY <1>1, <1>4 DEF SettleWatched, LoseWatch, Fail, sessions, SchedulerTypeOK
  <1>5. ASSUME NEW r \in admitted, EndSubmission(r)
        PROVE  SchedulerTypeOK'
    BY <1>1, <1>5 DEF EndSubmission, SchedulerTypeOK
  <1>6. ASSUME NEW t \in Tasks, BecomesDue(t) \/ ClaimLapses(t) \/ Operate(t)
        PROVE  SchedulerTypeOK'
    BY <1>1, <1>6 DEF BecomesDue, ClaimLapses, Operate, Fail, sessions, SchedulerTypeOK
  <1>7. CASE LeaseLapses
    <2>1. faults' \in 0..MaxFaults
      BY <1>7, FaultsType DEF LeaseLapses
    <2>2. lease' \in [owner : Processes \cup {None}, live : BOOLEAN]
      BY <1>7 DEF LeaseLapses, SchedulerTypeOK
    <2> QED
      BY <1>1, <1>7, <2>1, <2>2 DEF LeaseLapses, sessions, SchedulerTypeOK
  <1> QED
    BY <1>2, <1>3, <1>4, <1>5, <1>6, <1>7, TickKeepsType DEF SchedulerNext

\* The type of the ticks, the lease and the sessions is an invariant.
THEOREM SchedulerTypeCorrect == SchedulerSpec => []SchedulerTypeOK
  <1> QED
    BY SchedulerInitType, SchedulerType, PTL DEF SchedulerSpec

\* The ticks use the store as its specification allows: every step of every
\* process is one of its transactions or leaves it alone.
THEOREM TicksUseStore == SchedulerSpec => StoreSpec
  <1>1. SchedulerInit => StoreInit
    BY DEF SchedulerInit
  <1> QED
    BY <1>1, IsStoreStep, SchedulerTypeCorrect, PTL DEF SchedulerSpec, StoreSpec

\* So what holds of the store holds under the ticks.
THEOREM TicksExclude == SchedulerSpec => []OneUnsettledRun
  <1> QED
    BY TicksUseStore, Exclusion, PTL

THEOREM TicksKeepEnds == SchedulerSpec => TerminalRunsStay
  <1> QED
    BY TicksUseStore, EndsAreKept, PTL

-----------------------------------------------------------------------------
(* No accepted submission is forgotten.  A run is pending in the tick that     *)
(* claimed it until it is activated, and handed over from then on: to the      *)
(* dispatch of that tick, and to every later tick that lists it.  A pending    *)
(* run is pending nowhere else and unknown to the sessions; a run handed over, *)
(* or accepted, is active until its submission is over or its task deleted.    *)

InTick == {"loop", "admit", "activate", "execute", "release"}

Pending(p) == {r \in RunIds : /\ ticks[p].back = "loop"
                              /\ \/ r \in ticks[p].todo
                                 \/ /\ ticks[p].at \in {"admit", "activate", "execute"}
                                    /\ ticks[p].run = r}
Handed(p) == {r \in RunIds : \/ ticks[p].back = "recover" /\ r \in ticks[p].todo
                             \/ ticks[p].at \in {"dispatch", "attach"} /\ ticks[p].run = r}

Begun(r) == runs[r].status \notin {"absent", "active"}
Tracked(r) == \/ runs[r].status \in {"active", "deleted"}
              \/ r \in ended /\ runs[r].status # "absent"

Positions ==
    \A p \in Processes : /\ ticks[p].at \in InTick => ticks[p].back = "loop"
                         /\ ticks[p].at = "recover" => ticks[p].back = "recover"
                         /\ ticks[p].run \notin ticks[p].todo
PendingOnce ==
    \A p, q \in Processes : \A r \in Pending(p) : r \notin Handed(q) /\ (r \in Pending(q) => p = q)
PendingUnknown == \A p \in Processes : \A r \in Pending(p) : Begun(r) /\ r \notin admitted
HandedTracked == \A p \in Processes : \A r \in Handed(p) : Tracked(r)
AdmittedTracked == \A r \in admitted : Tracked(r)
DeletedGone == \A r \in RunIds : runs[r].status = "deleted" => ~tasks[taskOf[r]].exists

TrackInv == /\ Positions
            /\ PendingOnce
            /\ PendingUnknown
            /\ HandedTracked
            /\ AdmittedTracked
            /\ DeletedGone

LEMMA InitTracked == SchedulerInit => TrackInv
  <1> SUFFICES ASSUME SchedulerInit PROVE TrackInv
    OBVIOUS
  <1>1. \A p \in Processes : ticks[p] = Idle
    BY DEF SchedulerInit
  <1>2. Positions
    BY <1>1 DEF Positions, Idle, InTick
  <1>3. \A p \in Processes : Pending(p) = {} /\ Handed(p) = {}
    BY <1>1 DEF Pending, Handed, Idle
  <1>4. \A r \in RunIds : runs[r].status = "absent"
    BY DEF SchedulerInit, StoreInit, Absent
  <1> QED
    BY <1>2, <1>3, <1>4 DEF TrackInv, PendingOnce, PendingUnknown, HandedTracked, AdmittedTracked,
       DeletedGone, SchedulerInit

\* What almost every step keeps, whoever takes it.
Kept == /\ \A r \in RunIds : (Tracked(r) => Tracked(r)') /\ (Begun(r) => Begun(r)')
        /\ DeletedGone'
ExistsKept == \A t \in Tasks : tasks'[t].exists = tasks[t].exists

\* It is enough that only claimed runs, or runs whose submission is over, end.
LEMMA KeptWhen ==
    ASSUME TrackInv, ExistsKept, ended \subseteq ended',
           \A r \in RunIds :
               \/ runs'[r].status = runs[r].status
               \/ /\ Claimed(r) \/ (r \in ended /\ runs[r].status # "absent")
                  /\ runs'[r].status \in Terminal
    PROVE  Kept
  <1> USE TasksAssumption DEF TasksAssumption, TrackInv
  <1>1. ASSUME NEW r \in RunIds
        PROVE  (Tracked(r) => Tracked(r)') /\ (Begun(r) => Begun(r)')
    BY DEF Tracked, Begun, Claimed, Terminal, Settled, GivenUp
  <1>2. DeletedGone'
    BY DEF DeletedGone, ExistsKept, Terminal, Settled, GivenUp
  <1> QED
    BY <1>1, <1>2 DEF Kept

LEMMA StoreKept ==
    ASSUME TrackInv, UNCHANGED storeVars, ended \subseteq ended'
    PROVE  Kept
  BY KeptWhen DEF storeVars, ExistsKept

\* A pending run that is given up, deferred or settled.
LEMMA PendingEnds ==
    ASSUME SchedulerTypeOK, TrackInv, NEW r \in RunIds, Begun(r), UNCHANGED ended,
           ReleaseClaim(r) \/ DeferClaim(r) \/ \E status \in Settled : SettleRun(r, status)
    PROVE  Kept
  <1> USE TasksAssumption DEF TasksAssumption
  <1>1. StoreTypeOK /\ tasks[taskOf[r]] \in Task
    BY DEF SchedulerTypeOK, StoreTypeOK
  <1>2. ExistsKept
    <2>1. ASSUME NEW task \in Task, task.exists = tasks[taskOf[r]].exists,
                 tasks' = ReturnClaim(r, task)
          PROVE  ExistsKept
      BY <1>1, <2>1 DEF ReturnClaim, Unclaimed, ExistsKept, StoreTypeOK, Task
    <2>2. CASE ReleaseClaim(r)
      BY <1>1, <2>1, <2>2 DEF ReleaseClaim, Task
    <2>3. CASE DeferClaim(r)
      BY <1>1, <2>1, <2>3 DEF DeferClaim, Task
    <2>4. CASE \E status \in Settled : SettleRun(r, status)
      BY <1>1, <2>1, <2>4 DEF SettleRun, storeVars, ExistsKept
    <2> QED
      BY <2>2, <2>3, <2>4
  <1>3. \A s \in RunIds : \/ runs'[s].status = runs[s].status
                          \/ s = r /\ Claimed(r) /\ runs'[s].status \in Terminal
    <2>1. CASE ReleaseClaim(r) \/ DeferClaim(r)
      BY <1>1, <2>1, EndedRuns
      DEF ReleaseClaim, DeferClaim, Terminal, GivenUp, Unsettled, Running, Begun
    <2>2. CASE \E status \in Settled : SettleRun(r, status)
      BY <1>1, <2>2
      DEF SettleRun, Settles, storeVars, StoreTypeOK, Run, Terminal, Unsettled, Running, Begun
    <2> QED
      BY <2>1, <2>2
  <1> QED
    BY <1>2, <1>3, KeptWhen

\* Whoever is new among the pending, the handed over and the accepted runs is
\* new to the others, and the rest is as it was.
LEMMA TrackStep ==
    ASSUME TrackInv, Positions', DeletedGone',
           \A r \in RunIds : Tracked(r) => Tracked(r)',
           \A q \in Processes : \A r \in Pending(q)' :
               \/ r \in Pending(q) /\ Begun(r)'
               \/ /\ Begun(r)' /\ r \notin admitted'
                  /\ \A p \in Processes : r \notin Handed(p)' /\ (r \in Pending(p)' => p = q),
           \A q \in Processes : \A r \in Handed(q)' :
               \/ r \in Handed(q)
               \/ Tracked(r)' /\ \A p \in Processes : r \notin Pending(p)',
           \A r \in admitted' :
               \/ r \in admitted
               \/ Tracked(r)' /\ \A p \in Processes : r \notin Pending(p)',
           admitted \subseteq RunIds
    PROVE  TrackInv'
  <1>1. \A p \in Processes : Pending(p)' \subseteq RunIds /\ Handed(p)' \subseteq RunIds
    BY DEF Pending, Handed
  <1>2. PendingOnce'
    BY <1>1 DEF TrackInv, PendingOnce
  <1>3. PendingUnknown'
    BY <1>1 DEF TrackInv, PendingUnknown
  <1>4. HandedTracked'
    BY <1>1 DEF TrackInv, HandedTracked
  <1>5. AdmittedTracked'
    BY DEF TrackInv, AdmittedTracked
  <1> QED
    BY <1>2, <1>3, <1>4, <1>5 DEF TrackInv

\* The common case: a tick leaves runs behind and takes none.
LEMMA TrackShrinks ==
    ASSUME SchedulerTypeOK, TrackInv, Kept, Positions', UNCHANGED admitted,
           \A q \in Processes : Pending(q)' \subseteq Pending(q) /\ Handed(q)' \subseteq Handed(q)
    PROVE  TrackInv'
  <1>1. \A q \in Processes : \A r \in Pending(q)' : r \in Pending(q) /\ Begun(r)'
    BY DEF TrackInv, PendingUnknown, Kept, Pending
  <1>2. admitted \subseteq RunIds
    BY DEF SchedulerTypeOK
  <1> QED
    BY <1>1, <1>2, TrackStep DEF Kept

\* A tick that has not begun, or is over, has no run.
LEMMA IdleTracked ==
    ASSUME SchedulerTypeOK, TrackInv, NEW p \in Processes, Kept, UNCHANGED admitted,
           ticks' = [ticks EXCEPT ![p] = Idle]
    PROVE  TrackInv'
  <1>1. ticks \in [Processes -> TickType]
    BY DEF SchedulerTypeOK, TickType
  <1>2. Positions'
    BY <1>1 DEF TrackInv, Positions, Idle, InTick
  <1>3. \A q \in Processes : Pending(q)' \subseteq Pending(q) /\ Handed(q)' \subseteq Handed(q)
    BY <1>1 DEF Pending, Handed, Idle
  <1> QED
    BY <1>2, <1>3, TrackShrinks

\* The run of a step is put away and the step's tick goes on.
LEMMA BackTracked ==
    ASSUME SchedulerTypeOK, TrackInv, NEW p \in Processes, Kept, UNCHANGED admitted,
           ticks[p].at \in WithRun, GoBack(p)
    PROVE  TrackInv'
  <1>1. ticks \in [Processes -> TickType]
    BY DEF SchedulerTypeOK, TickType
  <1>2. Positions'
    BY <1>1, TasksAssumption
    DEF TasksAssumption, TrackInv, Positions, GoBack, InTick, TickType, WithRun
  <1>3. \A q \in Processes : Pending(q)' \subseteq Pending(q) /\ Handed(q)' \subseteq Handed(q)
    BY <1>1 DEF Pending, Handed, GoBack, TickType
  <1> QED
    BY <1>2, <1>3, TrackShrinks

LEMMA ListTracked ==
    ASSUME SchedulerTypeOK, TrackInv, NEW p \in Processes, ListActive(p)
    PROVE  TrackInv'
  <1>1. ticks \in [Processes -> TickType] /\ admitted \subseteq RunIds
    BY DEF SchedulerTypeOK, TickType
  <1>2. UNCHANGED <<storeVars, admitted, ended>>
    BY DEF ListActive, sessions
  <1>3. Kept
    BY <1>2, StoreKept
  <1>4. Positions'
    BY <1>1, TasksAssumption
    DEF TasksAssumption, TrackInv, Positions, ListActive, InTick, Recoverable
  <1>5. \A q \in Processes : Pending(q)' \subseteq Pending(q)
    BY <1>1 DEF Pending, ListActive
  <1>6. \A q \in Processes : \A r \in Handed(q)' : r \in Handed(q) \/ Running(r)
    BY <1>1 DEF Handed, ListActive, Recoverable
  <1>7. ASSUME NEW r \in RunIds, Running(r)
        PROVE  Tracked(r)' /\ \A q \in Processes : r \notin Pending(q)'
    BY <1>2, <1>5, <1>7
    DEF Tracked, Running, storeVars, TrackInv, PendingUnknown, Begun
  <1>8. \A q \in Processes : \A r \in Pending(q)' : r \in Pending(q) /\ Begun(r)'
    BY <1>3, <1>5 DEF TrackInv, PendingUnknown, Kept, Pending
  <1>9. \A q \in Processes : \A r \in Handed(q)' : r \in RunIds
    BY DEF Handed
  <1> QED
    BY <1>1, <1>2, <1>3, <1>4, <1>6, <1>7, <1>8, <1>9, TrackStep DEF Kept

LEMMA RecoverTracked ==
    ASSUME SchedulerTypeOK, TrackInv, NEW p \in Processes, RecoverRun(p)
    PROVE  TrackInv'
  <1>1. ticks \in [Processes -> TickType]
    BY DEF SchedulerTypeOK, TickType
  <1>2. Kept /\ UNCHANGED admitted
    BY StoreKept DEF RecoverRun, sessions
  <1>3. PICK r \in ticks[p].todo :
          \/ ticks' = [ticks EXCEPT ![p].at = "dispatch", ![p].run = r, ![p].todo = @ \ {r}]
          \/ ticks' = [ticks EXCEPT ![p].todo = @ \ {r}]
    BY DEF RecoverRun, RecoverAdmission, Take, Todo
  <1>4. ticks[p].at = "recover" /\ ticks[p].back = "recover"
    BY DEF RecoverRun, At, TrackInv, Positions
  <1>5. Positions'
    BY <1>1, <1>3, <1>4 DEF TrackInv, Positions, InTick, TickType
  <1>6. \A q \in Processes : Pending(q)' \subseteq Pending(q) /\ Handed(q)' \subseteq Handed(q)
    BY <1>1, <1>3, <1>4 DEF Pending, Handed, TickType
  <1> QED
    BY <1>2, <1>5, <1>6, TrackShrinks

LEMMA BeginTracked ==
    ASSUME SchedulerTypeOK, TrackInv, NEW p \in Processes, BeginTask(p)
    PROVE  TrackInv'
  <1>1. ticks \in [Processes -> TickType]
    BY DEF SchedulerTypeOK, TickType
  <1>2. Kept /\ UNCHANGED admitted
    BY StoreKept DEF BeginTask, sessions
  <1>3. PICK r \in ticks[p].todo :
          \/ ticks' = [ticks EXCEPT ![p].at = "release"]
          \/ \E stage \in {"admit", "execute"} :
                ticks' = [ticks EXCEPT ![p].at = stage, ![p].run = r, ![p].todo = @ \ {r}]
    BY DEF BeginTask, Take, Goto, Todo
  <1>4. ticks[p].at = "loop" /\ ticks[p].back = "loop"
    BY DEF BeginTask, At, TrackInv, Positions, InTick
  <1>5. CASE ticks' = [ticks EXCEPT ![p].at = "release"]
    <2>1. Positions'
      BY <1>1, <1>4, <1>5 DEF TrackInv, Positions, InTick, TickType
    <2>2. \A q \in Processes : Pending(q)' \subseteq Pending(q) /\ Handed(q)' \subseteq Handed(q)
      BY <1>1, <1>4, <1>5 DEF Pending, Handed, TickType
    <2> QED
      BY <1>2, <2>1, <2>2, TrackShrinks
  <1>6. ASSUME NEW stage \in {"admit", "execute"},
               ticks' = [ticks EXCEPT ![p].at = stage, ![p].run = r, ![p].todo = @ \ {r}]
        PROVE  TrackInv'
    <2>1. Positions'
      BY <1>1, <1>4, <1>6 DEF TrackInv, Positions, InTick, TickType
    <2>2. \A q \in Processes : Pending(q)' \subseteq Pending(q) /\ Handed(q)' \subseteq Handed(q)
      BY <1>1, <1>4, <1>6 DEF Pending, Handed, TickType
    <2> QED
      BY <1>2, <2>1, <2>2, TrackShrinks
  <1> QED
    BY <1>3, <1>5, <1>6

\* The runs that a tick creates are unknown to everybody.
LEMMA ClaimTracked ==
    ASSUME SchedulerTypeOK, TrackInv, NEW p \in Processes, ClaimTasks(p)
    PROVE  TrackInv'
  <1> USE TasksAssumption DEF TasksAssumption
  <1>1. /\ ticks \in [Processes -> TickType] /\ admitted \subseteq RunIds
        /\ ended \subseteq admitted
        /\ StoreTypeOK /\ UNCHANGED <<admitted, ended>>
    BY DEF SchedulerTypeOK, TickType, ClaimTasks, sessions
  <1>2. ticks' = [ticks EXCEPT ![p] = [at |-> "loop", run |-> None, todo |-> NewRuns,
                                       back |-> "loop"]]
    BY DEF ClaimTasks
  <1>3. ASSUME NEW r \in NewRuns
        PROVE  r \in RunIds /\ runs[r].status = "absent"
    BY NewRunIsFresh DEF NewRuns
  <1>4. \A r \in RunIds :
           runs'[r].status = (IF r \in NewRuns THEN "claimed"
                              ELSE IF Claimed(r) /\ taskOf[r] \in Lapsed THEN "expired"
                              ELSE runs[r].status)
    BY <1>1 DEF ClaimTasks, ClaimDue, Absent, StoreTypeOK, Run
  <1>5. Positions'
    BY <1>1, <1>2, <1>3 DEF TrackInv, Positions, InTick
  <1>6. \A r \in RunIds : Tracked(r) => Tracked(r)' /\ r \notin NewRuns
    BY <1>1, <1>3, <1>4 DEF Tracked, Claimed
  <1>7. DeletedGone'
    <2>1. \A t \in Tasks : tasks'[t].exists = tasks[t].exists
      <3>1. \A t \in Tasks : Freed(t) \in Task /\ Freed(t).exists = tasks[t].exists
        BY <1>1, FreedIsTask
      <3> QED
        BY <3>1 DEF ClaimTasks, ClaimDue, Task
    <2> QED
      BY <1>4, <2>1 DEF TrackInv, DeletedGone
  <1>8. /\ Handed(p)' = {} /\ Pending(p)' = NewRuns
        /\ \A q \in Processes \ {p} : Pending(q)' = Pending(q) /\ Handed(q)' = Handed(q)
    BY <1>1, <1>2, <1>3 DEF Pending, Handed
  <1>9. ASSUME NEW r \in NewRuns
        PROVE  /\ Begun(r)' /\ r \notin admitted'
               /\ \A q \in Processes : r \notin Handed(q)' /\ (r \in Pending(q)' => q = p)
    <2>1. r \in RunIds /\ ~Tracked(r) /\ ~Begun(r) /\ Begun(r)'
      BY <1>3, <1>4, <1>6 DEF Begun
    <2>2. r \notin admitted
      BY <2>1 DEF TrackInv, AdmittedTracked
    <2>3. \A q \in Processes : r \notin Handed(q) /\ r \notin Pending(q)
      BY <2>1 DEF TrackInv, HandedTracked, PendingUnknown
    <2> QED
      BY <1>1, <1>8, <2>1, <2>2, <2>3
  <1>10. ASSUME NEW q \in Processes, NEW r \in Pending(q)', q # p
         PROVE  r \in Pending(q) /\ Begun(r)'
    <2>1. r \in RunIds /\ r \in Pending(q)
      BY <1>8, <1>10 DEF Pending
    <2>2. Begun(r)
      BY <2>1 DEF TrackInv, PendingUnknown
    <2> QED
      BY <1>4, <2>1, <2>2 DEF Begun
  <1> QED
    BY <1>1, <1>5, <1>6, <1>7, <1>8, <1>9, <1>10, TrackStep

LEMMA ReleaseTracked ==
    ASSUME SchedulerTypeOK, TrackInv, NEW p \in Processes, ReleaseTask(p)
    PROVE  TrackInv'
  <1>1. ticks \in [Processes -> TickType] /\ UNCHANGED <<admitted, ended>>
    BY DEF SchedulerTypeOK, TickType, ReleaseTask, sessions
  <1>2. PICK r \in ticks[p].todo :
           ReleaseClaim(r) /\ ticks' = [ticks EXCEPT ![p].todo = @ \ {r}]
    BY DEF ReleaseTask, Todo
  <1>3. r \in RunIds /\ r \in Pending(p)
    BY <1>1, <1>2 DEF ReleaseTask, At, TrackInv, Positions, InTick, Pending, TickType
  <1>4. Kept
    BY <1>1, <1>2, <1>3, PendingEnds DEF TrackInv, PendingUnknown
  <1>5. Positions'
    BY <1>1, <1>2 DEF TrackInv, Positions, TickType
  <1>6. \A q \in Processes : Pending(q)' \subseteq Pending(q) /\ Handed(q)' \subseteq Handed(q)
    BY <1>1, <1>2 DEF Pending, Handed, TickType
  <1> QED
    BY <1>1, <1>4, <1>5, <1>6, TrackShrinks

\* A run in hand that is not dispatched yet is pending.
LEMMA HandIsPending ==
    ASSUME SchedulerTypeOK, TrackInv, NEW p \in Processes,
           ticks[p].at \in {"admit", "activate", "execute"}
    PROVE  /\ ticks[p].at \in WithRun
           /\ ticks[p].run \in RunIds
           /\ ticks[p].run \in Pending(p)
           /\ Begun(ticks[p].run)
  <1>1. ticks[p].at \in WithRun
    BY DEF WithRun
  <1>2. ticks[p].run \in RunIds
    BY <1>1, RunInHand
  <1>3. ticks[p].run \in Pending(p)
    BY <1>2 DEF TrackInv, Positions, InTick, Pending
  <1> QED
    BY <1>1, <1>2, <1>3 DEF TrackInv, PendingUnknown

LEMMA HandEndsTracked ==
    ASSUME SchedulerTypeOK, TrackInv, NEW p \in Processes,
           ExecuteTask(p) \/ (AdmitTask(p) /\ GoBack(p)) \/ (ActivateTask(p) /\ GoBack(p))
    PROVE  TrackInv'
  <1> DEFINE r == ticks[p].run
  <1>1. /\ ticks[p].at \in WithRun /\ r \in RunIds /\ Begun(r)
        /\ GoBack(p) /\ UNCHANGED <<admitted, ended>>
    BY HandIsPending DEF ExecuteTask, AdmitTask, ActivateTask, At, sessions
  <1>2. Kept
    <2>1. CASE ExecuteTask(p)
      BY <1>1, <2>1, PendingEnds DEF ExecuteTask
    <2>2. CASE AdmitTask(p) /\ GoBack(p)
      BY <1>1, <2>2, PendingEnds, StoreKept DEF AdmitTask
    <2>3. CASE ActivateTask(p) /\ GoBack(p)
      <3>1. ~(Goto(p, "dispatch") /\ GoBack(p))
        <4>1. ticks[p].back \in {"recover", "loop"} /\ p \in DOMAIN ticks
              /\ ticks \in [Processes -> TickType]
          BY DEF SchedulerTypeOK, TickType
        <4> QED
          BY <4>1 DEF Goto, GoBack, TickType
      <3>2. SettleRun(r, "failed")
        BY <2>3, <3>1 DEF ActivateTask
      <3> QED
        BY <1>1, <3>2, PendingEnds DEF Settled
    <2> QED
      BY <2>1, <2>2, <2>3
  <1> QED
    BY <1>1, <1>2, BackTracked

\* An activated run is handed over by the tick that had it pending.
LEMMA ActivateTracked ==
    ASSUME SchedulerTypeOK, TrackInv, NEW p \in Processes,
           ActivateTask(p), ActivateSubmission(ticks[p].run), Goto(p, "dispatch")
    PROVE  TrackInv'
  <1> USE TasksAssumption DEF TasksAssumption
  <1> PICK r \in RunIds : r = ticks[p].run
    BY HandIsPending DEF ActivateTask, At
  <1>1. /\ ticks \in [Processes -> TickType] /\ admitted \subseteq RunIds
        /\ StoreTypeOK /\ UNCHANGED <<admitted, ended>>
    BY DEF SchedulerTypeOK, TickType, ActivateTask, sessions
  <1>2. ticks[p].at = "activate" /\ ticks' = [ticks EXCEPT ![p].at = "dispatch"]
    BY DEF ActivateTask, At, Goto
  <1>3. r \in Pending(p) /\ r \notin ticks[p].todo /\ ticks[p].back = "loop"
    BY <1>2, HandIsPending DEF TrackInv, Positions, InTick
  <1>4. \A s \in RunIds : runs'[s].status = (IF s = r THEN "active" ELSE runs[s].status)
    BY <1>1, <1>3 DEF ActivateSubmission, StoreTypeOK, Run
  <1>5. \A t \in Tasks : tasks'[t].exists = tasks[t].exists
    BY <1>1, <1>3 DEF ActivateSubmission, ReturnClaim, Unclaimed, StoreTypeOK, Task
  <1>6. Positions'
    BY <1>1, <1>2 DEF TrackInv, Positions, InTick, TickType
  <1>7. DeletedGone'
    BY <1>1, <1>4, <1>5 DEF TrackInv, DeletedGone
  <1>8. \A s \in RunIds : Tracked(s) => Tracked(s)'
    BY <1>1, <1>4 DEF Tracked
  <1>9. /\ Pending(p)' = Pending(p) \ {r} /\ Handed(p)' = {r}
        /\ \A q \in Processes \ {p} : Pending(q)' = Pending(q) /\ Handed(q)' = Handed(q)
    BY <1>1, <1>2, <1>3 DEF Pending, Handed, TickType
  <1>10. \A q \in Processes : r \notin Pending(q)'
    BY <1>3, <1>9 DEF TrackInv, PendingOnce
  <1>11. Tracked(r)'
    BY <1>3, <1>4 DEF Tracked
  <1>12. \A q \in Processes : \A s \in Pending(q)' : s \in Pending(q) /\ Begun(s)'
    <2>1. \A q \in Processes : \A s \in Pending(q)' : s \in Pending(q) /\ s # r /\ s \in RunIds
      BY <1>9, <1>10 DEF Pending
    <2> QED
      BY <1>4, <2>1 DEF TrackInv, PendingUnknown, Begun
  <1> QED
    BY <1>1, <1>6, <1>7, <1>8, <1>9, <1>10, <1>11, <1>12, TrackStep

\* What a session accepts was handed over.
LEMMA DispatchTracked ==
    ASSUME SchedulerTypeOK, TrackInv, NEW p \in Processes, Dispatch(p)
    PROVE  TrackInv'
  <1> USE TasksAssumption DEF TasksAssumption
  <1> PICK r \in RunIds : r = ticks[p].run
    BY RunInHand DEF Dispatch, At, WithRun
  <1>1. /\ ticks \in [Processes -> TickType] /\ admitted \subseteq RunIds
        /\ UNCHANGED <<storeVars, ended>>
        /\ ticks[p].at = "dispatch" /\ admitted' \subseteq admitted \cup {r}
        /\ Goto(p, "attach") \/ GoBack(p)
    BY DEF SchedulerTypeOK, TickType, Dispatch, RetryAdmission, At
  <1>2. r \in Handed(p)
    BY <1>1 DEF Handed
  <1>3. Kept
    BY <1>1, StoreKept
  <1>4. Positions'
    BY <1>1 DEF TrackInv, Positions, InTick, TickType, Goto, GoBack
  <1>5. \A q \in Processes : Pending(q)' \subseteq Pending(q) /\ Handed(q)' \subseteq Handed(q)
    BY <1>1 DEF Pending, Handed, TickType, Goto, GoBack
  <1>6. Tracked(r) /\ \A q \in Processes : r \notin Pending(q)
    BY <1>2 DEF TrackInv, HandedTracked, PendingOnce
  <1>7. Tracked(r)' /\ \A q \in Processes : r \notin Pending(q)'
    BY <1>2, <1>3, <1>5, <1>6 DEF Kept
  <1>8. \A q \in Processes : \A s \in Pending(q)' : s \in Pending(q) /\ Begun(s)'
    BY <1>3, <1>5 DEF TrackInv, PendingUnknown, Kept, Pending
  <1> QED
    BY <1>1, <1>3, <1>4, <1>5, <1>7, <1>8, TrackStep DEF Kept

LEMMA AttachTracked ==
    ASSUME SchedulerTypeOK, TrackInv, NEW p \in Processes, AttachTask(p)
    PROVE  TrackInv'
  <1> DEFINE r == ticks[p].run
  <1>1. ticks[p].at \in WithRun /\ GoBack(p) /\ UNCHANGED <<tasks, admitted, ended>>
    BY DEF AttachTask, AttachSubmission, At, WithRun, sessions
  <1>2. \A s \in RunIds : runs'[s].status = runs[s].status
    BY DEF AttachTask, AttachSubmission, SchedulerTypeOK, StoreTypeOK, Run
  <1>3. Kept
    BY <1>1, <1>2, KeptWhen DEF ExistsKept
  <1> QED
    BY <1>1, <1>3, BackTracked

\* The steps of one tick.
LEMMA TickTracked ==
    ASSUME SchedulerTypeOK, TrackInv, NEW p \in Processes, Tick(p)
    PROVE  TrackInv'
  <1>1. ticks \in [Processes -> TickType]
    BY DEF SchedulerTypeOK, TickType
  <1>2. CASE Acquire(p)
    <2>1. Kept /\ UNCHANGED admitted
      BY <1>2, StoreKept DEF Acquire, sessions
    <2>2. Positions'
      BY <1>1, <1>2 DEF Acquire, At, Goto, TrackInv, Positions, InTick, TickType
    <2>3. \A q \in Processes : Pending(q)' \subseteq Pending(q) /\ Handed(q)' \subseteq Handed(q)
      BY <1>1, <1>2 DEF Acquire, At, Goto, Pending, Handed, TickType
    <2> QED
      BY <2>1, <2>2, <2>3, TrackShrinks
  <1>3. CASE AdmitTask(p) /\ ~GoBack(p)
    <2>1. Kept /\ UNCHANGED admitted
      BY <1>3, StoreKept DEF AdmitTask, sessions
    <2>2. ticks[p].at = "admit" /\ ticks' = [ticks EXCEPT ![p].at = "activate"]
      BY <1>3 DEF AdmitTask, At, Goto
    <2>3. Positions'
      BY <1>1, <2>2 DEF TrackInv, Positions, InTick, TickType
    <2>4. \A q \in Processes : Pending(q)' \subseteq Pending(q) /\ Handed(q)' \subseteq Handed(q)
      BY <1>1, <2>2 DEF Pending, Handed, TickType
    <2> QED
      BY <2>1, <2>3, <2>4, TrackShrinks
  <1>4. CASE ActivateTask(p) /\ ~GoBack(p)
    BY <1>4, ActivateTracked DEF ActivateTask
  <1>5. CASE FinishTick(p)
    <2>1. Kept /\ UNCHANGED admitted /\ ticks' = [ticks EXCEPT ![p] = Idle]
      BY <1>5, StoreKept DEF FinishTick, sessions
    <2> QED
      BY <2>1, IdleTracked
  <1> QED
    BY <1>2, <1>3, <1>4, <1>5, ListTracked, RecoverTracked, ClaimTracked, BeginTracked,
       ReleaseTracked, HandEndsTracked, DispatchTracked, AttachTracked DEF Tick

\* A step that leaves every tick and every acceptance alone.
LEMMA KeptTracked ==
    ASSUME SchedulerTypeOK, TrackInv, Kept, UNCHANGED <<ticks, admitted>>
    PROVE  TrackInv'
  <1>1. Positions'
    BY DEF TrackInv, Positions
  <1>2. \A q \in Processes : Pending(q)' \subseteq Pending(q) /\ Handed(q)' \subseteq Handed(q)
    BY DEF Pending, Handed
  <1> QED
    BY <1>1, <1>2, TrackShrinks

LEMMA SettleTracked ==
    ASSUME SchedulerTypeOK, TrackInv, NEW p \in Processes, NEW r \in watched[p],
           SettleWatched(p, r)
    PROVE  TrackInv'
  <1>1. StoreTypeOK /\ r \in RunIds /\ r \in ended
    BY DEF SchedulerTypeOK, SettleWatched
  <1>2. PICK status \in Settled : SettleSubmission(r, status)
    BY DEF SettleWatched
  <1>3. \A s \in RunIds : \/ runs'[s].status = runs[s].status
                          \/ s = r /\ Running(r) /\ runs'[s].status \in Terminal
    BY <1>1, <1>2 DEF SettleSubmission, StoreTypeOK, Run, Terminal
  <1>4. UNCHANGED <<tasks, ticks, admitted, ended>>
    BY <1>2 DEF SettleWatched, SettleSubmission, sessions
  <1>5. Kept
    BY <1>1, <1>3, <1>4, KeptWhen DEF ExistsKept, Running
  <1> QED
    BY <1>4, <1>5, KeptTracked

LEMMA TaskTracked ==
    ASSUME SchedulerTypeOK, TrackInv, NEW t \in Tasks,
           BecomesDue(t) \/ ClaimLapses(t) \/ Operate(t)
    PROVE  TrackInv'
  <1> USE TasksAssumption DEF TasksAssumption
  <1>1. StoreTypeOK /\ UNCHANGED <<ticks, admitted, ended>>
    BY DEF SchedulerTypeOK, BecomesDue, ClaimLapses, Operate, sessions
  <1>2. CASE Delete(t)
    <2>1. \A r \in RunIds :
             runs'[r].status = (IF taskOf[r] = t THEN "deleted" ELSE runs[r].status)
      BY <1>2 DEF Delete, RunsWithout, Absent
    <2>2. \A u \in Tasks : tasks'[u].exists = (u # t /\ tasks[u].exists)
      BY <1>1, <1>2 DEF Delete, StoreTypeOK, Task
    <2>3. \A r \in RunIds : (Tracked(r) => Tracked(r)') /\ (Begun(r) => Begun(r)')
      BY <1>1, <2>1 DEF Tracked, Begun
    <2>4. DeletedGone'
      BY <2>1, <2>2 DEF TrackInv, DeletedGone
    <2> QED
      BY <1>1, <2>3, <2>4, KeptTracked DEF Kept
  <1>3. CASE ~Delete(t)
    <2>1. Pause(t) \/ Resume(t) \/ Arrive(t) \/ Lapse(t)
      BY <1>3 DEF BecomesDue, ClaimLapses, Operate
    <2>2. UNCHANGED runs /\ ExistsKept
      BY <1>1, <2>1 DEF Pause, Resume, Arrive, Lapse, ExistsKept, StoreTypeOK, Task
    <2>3. Kept
      BY <1>1, <2>2, KeptWhen
    <2> QED
      BY <1>1, <2>3, KeptTracked
  <1> QED
    BY <1>2, <1>3

LEMMA SchedulerTracked ==
    ASSUME SchedulerTypeOK, TrackInv, [SchedulerNext]_schedulerVars
    PROVE  TrackInv'
  <1>1. CASE UNCHANGED schedulerVars
    BY <1>1, StoreKept, KeptTracked DEF schedulerVars, sessions
  <1>2. ASSUME NEW p \in Processes, Renew(p) \/ ThrowTick(p) \/ Crash(p)
        PROVE  TrackInv'
    <2>1. Kept /\ UNCHANGED admitted
      BY <1>2, StoreKept DEF Renew, ThrowTick, Crash, sessions
    <2>2. UNCHANGED ticks \/ ticks' = [ticks EXCEPT ![p] = Idle]
      BY <1>2 DEF Renew, ThrowTick, Crash
    <2> QED
      BY <2>1, <2>2, KeptTracked, IdleTracked
  <1>3. ASSUME NEW p \in Processes, NEW r \in watched[p], SettleWatched(p, r) \/ LoseWatch(p, r)
        PROVE  TrackInv'
    <2>1. CASE LoseWatch(p, r)
      BY <2>1, StoreKept, KeptTracked DEF LoseWatch, sessions
    <2> QED
      BY <1>3, <2>1, SettleTracked
  <1>4. ASSUME NEW r \in admitted, EndSubmission(r)
        PROVE  TrackInv'
    BY <1>4, StoreKept, KeptTracked DEF EndSubmission
  <1>5. CASE LeaseLapses
    BY <1>5, StoreKept, KeptTracked DEF LeaseLapses, sessions
  <1> QED
    BY <1>1, <1>2, <1>3, <1>4, <1>5, TickTracked, TaskTracked DEF SchedulerNext

\* A submission that a session has accepted is never forgotten: until it is
\* over its run is active, whatever ticks crashed, stalled or ran twice, unless
\* its task was deleted.
THEOREM AcceptedIsTracked == SchedulerSpec => []SubmissionIsTracked
  <1>1. SchedulerTypeOK /\ TrackInv => SubmissionIsTracked
    BY DEF SchedulerTypeOK, TrackInv, AdmittedTracked, DeletedGone, Tracked, SubmissionIsTracked,
           Running
  <1>2. SchedulerTypeOK /\ TrackInv /\ [SchedulerNext]_schedulerVars => TrackInv'
    BY SchedulerTracked
  <1> QED
    BY <1>1, <1>2, InitTracked, SchedulerTypeCorrect, PTL DEF SchedulerSpec

=============================================================================
