---------------------------- MODULE SchedulerTick ----------------------------
(***************************************************************************)
(* runSchedulerTick of src/src/modules/scheduler/service.ts under the tick   *)
(* lease of lease.ts, in several processes that share one runtime home, with *)
(* the sessions that scheduled instructions are dispatched to.               *)
(*                                                                           *)
(* A process runs one tick at a time (runSerializedSchedulerTick).  The tick *)
(* is not durable: it is a position between two awaits, the run in hand and  *)
(* the runs still to do.  Each action is one transaction or one call.        *)
(*                                                                           *)
(* A process may stall (a suspended machine, a blocked event loop) for       *)
(* longer than the lease or a claim lives, a call may fail, and a process    *)
(* may crash: these are the faults, and their number is bounded.             *)
(***************************************************************************)
EXTENDS ScheduledTasks

CONSTANTS
    Processes,
    MaxActive,      \* maxActiveScheduledSubmissions
    Touched,        \* bound: tasks the operator pauses, resumes or deletes
    MaxFaults       \* bound: stalls, failed calls and crashes, all together

ASSUME TicksAssumption ==
    /\ IsFiniteSet(Processes)
    /\ MaxActive \in Nat
    /\ Touched \subseteq Tasks
    /\ MaxFaults \in Nat
    /\ None \notin Processes

VARIABLES
    lease,      \* app_metadata 'scheduler.tick.lease'
    ticks,      \* the tick of each process, lost in a crash
    watched,    \* submissions whose settlement a process waits for, lost too
    admitted,   \* runs whose key a session has accepted
    ended,      \* admitted submissions that are over
    faults

sessions == <<admitted, ended>>
schedulerVars == <<storeVars, lease, ticks, watched, sessions, faults>>

WithRun == {"admit", "activate", "execute", "dispatch", "attach"}
Stages == {"idle", "list", "recover", "loop", "release"} \cup WithRun
Idle == [at |-> "idle", run |-> None, todo |-> {}, back |-> "loop"]
NoLease == [owner |-> None, live |-> FALSE]

SchedulerTypeOK ==
    /\ StoreTypeOK
    /\ lease \in [owner : Processes \cup {None}, live : BOOLEAN]
    /\ ticks \in [Processes -> [at   : Stages,
                                run  : RunIds \cup {None},
                                todo : SUBSET RunIds,
                                back : {"recover", "loop"}]]
    /\ \A p \in Processes : (ticks[p].at \in WithRun) <=> (ticks[p].run # None)
    /\ watched \in [Processes -> SUBSET RunIds]
    /\ admitted \subseteq RunIds
    /\ ended \subseteq admitted
    /\ faults \in 0..MaxFaults

SchedulerInit ==
    /\ StoreInit
    /\ lease = NoLease
    /\ ticks = [p \in Processes |-> Idle]
    /\ watched = [p \in Processes |-> {}]
    /\ admitted = {}
    /\ ended = {}
    /\ faults = 0

At(p, stage) == ticks[p].at = stage
Todo(p) == ticks[p].todo
Goto(p, stage) == ticks' = [ticks EXCEPT ![p].at = stage]
Take(p, r, stage) ==
    ticks' = [ticks EXCEPT ![p].at = stage, ![p].run = r, ![p].todo = @ \ {r}]

\* Mutant: the next run is begun with the last one still in hand.
StepBack(p) == ticks' = [ticks EXCEPT ![p].at = ticks[p].back]
GoBack(p) == ticks' = [ticks EXCEPT ![p].at = ticks[p].back, ![p].run = None]
Fail == faults < MaxFaults /\ faults' = faults + 1

Owns(p) == lease.owner = p /\ lease.live

----------------------------------------------------------------------------
(* The lease: every tick has an owner id of its own, and a process has one   *)
(* tick at a time, so the process stands for the id.                         *)

\* Mutant: the lease is taken whether or not another tick holds it.
LeaseTaken == FALSE
LeaseActive == lease.owner # None /\ lease.live

\* acquireSchedulerTickLease
Acquire(p) ==
    /\ At(p, "idle")
    /\ ~LeaseActive
    /\ lease' = [owner |-> p, live |-> TRUE]
    /\ Goto(p, "list")
    /\ UNCHANGED <<storeVars, watched, sessions, faults>>

\* renewSchedulerTickLease: an expired lease that nobody took is renewed too.
Renew(p) ==
    /\ ~At(p, "idle")
    /\ lease.owner = p
    /\ lease' = [lease EXCEPT !.live = TRUE]
    /\ UNCHANGED <<storeVars, ticks, watched, sessions, faults>>

\* releaseSchedulerTickLease: a release that stays blocked leaves the lease to
\* lapse.
ReleaseLease(p) ==
    \/ lease' = (IF lease.owner = p THEN NoLease ELSE lease) /\ UNCHANGED faults
    \/ UNCHANGED lease /\ Fail

FinishTick(p) ==
    /\ At(p, "loop") \/ At(p, "release")
    /\ Todo(p) = {}
    /\ ReleaseLease(p)
    /\ ticks' = [ticks EXCEPT ![p] = Idle]
    /\ UNCHANGED <<storeVars, watched, sessions>>

\* A call that throws outside the handling of one task ends the tick, and
\* leaves the claims it holds to lapse.
ThrowTick(p) ==
    /\ ~At(p, "idle")
    /\ Fail
    /\ lease' = IF lease.owner = p THEN NoLease ELSE lease
    /\ ticks' = [ticks EXCEPT ![p] = Idle]
    /\ UNCHANGED <<storeVars, watched, sessions>>

----------------------------------------------------------------------------
(* recoverScheduledInstructionSubmissions: every active instruction run is   *)
(* watched or, if its admission is not known, dispatched again with its key. *)

Recoverable == {r \in RunIds : taskOf[r] \in Instructions /\ Running(r)}

ListActive(p) ==
    /\ At(p, "list")
    /\ ticks' = [ticks EXCEPT ![p] = [at |-> "recover", run |-> None, todo |-> Recoverable,
                                      back |-> "recover"]]
    /\ UNCHANGED <<storeVars, lease, watched, sessions, faults>>

\* Mutant: only admissions that are known are recovered.
PassOver(p, r) == ticks' = [ticks EXCEPT ![p].todo = @ \ {r}] /\ UNCHANGED watched

\* The listed row may be older than the run: then the key is sent once more.
RecoverAdmission(p, r) == Take(p, r, "dispatch") /\ UNCHANGED watched

RecoverRun(p) ==
    /\ At(p, "recover")
    /\ \E r \in Todo(p) :
          \/ RecoverAdmission(p, r)
          \/ /\ runs[r].submission
             /\ watched' = [watched EXCEPT ![p] = @ \cup {r}]
             /\ ticks' = [ticks EXCEPT ![p].todo = @ \ {r}]
    /\ UNCHANGED <<storeVars, lease, sessions, faults>>

----------------------------------------------------------------------------
(* The tick proper. *)

ClaimTasks(p) ==
    /\ At(p, "recover")
    /\ Todo(p) = {}
    /\ ClaimDue
    /\ ticks' = [ticks EXCEPT ![p] = [at |-> "loop", run |-> None, todo |-> NewRuns,
                                      back |-> "loop"]]
    /\ UNCHANGED <<lease, watched, sessions, faults>>

\* isSchedulerTickLeaseOwned, before each task
BeginTask(p) ==
    /\ At(p, "loop")
    /\ \E r \in Todo(p) :
          IF ~Owns(p) THEN Goto(p, "release")
          ELSE Take(p, r, IF taskOf[r] \in Instructions THEN "admit" ELSE "execute")
    /\ UNCHANGED <<storeVars, lease, watched, sessions, faults>>

ReleaseTask(p) ==
    /\ At(p, "release")
    /\ \E r \in Todo(p) :
          /\ ReleaseClaim(r)
          /\ ticks' = [ticks EXCEPT ![p].todo = @ \ {r}]
    /\ UNCHANGED <<lease, watched, sessions, faults>>

\* executeScheduledTask, settled as completed or, when it throws, as failed.
ExecuteTask(p) ==
    /\ At(p, "execute")
    /\ \E status \in Settled : SettleRun(ticks[p].run, status)
    /\ GoBack(p)
    /\ UNCHANGED <<lease, watched, sessions, faults>>

AdmitTask(p) ==
    LET r == ticks[p].run
    IN  /\ At(p, "admit")
        /\ IF CanAdmit(r, MaxActive)
           THEN Goto(p, "activate") /\ UNCHANGED storeVars
           ELSE DeferClaim(r) /\ GoBack(p)
        /\ UNCHANGED <<lease, watched, sessions, faults>>

\* A prompt that cannot be composed and a run that lost its claim fail the run
\* in the same way, which the lost one does not notice.
ActivateTask(p) ==
    LET r == ticks[p].run
    IN  /\ At(p, "activate")
        /\ \/ ActivateSubmission(r) /\ Goto(p, "dispatch")
           \/ SettleRun(r, "failed") /\ GoBack(p)
        /\ UNCHANGED <<lease, watched, sessions, faults>>

\* Mutant: a dispatch that throws fails the run like any other error.
FailTheRun(r) == SettleRun(r, "failed")

\* recordScheduledTaskAdmissionRetry: the outbox is sent again by a later tick.
RetryAdmission(r) == UNCHANGED storeVars

\* dispatchPreparedInstruction: the session accepts a key once.
Dispatch(p) ==
    LET r == ticks[p].run
    IN  /\ At(p, "dispatch")
        /\ \/ /\ admitted' = admitted \cup {r}
              /\ Goto(p, "attach")
              /\ UNCHANGED <<storeVars, faults>>
           \/ /\ admitted' \in {admitted, admitted \cup {r}}
              /\ Fail
              /\ RetryAdmission(r)
              /\ GoBack(p)
        /\ UNCHANGED <<lease, watched, ended>>

AttachTask(p) ==
    LET r == ticks[p].run
    IN  /\ At(p, "attach")
        /\ AttachSubmission(r)
        /\ watched' = [watched EXCEPT ![p] = @ \cup {r}]
        /\ GoBack(p)
        /\ UNCHANGED <<lease, sessions, faults>>

----------------------------------------------------------------------------
(* watchScheduledInstructionSettlement *)

SettleWatched(p, r) ==
    /\ r \in watched[p]
    /\ r \in ended
    /\ \E status \in Settled : SettleSubmission(r, status)
    /\ watched' = [watched EXCEPT ![p] = @ \ {r}]
    /\ UNCHANGED <<lease, ticks, sessions, faults>>

LoseWatch(p, r) ==
    /\ r \in watched[p]
    /\ Fail
    /\ watched' = [watched EXCEPT ![p] = @ \ {r}]
    /\ UNCHANGED <<storeVars, lease, ticks, sessions>>

----------------------------------------------------------------------------
(* Sessions, time, the operator, and crashes. *)

EndSubmission(r) ==
    /\ r \in admitted \ ended
    /\ ended' = ended \cup {r}
    /\ UNCHANGED <<storeVars, lease, ticks, watched, admitted, faults>>

\* The lease of a living tick lapses only when its process stalls, and so does
\* a claim that a living tick has in hand.
LeaseLapses ==
    /\ LeaseActive
    /\ lease' = [lease EXCEPT !.live = FALSE]
    /\ IF At(lease.owner, "idle") THEN UNCHANGED faults ELSE Fail
    /\ UNCHANGED <<storeVars, ticks, watched, sessions>>

InHand(r) == \E p \in Processes : r = ticks[p].run \/ r \in Todo(p)

ClaimLapses(t) ==
    /\ Lapse(t)
    /\ IF InHand(tasks[t].claim) THEN Fail ELSE UNCHANGED faults
    /\ UNCHANGED <<lease, ticks, watched, sessions>>

Operate(t) ==
    /\ t \in Touched
    /\ Pause(t) \/ Resume(t) \/ Delete(t)
    /\ UNCHANGED <<lease, ticks, watched, sessions, faults>>

BecomesDue(t) == Arrive(t) /\ UNCHANGED <<lease, ticks, watched, sessions, faults>>

Crash(p) ==
    /\ ~At(p, "idle") \/ watched[p] # {}
    /\ Fail
    /\ ticks' = [ticks EXCEPT ![p] = Idle]
    /\ watched' = [watched EXCEPT ![p] = {}]
    /\ UNCHANGED <<storeVars, lease, sessions>>

----------------------------------------------------------------------------

Tick(p) ==
    \/ Acquire(p)
    \/ ListActive(p)
    \/ RecoverRun(p)
    \/ ClaimTasks(p)
    \/ BeginTask(p)
    \/ ReleaseTask(p)
    \/ ExecuteTask(p)
    \/ AdmitTask(p)
    \/ ActivateTask(p)
    \/ Dispatch(p)
    \/ AttachTask(p)
    \/ FinishTick(p)

SchedulerNext ==
    \/ \E p \in Processes : Tick(p) \/ Renew(p) \/ ThrowTick(p) \/ Crash(p)
    \/ \E p \in Processes : \E r \in watched[p] : SettleWatched(p, r) \/ LoseWatch(p, r)
    \/ \E r \in admitted : EndSubmission(r)
    \/ \E t \in Tasks : BecomesDue(t) \/ ClaimLapses(t) \/ Operate(t)
    \/ LeaseLapses

SchedulerSpec == SchedulerInit /\ [][SchedulerNext]_schedulerVars

\* Every process ticks once a minute, time passes, and a submission ends.
SchedulerFairness ==
    /\ \A p \in Processes :
          /\ WF_schedulerVars(Tick(p))
          /\ \A r \in RunIds : WF_schedulerVars(SettleWatched(p, r))
    /\ \A r \in RunIds : WF_schedulerVars(EndSubmission(r))
    /\ \A t \in Tasks : WF_schedulerVars(BecomesDue(t)) /\ WF_schedulerVars(ClaimLapses(t))
    /\ WF_schedulerVars(LeaseLapses)

FairSchedulerSpec == SchedulerSpec /\ SchedulerFairness

----------------------------------------------------------------------------
(* Properties. *)

\* A submission that a session has accepted is never forgotten: until it is
\* over its run is active, whatever ticks crashed or stalled in between.
SubmissionIsTracked ==
    \A r \in admitted \ ended : Running(r) \/ ~tasks[taskOf[r]].exists

\* A one-shot instruction is submitted once, although its claim may be made
\* again after a stall and its dispatch repeated after a lost answer.
OneShotSubmittedOnce ==
    \A r, s \in admitted : taskOf[r] = taskOf[s] /\ taskOf[r] \in OneShots => r = s

\* The limit on active submissions is read before the activation and not with
\* it.  The lease keeps it all the same, unless a tick stalls between the two:
\* each stall exceeds the limit by one at most.
ActiveIsBounded ==
    Cardinality({r \in RunIds : Running(r)}) <= MaxActive + faults

\* The only occurrence of a one-shot task that the operator leaves alone is
\* carried through to a settled run, however often ticks crash or stall on it.
Carried(t) == \E r \in RunsOf(t) : runs[r].status \in Settled
OccurrenceIsCarried == \A t \in OneShots \ Touched : <>Carried(t)

\* The end of every submission reaches its run.
SubmissionsSettle == \A r \in RunIds : r \in ended ~> ~Unsettled(r)

=============================================================================
