----------------------------- MODULE CodingRuns -----------------------------
(***************************************************************************)
(* Coding runs: the durable record of src/src/modules/coding-runs/store.ts   *)
(* and the calls that drive it, launchReservedCodingRun and                  *)
(* reconcileCodingRun of src/src/modules/factory/coding-service.ts, over the *)
(* host that really runs the attempt.                                        *)
(*                                                                          *)
(* The coding ticker, the delivery coordinator and the operator issue those   *)
(* calls from one process, so several are under way at once: a call is its    *)
(* position, named after the await it will return from, and everything up to  *)
(* the next await is one action.  A call reads the record again after every    *)
(* await and writes it in the same stretch, so the version it compares is the  *)
(* one it just read; the two places where it is not (the launch) compare the   *)
(* status and the cancellation, and nothing else can have moved them.          *)
(***************************************************************************)
EXTENDS CodingHost, FiniteSets

CONSTANTS
    Calls,      \* calls that can be under way at once
    MaxFaults   \* bound: crashes, stalls and failing steps

ASSUME FaultsAssumption == MaxFaults \in Nat

VARIABLES
    run,        \* the record of each run
    lease,      \* the run's own lock on its worktree
    call,       \* what each call is at
    uncollectable, \* attempts whose worktree the collection refuses to read
    faults

controlVars == <<run, lease, call, uncollectable, faults>>
vars == <<hostVars, controlVars>>

Terminal == {"candidate", "failed", "cancelled"}
Statuses == {"none", "reserved", "running", "collecting", "needs-reconcile"} \cup Terminal
NoRun == [status |-> "none", host |-> FALSE, workspace |-> FALSE, session |-> FALSE,
          cancel |-> FALSE]
Labels == {"idle", "lock", "bind", "prepare", "start", "claim", "spawn", "fenced",
           "inspect", "table", "collect", "finish", "release"}
Idle == [at |-> "idle", on |-> "none"]

CodingTypeOK ==
    /\ HostTypeOK
    /\ run \in [Runs -> [status : Statuses, host : BOOLEAN, workspace : BOOLEAN,
                         session : BOOLEAN, cancel : BOOLEAN]]
    /\ lease \in [Runs -> {"none", "held", "expired", "released"}]
    /\ call \in [Calls -> [at : Labels, on : Runs \cup {"none"}]]
    /\ uncollectable \subseteq Runs
    /\ faults \in 0..MaxFaults

Init ==
    /\ HostInit
    /\ run = [r \in Runs |-> NoRun]
    /\ lease = [r \in Runs |-> "none"]
    /\ call = [c \in Calls |-> Idle]
    /\ uncollectable = {}
    /\ faults = 0

----------------------------------------------------------------------------
(* The record: updateCodingRun, one operator per command. *)

Ended(r) == run[r].status \in Terminal

\* Mutant: a quarantined run gives the slot up.
Executes(r) == run[r].status \in {"reserved", "running", "collecting"}

\* writer_slot = 1: held from the reservation to the end, quarantine included.
HoldsSlot(r) == run[r].status # "none" /\ ~Ended(r)
SlotFree == \A r \in Runs : ~HoldsSlot(r)
\* assertWorkspaceOwnership
OwnsWorkspace(r) == lease[r] = "held"
\* A launch may go on: reserved, and nobody cancelled.
Launchable(r) == run[r].status = "reserved" /\ ~run[r].cancel

Put(r, record) == run' = [run EXCEPT ![r] = record]
Quarantined(record) ==
    IF record.status \in Terminal THEN record ELSE [record EXCEPT !.status = "needs-reconcile"]
Cancelled(record) == [record EXCEPT !.cancel = TRUE]

At(c, label) == call[c].at = label
On(c) == call[c].on
Goto(c, label, r) == call' = [call EXCEPT ![c] = [at |-> label, on |-> r]]
Advance(c, label) == Goto(c, label, On(c))
Return(c) == call' = [call EXCEPT ![c] = Idle]

\* No step of a controller changes what the worktrees hold.
Fault == faults < MaxFaults /\ faults' = faults + 1 /\ UNCHANGED uncollectable
NoFault == UNCHANGED <<uncollectable, faults>>

QuarantineAndReturn(c) ==
    /\ Put(On(c), Quarantined(run[On(c)]))
    /\ Return(c)
    /\ UNCHANGED lease

----------------------------------------------------------------------------
(* The launch. *)

\* The reservation, and the binding of the host in the same stretch.
Reserve(c, r) ==
    /\ At(c, "idle")
    /\ run[r].status = "none"
    /\ SlotFree
    /\ Put(r, [NoRun EXCEPT !.status = "reserved", !.host = TRUE])
    /\ Goto(c, "lock", r)
    /\ NoFault
    /\ UNCHANGED <<hostVars, lease>>

\* The process dies between the reservation and the binding.
ReserveAndDie(r) ==
    /\ run[r].status = "none"
    /\ SlotFree
    /\ Fault
    /\ Put(r, [NoRun EXCEPT !.status = "reserved"])
    /\ call' = [c \in Calls |-> Idle]
    /\ UNCHANGED <<hostVars, lease>>

\* dispatchCodingWork for a release whose run exists.
Resume(c, r) ==
    /\ At(c, "idle")
    /\ Launchable(r)
    /\ ~run[r].host
    /\ Put(r, [run[r] EXCEPT !.host = TRUE])
    /\ Goto(c, "lock", r)
    /\ NoFault
    /\ UNCHANGED <<hostVars, lease>>

\* The dedicated worktree is created and locked for a day.
LockWorkspace(c) ==
    /\ At(c, "lock")
    /\ lease' = [lease EXCEPT ![On(c)] = "held"]
    /\ Advance(c, "bind")
    /\ NoFault
    /\ UNCHANGED <<hostVars, run>>

BindWorkspace(c) ==
    /\ At(c, "bind")
    /\ Launchable(On(c))
    /\ OwnsWorkspace(On(c))
    /\ Put(On(c), [run[On(c)] EXCEPT !.workspace = TRUE])
    /\ Advance(c, "prepare")
    /\ NoFault
    /\ UNCHANGED <<hostVars, lease>>

PrepareAttempt(c) ==
    /\ At(c, "prepare")
    /\ Prepare(On(c))
    /\ Advance(c, "start")
    /\ NoFault
    /\ UNCHANGED <<run, lease>>

\* The authority is read again, and the run marked running, before the launch.
StartRun(c) ==
    /\ At(c, "start")
    /\ Launchable(On(c))
    /\ OwnsWorkspace(On(c))
    /\ Put(On(c), [run[On(c)] EXCEPT !.status = "running"])
    /\ Advance(c, "claim")
    /\ NoFault
    /\ UNCHANGED <<hostVars, lease>>

\* "Permanent launch fence. A crash between claim and spawn MUST NOT retry."
ClaimAttempt(c) ==
    /\ At(c, "claim")
    /\ IF On(c) \in claimed
       THEN UNCHANGED hostVars /\ Advance(c, "inspect")
       ELSE ClaimLaunch(On(c)) /\ Advance(c, "spawn")
    /\ NoFault
    /\ UNCHANGED <<run, lease>>

SpawnAttempt(c) ==
    /\ At(c, "spawn")
    /\ SpawnSupervisor(On(c))
    /\ Advance(c, "inspect")
    /\ NoFault
    /\ UNCHANGED <<run, lease>>

\* The catch of the launch: a step failed or the launch was fenced.  The record is
\* cancelled, the host told, and the run quarantined when the host has answered.
FenceLaunch(c, published) ==
    /\ Put(On(c), IF Ended(On(c)) THEN run[On(c)] ELSE Cancelled(run[On(c)]))
    /\ IF published /\ ~Ended(On(c)) THEN PublishCancellation(On(c)) ELSE UNCHANGED hostVars
    /\ Advance(c, "fenced")
    /\ UNCHANGED lease

LaunchRefused(c) ==
    /\ \/ At(c, "bind")
       \/ At(c, "start")
    /\ ~(Launchable(On(c)) /\ OwnsWorkspace(On(c)))
    /\ FenceLaunch(c, GateOpen(On(c)))
    /\ NoFault

LaunchFails(c) ==
    /\ call[c].at \in {"lock", "bind", "prepare", "start", "claim", "spawn"}
    /\ Fault
    /\ FenceLaunch(c, GateOpen(On(c)))

QuarantineLaunch(c) ==
    /\ At(c, "fenced")
    /\ QuarantineAndReturn(c)
    /\ NoFault
    /\ UNCHANGED hostVars

----------------------------------------------------------------------------
(* The reconciliation. *)

\* Up to the inspection.  The release or its context may no longer be valid, which
\* cancels the run; a cancelled run is published to its host again and again.
Reconcile(c, r) ==
    \E withdrawn \in BOOLEAN :
        LET record == IF withdrawn THEN Cancelled(run[r]) ELSE run[r]
            fails == ~record.host \/ (record.cancel /\ ~GateOpen(r))
        IN  /\ At(c, "idle")
            /\ HoldsSlot(r)
            /\ Put(r, IF fails THEN Quarantined(record) ELSE record)
            /\ IF record.cancel /\ ~fails THEN PublishCancellation(r) ELSE UNCHANGED hostVars
            /\ IF fails THEN UNCHANGED call ELSE Goto(c, "inspect", r)
            /\ NoFault
            /\ UNCHANGED lease

\* The attempt is under way: its session is learned, and the call is over.
SeeProgress(c) ==
    /\ At(c, "inspect")
    /\ Observed(On(c))
    /\ \E learned \in {run[On(c)].session, ~Ended(On(c)) /\ provider[On(c)] # "none"} :
          Put(On(c), [run[On(c)] EXCEPT !.session = @ \/ learned])
    /\ Return(c)
    /\ NoFault
    /\ UNCHANGED <<hostVars, lease>>

\* The attempt is over: its session is learned, the run collects.
SeeEnd(c) ==
    /\ At(c, "inspect")
    /\ Finished(On(c))
    /\ ~Ended(On(c))
    /\ Put(On(c), [run[On(c)] EXCEPT
                     !.session = @ \/ receipt[On(c)] = "completed",
                     !.status = IF @ = "running" THEN "collecting" ELSE @])
    /\ Advance(c, "collect")
    /\ NoFault
    /\ UNCHANGED <<hostVars, lease>>

\* Neither: a recoverable attempt is looked up in the process table.
ReadGroup(c) ==
    /\ At(c, "inspect")
    /\ Recoverable(On(c))
    /\ ~Finished(On(c))
    /\ ~Observed(On(c))
    /\ Advance(c, "table")
    /\ NoFault
    /\ UNCHANGED <<hostVars, run, lease>>

\* The same after a stall: the heartbeat of a living supervisor is five seconds old.
MisreadGroup(c) ==
    /\ At(c, "inspect")
    /\ Recoverable(On(c))
    /\ Observed(On(c))
    /\ Fault
    /\ Advance(c, "table")
    /\ UNCHANGED <<hostVars, run, lease>>

RecoverAttempt(c) ==
    /\ At(c, "table")
    /\ ~Watched(On(c))
    /\ GroupAbsent(On(c))
    /\ RecoverReceipt(On(c))
    /\ Advance(c, "inspect")
    /\ NoFault
    /\ UNCHANGED <<run, lease>>

\* Nothing is known, or something still lives: "retain ownership".
RetainOwnership(c) ==
    /\ \/ /\ At(c, "inspect")
          /\ ~Finished(On(c)) /\ ~Observed(On(c)) /\ ~Recoverable(On(c))
       \/ /\ At(c, "table")
          /\ Watched(On(c)) \/ ~GroupAbsent(On(c))
       \/ /\ At(c, "inspect")       \* another call ended the run meanwhile
          /\ Ended(On(c))
    /\ QuarantineAndReturn(c)
    /\ NoFault
    /\ UNCHANGED hostVars

\* Nothing was retained of the attempt, and its worktree is refused: too much that is
\* untracked, or of a kind that is not read; a diff too large; a filter or a
\* submodule in the repository; another branch.  Who is refused once is always.
Refused(r) == r \in uncollectable /\ evidence[r] = "none"

CollectAttempt(c) ==
    /\ At(c, "collect")
    /\ Finished(On(c)) /\ ~Refused(On(c))
    /\ Collect(On(c))
    /\ Advance(c, "finish")
    /\ NoFault
    /\ UNCHANGED <<run, lease>>

CollectRefused(c) ==
    /\ At(c, "collect")
    /\ Refused(On(c))
    /\ QuarantineAndReturn(c)
    /\ NoFault
    /\ UNCHANGED hostVars

\* What the store asks of a candidate beyond its evidence.
Presentable(r) == OwnsWorkspace(r) /\ run[r].status \in {"collecting", "needs-reconcile"}

\* Mutant: the retained evidence is presented however its attempt ended.
AnyEvidence(record, kind) == ~record.cancel /\ record.session /\ kind \in FinalReceipts

\* A completed receipt of a run with a session that nobody cancelled.
IsCandidate(record, kind) == ~record.cancel /\ kind = "completed" /\ record.session

\* The authority is read a last time; the end is written with the proof of death.
FinishRun(c) ==
    /\ At(c, "finish")
    /\ ~Ended(On(c))
    /\ run[On(c)].workspace
    /\ \E withdrawn \in BOOLEAN :
          LET record == IF withdrawn THEN Cancelled(run[On(c)]) ELSE run[On(c)]
              end == IF record.cancel THEN "cancelled"
                     ELSE IF IsCandidate(record, evidence[On(c)]) THEN "candidate"
                     ELSE "failed"
              refused == end = "candidate" /\ ~Presentable(On(c))
          IN  IF refused
              THEN Put(On(c), Quarantined(record)) /\ Return(c)
              ELSE Put(On(c), [record EXCEPT !.status = end]) /\ Advance(c, "release")
    /\ NoFault
    /\ UNCHANGED <<hostVars, lease>>

\* Another call finished the run first, or it has no workspace to present.
FinishRefused(c) ==
    /\ At(c, "finish")
    /\ Ended(On(c)) \/ ~run[On(c)].workspace
    /\ QuarantineAndReturn(c)
    /\ NoFault
    /\ UNCHANGED hostVars

ReleaseWorkspace(c) ==
    /\ At(c, "release")
    /\ lease' = [lease EXCEPT ![On(c)] = "released"]
    /\ Return(c)
    /\ NoFault
    /\ UNCHANGED <<hostVars, run>>

\* Any await of the reconciliation may fail.
ReconcileFails(c) ==
    /\ call[c].at \in {"inspect", "table", "collect", "finish"}
    /\ Fault
    /\ QuarantineAndReturn(c)
    /\ UNCHANGED hostVars

----------------------------------------------------------------------------
(* Cancellation, the passing of time and the death of the process. *)

\* The operator cancels; the call that follows is a reconciliation.
OperatorCancels(r) ==
    /\ HoldsSlot(r)
    /\ ~run[r].cancel
    /\ Put(r, Cancelled(run[r]))
    /\ NoFault
    /\ UNCHANGED <<hostVars, lease, call>>

\* fence: a change of the factory's authority cancels and publishes in one stretch.
\* The record is written first, so a gate that is in use leaves it cancelled.
FenceAuthority(r) ==
    /\ HoldsSlot(r)
    /\ Put(r, Cancelled(run[r]))
    /\ IF run[r].host /\ GateOpen(r) THEN PublishCancellation(r) ELSE UNCHANGED hostVars
    /\ NoFault
    /\ UNCHANGED <<lease, call>>

LeaseExpires(r) ==
    /\ lease[r] = "held"
    /\ Fault
    /\ lease' = [lease EXCEPT ![r] = "expired"]
    /\ UNCHANGED <<hostVars, run, call>>

\* The provider, or whoever else works there, makes the worktree one that is refused.
\* Bound: once the attempt is claimed, and as long as its evidence is not retained;
\* nobody is asked to make it good again.
SpoilWorktree(r) ==
    /\ r \in claimed /\ evidence[r] = "none"
    /\ r \notin uncollectable
    /\ uncollectable' = uncollectable \cup {r}
    /\ UNCHANGED <<hostVars, run, lease, call, faults>>

\* The server dies, perhaps inside the gate of a run it is cancelling.
Crash ==
    /\ Fault
    /\ call' = [c \in Calls |-> Idle]
    /\ \/ UNCHANGED hostVars
       \/ \E r \in Runs : HoldsSlot(r) /\ run[r].cancel /\ run[r].host /\ GateOpen(r) /\ DieInGate(r)
    /\ UNCHANGED <<run, lease>>

----------------------------------------------------------------------------

HostStep(r) ==
    /\ \/ SupervisorStarts(r) \/ PreflightEnds(r) \/ SpawnAnchor(r) \/ PersistGroup(r)
       \/ TellAnchor(r) \/ StopWatching(r) \/ KillGroup(r) \/ LoseGroup(r)
       \/ CloseAttempt(r) \/ AdmitUncertainty(r) \/ SupervisorDies(r)
       \/ EnterGate(r) \/ PassCheck(r) \/ SpawnProvider(r) \/ RefuseProvider(r)
       \/ ProviderEnds(r) \/ WatchdogFires(r)
    /\ UNCHANGED controlVars

LaunchStep(c) ==
    \/ LockWorkspace(c) \/ BindWorkspace(c) \/ PrepareAttempt(c) \/ StartRun(c)
    \/ ClaimAttempt(c) \/ SpawnAttempt(c) \/ LaunchRefused(c) \/ LaunchFails(c)
    \/ QuarantineLaunch(c)

ReconcileStep(c) ==
    \/ SeeProgress(c) \/ SeeEnd(c) \/ ReadGroup(c) \/ MisreadGroup(c)
    \/ RecoverAttempt(c) \/ RetainOwnership(c) \/ CollectAttempt(c) \/ CollectRefused(c)
    \/ FinishRun(c) \/ FinishRefused(c) \/ ReleaseWorkspace(c) \/ ReconcileFails(c)

Next ==
    \/ \E c \in Calls : LaunchStep(c) \/ ReconcileStep(c)
    \/ \E c \in Calls, r \in Runs : Reserve(c, r) \/ Resume(c, r) \/ Reconcile(c, r)
    \/ \E r \in Runs : ReserveAndDie(r) \/ OperatorCancels(r) \/ FenceAuthority(r)
                       \/ LeaseExpires(r) \/ SpoilWorktree(r) \/ HostStep(r)
    \/ Crash

Spec == Init /\ [][Next]_vars

\* The ticker reconciles the active run every three seconds and calls return; the
\* processes of the host run, and the watchdog and the wall time end them.
Fairness ==
    /\ \A r \in Runs : WF_vars(HostStep(r)) /\ WF_vars(\E c \in Calls : Reconcile(c, r))
    /\ \A c \in Calls : WF_vars(LaunchStep(c) \/ ReconcileStep(c))
LiveSpec == Spec /\ Fairness

----------------------------------------------------------------------------

\* One provider is started per run, and never beside that of another run: the
\* reservation, the launch claim and the proof of death together keep the promise
\* of ExternalWork ("Permanent launch fence", local-host.ts).
ProviderWork == INSTANCE ExternalWork WITH
    Work <- Runs,
    started <- {r \in Runs : provider[r] # "none"},
    live <- {r \in Runs : provider[r] = "live"}
OneWriter == ProviderWork!Spec

\* The writer slot and the worktree are given up only over a dead attempt: no
\* process of it is left that could write, or start a writer, afterwards.
OwnershipIsKept ==
    \A r \in Runs : Ended(r) \/ lease[r] = "released" =>
        supervisor[r] = "gone" /\ GroupAbsent(r)

\* A cancellation that was published before the provider was started prevents it,
\* whichever of the controller and the anchor comes first to the gate.
CancelFences ==
    [][\A r \in Runs : provider[r] = "none" /\ provider'[r] = "live" => r \notin revoked]_vars

\* A candidate is the work of a provider that ended by itself and succeeded, in a
\* run nobody cancelled; a killed, lost or half-finished attempt never becomes one.
CandidateIsWhole ==
    \A r \in Runs : run[r].status = "candidate" => outcome[r] = "completed" /\ ~run[r].cancel

\* An attempt whose group is on record comes to an end, whoever dies: the ticker
\* finds it again, unless the day's lock ran out, a gate was left behind, or the
\* collection refuses the worktree, which keeps slot and worktree for good.
KnownGroupEnds ==
    \A r \in Runs : heartbeat[r] = "group" ~>
        Ended(r) \/ lease[r] = "expired" \/ gate[r] = "stale" \/ Refused(r)

\* "Reconciliation monitors the same job" (.plans/factory/SLICE_2_OPERATOR.md:29): a
\* run is not quarantined under the launch that is preparing it.
LaunchIsMonitored ==
    [][\A r \in Runs, c \in Calls :
          /\ call[c].at \in {"lock", "bind", "prepare", "start"}
          /\ call[c].on = r
          /\ run[r].status = "reserved"
          /\ ~run'[r].cancel
          => run'[r].status # "needs-reconcile"]_vars
=============================================================================
