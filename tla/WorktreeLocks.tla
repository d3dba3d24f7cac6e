---------------------------- MODULE WorktreeLocks ----------------------------
(***************************************************************************)
(* The lock of a managed worktree, src/src/modules/worktrees, and the calls  *)
(* that work under it: agents that patch, synchronise and verify, sessions   *)
(* of the user that commit and push and may preempt an agent, cleanups that  *)
(* remove the worktree, and synchronisations that take no lock.              *)
(*                                                                          *)
(* One worktree of one pull request: acquireLock lets a lock of the worktree *)
(* and a lock of its pull request exclude each other, so the scope is left   *)
(* out.  A call takes one lock, so the row of the lock is named after it; the *)
(* life of a row is the time that has passed over it.  The server runs all    *)
(* calls, and everything up to the next await of a call is one action.        *)
(*                                                                          *)
(* A worktree that belongs to the factory is not modelled: guardCodingWorktree *)
(* refuses every call of this module for it; CodingRuns holds its lock.       *)
(***************************************************************************)
EXTENDS Naturals

CONSTANTS
    Agents,     \* calls that mutate under a lock and look at it before each write
    Sessions,   \* interactive calls: they preempt, and do not look again
    Cleaners,   \* cleanups of the worktree
    Syncs,      \* synchronisations without a lock
    Nested,     \* calls made inside a workflow run or a submission: preemptible
    MaxFaults   \* bound: crashes, and mutations that outlast a grace or a lease

Lockers == Agents \cup Sessions \cup Cleaners
Calls == Lockers \cup Syncs

ASSUME FaultsAssumption == MaxFaults \in Nat
ASSUME NestedAssumption == Nested \subseteq Lockers

VARIABLES
    status,     \* lifecycle status of the record
    gone,       \* the directory was removed
    lock,       \* the row of each call's lock
    call,       \* what each call is at
    target,     \* the lock a session was refused for
    overran,    \* history: calls whose mutation outlasted its lock
    torn,       \* history: a crash took the record of the last release
    faults

vars == <<status, gone, lock, call, target, overran, torn, faults>>

Statuses == {"ready", "busy", "needs-sync", "prepared-diff", "succeeded",
             "cleanup-pending", "deleted"}
\* lapsed: revoked, and the grace of thirty seconds is over.
Rows == {"none", "held", "revoked", "lapsed", "expired", "released"}
Labels == {"idle", "opened", "working", "writing", "rolling", "refused", "waiting",
           "running", "read", "decided", "checking", "removing", "syncing", "done", "dead"}
NoCall == "none"

WorktreeTypeOK ==
    /\ status \in Statuses
    /\ gone \in BOOLEAN
    /\ lock \in [Lockers -> Rows]
    /\ call \in [Calls -> Labels]
    /\ target \in [Sessions -> Lockers \cup {NoCall}]
    /\ \A s \in Sessions : call[s] \in {"refused", "waiting"} => target[s] \in Nested
    /\ overran \subseteq Lockers
    /\ torn \in BOOLEAN
    /\ faults \in 0..MaxFaults

Init ==
    /\ status = "ready"
    /\ gone = FALSE
    /\ lock = [c \in Lockers |-> "none"]
    /\ call = [c \in Calls |-> "idle"]
    /\ target = [s \in Sessions |-> NoCall]
    /\ overran = {}
    /\ torn = FALSE
    /\ faults = 0

----------------------------------------------------------------------------
(* The lock table. *)

Active(c) == lock[c] \notin {"none", "released"}
Unexpired(c) == lock[c] \in {"held", "revoked", "lapsed"}

\* Mutant: a revoked lock is free at once, without the grace.
ReclaimableOnceRevoked(c) == lock[c] \in {"revoked", "lapsed", "expired"}
\* Mutant: only the expiry makes a lock reclaimable.
ReclaimableOnceExpired(c) == lock[c] = "expired"

\* isLockReclaimable
Reclaimable(c) == lock[c] \in {"lapsed", "expired"}
Free == \A c \in Lockers : Active(c) => Reclaimable(c)

\* Mutant: the reclaimed rows are left as they are.
Inserted(c) == [lock EXCEPT ![c] = "held"]

\* acquireLock: what it reclaims it releases.
Acquired(c) == [d \in Lockers |-> IF d = c THEN "held"
                                  ELSE IF Active(d) THEN "released" ELSE lock[d]]

\* Mutant: a revoked lease still permits a mutation.
LeaseUnexpired(c) == Unexpired(c) /\ \A d \in Lockers \ {c} : ~Unexpired(d)

\* assertNoForeignActiveLock, with and without a lock of one's own.
LeaseHolds(c) == lock[c] = "held" /\ \A d \in Lockers \ {c} : ~Unexpired(d)
NobodyHolds == \A d \in Lockers : ~Unexpired(d)

Move(c, from, to) == call[c] = from /\ call' = [call EXCEPT ![c] = to]
Fault == faults < MaxFaults /\ faults' = faults + 1
NoFault == UNCHANGED <<faults, overran>>
Calm == NoFault /\ UNCHANGED torn

\* lockWorktree, when it succeeds: the record turns busy, deleted or not.  The row and
\* the record are two transactions with no await on anything outstanding between them;
\* so are those of Release, Preempt, RemoveWorktree and CleanupFails.  Only a crash
\* comes between the two: CutLock and what follows it.
Take(c) ==
    /\ Free
    /\ lock' = Acquired(c)
    /\ status' = "busy"
    /\ torn' = FALSE

\* Mutant: the release leaves the record as it is.
ReleaseRow(c, final) == lock' = [lock EXCEPT ![c] = "released"] /\ UNCHANGED status

\* releaseWorktreeLock: a lock that was reclaimed is released already.
Release(c, final) ==
    IF Active(c)
    THEN lock' = [lock EXCEPT ![c] = "released"] /\ status' = final
    ELSE UNCHANGED <<lock, status>>

\* The caller finds a worktree that is not deleted, and awaits before it locks it.
Open(c) ==
    /\ c \in Agents \cup Sessions
    /\ Move(c, "idle", "opened")
    /\ status # "deleted"
    /\ Calm
    /\ UNCHANGED <<status, gone, lock, target>>

----------------------------------------------------------------------------
(* Agents: patches, locked synchronisations, verification. *)

AgentLocks(a) ==
    /\ Move(a, "opened", "working")
    /\ Take(a)
    /\ NoFault
    /\ UNCHANGED <<gone, target>>

AgentIsRefused(a) ==
    /\ Move(a, "opened", "done")
    /\ ~Free
    /\ Calm
    /\ UNCHANGED <<status, gone, lock, target>>

BeginPatch(a) ==
    /\ Move(a, "working", "writing")
    /\ LeaseHolds(a)
    /\ Calm
    /\ UNCHANGED <<status, gone, lock, target>>

\* The lease is asserted before each file; without it the files written so far are
\* rolled back, and for that nobody looks at the lease.
RollBack(a) ==
    /\ Move(a, "writing", "rolling")
    /\ ~LeaseHolds(a)
    /\ Calm
    /\ UNCHANGED <<status, gone, lock, target>>

\* A synchronisation ends by writing the record back as ready.
EndPatch(a) ==
    /\ \/ Move(a, "writing", "working") /\ \E after \in {status, "ready"} :
                                              status' = IF gone THEN status ELSE after
       \/ Move(a, "rolling", "working") /\ UNCHANGED status
    /\ Calm
    /\ UNCHANGED <<gone, lock, target>>

AgentReleases(a) ==
    /\ Move(a, "working", "done")
    /\ \E final \in {"ready", "prepared-diff"} : Release(a, final)
    /\ Calm
    /\ UNCHANGED <<gone, target>>

----------------------------------------------------------------------------
(* Sessions: withInteractiveWorktreeLock. *)

SessionLocks(s) ==
    /\ Move(s, "opened", "running")
    /\ Take(s)
    /\ NoFault
    /\ UNCHANGED <<gone, target>>

\* Mutant: whoever holds the lock is preempted.
AnyHolder(c) == c \in Lockers

\* A lock without a workflow run is never preempted.
Preemptible(c) == c \in Nested
SessionIsRefused(s) ==
    /\ \E c \in Lockers :
          /\ Active(c) /\ ~Reclaimable(c)
          /\ target' = [target EXCEPT ![s] = c]
          /\ Move(s, "opened", IF Preemptible(c) THEN "refused" ELSE "done")
    /\ Calm
    /\ UNCHANGED <<status, gone, lock>>

\* revokeWorktreeLockLease, and recordWorktreePushBlocked whatever it found.
Preempt(s) ==
    /\ Move(s, "refused", "waiting")
    /\ lock' = [lock EXCEPT ![target[s]] = IF @ = "held" THEN "revoked" ELSE @]
    /\ status' = "prepared-diff"
    /\ Calm
    /\ UNCHANGED <<gone, target>>

\* Mutant: the wait has no deadline.
HandedOver(s) == lock[target[s]] = "released"

\* waitForWorktreeLockHandoff: released, or thirty seconds after the revocation.
WaitIsOver(s) == lock[target[s]] \in {"released", "lapsed", "expired"}

Handoff(s) ==
    /\ call[s] = "waiting"
    /\ WaitIsOver(s)
    /\ IF Free
       THEN Move(s, "waiting", "running") /\ Take(s)
       ELSE Move(s, "waiting", "done") /\ UNCHANGED <<status, lock, torn>>
    /\ NoFault
    /\ UNCHANGED <<gone, target>>

SessionPushes(s) ==
    /\ call[s] = "running"
    /\ ~gone
    /\ status' = "succeeded"
    /\ Calm
    /\ UNCHANGED <<gone, lock, call, target>>

\* The record is read again for the final status; a missing directory reads as none.
SessionReleases(s) ==
    /\ Move(s, "running", "done")
    /\ Release(s, IF status = "succeeded" /\ ~gone THEN "succeeded" ELSE "ready")
    /\ Calm
    /\ UNCHANGED <<gone, target>>

----------------------------------------------------------------------------
(* Cleanups. *)

Deletable == {"ready", "needs-sync", "succeeded", "cleanup-pending"}

\* The decision is made on the record that was read here.
CleanupReads(k) ==
    /\ Move(k, "idle", IF status \in Deletable THEN "read" ELSE "done")
    /\ Calm
    /\ UNCHANGED <<status, gone, lock, target>>

CleanupDecides(k) ==
    /\ \E clean \in BOOLEAN :
          Move(k, "read", IF NobodyHolds /\ clean THEN "decided" ELSE "done")
    /\ Calm
    /\ UNCHANGED <<status, gone, lock, target>>

CleanupLocks(k) ==
    /\ IF Free
       THEN Move(k, "decided", "checking") /\ Take(k)
       ELSE Move(k, "decided", "done") /\ UNCHANGED <<status, lock, torn>>
    /\ NoFault
    /\ UNCHANGED <<gone, target>>

CleanupChecks(k) ==
    /\ Move(k, "checking", "removing")
    /\ Calm
    /\ UNCHANGED <<status, gone, lock, target>>

\* git worktree remove, the release and the record; it refuses a dirty worktree, and
\* one that is gone already.
RemoveWorktree(k) ==
    /\ Move(k, "removing", "done")
    /\ ~gone
    /\ gone' = TRUE
    /\ lock' = [lock EXCEPT ![k] = "released"]
    /\ status' = "deleted"
    /\ Calm
    /\ UNCHANGED target

CleanupFails(k) ==
    /\ \/ Move(k, "checking", "done")
       \/ Move(k, "removing", "done")
    /\ lock' = [lock EXCEPT ![k] = "released"]
    /\ status' = "cleanup-pending"
    /\ Calm
    /\ UNCHANGED <<gone, target>>

----------------------------------------------------------------------------
(* Synchronisations without a lock: they look once, before the first await. *)

BeginSync(y) ==
    /\ Move(y, "idle", "syncing")
    /\ status # "deleted"
    /\ NobodyHolds
    /\ Calm
    /\ UNCHANGED <<status, gone, lock, target>>

EndSync(y) ==
    /\ Move(y, "syncing", "done")
    /\ status' \in IF gone THEN {status} ELSE {status, "needs-sync", "ready"}
    /\ Calm
    /\ UNCHANGED <<gone, lock, target>>

----------------------------------------------------------------------------
(* Time and crashes. *)

\* From the check of its lease to its last write.
Mutating(c) == call[c] \in {"writing", "rolling", "running", "checking", "removing"}

\* A mutation that lasts longer than the grace, and a holder that outlives its lease,
\* are faults; otherwise time just passes.
Outlast(c) ==
    /\ Fault
    /\ overran' = IF Mutating(c) THEN overran \cup {c} ELSE overran

GracePasses(c) ==
    /\ lock[c] = "revoked"
    /\ lock' = [lock EXCEPT ![c] = "lapsed"]
    /\ IF Mutating(c) THEN Outlast(c) ELSE NoFault
    /\ UNCHANGED <<status, gone, call, target, torn>>

LeaseExpires(c) ==
    /\ Unexpired(c)
    /\ lock' = [lock EXCEPT ![c] = "expired"]
    /\ IF call[c] = "dead" THEN NoFault ELSE Outlast(c)
    /\ UNCHANGED <<status, gone, call, target, torn>>

\* The server dies with every call that is under way; the rows stay.
Die ==
    /\ Fault
    /\ call' = [c \in Calls |-> IF call[c] \in {"idle", "done"} THEN call[c] ELSE "dead"]
    /\ UNCHANGED <<target, overran>>

Crash == Die /\ UNCHANGED <<status, gone, lock, torn>>

\* It dies in lockWorktree, between the row and the record.
CutLock(c) ==
    /\ Die
    /\ \/ call[c] \in {"opened", "decided"}
       \/ call[c] = "waiting" /\ WaitIsOver(c)
    /\ Free
    /\ lock' = Acquired(c)
    /\ UNCHANGED <<status, gone, torn>>

\* In releaseWorktreeLock: the row is released, the record still says busy.
CutRelease(c) ==
    /\ Die
    /\ \/ c \in Agents /\ call[c] = "working"
       \/ c \in Sessions /\ call[c] = "running"
    /\ Active(c)
    /\ lock' = [lock EXCEPT ![c] = "released"]
    /\ torn' = TRUE
    /\ UNCHANGED <<status, gone>>

\* Between the revocation and the record of the preemption.
CutPreempt(s) ==
    /\ Die
    /\ call[s] = "refused"
    /\ lock' = [lock EXCEPT ![target[s]] = IF @ = "held" THEN "revoked" ELSE @]
    /\ UNCHANGED <<status, gone, torn>>

\* In a cleanup that removed the directory, before the release or before the record.
CutRemove(k) ==
    /\ Die
    /\ call[k] = "removing" /\ ~gone
    /\ gone' = TRUE
    /\ \/ UNCHANGED <<lock, torn>>
       \/ lock' = [lock EXCEPT ![k] = "released"] /\ torn' = TRUE
    /\ UNCHANGED status

\* In a cleanup that failed: it records the failure first and releases then.
CutFailure(k) ==
    /\ Die
    /\ call[k] \in {"checking", "removing"}
    /\ status' = "cleanup-pending"
    /\ UNCHANGED <<gone, lock, torn>>

----------------------------------------------------------------------------

AgentStep(a) ==
    AgentLocks(a) \/ AgentIsRefused(a) \/ BeginPatch(a) \/ RollBack(a) \/ EndPatch(a)
    \/ AgentReleases(a)
SessionStep(s) ==
    SessionLocks(s) \/ SessionIsRefused(s) \/ Preempt(s) \/ Handoff(s) \/ SessionPushes(s)
    \/ SessionReleases(s)
CleanerStep(k) ==
    CleanupReads(k) \/ CleanupDecides(k) \/ CleanupLocks(k) \/ CleanupChecks(k)
    \/ RemoveWorktree(k) \/ CleanupFails(k)

Next ==
    \/ \E c \in Calls : Open(c)
    \/ \E a \in Agents : AgentStep(a)
    \/ \E s \in Sessions : SessionStep(s)
    \/ \E k \in Cleaners : CleanerStep(k)
    \/ \E y \in Syncs : BeginSync(y) \/ EndSync(y)
    \/ \E c \in Lockers : GracePasses(c) \/ LeaseExpires(c)
    \/ Crash
    \/ \E c \in Lockers : CutLock(c) \/ CutRelease(c)
    \/ \E s \in Sessions : CutPreempt(s)
    \/ \E k \in Cleaners : CutRemove(k) \/ CutFailure(k)

Spec == Init /\ [][Next]_vars

\* Time passes, a mutation that has begun comes back, and a session goes on.
Fairness ==
    /\ \A c \in Lockers : WF_vars(GracePasses(c))
    /\ \A a \in Agents : WF_vars(EndPatch(a))
    /\ \A s \in Sessions : WF_vars(Preempt(s)) /\ WF_vars(Handoff(s))
                           /\ WF_vars(SessionReleases(s))
    /\ \A k \in Cleaners : WF_vars(CleanupChecks(k)) /\ WF_vars(CleanupFails(k))
LiveSpec == Spec /\ Fairness

----------------------------------------------------------------------------

\* Two calls mutate the worktree at once only when one of them outlasted its lock: the
\* grace, the assertion before each file and the silent rollback leave no other overlap.
\* A synchronisation without a lock is not covered.
MutationsExclude ==
    \A c, d \in Lockers : c # d /\ Mutating(c) /\ Mutating(d) => {c, d} \cap overran # {}

\* A worktree and its pull request have one unreleased lock, whoever reclaims what.
OneLock == \A c, d \in Lockers : Active(c) /\ Active(d) => c = d

\* A busy worktree is locked, whoever reclaimed, preempted or removed; the admission of
\* autopilot work counts on both.  A crash inside a release may leave it busy without a
\* lock, and the next call that locks the worktree ends that.
BusyIsLocked == status = "busy" => torn \/ \E c \in Lockers : Active(c)

\* A session that preempted a lock and waited gives up only when somebody else has
\* taken the worktree meanwhile, never for the lock it preempted.
PreemptionIsHonoured ==
    [][\A s \in Sessions : call[s] = "waiting" /\ call'[s] = "done"
          => lock[target[s]] = "released"]_vars

\* A session that preempts gets an answer, whether or not the holder yields.
PreemptionEnds == \A s \in Sessions : call[s] = "waiting" ~> call[s] # "waiting"

\* "recreates a deleted target without overwriting its audit identity"
\* (src/src/worktrees.test.ts:126): a record that is deleted stays deleted.
DeletedStaysDeleted == [][status = "deleted" => status' = "deleted"]_vars
=============================================================================
