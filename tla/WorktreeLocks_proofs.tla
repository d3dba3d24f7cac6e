------------------------- MODULE WorktreeLocks_proofs -------------------------
(***************************************************************************)
(* Proofs about the lock of a worktree, for any calls and any number of      *)
(* faults: types, one unreleased row, mutual exclusion of what mutates, the   *)
(* busy status and the promise to a session that preempts.                    *)
(***************************************************************************)
EXTENDS WorktreeLocks, TLAPS

\* A call that mutates and did not outlast its lock has an unexpired row that nobody
\* may reclaim yet: this is what makes MutationsExclude inductive.
MutatorsHold ==
    \A c \in Lockers : Mutating(c) /\ c \notin overran => lock[c] \in {"held", "revoked"}

Inv == WorktreeTypeOK /\ OneLock /\ MutatorsHold /\ BusyIsLocked

-----------------------------------------------------------------------------
(* What a step does to the rows. *)

RowsRest == UNCHANGED <<lock, torn>> /\ (status' = "busy" => status = "busy")
RowTaken == \E c \in Lockers : Free /\ lock' = Acquired(c)
RowReleased == \E c \in Lockers :
    lock' = [lock EXCEPT ![c] = "released"] /\ (status' # "busy" \/ torn')
RowAged == \E c \in Lockers, r \in {"revoked", "lapsed", "expired"} :
    /\ Active(c)
    /\ lock' = [lock EXCEPT ![c] = r]
    /\ UNCHANGED torn
    /\ (status' = "busy" => status = "busy")

LEMMA RowKinds ==
    ASSUME WorktreeTypeOK, Next
    PROVE  RowsRest \/ RowTaken \/ RowReleased \/ RowAged
  <1> USE DEF Lockers, Calm, Take
  <1>0. ASSUME NEW c \in Lockers, NEW f, f # "busy", Release(c, f), UNCHANGED torn
        PROVE  RowsRest \/ RowReleased
    BY <1>0 DEF Release, RowsRest, RowReleased
  <1>1. CASE \E c \in Calls : Open(c)
    BY <1>1 DEF Open, RowsRest
  <1>2. ASSUME NEW a \in Agents, AgentStep(a)
        PROVE  RowsRest \/ RowTaken \/ RowReleased \/ RowAged
    <2>1. CASE AgentLocks(a)
      BY <2>1 DEF AgentLocks, RowTaken
    <2>2. CASE AgentIsRefused(a) \/ BeginPatch(a) \/ RollBack(a)
      BY <2>2 DEF AgentIsRefused, BeginPatch, RollBack, RowsRest
    <2>3. CASE EndPatch(a)
      BY <2>3 DEF EndPatch, RowsRest
    <2>4. CASE AgentReleases(a)
      BY <2>4, <1>0 DEF AgentReleases
    <2> QED
      BY <1>2, <2>1, <2>2, <2>3, <2>4 DEF AgentStep
  <1>3. ASSUME NEW s \in Sessions, SessionStep(s)
        PROVE  RowsRest \/ RowTaken \/ RowReleased \/ RowAged
    <2>1. CASE SessionLocks(s)
      BY <2>1 DEF SessionLocks, RowTaken
    <2>2. CASE SessionIsRefused(s) \/ SessionPushes(s)
      BY <2>2 DEF SessionIsRefused, SessionPushes, RowsRest
    <2>3. CASE Preempt(s)
      <3>1. target[s] \in Lockers
        BY <2>3, NestedAssumption DEF WorktreeTypeOK, Preempt, Move
      <3>2. CASE lock[target[s]] = "held"
        BY <2>3, <3>1, <3>2 DEF Preempt, RowAged, Active, WorktreeTypeOK
      <3>3. CASE lock[target[s]] # "held"
        BY <2>3, <3>1, <3>3 DEF Preempt, RowsRest, WorktreeTypeOK
      <3> QED
        BY <3>2, <3>3
    <2>4. CASE Handoff(s)
      BY <2>4 DEF Handoff, RowTaken, RowsRest
    <2>5. CASE SessionReleases(s)
      <3>1. ASSUME NEW f \in {"succeeded", "ready"}, Release(s, f), UNCHANGED torn
            PROVE  RowsRest \/ RowReleased
        BY <3>1, <1>0
      <3> QED
        BY <2>5, <3>1 DEF SessionReleases
    <2> QED
      BY <1>3, <2>1, <2>2, <2>3, <2>4, <2>5 DEF SessionStep
  <1>4. ASSUME NEW k \in Cleaners, CleanerStep(k)
        PROVE  RowsRest \/ RowTaken \/ RowReleased \/ RowAged
    <2>1. CASE CleanupReads(k) \/ CleanupDecides(k) \/ CleanupChecks(k)
      BY <2>1 DEF CleanupReads, CleanupDecides, CleanupChecks, RowsRest
    <2>2. CASE CleanupLocks(k)
      BY <2>2 DEF CleanupLocks, RowTaken, RowsRest
    <2>3. CASE RemoveWorktree(k) \/ CleanupFails(k)
      BY <2>3 DEF RemoveWorktree, CleanupFails, RowReleased
    <2> QED
      BY <1>4, <2>1, <2>2, <2>3 DEF CleanerStep
  <1>5. CASE \E y \in Syncs : BeginSync(y) \/ EndSync(y)
    BY <1>5 DEF BeginSync, EndSync, RowsRest
  <1>6. ASSUME NEW c \in Lockers, GracePasses(c) \/ LeaseExpires(c)
        PROVE  RowAged
    BY <1>6 DEF GracePasses, LeaseExpires, RowAged, Active, Unexpired
  <1>7. CASE Crash
    BY <1>7 DEF Crash, RowsRest
  <1>8. ASSUME NEW c \in Lockers, CutLock(c) \/ CutRelease(c)
        PROVE  RowTaken \/ RowReleased
    BY <1>8 DEF CutLock, CutRelease, RowTaken, RowReleased
  <1>9. ASSUME NEW s \in Sessions, CutPreempt(s)
        PROVE  RowsRest \/ RowAged
    <2>1. target[s] \in Lockers
      BY <1>9, NestedAssumption DEF WorktreeTypeOK, CutPreempt
    <2>2. CASE lock[target[s]] = "held"
      BY <1>9, <2>1, <2>2 DEF CutPreempt, RowAged, Active, WorktreeTypeOK
    <2>3. CASE lock[target[s]] # "held"
      BY <1>9, <2>1, <2>3 DEF CutPreempt, RowsRest, WorktreeTypeOK
    <2> QED
      BY <2>2, <2>3
  <1>10. ASSUME NEW k \in Cleaners, CutRemove(k) \/ CutFailure(k)
         PROVE  RowsRest \/ RowReleased
    BY <1>10 DEF CutRemove, CutFailure, RowsRest, RowReleased
  <1> QED
    BY <1>1, <1>2, <1>3, <1>4, <1>5, <1>6, <1>7, <1>8, <1>9, <1>10 DEF Next

LEMMA RowsKeepOne ==
    ASSUME WorktreeTypeOK, OneLock, BusyIsLocked, Next
    PROVE  OneLock' /\ BusyIsLocked'
  <1> USE DEF OneLock, BusyIsLocked, Active, WorktreeTypeOK
  <1>1. CASE RowsRest
    BY <1>1 DEF RowsRest
  <1>2. CASE RowTaken
    BY <1>2 DEF RowTaken, Acquired, Free
  <1>3. CASE RowReleased
    BY <1>3 DEF RowReleased
  <1>4. CASE RowAged
    BY <1>4 DEF RowAged
  <1> QED
    BY <1>1, <1>2, <1>3, <1>4, RowKinds

\* A crash between two writes of a handler.
Cut ==
    \/ \E c \in Lockers : CutLock(c) \/ CutRelease(c)
    \/ \E s \in Sessions : CutPreempt(s)
    \/ \E k \in Cleaners : CutRemove(k) \/ CutFailure(k)

-----------------------------------------------------------------------------
(* Types. *)

LEMMA Types ==
    ASSUME WorktreeTypeOK, Next
    PROVE  WorktreeTypeOK'
  <1> USE FaultsAssumption DEF Lockers, Calls
  <1>1. lock' \in [Lockers -> Rows]
    BY RowKinds DEF RowsRest, RowTaken, RowReleased, RowAged, Acquired, Rows,
                    WorktreeTypeOK
  <1>2. /\ status' \in Statuses /\ gone' \in BOOLEAN /\ torn' \in BOOLEAN
    <2> USE DEF WorktreeTypeOK, Statuses, Release, Calm
    <2>1. CASE \E c \in Calls : Open(c)
      BY <2>1 DEF Open
    <2>2. ASSUME NEW a \in Agents, AgentStep(a)
          PROVE  status' \in Statuses /\ gone' \in BOOLEAN /\ torn' \in BOOLEAN
      BY <2>2 DEF AgentStep, AgentLocks, AgentIsRefused, BeginPatch, RollBack, EndPatch,
                  AgentReleases, Take
    <2>3. ASSUME NEW s \in Sessions, SessionStep(s)
          PROVE  status' \in Statuses /\ gone' \in BOOLEAN /\ torn' \in BOOLEAN
      BY <2>3 DEF SessionStep, SessionLocks, SessionIsRefused, Preempt, Handoff,
                  SessionPushes, SessionReleases, Take
    <2>4. ASSUME NEW k \in Cleaners, CleanerStep(k)
          PROVE  status' \in Statuses /\ gone' \in BOOLEAN /\ torn' \in BOOLEAN
      BY <2>4 DEF CleanerStep, CleanupReads, CleanupDecides, CleanupLocks, CleanupChecks,
                  RemoveWorktree, CleanupFails, Take
    <2>5. CASE \E y \in Syncs : BeginSync(y) \/ EndSync(y)
      BY <2>5 DEF BeginSync, EndSync
    <2>6. CASE \E c \in Lockers : GracePasses(c) \/ LeaseExpires(c)
      BY <2>6 DEF GracePasses, LeaseExpires
    <2>7. CASE Crash \/ Cut
      BY <2>7 DEF Crash, Cut, Die, CutLock, CutRelease, CutPreempt, CutRemove, CutFailure
    <2> QED
      BY <2>1, <2>2, <2>3, <2>4, <2>5, <2>6, <2>7 DEF Next, Cut
  <1>3. overran' \subseteq Lockers /\ faults' \in 0..MaxFaults
    <2> USE DEF WorktreeTypeOK, NoFault, Fault, Calm
    <2>1. CASE \E c \in Calls : Open(c)
      BY <2>1 DEF Open
    <2>2. ASSUME NEW a \in Agents, AgentStep(a) PROVE NoFault
      BY <2>2 DEF AgentStep, AgentLocks, AgentIsRefused, BeginPatch, RollBack, EndPatch,
                  AgentReleases
    <2>3. ASSUME NEW s \in Sessions, SessionStep(s) PROVE NoFault
      BY <2>3 DEF SessionStep, SessionLocks, SessionIsRefused, Preempt, Handoff,
                  SessionPushes, SessionReleases
    <2>4. ASSUME NEW k \in Cleaners, CleanerStep(k) PROVE NoFault
      BY <2>4 DEF CleanerStep, CleanupReads, CleanupDecides, CleanupLocks, CleanupChecks,
                  RemoveWorktree, CleanupFails
    <2>5. CASE \E y \in Syncs : BeginSync(y) \/ EndSync(y)
      BY <2>5 DEF BeginSync, EndSync
    <2>6. CASE \E c \in Lockers : GracePasses(c) \/ LeaseExpires(c)
      BY <2>6 DEF GracePasses, LeaseExpires, Outlast
    <2>7. CASE Crash \/ Cut
      BY <2>7 DEF Crash, Cut, Die, CutLock, CutRelease, CutPreempt, CutRemove, CutFailure
    <2> QED
      BY <2>1, <2>2, <2>3, <2>4, <2>5, <2>6, <2>7 DEF Next, Cut
  <1>4. /\ call' \in [Calls -> Labels]
        /\ target' \in [Sessions -> Lockers \cup {NoCall}]
        /\ \A s \in Sessions : call'[s] \in {"refused", "waiting"} => target'[s] \in Nested
    <2> DEFINE Typed ==
          /\ call' \in [Calls -> Labels]
          /\ target' \in [Sessions -> Lockers \cup {NoCall}]
          /\ \A s \in Sessions : call'[s] \in {"refused", "waiting"} => target'[s] \in Nested
    <2> USE DEF WorktreeTypeOK, Labels, Move
    <2>1. CASE \E c \in Calls : Open(c)
      BY <2>1 DEF Open
    <2>2. ASSUME NEW a \in Agents, AgentStep(a) PROVE Typed
      BY <2>2 DEF AgentStep, AgentLocks, AgentIsRefused, BeginPatch, RollBack, EndPatch,
                  AgentReleases
    <2>3. ASSUME NEW s \in Sessions, SessionStep(s) PROVE Typed
      <3>1. CASE SessionLocks(s) \/ SessionPushes(s) \/ SessionReleases(s)
        BY <3>1 DEF SessionLocks, SessionPushes, SessionReleases
      <3>2. CASE SessionIsRefused(s)
        BY <3>2 DEF SessionIsRefused, Preemptible
      <3>3. CASE Preempt(s)
        BY <3>3 DEF Preempt
      <3>4. CASE Handoff(s)
        BY <3>4 DEF Handoff
      <3> QED
        BY <2>3, <3>1, <3>2, <3>3, <3>4 DEF SessionStep
    <2>4. ASSUME NEW k \in Cleaners, CleanerStep(k) PROVE Typed
      BY <2>4 DEF CleanerStep, CleanupReads, CleanupDecides, CleanupLocks, CleanupChecks,
                  RemoveWorktree, CleanupFails
    <2>5. CASE \E y \in Syncs : BeginSync(y) \/ EndSync(y)
      BY <2>5 DEF BeginSync, EndSync
    <2>6. CASE \E c \in Lockers : GracePasses(c) \/ LeaseExpires(c)
      BY <2>6 DEF GracePasses, LeaseExpires
    <2>7. CASE Crash \/ Cut
      BY <2>7 DEF Crash, Cut, Die, CutLock, CutRelease, CutPreempt, CutRemove, CutFailure
    <2> QED
      BY <2>1, <2>2, <2>3, <2>4, <2>5, <2>6, <2>7 DEF Next, Cut
  <1> QED
    BY <1>1, <1>2, <1>3, <1>4 DEF WorktreeTypeOK

-----------------------------------------------------------------------------
(* Who mutates has the lock, or is known to have outlasted it. *)

LEMMA Mutators ==
    ASSUME Inv, Next
    PROVE  MutatorsHold'
  <1> USE DEF Inv, WorktreeTypeOK, Lockers, Calls, Mutating, MutatorsHold
  <1>1. CASE \E c \in Calls : Open(c)
    BY <1>1 DEF Open, Move, NoFault, Calm
  <1>2. ASSUME NEW a \in Agents, AgentStep(a) PROVE MutatorsHold'
    <2>1. CASE AgentLocks(a)
      BY <2>1 DEF AgentLocks, Move, NoFault, Calm, Take, Acquired, Free, Active, Reclaimable
    <2>2. CASE AgentIsRefused(a)
      BY <2>2 DEF AgentIsRefused, Move, NoFault, Calm
    <2>3. CASE BeginPatch(a)
      BY <2>3 DEF BeginPatch, Move, NoFault, Calm, LeaseHolds
    <2>4. CASE RollBack(a)
      BY <2>4 DEF RollBack, Move, NoFault, Calm
    <2>5. CASE EndPatch(a)
      BY <2>5 DEF EndPatch, Move, NoFault, Calm
    <2>6. CASE AgentReleases(a)
      BY <2>6 DEF AgentReleases, Move, NoFault, Calm, Release
    <2> QED
      BY <1>2, <2>1, <2>2, <2>3, <2>4, <2>5, <2>6 DEF AgentStep
  <1>3. ASSUME NEW s \in Sessions, SessionStep(s) PROVE MutatorsHold'
    <2>1. CASE SessionLocks(s)
      BY <2>1 DEF SessionLocks, Move, NoFault, Calm, Take, Acquired, Free, Active, Reclaimable
    <2>2. CASE SessionIsRefused(s)
      BY <2>2 DEF SessionIsRefused, Move, NoFault, Calm
    <2>3. CASE Preempt(s)
      BY <2>3 DEF Preempt, Move, NoFault, Calm
    <2>4. CASE Handoff(s)
      BY <2>4 DEF Handoff, Move, NoFault, Calm, Take, Acquired, Free, Active, Reclaimable
    <2>5. CASE SessionPushes(s)
      BY <2>5 DEF SessionPushes, NoFault, Calm
    <2>6. CASE SessionReleases(s)
      BY <2>6 DEF SessionReleases, Move, NoFault, Calm, Release
    <2> QED
      BY <1>3, <2>1, <2>2, <2>3, <2>4, <2>5, <2>6 DEF SessionStep
  <1>4. ASSUME NEW k \in Cleaners, CleanerStep(k) PROVE MutatorsHold'
    <2>1. CASE CleanupReads(k) \/ CleanupDecides(k) \/ CleanupChecks(k)
      BY <2>1 DEF CleanupReads, CleanupDecides, CleanupChecks, Move, NoFault, Calm
    <2>2. CASE CleanupLocks(k)
      BY <2>2 DEF CleanupLocks, Move, NoFault, Calm, Take, Acquired, Free, Active, Reclaimable
    <2>3. CASE RemoveWorktree(k) \/ CleanupFails(k)
      BY <2>3 DEF RemoveWorktree, CleanupFails, Move, NoFault, Calm
    <2> QED
      BY <1>4, <2>1, <2>2, <2>3 DEF CleanerStep
  <1>5. CASE \E y \in Syncs : BeginSync(y) \/ EndSync(y)
    BY <1>5 DEF BeginSync, EndSync, Move, NoFault, Calm
  <1>6. ASSUME NEW c \in Lockers, GracePasses(c) \/ LeaseExpires(c) PROVE MutatorsHold'
    BY <1>6 DEF GracePasses, LeaseExpires, Outlast, NoFault
  <1>7. CASE Crash \/ Cut
    BY <1>7 DEF Crash, Cut, Die, CutLock, CutRelease, CutPreempt, CutRemove, CutFailure
  <1> QED
    BY <1>1, <1>2, <1>3, <1>4, <1>5, <1>6, <1>7 DEF Next, Cut

-----------------------------------------------------------------------------

LEMMA Initially == Init => Inv
  <1> SUFFICES ASSUME Init PROVE Inv
    OBVIOUS
  <1> USE DEF Init, Lockers, Calls
  <1>1. 0 \in 0..MaxFaults
    BY FaultsAssumption
  <1>2. WorktreeTypeOK
    BY <1>1 DEF WorktreeTypeOK, Statuses, Rows, Labels
  <1>3. \A c \in Lockers : ~Active(c) /\ ~Mutating(c)
    BY DEF Active, Mutating
  <1> QED
    BY <1>2, <1>3 DEF Inv, OneLock, MutatorsHold, BusyIsLocked

LEMMA Stutters ==
    ASSUME Inv, UNCHANGED vars
    PROVE  Inv'
  BY DEF vars, Inv, WorktreeTypeOK, OneLock, MutatorsHold, BusyIsLocked, Active, Mutating

\* The inductive invariant holds, for any agents, sessions, cleanups and
\* synchronisations and however the locks are taken, revoked and reclaimed.
THEOREM Invariance == Spec => []Inv
  <1>1. Inv /\ [Next]_vars => Inv'
    <2> SUFFICES ASSUME Inv, [Next]_vars PROVE Inv'
      OBVIOUS
    <2>1. CASE Next
      BY <2>1, Types, RowsKeepOne, Mutators DEF Inv
    <2> QED
      BY <2>1, Stutters
  <1> QED
    BY <1>1, Initially, PTL DEF Spec

\* Every reachable state of a worktree, its lock rows and its calls has its type.
THEOREM TypeCorrect == Spec => []WorktreeTypeOK
  BY Invariance, PTL DEF Inv

\* A worktree and its pull request never have two unreleased locks: acquireLock releases
\* what it reclaims in the transaction that inserts its row.
THEOREM LocksExclude == Spec => []OneLock
  BY Invariance, PTL DEF Inv

\* Two calls that mutate the worktree at once, of any kind and number, are explained by
\* one of them having outlasted its grace or its lease.
THEOREM Exclusion == Spec => []MutationsExclude
  <1>1. Inv => MutationsExclude
    BY DEF Inv, WorktreeTypeOK, OneLock, MutatorsHold, MutationsExclude, Active
  <1> QED
    BY <1>1, Invariance, PTL

\* A record that says busy has an unreleased lock, whatever was reclaimed, preempted or
\* removed, unless a crash fell between the release of that lock and its record; the next
\* call that takes the lock ends this.
THEOREM BusyHasLock == Spec => []BusyIsLocked
  BY Invariance, PTL DEF Inv

\* A session that waited for the lock it preempted gives up only if that lock is released
\* and another one was taken: its own wait always ends in its favour otherwise.
THEOREM Handover == Spec => PreemptionIsHonoured
  <1> DEFINE Honoured == \A s \in Sessions : call[s] = "waiting" /\ call'[s] = "done"
                            => lock[target[s]] = "released"
  <1>1. ASSUME Inv, [Next]_vars PROVE Honoured
    <2> SUFFICES ASSUME NEW s \in Sessions, call[s] = "waiting", call'[s] = "done"
                 PROVE  lock[target[s]] = "released"
      OBVIOUS
    <2> USE <1>1 DEF Inv, WorktreeTypeOK, Lockers, Calls, Move
    <2>1. Handoff(s)
      <3>1. Next
        BY DEF vars
      <3>2. ~\E c \in Calls : Open(c)
        BY DEF Open
      <3>3. ~\E a \in Agents : AgentStep(a)
        BY DEF AgentStep, AgentLocks, AgentIsRefused, BeginPatch, RollBack, EndPatch,
               AgentReleases
      <3>4. ASSUME NEW t \in Sessions, SessionStep(t) PROVE Handoff(s)
        BY <3>4 DEF SessionStep, SessionLocks, SessionIsRefused, Preempt, Handoff,
                    SessionPushes, SessionReleases
      <3>5. ~\E k \in Cleaners : CleanerStep(k)
        BY DEF CleanerStep, CleanupReads, CleanupDecides, CleanupLocks, CleanupChecks,
               RemoveWorktree, CleanupFails
      <3>6. ~\E y \in Syncs : BeginSync(y) \/ EndSync(y)
        BY DEF BeginSync, EndSync
      <3>7. ~\E c \in Lockers : GracePasses(c) \/ LeaseExpires(c)
        BY DEF GracePasses, LeaseExpires
      <3>8. ~Crash /\ ~Cut
        BY DEF Crash, Cut, Die, CutLock, CutRelease, CutPreempt, CutRemove, CutFailure
      <3> QED
        BY <3>1, <3>2, <3>3, <3>4, <3>5, <3>6, <3>7, <3>8 DEF Next, Cut
    <2>2. target[s] \in Lockers
      BY NestedAssumption
    <2>3. WaitIsOver(s) /\ ~Free
      BY <2>1 DEF Handoff
    <2> QED
      BY <2>2, <2>3 DEF WaitIsOver, Free, OneLock, Active, Reclaimable
  <1>2. Inv /\ [Next]_vars => [Honoured]_vars
    BY <1>1
  <1> QED
    BY <1>2, Invariance, PTL DEF Spec, PreemptionIsHonoured
=============================================================================
