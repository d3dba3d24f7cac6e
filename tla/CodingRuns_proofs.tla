---------------------------- MODULE CodingRuns_proofs ----------------------------
(***************************************************************************)
(* Proofs about coding runs, for any runs, calls and number of faults: types, *)
(* the ownership of slot and worktree, the wholeness of a candidate, the fence *)
(* of a published cancellation, and that the providers implement ExternalWork. *)
(***************************************************************************)
EXTENDS CodingRuns, TLAPS

\* One attempt at its host.  A group that is gone never comes back: an anchor is
\* spawned once, by a supervisor that was spawned once, and a final receipt is
\* written by a supervisor that saw its group die or by a recovery that found
\* neither.  What gate[r] and revoked say is settled before a provider starts.
HostOK(r) ==
    /\ supervisor[r] \in {"none", "spawned", "probing"} => anchor[r] = "none"
    /\ supervisor[r] \in {"starting", "telling"} => anchor[r] \in {"ready", "dead"}
    /\ supervisor[r] = "closing" => ~AnchorLives(r)
    /\ supervisor[r] \in {"none", "spawned", "probing", "starting"} => heartbeat[r] # "group"
    /\ provider[r] = "live" => anchor[r] = "replied"
    /\ anchor[r] \in {"none", "ready", "told", "gated", "cleared"} => provider[r] = "none"
    /\ anchor[r] \in {"gated", "cleared"} => gate[r] = "anchor"
    /\ anchor[r] = "cleared" => r \notin revoked
    /\ receipt[r] \in FinalReceipts => supervisor[r] = "gone" /\ ~AnchorLives(r)
    /\ receipt[r] = "completed" => outcome[r] = "completed"
    /\ evidence[r] = "completed" => outcome[r] = "completed"
    /\ evidence[r] # "none" => receipt[r] \in FinalReceipts

HostInv == \A r \in Runs : HostOK(r)

\* An attempt is claimed for a run that exists, and a supervisor spawned by the one
\* call that claimed it.
LaunchInv ==
    /\ \A r \in Runs : /\ supervisor[r] # "none" => r \in claimed
                       /\ r \in claimed => run[r].status # "none"
    /\ \A c \in Calls : At(c, "spawn") => On(c) \in claimed /\ supervisor[On(c)] = "none"
    /\ \A c, d \in Calls : At(c, "spawn") /\ At(d, "spawn") /\ On(c) = On(d) => c = d

\* What a call has learned stays true while it awaits.
CallInv ==
    \A c \in Calls :
        /\ ~At(c, "idle") => On(c) \in Runs /\ run[On(c)].status # "none"
        /\ At(c, "table") => heartbeat[On(c)] = "group"
        /\ call[c].at \in {"collect", "finish", "release"} => receipt[On(c)] \in FinalReceipts

\* A run ends, and its worktree is released, over a final receipt; one run at a time
\* has the slot.
RecordInv ==
    /\ \A r \in Runs : Ended(r) \/ lease[r] = "released" => receipt[r] \in FinalReceipts
    /\ \A q, r \in Runs : HoldsSlot(q) /\ HoldsSlot(r) => q = r

Inv == CodingTypeOK /\ HostInv /\ LaunchInv /\ CallInv /\ RecordInv /\ CandidateIsWhole

-----------------------------------------------------------------------------
(* The processes of the host. *)

\* What no step takes back.
Onward ==
    \A q \in Runs :
        /\ supervisor[q] = "none" <=> supervisor'[q] = "none"
        /\ heartbeat[q] = "group" => heartbeat'[q] = "group"
        /\ receipt[q] \in FinalReceipts => receipt'[q] \in FinalReceipts /\ outcome'[q] = outcome[q]

LEMMA HostSteps ==
    ASSUME HostTypeOK, HostInv, NEW r \in Runs, HostStep(r)
    PROVE  HostTypeOK' /\ HostInv' /\ Onward
<1> USE DEF HostTypeOK, HostInv, HostOK, Onward, hostVars, files, processes, AnchorLives, FinalReceipts
<1>1. CASE SupervisorStarts(r)
  BY <1>1 DEF SupervisorStarts, Move
<1>2. CASE PreflightEnds(r)
  BY <1>2 DEF PreflightEnds, Move
<1>3. CASE SpawnAnchor(r)
  BY <1>3 DEF SpawnAnchor, Move
<1>4. CASE PersistGroup(r)
  BY <1>4 DEF PersistGroup, Move
<1>5. CASE TellAnchor(r)
  BY <1>5 DEF TellAnchor, Move
<1>6. CASE StopWatching(r)
  BY <1>6 DEF StopWatching, Move
<1>7. CASE KillGroup(r)
  BY <1>7 DEF KillGroup, Move, EndGroup
<1>8. CASE LoseGroup(r)
  BY <1>8 DEF LoseGroup
<1>9. CASE CloseAttempt(r)
  BY <1>9 DEF CloseAttempt, Move, WriteReceipt, ReceiptOf, Receipts
<1>10. CASE AdmitUncertainty(r)
  BY <1>10 DEF AdmitUncertainty, Move, WriteReceipt, Receipts
<1>11. CASE SupervisorDies(r)
  BY <1>11 DEF SupervisorDies, Watched
<1>12. CASE EnterGate(r)
  BY <1>12 DEF EnterGate, GateOpen
<1>13. CASE PassCheck(r)
  BY <1>13 DEF PassCheck
<1>14. CASE SpawnProvider(r)
  BY <1>14 DEF SpawnProvider
<1>15. CASE RefuseProvider(r)
  BY <1>15 DEF RefuseProvider
<1>16. CASE ProviderEnds(r)
  BY <1>16 DEF ProviderEnds
<1>17. CASE WatchdogFires(r)
  BY <1>17 DEF WatchdogFires, EndGroup
<1> QED
  BY <1>1, <1>2, <1>3, <1>4, <1>5, <1>6, <1>7, <1>8, <1>9, <1>10, <1>11, <1>12, <1>13, <1>14, <1>15, <1>16, <1>17 DEF HostStep

-----------------------------------------------------------------------------
(* The calls. *)

\* What controllers do to an attempt.
LEMMA HostCommands ==
    ASSUME CodingTypeOK, HostInv, NEW r \in Runs
    PROVE  /\ Prepare(r) \/ ClaimLaunch(r) => HostTypeOK' /\ HostInv' /\ Onward
           /\ GateOpen(r) /\ (PublishCancellation(r) \/ DieInGate(r))
                  => HostTypeOK' /\ HostInv' /\ Onward
           /\ SpawnSupervisor(r) /\ supervisor[r] = "none" => HostTypeOK' /\ HostInv'
           /\ RecoverReceipt(r) /\ supervisor[r] = "gone" /\ GroupAbsent(r)
                  => HostTypeOK' /\ HostInv' /\ Onward
           /\ Collect(r) /\ Finished(r) => HostTypeOK' /\ HostInv' /\ Onward
           /\ UNCHANGED hostVars => HostTypeOK' /\ HostInv' /\ Onward
<1> USE DEF CodingTypeOK, HostTypeOK, HostInv, HostOK, Onward, hostVars, files, processes,
            AnchorLives, FinalReceipts, Receipts
<1>1. Prepare(r) \/ ClaimLaunch(r) => HostTypeOK' /\ HostInv' /\ Onward
  BY DEF Prepare, ClaimLaunch
<1>2. GateOpen(r) /\ PublishCancellation(r) => HostTypeOK' /\ HostInv' /\ Onward
  BY DEF GateOpen, PublishCancellation
<1>3. GateOpen(r) /\ DieInGate(r) => HostTypeOK' /\ HostInv' /\ Onward
  BY DEF GateOpen, DieInGate
<1>4. SpawnSupervisor(r) /\ supervisor[r] = "none" => HostTypeOK' /\ HostInv'
  BY DEF SpawnSupervisor
<1>5. RecoverReceipt(r) /\ supervisor[r] = "gone" /\ GroupAbsent(r)
          => HostTypeOK' /\ HostInv' /\ Onward
  BY DEF RecoverReceipt, GroupAbsent
<1>6. Collect(r) /\ Finished(r) => HostTypeOK' /\ HostInv' /\ Onward
  BY DEF Collect, Finished
<1>7. UNCHANGED hostVars => HostTypeOK' /\ HostInv' /\ Onward
  OBVIOUS
<1> QED
  BY <1>1, <1>2, <1>3, <1>4, <1>5, <1>6, <1>7

\* The part of the invariant that speaks of the record and the calls.
Records == [status : Statuses, host : BOOLEAN, workspace : BOOLEAN,
            session : BOOLEAN, cancel : BOOLEAN]
Bounded == faults \in 0..MaxFaults /\ uncollectable \subseteq Runs
USE DEF Bounded
ControlTypeOK ==
    /\ run \in [Runs -> Records]
    /\ lease \in [Runs -> {"none", "held", "expired", "released"}]
    /\ call \in [Calls -> [at : Labels, on : Runs \cup {"none"}]]
    /\ Bounded
ControlInv == ControlTypeOK /\ LaunchInv /\ CallInv /\ RecordInv /\ CandidateIsWhole

\* A record that is written over another: the run exists, ends over a final receipt,
\* and does not come back to life.
Writable(r, record) ==
    /\ record \in Records
    /\ run[r].status # "none" /\ record.status # "none"
    /\ record.status \notin Terminal => HoldsSlot(r)
    /\ record.status \in Terminal => receipt[r] \in FinalReceipts
    /\ record.status = "candidate" => outcome[r] = "completed" /\ ~record.cancel

LEMMA RecordWrite ==
    ASSUME ControlInv, NEW r \in Runs, NEW record, Writable(r, record),
           Put(r, record), UNCHANGED <<lease, receipt, outcome>>
    PROVE  /\ run' \in [Runs -> Records]
           /\ \A q \in Runs : run[q].status = "none" <=> run'[q].status = "none"
           /\ RecordInv' /\ CandidateIsWhole'
BY DEF ControlInv, ControlTypeOK, Writable, Put, RecordInv, CandidateIsWhole, HoldsSlot, Ended

\* A call that comes to a label where it knows something.
Knows(label, r) ==
    /\ label \in Labels \ {"spawn"}
    /\ label # "idle" => r \in Runs /\ run[r].status # "none"
    /\ label = "idle" => r = "none"
    /\ label = "table" => heartbeat[r] = "group"
    /\ label \in {"collect", "finish", "release"} => receipt[r] \in FinalReceipts

\* Calls move to a label with what they know, or are forgotten.
CallsMove ==
    \/ UNCHANGED call
    \/ call' = [c \in Calls |-> Idle]
    \/ \E c \in Calls, label \in Labels, r \in Runs \cup {"none"} :
          Knows(label, r)' /\ Goto(c, label, r)

LEMMA CallMoves ==
    ASSUME ControlInv, CallsMove, UNCHANGED <<claimed, supervisor>>, Onward,
           \A q \in Runs : run'[q].status = "none" => run[q].status = "none"
    PROVE  /\ call' \in [Calls -> [at : Labels, on : Runs \cup {"none"}]]
           /\ LaunchInv' /\ CallInv'
<1> USE DEF ControlInv, ControlTypeOK, Goto
<1>1. CASE UNCHANGED call
  BY <1>1 DEF LaunchInv, CallInv, At, On, Onward
<1>2. CASE call' = [c \in Calls |-> Idle]
  BY <1>2 DEF LaunchInv, CallInv, At, On, Idle, Labels
<1>3. ASSUME NEW c \in Calls, NEW label \in Labels, NEW r \in Runs \cup {"none"},
             Knows(label, r)', Goto(c, label, r)
      PROVE  /\ call' \in [Calls -> [at : Labels, on : Runs \cup {"none"}]]
             /\ LaunchInv' /\ CallInv'
  <2>1. /\ label # "spawn"
        /\ label # "idle" => r \in Runs /\ run'[r].status # "none"
        /\ label = "table" => heartbeat'[r] = "group"
        /\ label \in {"collect", "finish", "release"} => receipt'[r] \in FinalReceipts
    BY <1>3 DEF Knows
  <2>2. /\ call'[c] = [at |-> label, on |-> r]
        /\ \A d \in Calls : d # c => call'[d] = call[d]
        /\ call' \in [Calls -> [at : Labels, on : Runs \cup {"none"}]]
    BY <1>3
  <2>3. LaunchInv'
    BY <2>1, <2>2 DEF LaunchInv, At, On
  <2>4. CallInv'
    <3> SUFFICES ASSUME NEW d \in Calls
                 PROVE  /\ call'[d].at # "idle" =>
                              call'[d].on \in Runs /\ run'[call'[d].on].status # "none"
                        /\ call'[d].at = "table" => heartbeat'[call'[d].on] = "group"
                        /\ call'[d].at \in {"collect", "finish", "release"} =>
                              receipt'[call'[d].on] \in FinalReceipts
      BY DEF CallInv, At, On
    <3>1. CASE d = c
      BY <2>1, <2>2, <3>1
    <3>2. CASE d # c
      BY <2>2, <3>2 DEF CallInv, At, On, Onward
    <3> QED
      BY <3>1, <3>2
  <2> QED
    BY <2>2, <2>3, <2>4
<1> QED
  BY <1>1, <1>2, <1>3 DEF CallsMove

LEMMA HostRests == HostTypeOK /\ HostInv /\ UNCHANGED hostVars => HostTypeOK' /\ HostInv' /\ Onward
BY DEF HostTypeOK, HostInv, HostOK, Onward, AnchorLives, hostVars, files, processes

\* A step that writes one record, of an existing run.
LEMMA RecordSteps ==
    ASSUME Inv, NEW r \in Runs, NEW record, Writable(r, record), Put(r, record), CallsMove,
           HostTypeOK', HostInv', Onward, UNCHANGED <<lease, receipt, outcome, claimed, supervisor>>,
           Bounded'
    PROVE  Inv'
<1>1. ControlInv
  BY DEF Inv, ControlInv, CodingTypeOK, ControlTypeOK, Records
<1>2. /\ run' \in [Runs -> Records]
      /\ \A q \in Runs : run[q].status = "none" <=> run'[q].status = "none"
      /\ RecordInv' /\ CandidateIsWhole'
  BY <1>1, RecordWrite
<1>3. /\ call' \in [Calls -> [at : Labels, on : Runs \cup {"none"}]]
      /\ LaunchInv' /\ CallInv'
  BY <1>1, <1>2, CallMoves
<1>4. lease' \in [Runs -> {"none", "held", "expired", "released"}]
  BY <1>1 DEF ControlInv, ControlTypeOK
<1> QED
  BY <1>2, <1>3, <1>4 DEF Inv, CodingTypeOK, Records

\* A step that leaves the records alone; a worktree is released over a final receipt.
LEMMA OtherSteps ==
    ASSUME Inv, UNCHANGED <<run, claimed, supervisor>>, CallsMove, HostTypeOK', HostInv', Onward,
           lease' \in [Runs -> {"none", "held", "expired", "released"}],
           \A r \in Runs : lease'[r] = "released" =>
               lease[r] = "released" \/ receipt'[r] \in FinalReceipts,
           Bounded'
    PROVE  Inv'
<1>1. ControlInv
  BY DEF Inv, ControlInv, CodingTypeOK, ControlTypeOK, Records
<1>2. /\ call' \in [Calls -> [at : Labels, on : Runs \cup {"none"}]]
      /\ LaunchInv' /\ CallInv'
  BY <1>1, CallMoves
<1>3. RecordInv'
  BY <1>1 DEF ControlInv, RecordInv, Ended, HoldsSlot, Onward
<1>4. CandidateIsWhole'
  BY <1>1 DEF ControlInv, CandidateIsWhole, RecordInv, Ended, Terminal, Onward
<1> QED
  BY <1>1, <1>2, <1>3, <1>4 DEF Inv, CodingTypeOK, ControlInv, ControlTypeOK, Records

\* What a call knows where it is.
LEMMA CallFacts ==
    ASSUME Inv, NEW c \in Calls, ~At(c, "idle")
    PROVE  /\ On(c) \in Runs /\ run[On(c)] \in Records /\ run[On(c)].status # "none"
           /\ call[c] = [at |-> call[c].at, on |-> On(c)]
           /\ At(c, "table") => heartbeat[On(c)] = "group"
           /\ call[c].at \in {"collect", "finish", "release"} => receipt[On(c)] \in FinalReceipts
           /\ Ended(On(c)) => receipt[On(c)] \in FinalReceipts
           /\ run[On(c)].status = "candidate" =>
                  outcome[On(c)] = "completed" /\ ~run[On(c)].cancel
<1>1. ControlInv
  BY DEF Inv, ControlInv, CodingTypeOK, ControlTypeOK, Records
<1> QED
  BY <1>1 DEF ControlInv, ControlTypeOK, CallInv, RecordInv, CandidateIsWhole, At, On, Records


\* A call that quarantines its run and returns.
LEMMA QuarantineSteps ==
    ASSUME Inv, NEW c \in Calls, ~At(c, "idle"), QuarantineAndReturn(c), UNCHANGED hostVars,
           Bounded'
    PROVE  Inv'
<1> DEFINE r == On(c)
           record == Quarantined(run[r])
<1>1. /\ r \in Runs /\ run[r] \in Records /\ run[r].status # "none"
      /\ Ended(r) => receipt[r] \in FinalReceipts
      /\ run[r].status = "candidate" => outcome[r] = "completed" /\ ~run[r].cancel
  BY CallFacts
<1>2. Writable(r, record)
  BY <1>1 DEF Writable, Quarantined, Records, HoldsSlot, Ended, Terminal, Statuses
<1>3. HostTypeOK' /\ HostInv' /\ Onward
  BY HostRests DEF Inv, CodingTypeOK
<1>4. CallsMove
  <2>1. Knows("idle", "none")'
    BY DEF Knows, Labels
  <2>2. Goto(c, "idle", "none")
    BY DEF QuarantineAndReturn, Return, Idle, Goto
  <2> QED
    BY <2>1, <2>2 DEF CallsMove, Labels
<1>5. Put(r, record) /\ UNCHANGED <<lease, receipt, outcome, claimed, supervisor>>
  BY DEF QuarantineAndReturn, hostVars, files, processes
<1> QED
  BY <1>1, <1>2, <1>3, <1>4, <1>5, RecordSteps

\* The calls that write one record and go on.
LEMMA Advances ==
    ASSUME Inv, NEW c \in Calls, NEW r \in Runs, NEW record, Writable(r, record), Put(r, record),
           NEW label \in Labels \ {"spawn", "idle", "table"}, Goto(c, label, r),
           label \in {"collect", "finish", "release"} => receipt[r] \in FinalReceipts,
           HostTypeOK', HostInv', Onward, UNCHANGED <<lease, receipt, outcome, claimed, supervisor>>,
           Bounded'
    PROVE  Inv'
<1>1. ControlInv
  BY DEF Inv, ControlInv, CodingTypeOK, ControlTypeOK, Records
<1>2. run'[r].status # "none"
  BY <1>1 DEF Writable, Put, ControlInv, ControlTypeOK
<1>3. Knows(label, r)'
  BY <1>2 DEF Knows
<1>4. CallsMove
  BY <1>3 DEF CallsMove
<1> QED
  BY <1>4, RecordSteps

\* What faults do.
LEMMA FaultSteps == Inv /\ (Fault \/ NoFault) => Bounded'
BY FaultsAssumption DEF Inv, CodingTypeOK, Fault, NoFault

\* The catch of the launch.
LEMMA FenceSteps ==
    ASSUME Inv, NEW c \in Calls, ~At(c, "idle"), FenceLaunch(c, GateOpen(On(c))), Fault \/ NoFault
    PROVE  Inv'
<1> DEFINE r == On(c)
           record == IF Ended(r) THEN run[r] ELSE Cancelled(run[r])
<1>1. /\ r \in Runs /\ run[r] \in Records /\ run[r].status # "none"
      /\ Ended(r) => receipt[r] \in FinalReceipts
      /\ run[r].status = "candidate" => outcome[r] = "completed" /\ ~run[r].cancel
  BY CallFacts
<1>2. Writable(r, record)
  BY <1>1 DEF Writable, Cancelled, Records, HoldsSlot, Ended, Terminal
<1>3. HostTypeOK' /\ HostInv' /\ Onward
  BY <1>1, HostCommands DEF FenceLaunch, Inv
<1>4. Put(r, record) /\ Goto(c, "fenced", r)
  BY DEF FenceLaunch, Advance
<1>5. UNCHANGED <<lease, receipt, outcome, claimed, supervisor>>
  BY DEF FenceLaunch, PublishCancellation, hostVars, files, processes
<1> HIDE DEF r, record
<1> QED
  BY <1>1, <1>2, <1>3, <1>4, <1>5, FaultSteps, Advances DEF Labels

LEMMA LaunchSteps ==
    ASSUME Inv, NEW c \in Calls,
           \/ BindWorkspace(c) \/ StartRun(c) \/ LaunchRefused(c) \/ LaunchFails(c)
           \/ QuarantineLaunch(c)
    PROVE  Inv'
<1> DEFINE r == On(c)
<1>1. Bounded'
  BY FaultSteps DEF BindWorkspace, StartRun, LaunchRefused, LaunchFails, QuarantineLaunch
<1>2. ~At(c, "idle")
  BY DEF BindWorkspace, StartRun, LaunchRefused, LaunchFails, QuarantineLaunch, At
<1>3. /\ r \in Runs /\ run[r] \in Records /\ run[r].status # "none"
      /\ Ended(r) => receipt[r] \in FinalReceipts
  BY <1>2, CallFacts
<1>4. ASSUME UNCHANGED hostVars
      PROVE  /\ HostTypeOK' /\ HostInv' /\ Onward
             /\ UNCHANGED <<receipt, outcome, claimed, supervisor>>
  BY <1>4, HostRests DEF Inv, CodingTypeOK, hostVars, files, processes
<1>5. CASE BindWorkspace(c)
  <2> DEFINE record == [run[r] EXCEPT !.workspace = TRUE]
  <2>1. Writable(r, record)
    BY <1>3, <1>5 DEF BindWorkspace, Launchable, Writable, Records, HoldsSlot, Ended, Terminal, Statuses
  <2>2. Put(r, record) /\ Goto(c, "prepare", r) /\ UNCHANGED <<hostVars, lease>>
    BY <1>5 DEF BindWorkspace, Advance
  <2> HIDE DEF record, r
  <2> QED
    BY <1>1, <1>3, <1>4, <2>1, <2>2, Advances DEF Labels
<1>6. CASE StartRun(c)
  <2> DEFINE record == [run[r] EXCEPT !.status = "running"]
  <2>1. Writable(r, record)
    BY <1>3, <1>6 DEF StartRun, Launchable, Writable, Records, HoldsSlot, Ended, Terminal, Statuses
  <2>2. Put(r, record) /\ Goto(c, "claim", r) /\ UNCHANGED <<hostVars, lease>>
    BY <1>6 DEF StartRun, Advance
  <2> HIDE DEF record, r
  <2> QED
    BY <1>1, <1>3, <1>4, <2>1, <2>2, Advances DEF Labels
<1>7. CASE LaunchRefused(c)
  BY <1>2, <1>7, FenceSteps DEF LaunchRefused
<1>8. CASE LaunchFails(c)
  BY <1>2, <1>8, FenceSteps DEF LaunchFails
<1>9. CASE QuarantineLaunch(c)
  BY <1>1, <1>2, <1>9, QuarantineSteps DEF QuarantineLaunch
<1> QED
  BY <1>5, <1>6, <1>7, <1>8, <1>9

LEMMA ReconcileSteps ==
    ASSUME Inv, NEW c \in Calls,
           \/ SeeProgress(c) \/ SeeEnd(c) \/ RetainOwnership(c) \/ CollectRefused(c)
           \/ FinishRefused(c) \/ ReconcileFails(c)
    PROVE  Inv'
<1> DEFINE r == On(c)
<1>1. Bounded'
  BY FaultSteps DEF SeeProgress, SeeEnd, RetainOwnership, CollectRefused, FinishRefused, ReconcileFails
<1>2. ~At(c, "idle")
  BY DEF SeeProgress, SeeEnd, RetainOwnership, CollectRefused, FinishRefused, ReconcileFails, At
<1>3. /\ r \in Runs /\ run[r] \in Records /\ run[r].status # "none"
      /\ Ended(r) => receipt[r] \in FinalReceipts
      /\ run[r].status = "candidate" => outcome[r] = "completed" /\ ~run[r].cancel
  BY <1>2, CallFacts
<1>4. ASSUME UNCHANGED hostVars
      PROVE  /\ HostTypeOK' /\ HostInv' /\ Onward
             /\ UNCHANGED <<receipt, outcome, claimed, supervisor>>
  BY <1>4, HostRests DEF Inv, CodingTypeOK, hostVars, files, processes
<1>5. CASE SeeProgress(c)
  <2>1. PICK learned \in {run[r].session, ~Ended(r) /\ provider[r] # "none"} :
            Put(r, [run[r] EXCEPT !.session = @ \/ learned])
    BY <1>5 DEF SeeProgress
  <2> DEFINE record == [run[r] EXCEPT !.session = @ \/ learned]
  <2>2. record \in Records /\ record.status = run[r].status /\ record.cancel = run[r].cancel
    BY <1>3 DEF Records
  <2>3. Writable(r, record)
    BY <1>3, <2>2 DEF Writable, HoldsSlot, Ended
  <2>4. CallsMove
    <3>1. Knows("idle", "none")' /\ Goto(c, "idle", "none")
      BY <1>5 DEF Knows, Labels, SeeProgress, Return, Idle, Goto
    <3> QED
      BY <3>1 DEF CallsMove, Labels
  <2>5. Put(r, record) /\ UNCHANGED <<hostVars, lease>>
    BY <1>5, <2>1 DEF SeeProgress
  <2> HIDE DEF record, r
  <2> QED
    BY <1>1, <1>3, <1>4, <2>3, <2>4, <2>5, RecordSteps
<1>6. CASE SeeEnd(c)
  <2> DEFINE record == [run[r] EXCEPT !.session = @ \/ receipt[r] = "completed",
                                      !.status = IF @ = "running" THEN "collecting" ELSE @]
  <2>1. record \in Records
    BY <1>3 DEF Records, Statuses
  <2>2. record.status = IF run[r].status = "running" THEN "collecting" ELSE run[r].status
    BY <1>3 DEF Records
  <2>3. Writable(r, record)
    BY <1>3, <1>6, <2>1, <2>2 DEF SeeEnd, Writable, HoldsSlot, Ended, Terminal
  <2>4. Put(r, record) /\ Goto(c, "collect", r) /\ UNCHANGED <<hostVars, lease>>
        /\ receipt[r] \in FinalReceipts
    BY <1>6 DEF SeeEnd, Advance, Finished
  <2> HIDE DEF record, r
  <2> QED
    BY <1>1, <1>3, <1>4, <2>3, <2>4, Advances DEF Labels
<1>7. CASE RetainOwnership(c)
  BY <1>1, <1>2, <1>7, QuarantineSteps DEF RetainOwnership
<1>8. CASE FinishRefused(c)
  BY <1>1, <1>2, <1>8, QuarantineSteps DEF FinishRefused
<1>9. CASE ReconcileFails(c)
  BY <1>1, <1>2, <1>9, QuarantineSteps DEF ReconcileFails
<1>10. CASE CollectRefused(c)
  BY <1>1, <1>2, <1>10, QuarantineSteps DEF CollectRefused
<1> QED
  BY <1>5, <1>6, <1>7, <1>8, <1>9, <1>10

\* The end of a run, over the receipt its evidence was cut under.
LEMMA FinishSteps ==
    ASSUME Inv, NEW c \in Calls, FinishRun(c)
    PROVE  Inv'
<1> DEFINE r == On(c)
<1>1. Bounded'
  BY FaultSteps DEF FinishRun
<1>2. ~At(c, "idle")
  BY DEF FinishRun, At
<1>3. /\ r \in Runs /\ run[r] \in Records /\ run[r].status # "none"
      /\ receipt[r] \in FinalReceipts /\ ~Ended(r)
  BY <1>2, CallFacts DEF FinishRun, At
<1>4. /\ HostTypeOK' /\ HostInv' /\ Onward
      /\ UNCHANGED <<lease, receipt, outcome, claimed, supervisor>>
  BY HostRests DEF FinishRun, Inv, CodingTypeOK, hostVars, files, processes
<1>5. PICK withdrawn \in BOOLEAN :
          LET record == IF withdrawn THEN Cancelled(run[r]) ELSE run[r]
              end == IF record.cancel THEN "cancelled"
                     ELSE IF IsCandidate(record, evidence[r]) THEN "candidate"
                     ELSE "failed"
              refused == end = "candidate" /\ ~Presentable(r)
          IN  IF refused
              THEN Put(r, Quarantined(record)) /\ Return(c)
              ELSE Put(r, [record EXCEPT !.status = end]) /\ Advance(c, "release")
  BY DEF FinishRun
<1> DEFINE record == IF withdrawn THEN Cancelled(run[r]) ELSE run[r]
           end == IF record.cancel THEN "cancelled"
                  ELSE IF IsCandidate(record, evidence[r]) THEN "candidate"
                  ELSE "failed"
           quarantined == Quarantined(record)
           ended == [record EXCEPT !.status = end]
<1>6. record \in Records /\ record.status = run[r].status
  BY <1>3 DEF Records, Cancelled
<1>7. Writable(r, quarantined)
  BY <1>3, <1>6 DEF Writable, Quarantined, Records, HoldsSlot, Ended, Terminal, Statuses
<1>8. Writable(r, ended)
  <2>1. /\ ended \in Records /\ ended.status = end /\ ended.cancel = record.cancel
        /\ end \in Terminal /\ (end = "candidate" => ~record.cancel)
    BY <1>6 DEF Records, Terminal, Statuses
  <2>2. end = "candidate" => outcome[r] = "completed"
    BY <1>3 DEF IsCandidate, Inv, HostInv, HostOK
  <2> QED
    BY <1>3, <2>1, <2>2 DEF Writable, Terminal
<1>9. CASE Put(r, quarantined) /\ Return(c)
  <2>1. CallsMove
    <3>1. Knows("idle", "none")' /\ Goto(c, "idle", "none")
      BY <1>9 DEF Knows, Labels, Return, Idle, Goto
    <3> QED
      BY <3>1 DEF CallsMove, Labels
  <2> HIDE DEF quarantined, r
  <2> QED
    BY <1>1, <1>3, <1>4, <1>7, <1>9, <2>1, RecordSteps
<1>10. CASE Put(r, ended) /\ Advance(c, "release")
  <2>1. Goto(c, "release", r)
    BY <1>10 DEF Advance
  <2> HIDE DEF ended, r
  <2> QED
    BY <1>1, <1>3, <1>4, <1>8, <1>10, <2>1, Advances DEF Labels
<1> QED
  BY <1>5, <1>9, <1>10

\* The writes of a call that begins, of the operator and of the factory.
LEMMA ResumeSteps ==
    ASSUME Inv, NEW c \in Calls, NEW r \in Runs, Resume(c, r)
    PROVE  Inv'
<1> DEFINE record == [run[r] EXCEPT !.host = TRUE]
<1>1. run[r] \in Records
  BY DEF Inv, CodingTypeOK, Records
<1>2. Writable(r, record)
  BY <1>1 DEF Resume, Launchable, Writable, Records, HoldsSlot, Ended, Terminal
<1>3. /\ Put(r, record) /\ Goto(c, "lock", r)
      /\ HostTypeOK' /\ HostInv' /\ Onward
      /\ UNCHANGED <<lease, receipt, outcome, claimed, supervisor>>
  BY HostRests DEF Resume, Inv, CodingTypeOK, hostVars, files, processes
<1>4. Bounded'
  BY FaultSteps DEF Resume
<1> HIDE DEF record
<1> QED
  BY <1>2, <1>3, <1>4, Advances DEF Labels

LEMMA BeginSteps ==
    ASSUME Inv, NEW c \in Calls, NEW r \in Runs, Reconcile(c, r)
    PROVE  Inv'
<1>1. run[r] \in Records /\ run[r].status # "none" /\ ~Ended(r)
  BY DEF Inv, CodingTypeOK, Records, Reconcile, HoldsSlot
<1>2. PICK withdrawn \in BOOLEAN :
        LET record == IF withdrawn THEN Cancelled(run[r]) ELSE run[r]
            fails == ~record.host \/ (record.cancel /\ ~GateOpen(r))
        IN  /\ Put(r, IF fails THEN Quarantined(record) ELSE record)
            /\ IF record.cancel /\ ~fails THEN PublishCancellation(r) ELSE UNCHANGED hostVars
            /\ IF fails THEN UNCHANGED call ELSE Goto(c, "inspect", r)
  BY DEF Reconcile
<1> DEFINE record == IF withdrawn THEN Cancelled(run[r]) ELSE run[r]
           fails == ~record.host \/ (record.cancel /\ ~GateOpen(r))
           written == IF fails THEN Quarantined(record) ELSE record
<1>3. record \in Records /\ record.status = run[r].status
  BY <1>1 DEF Records, Cancelled
<1>4. Writable(r, written)
  BY <1>1, <1>3 DEF Writable, Quarantined, Records, HoldsSlot, Ended, Terminal, Statuses
<1>5. HostTypeOK' /\ HostInv' /\ Onward
  BY <1>2, HostCommands DEF Inv
<1>6. UNCHANGED <<lease, receipt, outcome, claimed, supervisor>>
  BY <1>2 DEF Reconcile, PublishCancellation, hostVars, files, processes
<1>7. Bounded'
  BY FaultSteps DEF Reconcile
<1>8. Put(r, written) /\ (UNCHANGED call \/ Goto(c, "inspect", r))
  BY <1>2
<1> HIDE DEF written
<1>9. CASE UNCHANGED call
  BY <1>4, <1>5, <1>6, <1>7, <1>8, <1>9, RecordSteps DEF CallsMove
<1>10. CASE Goto(c, "inspect", r)
  BY <1>4, <1>5, <1>6, <1>7, <1>8, <1>10, Advances DEF Labels
<1> QED
  BY <1>8, <1>9, <1>10

LEMMA CancelSteps ==
    ASSUME Inv, NEW r \in Runs, OperatorCancels(r) \/ FenceAuthority(r)
    PROVE  Inv'
<1> DEFINE record == Cancelled(run[r])
<1>1. run[r] \in Records /\ HoldsSlot(r)
  BY DEF Inv, CodingTypeOK, Records, OperatorCancels, FenceAuthority
<1>2. Writable(r, record)
  BY <1>1 DEF Writable, Cancelled, Records, HoldsSlot, Ended, Terminal
<1>3. Put(r, record) /\ CallsMove
  BY DEF OperatorCancels, FenceAuthority, CallsMove
<1>4. HostTypeOK' /\ HostInv' /\ Onward
  BY HostCommands DEF OperatorCancels, FenceAuthority, Inv
<1>5. UNCHANGED <<lease, receipt, outcome, claimed, supervisor>>
  BY DEF OperatorCancels, FenceAuthority, PublishCancellation, hostVars, files, processes
<1>6. Bounded'
  BY FaultSteps DEF OperatorCancels, FenceAuthority
<1> HIDE DEF record
<1> QED
  BY <1>2, <1>3, <1>4, <1>5, <1>6, RecordSteps

\* The reservation: the one write that brings a run to life, and only while the slot
\* is free.
LEMMA ReserveSteps ==
    ASSUME Inv, NEW r \in Runs, (\E c \in Calls : Reserve(c, r)) \/ ReserveAndDie(r)
    PROVE  Inv'
<1>1. PICK record \in Records : record.status = "reserved" /\ Put(r, record)
  <2>1. /\ [NoRun EXCEPT !.status = "reserved", !.host = TRUE] \in Records
        /\ [NoRun EXCEPT !.status = "reserved", !.host = TRUE].status = "reserved"
        /\ [NoRun EXCEPT !.status = "reserved"] \in Records
        /\ [NoRun EXCEPT !.status = "reserved"].status = "reserved"
    BY DEF NoRun, Records, Statuses
  <2> QED
    BY <2>1 DEF Reserve, ReserveAndDie
<1>2. run[r].status = "none" /\ SlotFree /\ UNCHANGED <<hostVars, lease>>
  BY DEF Reserve, ReserveAndDie
<1>3. Bounded'
  BY FaultSteps DEF Reserve, ReserveAndDie
<1>4. ControlInv
  BY DEF Inv, ControlInv, CodingTypeOK, ControlTypeOK, Records
<1>5. /\ run' \in [Runs -> Records] /\ run'[r] = record
      /\ \A q \in Runs : q # r => run'[q] = run[q]
  BY <1>1, <1>4 DEF Put, ControlInv, ControlTypeOK
<1>6. HostTypeOK' /\ HostInv' /\ Onward /\ UNCHANGED <<lease, receipt, outcome, claimed, supervisor>>
  BY <1>2, HostRests DEF Inv, CodingTypeOK, hostVars, files, processes
<1>7. CallsMove
  <2>1. CASE ReserveAndDie(r)
    BY <2>1 DEF ReserveAndDie, CallsMove
  <2>2. ASSUME NEW c \in Calls, Reserve(c, r)
        PROVE  CallsMove
    <3>1. Goto(c, "lock", r)
      BY <2>2 DEF Reserve
    <3>2. Knows("lock", r)'
      BY <1>1, <1>5 DEF Knows, Labels
    <3> QED
      BY <3>1, <3>2 DEF CallsMove, Labels
  <2> QED
    BY <2>1, <2>2
<1>8. /\ call' \in [Calls -> [at : Labels, on : Runs \cup {"none"}]]
      /\ LaunchInv' /\ CallInv'
  BY <1>1, <1>4, <1>5, <1>6, <1>7, CallMoves
<1>9. RecordInv' /\ CandidateIsWhole'
  BY <1>1, <1>2, <1>4, <1>5, <1>6
     DEF ControlInv, RecordInv, CandidateIsWhole, SlotFree, HoldsSlot, Ended, Terminal
<1>10. lease' \in [Runs -> {"none", "held", "expired", "released"}]
  BY <1>4, <1>6 DEF ControlInv, ControlTypeOK
<1> QED
  BY <1>3, <1>5, <1>6, <1>8, <1>9, <1>10 DEF Inv, CodingTypeOK, Records

-----------------------------------------------------------------------------
(* The steps that leave the records alone. *)

\* A call that goes on, over an attempt it may have moved on.
LEMMA GoesOn ==
    ASSUME Inv, NEW c \in Calls, ~At(c, "idle"), UNCHANGED <<run, lease, claimed, supervisor>>,
           NEW label \in Labels \ {"spawn", "idle"}, Advance(c, label),
           HostTypeOK', HostInv', Onward, Bounded',
           label = "table" => heartbeat[On(c)] = "group",
           label \in {"collect", "finish", "release"} => receipt[On(c)] \in FinalReceipts
    PROVE  Inv'
<1>1. PICK r \in Runs : r = On(c) /\ run'[r].status # "none"
  BY CallFacts
<1>2. Knows(label, r)'
  BY <1>1 DEF Knows, Onward
<1>3. CallsMove
  <2>1. Goto(c, label, r)
    BY <1>1 DEF Advance
  <2> QED
    BY <1>2, <2>1 DEF CallsMove
<1>4. /\ lease' \in [Runs -> {"none", "held", "expired", "released"}]
      /\ \A q \in Runs : lease'[q] = "released" => lease[q] = "released"
  BY DEF Inv, CodingTypeOK
<1> QED
  BY <1>3, <1>4, OtherSteps

LEMMA AttemptSteps ==
    ASSUME Inv, NEW c \in Calls,
           \/ PrepareAttempt(c) \/ ReadGroup(c) \/ MisreadGroup(c)
           \/ RecoverAttempt(c) \/ CollectAttempt(c)
    PROVE  Inv'
<1>1. Bounded'
  BY FaultSteps DEF PrepareAttempt, ReadGroup, MisreadGroup, RecoverAttempt, CollectAttempt
<1>2. ~At(c, "idle")
  BY DEF PrepareAttempt, ReadGroup, MisreadGroup, RecoverAttempt, CollectAttempt, At
<1>3. /\ On(c) \in Runs
      /\ At(c, "table") => heartbeat[On(c)] = "group"
      /\ call[c].at \in {"collect", "finish", "release"} => receipt[On(c)] \in FinalReceipts
  BY <1>2, CallFacts
<1>4. UNCHANGED <<run, lease>>
  BY DEF PrepareAttempt, ReadGroup, MisreadGroup, RecoverAttempt, CollectAttempt
<1>5. CASE PrepareAttempt(c)
  <2>1. /\ HostTypeOK' /\ HostInv' /\ Onward /\ Advance(c, "start")
        /\ UNCHANGED <<claimed, supervisor>>
    BY <1>3, <1>5, HostCommands DEF PrepareAttempt, Prepare, Inv, processes
  <2> QED
    BY <1>1, <1>2, <1>4, <2>1, GoesOn DEF Labels
<1>6. CASE ReadGroup(c) \/ MisreadGroup(c)
  <2>1. /\ HostTypeOK' /\ HostInv' /\ Onward /\ Advance(c, "table")
        /\ UNCHANGED <<claimed, supervisor>> /\ heartbeat[On(c)] = "group"
    BY <1>6, HostRests DEF ReadGroup, MisreadGroup, Recoverable, Inv, CodingTypeOK,
                           hostVars, files, processes
  <2> QED
    BY <1>1, <1>2, <1>4, <2>1, GoesOn DEF Labels
<1>7. CASE RecoverAttempt(c)
  <2>1. supervisor[On(c)] = "gone"
    BY <1>3, <1>7 DEF RecoverAttempt, At, Watched, Inv, HostInv, HostOK
  <2>2. /\ HostTypeOK' /\ HostInv' /\ Onward /\ Advance(c, "inspect")
        /\ UNCHANGED <<claimed, supervisor>>
    BY <1>3, <1>7, <2>1, HostCommands DEF RecoverAttempt, RecoverReceipt, Inv, processes
  <2> QED
    BY <1>1, <1>2, <1>4, <2>2, GoesOn DEF Labels
<1>8. CASE CollectAttempt(c)
  <2>1. /\ HostTypeOK' /\ HostInv' /\ Onward /\ Advance(c, "finish")
        /\ UNCHANGED <<claimed, supervisor>>
    BY <1>3, <1>8, HostCommands DEF CollectAttempt, Collect, Inv, processes
  <2>2. receipt[On(c)] \in FinalReceipts
    BY <1>8 DEF CollectAttempt, Finished
  <2> QED
    BY <1>1, <1>2, <1>4, <2>1, <2>2, GoesOn DEF Labels
<1> QED
  BY <1>5, <1>6, <1>7, <1>8

\* The lock of the worktree is taken, runs out, and is released; the server dies.
LEMMA LeaseSteps ==
    ASSUME Inv,
           \/ \E c \in Calls : LockWorkspace(c) \/ ReleaseWorkspace(c)
           \/ \E r \in Runs : LeaseExpires(r)
    PROVE  Inv'
<1>1. /\ UNCHANGED <<run, hostVars>> /\ Bounded'
  BY FaultSteps DEF LockWorkspace, ReleaseWorkspace, LeaseExpires
<1>2. HostTypeOK' /\ HostInv' /\ Onward /\ UNCHANGED <<claimed, supervisor>>
  BY <1>1, HostRests DEF Inv, CodingTypeOK, hostVars, files, processes
<1>3. lease \in [Runs -> {"none", "held", "expired", "released"}]
  BY DEF Inv, CodingTypeOK
<1>4. ASSUME NEW c \in Calls, LockWorkspace(c)
      PROVE  Inv'
  <2>1. ~At(c, "idle") /\ Goto(c, "bind", On(c)) /\ lease' = [lease EXCEPT ![On(c)] = "held"]
    BY <1>4 DEF LockWorkspace, Advance, At
  <2>2. PICK r \in Runs : r = On(c) /\ run'[r].status # "none"
    BY <1>1, <2>1, CallFacts
  <2>3. CallsMove
    <3>1. Knows("bind", r)' /\ Goto(c, "bind", r)
      BY <2>1, <2>2 DEF Knows, Labels
    <3> QED
      BY <3>1 DEF CallsMove, Labels
  <2> QED
    BY <1>1, <1>2, <1>3, <2>1, <2>2, <2>3, OtherSteps
<1>5. ASSUME NEW c \in Calls, ReleaseWorkspace(c)
      PROVE  Inv'
  <2>1. ~At(c, "idle") /\ lease' = [lease EXCEPT ![On(c)] = "released"]
    BY <1>5 DEF ReleaseWorkspace, At
  <2>2. On(c) \in Runs /\ receipt'[On(c)] \in FinalReceipts
    BY <1>1, <1>5, <2>1, CallFacts DEF ReleaseWorkspace, At, hostVars, files
  <2>3. CallsMove
    <3>1. Knows("idle", "none")' /\ Goto(c, "idle", "none")
      BY <1>5 DEF Knows, Labels, ReleaseWorkspace, Return, Idle, Goto
    <3> QED
      BY <3>1 DEF CallsMove, Labels
  <2> QED
    BY <1>1, <1>2, <1>3, <2>1, <2>2, <2>3, OtherSteps
<1>6. ASSUME NEW r \in Runs, LeaseExpires(r)
      PROVE  Inv'
  BY <1>1, <1>2, <1>3, <1>6, OtherSteps DEF LeaseExpires, CallsMove
<1> QED
  BY <1>4, <1>5, <1>6

LEMMA CrashSteps ==
    ASSUME Inv, Crash
    PROVE  Inv'
<1>1. HostTypeOK' /\ HostInv' /\ Onward /\ UNCHANGED <<claimed, supervisor>>
  <2>1. CASE UNCHANGED hostVars
    BY <2>1, HostRests DEF Inv, CodingTypeOK, hostVars, files, processes
  <2>2. ASSUME NEW r \in Runs, GateOpen(r), DieInGate(r)
        PROVE  HostTypeOK' /\ HostInv' /\ Onward /\ UNCHANGED <<claimed, supervisor>>
    BY <2>2, HostCommands DEF Inv, DieInGate, processes
  <2> QED
    BY <2>1, <2>2 DEF Crash
<1>2. UNCHANGED <<run, lease>> /\ CallsMove /\ Bounded'
  BY FaultSteps DEF Crash, CallsMove
<1>3. lease \in [Runs -> {"none", "held", "expired", "released"}]
  BY DEF Inv, CodingTypeOK
<1> QED
  BY <1>1, <1>2, <1>3, OtherSteps

-----------------------------------------------------------------------------
(* The launch: an attempt is claimed once, and spawned by the call that claimed it. *)

LEMMA ClaimSteps ==
    ASSUME Inv, NEW c \in Calls, ClaimAttempt(c)
    PROVE  Inv'
<1>1. ~At(c, "idle") /\ UNCHANGED <<run, lease>> /\ Bounded'
  BY FaultSteps DEF ClaimAttempt, At
<1>2. PICK r \in Runs : r = On(c) /\ run[r].status # "none"
  BY <1>1, CallFacts
<1>3. ControlInv
  BY DEF Inv, ControlInv, CodingTypeOK, ControlTypeOK, Records
<1>4. CASE r \in claimed
  <2>1. HostTypeOK' /\ HostInv' /\ Onward /\ Advance(c, "inspect") /\ UNCHANGED <<claimed, supervisor>>
    BY <1>2, <1>4, HostRests DEF ClaimAttempt, Inv, CodingTypeOK, hostVars, files, processes
  <2> QED
    BY <1>1, <2>1, GoesOn DEF Labels
<1>5. CASE r \notin claimed
  <2>1. /\ HostTypeOK' /\ HostInv' /\ Onward
        /\ claimed' = claimed \cup {r} /\ UNCHANGED <<supervisor, heartbeat, receipt, outcome>>
        /\ Goto(c, "spawn", r)
    BY <1>2, <1>5, HostCommands DEF ClaimAttempt, ClaimLaunch, Advance, Inv, processes
  <2>2. /\ call'[c] = [at |-> "spawn", on |-> r]
        /\ \A d \in Calls : d # c => call'[d] = call[d]
        /\ call' \in [Calls -> [at : Labels, on : Runs \cup {"none"}]]
    BY <1>3, <2>1 DEF Goto, ControlInv, ControlTypeOK, Labels
  <2>3. supervisor[r] = "none"
    BY <1>3, <1>5 DEF ControlInv, LaunchInv
  <2>4. LaunchInv'
    BY <1>1, <1>2, <1>3, <1>5, <2>1, <2>2, <2>3 DEF ControlInv, LaunchInv, At, On
  <2>5. CallInv'
    BY <1>1, <1>2, <1>3, <2>1, <2>2 DEF ControlInv, CallInv, At, On
  <2>6. RecordInv' /\ CandidateIsWhole'
    BY <1>1, <1>3, <2>1 DEF ControlInv, RecordInv, CandidateIsWhole, Ended, HoldsSlot
  <2> QED
    BY <1>1, <1>3, <2>1, <2>2, <2>4, <2>5, <2>6 DEF Inv, CodingTypeOK, ControlInv, ControlTypeOK, Records
<1> QED
  BY <1>4, <1>5

LEMMA SpawnSteps ==
    ASSUME Inv, NEW c \in Calls, SpawnAttempt(c)
    PROVE  Inv'
<1>1. ~At(c, "idle") /\ At(c, "spawn") /\ UNCHANGED <<run, lease>> /\ Bounded'
  BY FaultSteps DEF SpawnAttempt, At
<1>2. PICK r \in Runs : r = On(c) /\ run[r].status # "none"
  BY <1>1, CallFacts
<1>3. ControlInv
  BY DEF Inv, ControlInv, CodingTypeOK, ControlTypeOK, Records
<1>4. r \in claimed /\ supervisor[r] = "none"
  BY <1>1, <1>2, <1>3 DEF ControlInv, LaunchInv
<1>5. /\ HostTypeOK' /\ HostInv' /\ supervisor' = [supervisor EXCEPT ![r] = "spawned"]
      /\ UNCHANGED <<claimed, heartbeat, receipt, outcome>>
      /\ Goto(c, "inspect", r)
  BY <1>2, <1>4, HostCommands DEF SpawnAttempt, SpawnSupervisor, Advance, Inv, files
<1>6. /\ call'[c] = [at |-> "inspect", on |-> r]
      /\ \A d \in Calls : d # c => call'[d] = call[d]
      /\ call' \in [Calls -> [at : Labels, on : Runs \cup {"none"}]]
  BY <1>3, <1>5 DEF Goto, ControlInv, ControlTypeOK, Labels
<1>7. \A q \in Runs : q # r => supervisor'[q] = supervisor[q]
  BY <1>5 DEF Inv, CodingTypeOK, HostTypeOK
<1>8. LaunchInv'
  <2>1. \A q \in Runs : /\ supervisor'[q] # "none" => q \in claimed'
                        /\ q \in claimed' => run'[q].status # "none"
    BY <1>1, <1>3, <1>4, <1>5, <1>7 DEF ControlInv, LaunchInv
  <2>2. ASSUME NEW d \in Calls, call'[d].at = "spawn"
        PROVE  call'[d] = call[d] /\ d # c /\ call[d].on # r
    BY <1>1, <1>2, <1>3, <1>6, <2>2 DEF ControlInv, LaunchInv, At, On
  <2>3. ASSUME NEW d \in Calls, call'[d].at = "spawn"
        PROVE  call'[d].on \in claimed' /\ supervisor'[call'[d].on] = "none"
    <3>1. call[d].on \in Runs /\ call[d].on \in claimed /\ supervisor[call[d].on] = "none"
      BY <1>3, <2>2, <2>3 DEF ControlInv, LaunchInv, CallInv, At, On
    <3> QED
      BY <1>5, <1>7, <2>2, <2>3, <3>1
  <2>4. ASSUME NEW d \in Calls, NEW e \in Calls, call'[d].at = "spawn", call'[e].at = "spawn",
               call'[d].on = call'[e].on
        PROVE  d = e
    <3>1. call'[d] = call[d] /\ call'[e] = call[e]
      BY <2>2, <2>4
    <3> QED
      BY <1>3, <2>4, <3>1 DEF ControlInv, LaunchInv, At, On
  <2> QED
    BY <2>1, <2>3, <2>4 DEF LaunchInv, At, On
<1>9. CallInv'
  BY <1>1, <1>2, <1>3, <1>5, <1>6 DEF ControlInv, CallInv, At, On
<1>10. RecordInv' /\ CandidateIsWhole'
  BY <1>1, <1>3, <1>5 DEF ControlInv, RecordInv, CandidateIsWhole, Ended, HoldsSlot
<1> QED
  BY <1>1, <1>3, <1>5, <1>6, <1>8, <1>9, <1>10 DEF Inv, CodingTypeOK, ControlInv, ControlTypeOK, Records

\* A worktree that becomes one that is refused changes nothing that is recorded.
LEMMA SpoilSteps ==
    ASSUME Inv, NEW r \in Runs, SpoilWorktree(r)
    PROVE  Inv'
<1>1. UNCHANGED <<run, hostVars, lease, call>> /\ Bounded'
  BY DEF SpoilWorktree, Inv, CodingTypeOK
<1>2. HostTypeOK' /\ HostInv' /\ Onward /\ UNCHANGED <<claimed, supervisor>>
  BY <1>1, HostRests DEF Inv, CodingTypeOK, hostVars, files, processes
<1> QED
  BY <1>1, <1>2, OtherSteps DEF CallsMove, Inv, CodingTypeOK

LEMMA HostStepKeeps ==
    ASSUME Inv, NEW r \in Runs, HostStep(r)
    PROVE  Inv'
<1>1. HostTypeOK' /\ HostInv' /\ Onward
  BY HostSteps DEF Inv, CodingTypeOK
<1>2. UNCHANGED controlVars
  BY DEF HostStep
<1>3. UNCHANGED claimed
  BY DEF HostStep, SupervisorStarts, PreflightEnds, SpawnAnchor, PersistGroup, TellAnchor,
         StopWatching, KillGroup, LoseGroup, CloseAttempt, AdmitUncertainty, WriteReceipt,
         SupervisorDies, EnterGate, PassCheck, SpawnProvider, RefuseProvider, ProviderEnds,
         WatchdogFires, files
<1>4. ControlInv
  BY DEF Inv, ControlInv, CodingTypeOK, ControlTypeOK, Records
<1>5. LaunchInv'
  BY <1>1, <1>2, <1>3, <1>4 DEF ControlInv, LaunchInv, CallInv, At, On, Onward, controlVars
<1>6. CallInv'
  BY <1>1, <1>2, <1>4 DEF ControlInv, CallInv, At, On, Onward, controlVars
<1>7. RecordInv' /\ CandidateIsWhole'
  BY <1>1, <1>2, <1>4
     DEF ControlInv, RecordInv, CandidateIsWhole, Ended, HoldsSlot, Onward, controlVars, Terminal
<1> QED
  BY <1>1, <1>2, <1>4, <1>5, <1>6, <1>7 DEF Inv, CodingTypeOK, ControlInv, ControlTypeOK, Records, controlVars

-----------------------------------------------------------------------------

LEMMA InitInv == Init => Inv
BY FaultsAssumption
   DEF Init, HostInit, Inv, CodingTypeOK, HostTypeOK, HostInv, HostOK, LaunchInv, CallInv, RecordInv,
       CandidateIsWhole, NoRun, Idle, Statuses, Terminal, Labels, Receipts, FinalReceipts, AnchorLives,
       Ended, HoldsSlot, At, On

LEMMA StepInv == Inv /\ [Next]_vars => Inv'
<1> SUFFICES ASSUME Inv, [Next]_vars
             PROVE  Inv'
  OBVIOUS
<1>1. ASSUME NEW c \in Calls, LaunchStep(c)
      PROVE  Inv'
  BY <1>1, LaunchSteps, LeaseSteps, AttemptSteps, ClaimSteps, SpawnSteps DEF LaunchStep
<1>2. ASSUME NEW c \in Calls, ReconcileStep(c)
      PROVE  Inv'
  BY <1>2, ReconcileSteps, AttemptSteps, FinishSteps, LeaseSteps DEF ReconcileStep
<1>3. ASSUME NEW c \in Calls, NEW r \in Runs, Reserve(c, r) \/ Resume(c, r) \/ Reconcile(c, r)
      PROVE  Inv'
  BY <1>3, ReserveSteps, ResumeSteps, BeginSteps
<1>4. ASSUME NEW r \in Runs,
             \/ ReserveAndDie(r) \/ OperatorCancels(r) \/ FenceAuthority(r)
             \/ LeaseExpires(r) \/ SpoilWorktree(r) \/ HostStep(r)
      PROVE  Inv'
  BY <1>4, ReserveSteps, CancelSteps, LeaseSteps, SpoilSteps, HostStepKeeps
<1>5. CASE Crash
  BY <1>5, CrashSteps
<1>6. CASE UNCHANGED vars
  <2>1. UNCHANGED <<hostVars, controlVars>>
    BY <1>6 DEF vars
  <2>2. HostTypeOK' /\ HostInv' /\ Onward
    BY <2>1, HostRests DEF Inv, CodingTypeOK
  <2> QED
    BY <2>1, <2>2, OtherSteps DEF controlVars, hostVars, files, processes, CallsMove, Inv, CodingTypeOK
<1> QED
  BY <1>1, <1>2, <1>3, <1>4, <1>5, <1>6 DEF Next

LEMMA Invariant == Spec => []Inv
BY InitInv, StepInv, PTL DEF Spec

\* Every variable keeps its type: the files and the processes of the host, the
\* records, the locks and the calls.
THEOREM TypeCorrect == Spec => []CodingTypeOK
BY Invariant, PTL DEF Inv

\* A run ends, and its worktree is released, only over an attempt of which no process
\* is left: a call that saw a final receipt may finish late, but a group that is gone
\* stays gone, because its supervisor is spawned once and is gone as well.
THEOREM Ownership == Spec => []OwnershipIsKept
<1>1. Inv => OwnershipIsKept
  BY DEF Inv, CodingTypeOK, HostTypeOK, HostInv, HostOK, RecordInv, OwnershipIsKept,
         GroupAbsent, AnchorLives
<1> QED
  BY <1>1, Invariant, PTL

\* A candidate is the work of a provider that ended by itself and succeeded, in a run
\* nobody cancelled.
THEOREM Wholeness == Spec => []CandidateIsWhole
BY Invariant, PTL DEF Inv

-----------------------------------------------------------------------------
(* The providers. *)

Started == {q \in Runs : provider[q] # "none"}
Live == {q \in Runs : provider[q] = "live"}

\* A provider is moved by its own host only: it starts, it ends, or it rests.
LEMMA ProviderMoves ==
    ASSUME Inv, Next
    PROVE  \/ \E r \in Runs : SpawnProvider(r)
           \/ \E r \in Runs : ProviderEnds(r)
           \/ \E r \in Runs : EndGroup(r)
           \/ UNCHANGED provider
<1>1. ASSUME NEW c \in Calls, LaunchStep(c)
      PROVE  UNCHANGED provider
  BY <1>1 DEF LaunchStep, LockWorkspace, BindWorkspace, PrepareAttempt, StartRun, ClaimAttempt,
              SpawnAttempt, LaunchRefused, LaunchFails, QuarantineLaunch, FenceLaunch, Prepare,
              ClaimLaunch, SpawnSupervisor, PublishCancellation, hostVars, processes
<1>2. ASSUME NEW c \in Calls, ReconcileStep(c)
      PROVE  UNCHANGED provider
  BY <1>2 DEF ReconcileStep, SeeProgress, SeeEnd, ReadGroup, MisreadGroup, RecoverAttempt,
              RetainOwnership, CollectAttempt, CollectRefused, FinishRun, FinishRefused,
              ReleaseWorkspace, ReconcileFails, RecoverReceipt, Collect, hostVars, processes
<1>3. ASSUME NEW c \in Calls, NEW r \in Runs, Reserve(c, r) \/ Resume(c, r) \/ Reconcile(c, r)
      PROVE  UNCHANGED provider
  BY <1>3 DEF Reserve, Resume, Reconcile, PublishCancellation, hostVars, processes
<1>4. ASSUME NEW r \in Runs,
             \/ ReserveAndDie(r) \/ OperatorCancels(r) \/ FenceAuthority(r)
             \/ LeaseExpires(r) \/ SpoilWorktree(r)
      PROVE  UNCHANGED provider
  BY <1>4 DEF ReserveAndDie, OperatorCancels, FenceAuthority, LeaseExpires, SpoilWorktree,
              PublishCancellation, hostVars, processes
<1>5. ASSUME NEW r \in Runs, HostStep(r)
      PROVE  SpawnProvider(r) \/ ProviderEnds(r) \/ EndGroup(r) \/ UNCHANGED provider
  BY <1>5 DEF HostStep, SupervisorStarts, PreflightEnds, SpawnAnchor, PersistGroup, TellAnchor,
              StopWatching, KillGroup, LoseGroup, CloseAttempt, AdmitUncertainty, WriteReceipt,
              SupervisorDies, EnterGate, PassCheck, RefuseProvider, WatchdogFires
<1>6. CASE Crash
  BY <1>6 DEF Crash, DieInGate, hostVars, processes
<1> QED
  BY <1>1, <1>2, <1>3, <1>4, <1>5, <1>6 DEF Next

\* A cancellation published before the provider is started prevents it: the anchor is
\* cleared inside the gate, and whoever publishes waits until it has left.
THEOREM Fences == Spec => CancelFences
<1>1. Inv /\ [Next]_vars =>
          [\A r \in Runs : provider[r] = "none" /\ provider'[r] = "live" => r \notin revoked]_vars
  <2> SUFFICES ASSUME Inv, Next, NEW r \in Runs, provider[r] = "none", provider'[r] = "live"
               PROVE  r \notin revoked
    OBVIOUS
  <2>1. PICK q \in Runs : SpawnProvider(q)
    BY ProviderMoves DEF ProviderEnds, EndGroup, Inv, CodingTypeOK, HostTypeOK
  <2>2. q = r /\ anchor[r] = "cleared"
    BY <2>1 DEF SpawnProvider, Inv, CodingTypeOK, HostTypeOK
  <2> QED
    BY <2>2 DEF Inv, HostInv, HostOK
<1> QED
  BY <1>1, Invariant, PTL DEF Spec, CancelFences

\* A run whose provider can start, or lives, has the slot.
LEMMA LivingHoldsSlot ==
    ASSUME Inv, NEW r \in Runs, AnchorLives(r)
    PROVE  HoldsSlot(r)
<1>1. supervisor[r] # "none" /\ receipt[r] \notin FinalReceipts
  BY DEF Inv, HostInv, HostOK, AnchorLives
<1> QED
  BY <1>1 DEF Inv, LaunchInv, RecordInv, HoldsSlot

\* One provider is started per run, and never beside that of another run: the slot is
\* held as long as a process of the run is left, and one run at a time holds it.
THEOREM OneProvider == Spec => OneWriter
<1>1. Init => ProviderWork!Init
  BY DEF Init, HostInit, ProviderWork!Init
<1>2. ASSUME Inv, [Next]_vars
      PROVE  [ProviderWork!Next]_<<Started, Live>>
  <2>1. ASSUME NEW r \in Runs, SpawnProvider(r)
        PROVE  ProviderWork!Start(r)
    <3>1. anchor[r] = "cleared" /\ provider[r] = "none"
      BY <1>2, <2>1 DEF SpawnProvider, Inv, HostInv, HostOK
    <3>2. \A q \in Runs : provider[q] # "live"
      <4> SUFFICES ASSUME NEW q \in Runs, provider[q] = "live"
                   PROVE  FALSE
        OBVIOUS
      <4>1. AnchorLives(r) /\ AnchorLives(q)
        BY <1>2, <3>1 DEF AnchorLives, Inv, HostInv, HostOK
      <4>2. q = r
        BY <1>2, <4>1, LivingHoldsSlot DEF Inv, RecordInv
      <4> QED
        BY <3>1, <4>2
    <3>3. provider' = [provider EXCEPT ![r] = "live"] /\ provider \in [Runs -> {"none", "live", "dead"}]
      BY <1>2, <2>1 DEF SpawnProvider, Inv, CodingTypeOK, HostTypeOK
    <3>4. Started' = Started \cup {r} /\ Live = {} /\ Live' = {r} /\ r \notin Started
      BY <3>1, <3>2, <3>3 DEF Started, Live
    <3> QED
      BY <3>4 DEF ProviderWork!Start, Started, Live
  <2>2. ASSUME NEW r \in Runs, ProviderEnds(r) \/ EndGroup(r)
        PROVE  ProviderWork!End(r) \/ UNCHANGED <<Started, Live>>
    <3>1. provider \in [Runs -> {"none", "live", "dead"}]
      BY <1>2 DEF Inv, CodingTypeOK, HostTypeOK
    <3>2. CASE provider[r] = "live"
      <4>1. provider' = [provider EXCEPT ![r] = "dead"]
        BY <2>2, <3>1, <3>2 DEF ProviderEnds, EndGroup
      <4>2. Started' = Started /\ r \in Live /\ Live' = Live \ {r}
        BY <3>1, <3>2, <4>1 DEF Started, Live
      <4> QED
        BY <4>2 DEF ProviderWork!End, Started, Live
    <3>3. CASE provider[r] # "live"
      <4>1. provider' = provider
        BY <2>2, <3>1, <3>3 DEF ProviderEnds, EndGroup
      <4> QED
        BY <4>1 DEF Started, Live
    <3> QED
      BY <3>2, <3>3
  <2>3. ASSUME UNCHANGED provider
        PROVE  UNCHANGED <<Started, Live>>
    BY <2>3 DEF Started, Live
  <2>4. CASE Next
    BY <2>1, <2>2, <2>3, <2>4, <1>2, ProviderMoves DEF ProviderWork!Next
  <2>5. CASE UNCHANGED vars
    BY <2>3, <2>5 DEF vars, hostVars, processes
  <2> QED
    BY <1>2, <2>4, <2>5
<1>3. Inv /\ [Next]_vars =>
          [ProviderWork!Next]_<<{r \in Runs : provider[r] # "none"}, {r \in Runs : provider[r] = "live"}>>
  BY <1>2 DEF Started, Live
<1> QED
  BY <1>1, <1>3, Invariant, PTL DEF Spec, OneWriter, ProviderWork!Spec

=============================================================================
