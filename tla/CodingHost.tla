----------------------------- MODULE CodingHost -----------------------------
(***************************************************************************)
(* The local host of a coding attempt, src/src/modules/coding-runs: the      *)
(* supervisor, the anchor that leads the process group of the provider, the  *)
(* files both leave behind, and what a controller can do with them.          *)
(*                                                                          *)
(* The supervisor outlives the controller that spawned it.  Everything a     *)
(* controller ever learns of it comes from the files and the process table;  *)
(* the label of a process is its position, the files are durable.            *)
(* A file is its presence and the facts a reader acts on; signatures, nonces *)
(* and the sizes of the output are left out.                                 *)
(***************************************************************************)
EXTENDS Naturals

CONSTANT Runs              \* coding runs; each has one attempt

VARIABLES
    manifest,   \* attempts whose preparation is complete (manifest.json)
    claimed,    \* attempts whose launch was claimed (launch.claim)
    revoked,    \* attempts with a published cancellation (cancel.json)
    gate,       \* who is in the attempt's authorization gate
    heartbeat,  \* none, without a group, or naming the group
    receipt,    \* receipt.json: how the attempt ended
    evidence,   \* candidate.json: the receipt the retained candidate was cut under
    supervisor, \* position of the supervisor
    anchor,     \* position of the anchor
    provider,   \* the coding process itself
    outcome,    \* how the provider really ended
    verdict     \* why the supervisor stopped watching, in its memory

files == <<manifest, claimed, revoked, heartbeat, receipt, evidence>>
processes == <<supervisor, anchor, provider, outcome, verdict>>
hostVars == <<files, gate, processes>>

Receipts == {"none", "completed", "failed", "cancelled", "lost", "uncertain"}
FinalReceipts == {"completed", "failed", "cancelled", "lost"}

HostTypeOK ==
    /\ manifest \subseteq Runs
    /\ claimed \subseteq Runs
    /\ revoked \subseteq Runs
    /\ gate \in [Runs -> {"free", "anchor", "stale"}]
    /\ heartbeat \in [Runs -> {"none", "alone", "group"}]
    /\ receipt \in [Runs -> Receipts]
    /\ evidence \in [Runs -> {"none"} \cup FinalReceipts]
    /\ supervisor \in [Runs -> {"none", "spawned", "probing", "starting", "telling",
                                "watching", "stopping", "closing", "uncertain", "gone"}]
    /\ anchor \in [Runs -> {"none", "ready", "told", "gated", "cleared", "replied", "dead"}]
    /\ provider \in [Runs -> {"none", "live", "dead"}]
    /\ outcome \in [Runs -> {"none", "completed", "failed", "killed"}]
    /\ verdict \in [Runs -> {"none", "exited", "stopped"}]

HostInit ==
    /\ manifest = {}
    /\ claimed = {}
    /\ revoked = {}
    /\ gate = [r \in Runs |-> "free"]
    /\ heartbeat = [r \in Runs |-> "none"]
    /\ receipt = [r \in Runs |-> "none"]
    /\ evidence = [r \in Runs |-> "none"]
    /\ supervisor = [r \in Runs |-> "none"]
    /\ anchor = [r \in Runs |-> "none"]
    /\ provider = [r \in Runs |-> "none"]
    /\ outcome = [r \in Runs |-> "none"]
    /\ verdict = [r \in Runs |-> "none"]

----------------------------------------------------------------------------
(* What the process table and the files tell a controller. *)

Watched(r) == supervisor[r] \notin {"none", "gone"}
AnchorLives(r) == anchor[r] \notin {"none", "dead"}
\* Mutant: the group is taken for dead when its provider is.
WriterAbsent(r) == provider[r] # "live"

\* groupAbsent: no process of the group, leader or member, is in the table.
GroupAbsent(r) == ~AnchorLives(r) /\ provider[r] # "live"

\* Mutant: a receipt that admits uncertainty counts as the end.
Reported(r) == r \in manifest /\ receipt[r] # "none" /\ GroupAbsent(r)
\* inspectLocalAttempt: a final receipt counts when its group is gone, a heartbeat
\* while its supervisor is there; everything else needs to be reconciled.
Finished(r) == r \in manifest /\ receipt[r] \in FinalReceipts /\ GroupAbsent(r)
Observed(r) == r \in manifest /\ receipt[r] = "none" /\ heartbeat[r] # "none" /\ Watched(r)

\* Mutant: a receipt, even an uncertain one, ends the recovery.
Unreported(r) == receipt[r] = "none" /\ r \in claimed /\ heartbeat[r] = "group"

\* The part of reconcileLocalAttempt before it awaits the process table: only an
\* attempt whose group is on record can be recovered.
Recoverable(r) == r \in manifest /\ r \in claimed /\ heartbeat[r] = "group"

----------------------------------------------------------------------------
(* What controllers do to an attempt. *)

Prepare(r) ==
    /\ manifest' = manifest \cup {r}
    /\ UNCHANGED <<claimed, revoked, heartbeat, receipt, evidence, gate, processes>>

ClaimLaunch(r) ==
    /\ claimed' = claimed \cup {r}
    /\ UNCHANGED <<manifest, revoked, heartbeat, receipt, evidence, gate, processes>>

SpawnSupervisor(r) ==
    /\ supervisor' = [supervisor EXCEPT ![r] = "spawned"]
    /\ UNCHANGED <<files, gate, anchor, provider, outcome, verdict>>

\* Mutant: the cancellation is published whoever is in the gate.
GateIgnored(r) == r \in Runs

\* publishLocalCancellation: synchronous, and exclusive with whoever is in the gate.
GateOpen(r) == gate[r] = "free"
PublishCancellation(r) ==
    /\ revoked' = revoked \cup {r}
    /\ UNCHANGED <<manifest, claimed, heartbeat, receipt, evidence, gate, processes>>

\* The process dies in the gate, before or after the file appears.
DieInGate(r) ==
    /\ gate' = [gate EXCEPT ![r] = "stale"]
    /\ \/ revoked' = revoked \cup {r}
       \/ UNCHANGED revoked
    /\ UNCHANGED <<manifest, claimed, heartbeat, receipt, evidence, processes>>

\* The part of reconcileLocalAttempt after the process table was read.  The receipt
\* is written whatever was written since the heartbeat was read.
RecoverReceipt(r) ==
    /\ receipt' = [receipt EXCEPT ![r] = IF r \in revoked THEN "cancelled" ELSE "lost"]
    /\ UNCHANGED <<manifest, claimed, revoked, heartbeat, evidence, gate, processes>>

\* collectLocalAttempt: a candidate that was published is read back, never cut again.
Collect(r) ==
    /\ evidence' = [evidence EXCEPT ![r] = IF @ = "none" THEN receipt[r] ELSE @]
    /\ UNCHANGED <<manifest, claimed, revoked, heartbeat, receipt, gate, processes>>

----------------------------------------------------------------------------
(* The supervisor: probe, start the anchor, record the group, permit the writer, *)
(* watch, stop the group, write the receipt.                                    *)

Move(r, from, to) ==
    /\ supervisor[r] = from
    /\ supervisor' = [supervisor EXCEPT ![r] = to]

SupervisorStarts(r) ==
    /\ Move(r, "spawned", "probing")
    /\ heartbeat' = [heartbeat EXCEPT ![r] = "alone"]
    /\ UNCHANGED <<manifest, claimed, revoked, receipt, evidence, gate,
                   anchor, provider, outcome, verdict>>

\* The preflight fails, or the attempt was cancelled before anything was spawned.
PreflightEnds(r) ==
    /\ Move(r, "probing", "closing")
    /\ verdict' = [verdict EXCEPT ![r] = "stopped"]
    /\ UNCHANGED <<files, gate, anchor, provider, outcome>>

SpawnAnchor(r) ==
    /\ r \notin revoked
    /\ Move(r, "probing", "starting")
    /\ anchor' = [anchor EXCEPT ![r] = "ready"]
    /\ UNCHANGED <<files, gate, provider, outcome, verdict>>

\* "Persist authenticated group before permitting a writer to start."
PersistGroup(r) ==
    /\ AnchorLives(r)
    /\ Move(r, "starting", "telling")
    /\ heartbeat' = [heartbeat EXCEPT ![r] = "group"]
    /\ UNCHANGED <<manifest, claimed, revoked, receipt, evidence, gate,
                   anchor, provider, outcome, verdict>>

TellAnchor(r) ==
    /\ AnchorLives(r)
    /\ Move(r, "telling", "watching")
    /\ anchor' = [anchor EXCEPT ![r] = "told"]
    /\ UNCHANGED <<files, gate, provider, outcome, verdict>>

\* Every reason to stop the group: its writer answered, was cancelled, or ran out of
\* wall time or output.
StopWatching(r) ==
    /\ Move(r, "watching", "stopping")
    /\ \E why \in {"exited", "stopped"} :
          /\ why = "exited" => outcome[r] # "none"
          /\ verdict' = [verdict EXCEPT ![r] = why]
    /\ UNCHANGED <<files, gate, anchor, provider, outcome>>

\* The group dies: its members, and the gate when the anchor was in it.
EndGroup(r) ==
    /\ anchor' = [anchor EXCEPT ![r] = "dead"]
    /\ gate' = [gate EXCEPT ![r] = IF @ = "anchor" THEN "stale" ELSE @]
    /\ provider' = [provider EXCEPT ![r] = IF @ = "live" THEN "dead" ELSE @]
    /\ outcome' = [outcome EXCEPT ![r] = IF provider[r] = "live" THEN "killed" ELSE @]

\* TERM, the grace, KILL, and the proof that the group is gone.
KillGroup(r) ==
    /\ AnchorLives(r)
    /\ Move(r, "stopping", "closing")
    /\ EndGroup(r)
    /\ UNCHANGED <<files, verdict>>

\* The group is lost, cannot be started or cannot be proven dead.
LoseGroup(r) ==
    /\ supervisor[r] \in {"starting", "telling", "watching", "stopping"}
    /\ supervisor' = [supervisor EXCEPT ![r] = "uncertain"]
    /\ UNCHANGED <<files, gate, anchor, provider, outcome, verdict>>

\* The receipt of a supervisor that saw the end of its writer.
ReceiptOf(r) ==
    IF r \in revoked THEN "cancelled"
    ELSE IF verdict[r] = "exited" /\ outcome[r] = "completed" THEN "completed" ELSE "failed"

WriteReceipt(r, kind) ==
    /\ receipt' = [receipt EXCEPT ![r] = kind]
    /\ verdict' = [verdict EXCEPT ![r] = "none"]
    /\ UNCHANGED <<manifest, claimed, revoked, heartbeat, evidence, gate,
                   anchor, provider, outcome>>

\* A failed removal of the credentials makes a completed attempt a failed one.
CloseAttempt(r) ==
    /\ Move(r, "closing", "gone")
    /\ \E kind \in {ReceiptOf(r)} \cup {"failed"} : WriteReceipt(r, kind)

AdmitUncertainty(r) == Move(r, "uncertain", "gone") /\ WriteReceipt(r, "uncertain")

SupervisorDies(r) ==
    /\ Watched(r)
    /\ supervisor' = [supervisor EXCEPT ![r] = "gone"]
    /\ verdict' = [verdict EXCEPT ![r] = "none"]
    /\ UNCHANGED <<files, gate, anchor, provider, outcome>>

----------------------------------------------------------------------------
(* The anchor and the provider. *)

EnterGate(r) ==
    /\ anchor[r] = "told"
    /\ GateOpen(r)
    /\ gate' = [gate EXCEPT ![r] = "anchor"]
    /\ anchor' = [anchor EXCEPT ![r] = "gated"]
    /\ UNCHANGED <<files, supervisor, provider, outcome, verdict>>

\* In the gate: no cancellation, so the provider may be spawned.
PassCheck(r) ==
    /\ anchor[r] = "gated"
    /\ r \notin revoked
    /\ anchor' = [anchor EXCEPT ![r] = "cleared"]
    /\ UNCHANGED <<files, gate, supervisor, provider, outcome, verdict>>

SpawnProvider(r) ==
    /\ anchor[r] = "cleared"
    /\ anchor' = [anchor EXCEPT ![r] = "replied"]
    /\ provider' = [provider EXCEPT ![r] = "live"]
    /\ gate' = [gate EXCEPT ![r] = "free"]
    /\ UNCHANGED <<files, supervisor, outcome, verdict>>

\* Cancelled, a changed workspace, or a gate nobody leaves.
RefuseProvider(r) ==
    /\ anchor[r] \in {"told", "gated"}
    /\ anchor' = [anchor EXCEPT ![r] = "replied"]
    /\ gate' = [gate EXCEPT ![r] = IF anchor[r] = "gated" THEN "free" ELSE @]
    /\ outcome' = [outcome EXCEPT ![r] = "failed"]
    /\ UNCHANGED <<files, supervisor, provider, verdict>>

ProviderEnds(r) ==
    /\ provider[r] = "live"
    /\ provider' = [provider EXCEPT ![r] = "dead"]
    /\ \E end \in {"completed", "failed"} : outcome' = [outcome EXCEPT ![r] = end]
    /\ UNCHANGED <<files, gate, supervisor, anchor, verdict>>

\* The watchdog of the anchor: "If the supervisor dies, do not silently orphan a
\* writable CLI. Its own group watchdog kills all members".
WatchdogFires(r) ==
    /\ AnchorLives(r)
    /\ EndGroup(r)
    /\ UNCHANGED <<files, supervisor, verdict>>
=============================================================================
