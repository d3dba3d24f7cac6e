# Neondeck, checked and proved

TLA+ models of the parts of Neondeck in which several actors change one durable record: the
delivery of a factory work item and its coordinator, the scheduled tasks with the scheduler that
runs them, the briefings, the coding runs, the lock of a worktree, the submission of a review,
the planning of a task and its write-back to GitHub. TLC checks each on small instances; what
matters most is proved by TLAPS for every instance.

`PROJECT.json` is the index: components, runs, mutants, the source lines each definition
translates, hazards, findings and theorems. Sources are named as in the repository
(`src/modules/...`, `docs/...`, `.plans/...`).

## 1. The system

Neondeck is a local server (Node, SQLite, one runtime home on disk) that runs model sessions and
coding processes on behalf of one operator. Everything durable is in SQLite; a component changes
it in an `IMMEDIATE` transaction and does its external work (git, GitHub, model sessions, child
processes) between two of them. A process can die anywhere in between, and several processes may
use the same home.

### 1.1 Inventory

| Component | State it keeps | Operations | What has to hold |
|---|---|---|---|
| Delivery record (`factory-delivery/{store,delivery-commands,delivery-aggregate,progress-*}.ts`) | one pipeline row: candidate, effects, evidence, repairs, assessments, feedback, commits, grant, pull request, interventions, outcome | about twenty commands, each one transaction | one external work at a time; only certified and granted candidates are published; budget; history |
| Delivery coordinator (`service.ts`, `recovery.ts`, `delivery-io.ts`, ...) | nothing durable: the step under way | `advanceFactoryDelivery`, called by a ticker, and three operator routes | nothing is dispatched twice; the record tells the truth about the world; the delivery does not get stuck silently |
| External workers of a delivery (verification, reviewers, coding runs, git, GitHub) | processes, sessions, refs, pull requests | start, observe | they end; their results can be found again |
| Scheduled tasks (`scheduled-tasks/store.ts`) | tasks (enabled, next run, claim) and runs (status, submission, outbox) | claim, release, defer, activate, attach, settle, pause, resume, delete, upsert | one unsettled run per task; ends are final; a one-shot happens |
| Scheduler tick (`scheduler/{service,lease}.ts`) | the lease row; in memory, the tick and the submissions it waits for | `runSchedulerTick` every minute in each process | an accepted submission is neither lost nor repeated; the limit on active ones |
| Briefings (`briefings/`) | briefing rows tied to task runs and to the user's commands | admit, dispatch, recover, observe, settle | every briefing ends, its run and command say so; one at a time |
| Coding runs (`coding-runs/`, `factory/coding-service.ts`) | run rows with one writer slot, the files of the host | admit, launch, cancel, reconcile, quarantine, finish | one writer; no finish without proof of death; only a whole candidate |
| Worktrees (`worktrees/`) | worktree rows, locks with expiry | acquire, renew, revoke, reclaim, clean up | one holder mutates; a preemption is answered; cleanup never removes work in use |
| Factory task and planning (`factory/{service,planning-*}.ts`) | task, source, brief, releases; planning requests; runs of Flue | edit, release, ask, dispatch, stop, recover | an approval binds what is current; no model works for a settled request |
| Factory write-back (`factory/writeback*.ts`) | an outbox of effects, consent, status, the comments ingestion retained | queue, send, reconcile, preview and approve repairs, relinquish | nothing posted twice or without authority; foreign edits survive |
| Review submission (`pr-reviews/`, `github/reviews.ts`, `pr-events/`) | the review's record, drafts, follow-ups | start, reserve, lease, post, reconcile, follow up | one review a round, the exact draft; reservations end |
| Intake from Linear and GitHub (`factory/*-reconcile.ts`) | cursors and imported items | poll, reconcile | nothing imported twice or lost |
| Repository workflow runs, autopilot, prepared diffs, review assistance, learning | a run or draft record each, with a session or a request in flight | admit, dispatch, settle, recover | the same admission and settlement pattern |
| Kilo, GitHub client, execution, safety, MCP, repo-edit | adapters, policies, approvals | calls | mostly input and output |
| Sessions, memory, watches, configuration, updates, review surfaces, reports, handoff, server routes, CLI, desktop, web | rows and files without a protocol, views | reads and single writes | |

`PROJECT.json` lists every one with its files and, where it is not modelled, why.

### 1.2 How they interact

A scheduled task or the operator starts a session. An issue becomes a factory task; it is planned
by a model (triage, then a brief), released by the human, coded, and its candidate handed to a
delivery; the write-back tells the issue how it stands. The ticker of the server calls the
coordinator for every delivery without an outcome. The coordinator reads the record, recovers
what is outstanding, asserts the authority of the release, and admits the next piece of work: it
writes the claim into the record, dispatches, awaits, and writes the result. The operator revokes,
grants the publication and retries a broken environment through routes that write the same record
between any two awaits of the coordinator. A repair goes to the coding runs, whose ticker reconciles
them every three seconds.

The scheduler runs in every process that serves the home. Processes meet at the lease row and at
the claim of each task. A task is either carried out inside the tick or handed to a session,
under a key that the session accepts once; the wait for its end lives in memory and is rebuilt by
the next tick. A task of the briefings kind is handed to the briefings' admission instead.

Agents, sessions of the user and cleanups meet at the lock of a worktree; the user's submission of
a review, its reconciliation and the recovery at startup at the review's record and its draft.

### 1.3 What is hard about it

* Three admission functions over different fields exclude one another (effects, assessments,
  repairs).
* Guards look at the authority and then await: the answer may be old when it is used.
* The process dies between the claim of a piece of work and its dispatch, between the dispatch
  and the result, between two transactions that belong together.
* Work that was accepted must not be repeated, and what cannot be observed must not be assumed:
  GitHub and Flue may do what they were asked after the caller has given them up.
* A lease, a claim or a lock expires while its holder is stalled, and the holder comes back.
* Snapshots taken with a claim are written back after the operator has changed the task.
* Two observers settle one row, in two transactions, each having read before it awaited.
* The coordinator is a chain of early returns: a record for which every tick returns early is
  stuck, and nobody is told.

The list with lines, and the properties that answer each, is `hazards` in `PROJECT.json`.

## 2. The modules

| Module | Models | Extends or instantiates |
|---|---|---|
| `DeliveryAggregate` | the delivery record, one action per committed command | community modules |
| `ExternalWork` | abstract specification: every work is started once and alone | |
| `DeliveryCoordinator` | the coordinator's step, the operator, the workers, the crash | `DeliveryAggregate`, `INSTANCE ExternalWork` |
| `DeliveryCoordinator_proofs` | theorems about both: the coordinator implements the record and `ExternalWork` | `DeliveryCoordinator`, TLAPS |
| `DeliveryClaims` | what comments and plans say of a delivery and the code does not do | `DeliveryCoordinator` |
| `ScheduledTasks` | tasks and runs, one action per transaction, any caller | |
| `SchedulerTick` | ticks of several processes, lease, sessions, faults | `ScheduledTasks` |
| `SchedulerTick_proofs` | theorems about both: the ticks implement the store | `SchedulerTick`, TLAPS |
| `Briefings` | the briefings of a conversation and the runs they belong to | `ScheduledTasks` |
| `Briefings_proofs` | theorems about it | `Briefings`, TLAPS |
| `CodingHost` | the supervisor, anchor and provider of a coding attempt, and their files | |
| `CodingRuns` | the run's record and the calls that drive it | `CodingHost`, `INSTANCE ExternalWork` |
| `CodingRuns_proofs` | theorems about both | `CodingRuns`, TLAPS |
| `WorktreeLocks` | the lock of a worktree and the calls under it | |
| `WorktreeLocks_proofs` | theorems about it | `WorktreeLocks`, TLAPS |
| `ReviewSubmission` | record, drafts, route, reconciliation and follow-ups of a review | |
| `ReviewSubmission_proofs` | theorems about it | `ReviewSubmission`, TLAPS |
| `FactoryTask` | a task, its source, brief and releases | |
| `FactoryPlanning` | its planning requests, the driver and Flue | `FactoryTask` |
| `FactoryPlanning_proofs` | theorems about both | `FactoryPlanning`, TLAPS |
| `FactoryWriteback` | the outbox of a task, its runner, ingestion and GitHub | |
| `FactoryWriteback_proofs` | theorems about it | `FactoryWriteback`, TLAPS |
| `MC*` | small sets, symmetry and constraints for TLC | the module they are named after |

### 2.1 The delivery record

An action is a committed transaction. A refused command throws and rolls back, an exact replay
returns what it found: both are stuttering steps. A revision is the number of the repair that
produced it (0 is the released candidate), an effect id is `<<kind, revision, n>>`, a receipt is
the one its evidence names or another, a duration a small natural or `NoMs` for "unknown". The
authorization is fixed, as in the code. `set-coordinator` is left out: it is the bookkeeping of
the pull request's watch (its id, its observation times and a fingerprint).

| State | Code |
|---|---|
| `effects`, `evidence`, `repairs`, `assessments`, `feedback`, `commits` | the lists of the pipeline record, `src/shared/factory-delivery.ts` |
| `revision`, `publication`, `pr`, `outcome` | `current`, `publicationGrant`, `prOwnership`, `outcome` |
| `open`, `resolved` | interventions without and with a resolution |
| `UnresolvedEffects`, `SpentExecution`, `CurrentPasses`, `PublicationAuthorized`, `PendingFeedback` | the projections of `delivery-aggregate.ts` |
| `EvidenceDigest` | what `deliveryProgressEvidenceDigest` hashes |

`assertRecord`, which the store calls on each new record, is part of the guards: a command that
would write a record it refuses does not happen.

### 2.2 The coordinator

`step` is the one attached call of `advanceFactoryDelivery` for this delivery, named after what
it does next. JavaScript runs to completion: a label in `Synchronous` stands between two commits
of one stretch, where only a crash can come; at every other label the program awaits, and the
operator or the configuration may move first. Each action commits at most one command, so every
place where the process can die between two commits is a state. `running`, `sent` and `landed`
are the external work under way, ever dispatched, and observable. `valid` says that
configuration, release, target and candidate content match the grant; it flips once.

A guard of the code reads the authority, awaits the capture of the candidate and lets its caller
go on. The model does the same: such an action tests `Authorized` and moves to the label where
the capture ends; what follows does not look again unless the code does (`Recheck`: the creation
of the pull request and the progress judge).

Abstracted: the capture may or may not notice a candidate that changed; feedback is reduced to a
failed check and a packet too large to review; the report that recovery finds equals the one
recorded; the reviewer is always independent; the git plumbing is one observable result; a
repair that was reserved and never launched is quarantined by the coding runs. Reads that throw
before a claim leave the record alone, and the fairness below assumes that they do not throw for
ever. Left out: the watch's bookkeeping, the legacy authorization mode, review sessions for
feedback, the polling cadence, several deliveries at a time (they share nothing but the operator).

`DispatchedOnce` is the refinement: with `started <- sent` and `live <- running` the coordinator
implements `ExternalWork`, "Never retry a possibly accepted POST or launch another check/model
process here" (`service.ts`), and never two at a time.

### 2.3 The scheduled tasks and the scheduler

`ScheduledTasks` has an action for each transaction of `scheduled-tasks/store.ts` but
`upsertScheduledTask`; the two of briefings are in `Briefings`. Each can be issued at any time by
anybody for any run, stale claims included, so its theorems hold whatever the ticks do. Time is
not counted: `due` is `"never"`, `"later"` or `"now"`, and a claim carries a flag `lapsed`. The
claim id and the run id are created together and stand for each other. The claim's snapshot is
constant: a task is claimed when it is enabled and due. The `LIMIT` and the order of due tasks are
left out: all that are due are claimed.

`SchedulerTick` adds the processes. A tick is a position between two awaits (`at`), the run in
hand and the runs still to do; `back` tells the recovery of submissions from the tick proper.
The lease row has an owner and is live or not; a tick whose lease lapsed goes on until it looks
again (`BeginTask`), as the code does. A call that throws where one task is handled fails that
task; elsewhere it ends the tick (`ThrowTick`) and leaves its claims to lapse. `admitted` is what
sessions have accepted (once per key), `ended` what they have finished; `watched` is the wait in
memory.

Faults are stalls longer than the lease or a claim lives, failed or blocked calls, lost waits and
crashes; `MaxFaults` bounds them all together. Claims live five minutes and are not renewed, so a
slow handler lets one lapse without any other fault: that counts as a stall too. Inline tasks are
settled as completed or failed; what they do is their own component's business.

### 2.4 Briefings

`briefings[b]` is a row (its status, its run, whether a submission is attached), `flue[b]` what
Flue has of it, `commands[b]` the user's command event. The user's admission, the tick's and the
recovery are positions; every transaction and every call of Flue is an action of its own, so the
recovery of a queued row can meet the admission that is just dispatching it. The end of a
submission arrives by an observation in memory, which a crash loses, or from the conversation's
history. Left out: the profile and its task's edits, the change of session, the snapshot. A
briefing past the bound is refused, as a bound must be somewhere; one process ticks.

### 2.5 Coding runs

`CodingHost` is what runs without the server: the supervisor, the anchor that leads the process
group, the provider, each a position that may die at any point, and the files they leave. A
controller learns of them from the files and the process table alone, as the operators
`GroupAbsent`, `Recoverable`, `GateOpen` do. `CodingRuns` is the row of each run with the one
writer slot, and the calls `launchReservedCodingRun` and `reconcileCodingRun`, each a position
named after the await it returns from. `OneWriter` is a refinement: the providers of all runs
implement `ExternalWork`. Signatures, nonces, output sizes and the sandbox are left out.

A step of a controller may fail once, which is a fault, or for good: `uncollectable` are the
attempts whose worktree the collection refuses to read, however often it is asked (more than ten
thousand untracked files, four megabytes of them or of a diff, a kind that is not read, a filter or
a submodule, another branch). `SpoilWorktree` makes an attempt one of them at any time between its
claim and its collection, and `CollectRefused` quarantines it again on every tick. Evidence that was
retained before is taken from its file, so that a refusal comes before it or not at all.

### 2.6 The lock of a worktree

One worktree of one pull request; `acquireLock` lets the two scopes exclude each other, so the
scope is left out. A call takes one lock, so its row is named after the call: `lock[c]` is held,
revoked, past the grace of its revocation (lapsed), expired or released. `status` is that of the
record, `gone` says that its directory is, `call` is the position of each call, `target` the lock a
session preempts, `overran` the history of the calls whose mutation outlasted its lock.

The lock row and the record's status are two transactions in every operation. Between the two stands
no await on anything outstanding, so that an operation is one action for everybody but a crash, and
the crash in between has an action for each of them: `CutLock`, `CutRelease`, `CutPreempt`, `CutRemove`
(also between the directory and the release) and `CutFailure`. `torn` is the history that says that a
crash fell between a release and its record and that nothing has been locked since.
A synchronisation takes no lock and mutates all the same, as in the code.

### 2.7 The submission of a review

One pull request; the n-th reservation is submission n; `request` is GitHub's view of it, and what
it said of the draft. All verdicts are the same, so that nothing but author, head and time tells a
posted review from an earlier one. The thirty seconds of grace are the flag `late`; by their end
GitHub has met or lost every request. They may end while a list of reviews that was read before
waits to be judged, because the code takes the time after the list: `misread` is the history of the
rounds in which that list was read before GitHub had accepted the review it was to show.

A handler that cannot read the head (`HeadUnread`) has started no request and releases the lease of
the draft, but its error is the uncertain one, so the route keeps the reservation and only a
reconciliation settles it. A failure that is certain releases both (`GiveUp`).

`changed` are the posted reviews of which a comment was edited on GitHub, or moved by a push,
before it was compared, and `compared` the follow-ups that compare at all: one enqueued by a
reconciliation goes by the review's identity only. A follow-up in both never matches (`Mismatched`)
and is set back after every try. The watch that reads these rows is not modelled.

### 2.8 The factory task and its planning

`FactoryTask` has the task's source, its work item, the immutable revisions of its brief and the
releases; every edit bumps a version and takes a release back, except one made in the
configuration file by hand. `FactoryPlanning` adds the requests (a human's, an intake's triage, a
comment's), numbered as they are made, the repository's fetch in flight (`captures`), the driver
that carries a request to Flue through triage and planner, and the runs of Flue, which is another
store: what a call to it did when it failed is unknown. A call with a stale version is refused and
changes nothing, so it is left out. Left out besides: unregistered repositories, the models'
settings and memory in the context, the fields of a brief. The abort of a stop may land late on the
conversation that all requests share; the model lets it.

### 2.9 The write-back

`effects` is the outbox: what is numbered here has a row id there. A comment is named after the
effect that created it and its revision is its number of edits (the provider's `updated_at`).
`request` is the call in flight of each effect; GitHub may meet it after the runner gave it up.
`runner` is the position of the loop that takes one due effect at a time, `retained` what ingestion
stored of each comment and whether it took it for an echo, `policy`, `task` and `status` what the
authority is made of. Retry times are left out (any due effect may be taken) and only the last
preview of a repair is kept. Others write texts that differ from the deck's.

`mapping` is the connection as it is configured: the one the task was admitted under, another one
(another fingerprint) or none; each effect keeps the one it was made under. `Reconfigure` changes it
with everything `invalidateReleasesForConfig` does. A dispatched effect of another mapping is
refused its reconciliation and stays uncertain (`Pick`). `moved` says that the issue was transferred
or its repository renamed, which the runner meets at the first thing it reads (`Astray`) and
ingestion at its own (`Readable`). Both may be undone at any time, and nobody has to.
`IdentityChanged` is a credential of another user than the comment's.

## 3. What is checked

| Run | Instance | States | Shows |
|---|---|---|---|
| `delivery_aggregate` | 1 repair, 1 feedback, 1 try, total of 1 unit, durations 0 or 2, callers raise and resolve "uncertainty" | 343,658 | exclusion, budget hold, certification, grant, approval of repairs |
| `delivery_coordinator` | 2 repairs, 2 tries, 1 feedback, 1 crash, with fairness | 280,290 | no double dispatch, a true ledger, a quiet end; without a crash, the operator is told and a revoked delivery ends |
| `scheduler_tick` | 2 processes, a reminder of 2 runs and a digest, limit 1, the operator touches the reminder, 2 faults | 799,732 | exclusion and tracking |
| `scheduler_carries` | 2 processes, a one-shot of 3 runs beside a sweep, 1 fault, with fairness | 24,095 | the occurrence is carried out; submissions settle |
| `briefings` | 2 briefings, 1 scheduled run, 1 command, 2 faults, with fairness | 458,366 | every briefing and its run settle, and agree |
| `coding_runs` | 1 run, 2 calls, 3 faults, with fairness | 176,955 | slot, candidate, cancellation, an end for what is on record and can be collected |
| `coding_writers` | 2 runs, 1 call, 1 fault | 1,819,466 | one provider per run, never two at a time |
| `worktrees` | 1 agent, 2 sessions, a cleanup, a synchronisation, 1 fault, with fairness | 260,356 | mutations exclude each other; a busy worktree is locked; a preemption is answered |
| `reviews` | 2 submissions, rounds, heads and drafts, 1 edit, 2 faults, not all of the last three at once, with fairness | 292,746 | one review a round, exact, recorded; reservations and follow-ups settle; each with the exceptions of section 5.1 |
| `writeback` | 2 texts, 3 effects, any 2 events, with fairness | 93,620 | no blind post, no unauthorized request, no foreign edit lost; an answer is found |
| `planning` | 2 contents, 2 repositories, 2 events, 2 requests, with fairness | 612,026 | approvals are current, no stray run or revision, the right commit, an end to every request |
| `claim_relinquished` | 3 effects, 3 events | | a statement of the handbook the code does not keep (section 5) |

Every property of a passing run has a mutant in `PROJECT.json`: a plausible bug in one mapped
definition, under which TLC finds the property violated in the same run.

More configurations stand beside the runs, for what they would repeat. `SchedulerShape` checks `OneShotSubmittedOnce`, `ActiveIsBounded` and `TerminalRunsStay`;
`CoordinatorShape` the coordinator's types and `RecheckedWorkIsAuthorized`; `ReviewShape` (486,350 states) the types,
`OwnReviewIsKnown` and the safety of `reviews` without `NotAllAtOnce`; `FactoryWritebackSafety` (1,050,033 states, the two texts interchangeable) the safety of the write-back with
three events. Each `Claim*.cfg` is violated: section 5.

### 3.1 The bounds, and why they are enough

* **Delivery record.** One repair and one feedback observation make two revisions: enough for
  work, evidence, a grant and a receipt of the wrong revision, which is what the record's guards
  tell apart. A reservation of one unit in a total of one, with durations 0 and 2, makes budgets
  that are left over, exhausted and overrun. Callers raise the one kind that they can also
  resolve (`CallerHolds` keeps it to one at a time); the other kinds are raised by the commands.
  Two pull requests make a rebinding visible.
* **Coordinator.** Two repairs, so that one ordinal can succeed and the next be asked for, and two
  tries, so that an environment retry can plan a second verification. One crash reaches every
  state of the step once. A second crash meets the recovery of the first: it starts from the same
  durable states, as the step is lost each time, and recovery commits at most two commands. It
  takes no time, because the budget is the record's. `PlanNext` names the bound of tries, which an
  environment retry keeps below anyway.
* **Scheduler.** Two processes with two faults let one stall past its claim, the other take it
  over, and one more call be lost. A task needs one run more than the faults can burn for its
  occurrence to be carried out. The limit is one where it is in question, so that the second task
  meets it.
* **Briefings.** Two rows make an admission beside an active briefing, two faults a lost call and a
  crash. One of them has a command, so that the user's and the tick's are both there.
* **Coding runs.** Two calls are the ticker and one other; three faults let the supervisor, its
  heartbeat and a controller fail in one history. Two runs compete with one fault.
* **Worktree.** Every kind of call has a member, sessions two, so that one can preempt the other. The
  one fault is an overlong mutation or a crash, which may part two commits.
* **Reviews.** Two of everything: a retry, an earlier review of the same author, a pushed head, a
  draft that was replaced. Two faults are any two of a crash, a lost answer or request, an unread head or
  list, a failed processing and a changed comment. The grace may end anywhere, and takes no fault.
  `NotAllAtOnce` leaves out the behaviours from where the push, both faults and a standing edit have all
  come together; `ReviewShape` checks the safety of those as well.
* **Write-back.** Three effects are a comment, its edit and one repair or question. Any two events
  (a change of policy, task or status, of the connection, the issue's place or the credential, an
  edit or a deletion by others, a crash, a lost, late or rejected call) in the run with liveness, three in `FactoryWritebackSafety`.
* **Planning.** Two requests make an earlier and a later one, two events an edit and a crash.
  `OneThing` lets a reading of the issue find one thing changed at a time, and a brief that is not
  ready come from the model's questions only; `MCInit` starts with one of the contents and of the
  repositories, which are alike.

### 3.2 Fairness

* **Coordinator.** `WF(Advance)`: the ticker calls it while the delivery has no outcome, and an
  awaited call returns. `WF(WorkEnds)`: checks, reviewers, judges and coding runs have deadlines
  after which they are killed or given up. Nobody is obliged to approve, merge or retry.
  `OperatorIsTold` and `RevocationEnds` speak of behaviours without a crash (`Crashed`), for with
  one they fail (section 5); and `RevocationEnds` excepts the states in which the outcome of some
  work is unknown (`Unaccounted`), which the code leaves to the operator by design.
* **Scheduler.** `WF(Tick(p))`: the loop runs every minute and a crashed server is started again.
  `WF(EndSubmission)`: a session ends. `WF(SettleWatched)`: the wait returns once its submission
  has ended. Time passes: `BecomesDue`, `ClaimLapses`, `LeaseLapses`. No fairness for faults,
  renewals or the operator.
* **Briefings.** The tick comes back every minute and goes on, calls return, Flue ends what it
  accepted and tells its observer. Nobody is obliged to ask for a briefing.
* **Coding runs.** The ticker reconciles the active run every three seconds, calls return, the
  host's processes run, and the watchdog and the wall time end them. Nobody is obliged to make a
  worktree good that the collection refuses.
* **Worktree.** The grace passes, a mutation that began comes back, a session and a cleanup go on.
  No fairness for the begin of anything, nor for an expiry.
* **Reviews.** Handlers, recoveries and timers run on, GitHub meets a request in the end, the grace
  ends, and the user reconciles for as long as a submission is unsettled: strongly for the end of
  the grace, which a reconciliation at the wrong moment may keep away. Nobody undoes what was
  changed in a comment.
* **Write-back.** The loop ticks every fifteen seconds and takes the oldest due effect: `SF(Pick)`,
  as an effect is due only between two others'. Calls return and GitHub meets a request in the end.
  Nobody is obliged to restore a connection or to bring an issue back.
* **Planning.** The driver goes on and is called again by the loops of GitHub and Linear, Flue ends
  its runs, the server comes up again.

## 4. What is proved

All proofs are complete down to their leaves, for every value of the constants. What is assumed of
them are the named assumptions of the modules (`ConstantsAssumption`, `TasksAssumption`,
`TicksAssumption`, `PlanningAssumption`, ...): bounds are naturals, sets that are counted are
finite, sentinels are not values, and the coordinator may raise every kind of intervention. The bounds stay in the models, and no proof looks at how large
they are. `PROJECT.json` lists the theorems with the property of a run each one states; where it
names none, the property stands in the module and no run of the list repeats it.

Each component has an inductive invariant, given here with what made it necessary.

**`DeliveryCoordinator_proofs`.** Of the record, whoever calls it: `TypeCorrect` first; the rest is relative to it.
`Exclusion` and `Currency` (`AtMostOneOutstanding`, `OutstandingIsCurrent`) need `ExclusionInv`:
admission looks at effects, assessments and repairs together but completion at one of them, so
that at most one is outstanding is inductive only with the fact that it belongs to the current
revision, that revisions never exceed the repairs, and that a finished record has nothing
outstanding. The last part also gives `Finality` (`TerminalIsFinal`), because the progress
commands do not look at the outcome. `History` (`HistoryIsKept`) is proved step by step from the
types, with the sequence lemmas for the evidence. `Certification`, `Grant` and
`GrantedPullRequest` (`PullRequestWasGranted`) come from `PublicationInv`: the three properties, and that the grant is for
a revision not later than the current one and that an outstanding pull request stands on the
delivered push of its own revision. `Approval` (`RepairIsApproved`) is inductive together with the
exclusion: an approval covers the repairs before its own as they ended, and those stay as they
are because a repair is finished only while it is the last one. `Budget` (`OverspendIsHeld`) needs
`BudgetInv`: what is not settled has no time of its own, so that it counts as its reservation, and
what was never admitted has none. The sum is looked at when work is admitted and not when it is
settled, and only an overrun or an unknown time raises it then, in the write that also holds the
delivery. What one entry does to a sum are lemmas about the community modules' `SumFunction`
(`SumChanges`, `SumGrows`): of the subsets of a finite set at which something fails one has no
other within (`Minimal`), which does for a fold what the induction theorems with a parameter would.

Of the coordinator: `RecordImplemented`, the refinement `CoordinatorSpec => Spec`: every step, of the
tick, the operator, the world or a crash, is one command of the record or none, so all of the above
holds of it. It needs `CoordinatorInv`: the types and the exclusion with `WorldInv` and `StepInv`.
`WorldInv` says of each work, whatever the step knows of it, what the record shows of it: what was
sent is in flight or further, what runs is outstanding, evidence is of what was observed. `StepInv`
says what the label a step stands at tells of the work it carries: at `dispatch` it is in flight and
was not sent, at `settle` it was observed, at `launch` its repair is reserved. A crash forgets the label
and nothing else, which is why `WorldInv` must stand without it. The two meet at an effect that
is refused: it was claimed and is planned again, with a receipt, so that a start would dispatch
what recovery takes for refused; that it is never started again follows from the intervention
"scope", which is raised before and which nothing resolves. From `CoordinatorInv` follow
`CoordinatorTypeCorrect`, `Ledger` (`LedgerIsTrue`), `QuietEnd` (`EndedIsQuiet`) and `Once`, the refinement
`DispatchedOnce`: what is dispatched is outstanding and unsent, what runs is outstanding and sent,
and the record's exclusion leaves no room for both. `Recheckings` (`RecheckedWorkIsAuthorized`) needs no
invariant.

**`SchedulerTick_proofs`.** Of the store, whoever calls it: `StoreTypeCorrect`; `Exclusion`
(`OneUnsettledRun`), inductive with the types as it stands, because its second half ties claims to
claimed runs in both directions; `EndsAreKept` (`TerminalRunsStay`). Of the ticks:
`SchedulerTypeCorrect`; `TicksUseStore`, the refinement
`SchedulerSpec => StoreSpec`: every step of every process is one transaction of the store or a
stuttering step, so `TicksExclude` and `TicksKeepEnds` follow. `AcceptedIsTracked`
(`SubmissionIsTracked`) needs `TrackInv`: a run is *pending* in the tick that claimed it until it
is activated and *handed over* from then on. A pending run is pending in one tick only, handed
over nowhere, and unknown to the sessions; what is handed over or accepted is active until its
submission is over or its task is deleted. Without the first half a stale tick could give up a
run that another has dispatched.

**`Briefings_proofs`.** `RunEndsAsBriefing` (`RunTellsBriefing`) and `AtMostOneBriefing` (`OneBriefing`).
A row and its run are settled in separate transactions, in either order, by four callers. `Inv` is
the types with `Rows`, `AdmissionInv`, `TickInv` and `ToldInv`. `Rows` says of each row that it is queued,
was refused before its submission was attached, or says what Flue said, and that its run, if it is
settled, says the same. It is inductive only with the other three: an admission that makes a row is
the only one for its run, and only that admission refuses it; the tick fails a run itself only when
its row was refused, and has in hand what it has claimed and nobody else can settle; and
whoever is told of a submission is told once it has ended. Refusing is not guarded by the row's
status: without the tick waiting for its own admission the recovery could have attached the row
meanwhile, which is what happens to the user's (section 5).

**`CodingRuns_proofs`.** `Inv` is `CodingTypeOK`, `HostInv`, `LaunchInv`, `CallInv`, `RecordInv` and
`CandidateIsWhole`. A run is finished by a call that read a receipt some awaits ago, so
`Ownership` (`OwnershipIsKept`) needs what a call has learned to stay true: a group that is gone
never comes back, because an anchor is spawned once, by a supervisor that was spawned once, by the
one call that claimed the attempt. `HostInv` says what each file on the host tells of the processes
that may have written it. `Wholeness` (`CandidateIsWhole`) and `Fences` (`CancelFences`) follow
from it; the fence holds because the anchor is cleared inside the gate, and who publishes a
cancellation waits until the anchor has left it. `OneProvider` is the refinement `Spec => OneWriter`:
a living process of a run keeps its slot, one run at a time has the slot, and so the providers of
all runs implement `ExternalWork`.

**`WorktreeLocks_proofs`.** `Inv` is `WorktreeTypeOK`, `OneLock`, `MutatorsHold` and `BusyIsLocked`:
whoever mutates has the lock or has outlasted it (`overran`). Only with that is
`Exclusion` (`MutationsExclude`) inductive, because a lock is reclaimed under its holder. `LocksExclude`,
`BusyHasLock` are parts of it: a worktree shown as busy has a lock unless a crash parted the release from
the record, and every later lock ends that exception. `Handover` is the action property `PreemptionIsHonoured`.

**`ReviewSubmission_proofs`.** `Inv` is the types with `LatestInv`, `HandlerOK`, `RequestOK`, `DraftInv`,
`ReconInv`, `SubmittedInv` and `PostedIsExact`: reservations are numbered in turn and only the last
one is at work; a request on its way is that of the reservation that stands, and asks for what was
reserved; a reconciliation works alone, and what it found is the review of that reservation.
`Exactness` and `Agreement` hold without exception. `OnePosted` and `OwnKnown` (`OneReviewPosted`,
`OwnReviewIsKnown`) need no assumption on the timing of a list: the round in which one was judged after the
grace it was read in is excepted by the property, and by nothing else. For the others `KnownInv` is
inductive: what GitHub accepted is never overlooked, and is either still reserved with its draft leased or
submitted with its follow-up on the books. That an exception is not wider than that is `NoneOverlooked`: a list
without the review is taken for the end of it only where the round is in `misread`.

**`FactoryPlanning_proofs`.** `Inv` is `PlanningTypeOK`, `ActiveIsCurrent`, `BindingInv`, `CapturesInv`,
`RunsInv`, `RequestsInv` and `AnsweredInv`. A request was asked of the brief it names as long as the
task's version is the one it was asked at, whose numbers never come back; its context is of one
repository, and a fetch is of the repository its guard names; the driver works on what is
pending, and Flue runs a stage of a request once. So a model's revision answers one request
(`ModelsAnswer`), its commit is of the right repository (`CommitIsPinned`), no model works for a
settled request (`NoStrayRun`) and a release in force is current (`ReleasesAreCurrent`).

**`FactoryWriteback_proofs`.** `Inv` has twelve parts. `HandInv`: the runner's copy differs from its row
in the state only. `PostInv`: an effect without a comment posts one, and only when GitHub meets it.
`FirstInv`: one effect at most creates the status comment without a human's repair; as long as it may
still do so, no other is queued. `RepairInv`: what is posted for a missing comment is posted when the
first is gone for good. `RemoteInv`, `KindInv`, `MadeInv`, `AnswerInv`, `ReceiptInv`: what rows, answers
and receipts say of the comments. `RaceInv`: an edit of others that the runner has not seen is
noted at the request it races. The proof of a step goes by its kind, of the outbox
alone, of GitHub alone, of a row that received its answer, or neither. It gives `PostsAreNotBlind`
(`NoBlindPost`), `Receipted` (`SentWasShown`), `Echoed` (`ReceiptsAreEchoes`), and from the same invariant
the action properties `Authorization` (`DispatchIsAuthorized`) and `EditsKept` (`EditsAreKept`). The
attempt to prove that a task has one status comment failed at two repairs of a missing one: section 5.

### 4.1 Only model-checked

* **Liveness**: `OperatorIsTold`, `RevocationEnds`, `OccurrenceIsCarried`, `SubmissionsSettle`,
  `BriefingSettles`, `KnownGroupEnds`, `PreemptionEnds`, `SubmissionSettles`, `FollowupSettles`,
  `StatusIsShown`, `AnswersAreFound`, `PendingSettles`. The prover does not reach fairness or `ENABLED`.
* `OneShotSubmittedOnce` and `ActiveIsBounded`, which stand under a configuration beside the runs.

## 5. Where the code and its words part

Each statement is a property in the module it speaks of, quoted there, and is violated under the
configuration named here.

**Revocation fences new work** (`ClaimRevocationFences`, `RevocationFencesWork`).
`.plans/factory/SLICE_3_OPERATOR.md:53`: "Revocation fences new work; it does not undo a push or
existing PR." `guard()` (`delivery-io.ts:107`) asserts the authority, then awaits
`captureCandidateEvidence`. 1. The coordinator claims the verification and passes the guard.
2. During the capture the operator revokes. 3. The capture returns and the verification starts.
The same window lets the result of work that was dispatched in time be certified
(`service.ts:386`).

**A failed repair is held** (`ClaimFailedRepair`, `FailedRepairIsHeld`). `service.ts:591` raises
the intervention "The repair failed. Its workspace and evidence remain retained for planning."
1. `finish-repair` commits. 2. The process dies before the intervention. 3. The failure that
asked for the repair still stands; the next ticks ask for another assessment, which is approved,
make the same request, find the repair already answered and return, for ever.

**A paused delivery still observes its pull request** (`ClaimPausedPull`,
`PausedPullIsObserved`). `recovery.ts:85`: "Pauses stop mutation/repair authority, not observation
of an already published PR." The step returns at an unsettled assessment or an outstanding
effect before it observes (`service.ts:112`). 1. A failed check asks for an assessment; the judge
is lost. 2. The delivery is held with the assessment uncertain. 3. A person merges. 4. Every tick
returns at the assessment.

**Ambiguous ownership pauses work** (`ClaimAmbiguousWork`, `AmbiguousWorkPauses`).
`.plans/factory/SLICE_3_IMPLEMENTATION_PLAN.md:61`: "Scope discovery, exhausted budget, missing
authority or ambiguous ownership pause work. A durable **Intervention** contains reason".
1. `start-effect` commits. 2. The process dies before the dispatch. 3. Recovery finds nothing and
leaves the effect in flight, on every tick; no intervention is raised and the view says
"running".

**A pause sticks** (`ClaimPauseSticks`, `PauseSticks`). `scheduled-tasks/actions.ts:65`: "Pause a
scheduled task without deleting its run history." `deferUnstartedScheduledTaskClaim`
(`store.ts:530`; `releaseUnstartedScheduledTaskClaim` at 470 alike) writes the `enabled` of the
claim's snapshot. 1. A tick claims a recurring task while the limit is reached. 2. The operator
pauses it; the claim stays. 3. The tick defers the claim, and the task is enabled again.

**One briefing at a time** (`ClaimOneSubmission`, `OneSubmission`). `briefings.test.ts:664`: "rejects a
second briefing while an attached submission is still active".
`failBriefingRunBeforeDispatch` (`briefings/store.ts:702`) fails the row whatever has become of it.
1. The user's admission creates a row; its dispatch fails. 2. Before it says so, a tick's recovery
dispatches and attaches the row. 3. The admission fails the row. 4. The next admission finds
nothing active and submits a second briefing.

**A command settles** (`ClaimCommandSettles`, `CommandSettles`).
`.plans/archived/CONVERSATIONAL_BRIEFINGS_PLAN.md:344`: "settle the command/audit event from
observation". `finalizeBriefingTerminal` (`briefings/service.ts:755`) settles the briefing in one
transaction and its command in the next, and returns early where the briefing is settled. A crash
between the two leaves the command running for ever.

**A launch is monitored** (`ClaimLaunchMonitored`, `LaunchIsMonitored`).
`.plans/factory/SLICE_2_OPERATOR.md:29`: "Reconciliation monitors the same job; it never blindly
retries a launch." 1. The delivery loop launches a repair run. 2. Before its manifest is
there the coding ticker reconciles it, finds nothing and quarantines it: the guard of
`factory/coding-service.ts:428` knows its own launches only. 3. The launch is refused, and the run
keeps the only slot.

**A deleted worktree stays deleted** (`ClaimDeletedStays`, `DeletedStaysDeleted`).
`worktrees.test.ts:126`: "recreates a deleted target without overwriting its audit identity".
`lockWorktree` (`worktrees/service.ts:506`) writes "busy" and then "ready" over any status. 1. A call
looks the record up. 2. A cleanup finishes it. 3. The call locks and releases: the record is ready
again, without a directory.

**No match means no review** (`ClaimNoMatch`, `NoMatchIsTold`). `server/routes/reviews.ts:304` tells the
user: "GitHub has no matching review; the local draft is ready to submit again."
`reconcilePrReviewSubmission` (`pr-reviews/service.ts:656`) reads the list and takes the clock of its
grace afterwards. 1. A submission is on its way and its answer lost. 2. The list is read. 3. GitHub
meets the request and the grace ends. 4. The list is judged: the reservation is released, and the
user may post a second review. `OneReviewPosted` and `OwnReviewIsKnown` except the rounds this happens in
(`misread`). Where the process dies between the release of the draft and that of the record, the record
stays submitting over a draft that can be edited, as in the next one.

**A stale reservation is released** (`ClaimReservation`, `ReservationIsReleased`). `pr-reviews.test.ts:1313`:
"reconciles interrupted submissions from GitHub or releases a stale reservation". 1. The record is
reserved. 2. The process dies before the draft is leased. 3. The user discards the draft. 4. Every
reconciliation throws (`pr-reviews/service.ts:680`); the review can be neither restarted nor
archived.

**A relinquished status is left** (`ClaimRelinquished`, the run `claim_relinquished`, `RelinquishedIsLeft`).
`.plans/factory/INCREMENT_5_OPERATOR.md:117`: "**Relinquish status management** leaves the remote
comment and local audit intact and stops further management". `save` (`factory/writeback.ts:131`)
writes the effect in hand over its row. 1. An effect is in flight. 2. The status is relinquished
through another of its rows, which cancels all. 3. The request is rejected, and `save` makes the row
failed. 4. It is retried and sent.

**A stale repair is reviewed anew** (`ClaimStaleRepair`, `StaleRepairIsReviewed`).
`.plans/factory/INCREMENT_5_OPERATOR.md:72`: "Repair payloads never coalesce: changed task, context,
consent or replacement requires a new exact repair review". 1. A repair is approved and its request
rejected. 2. The task changes. 3. The failed effect cannot be retried, previewed or queued anew
(`writeback.ts:494`).

**One status comment** (`OneComment`). `factory/writeback.test.ts:188`: "maintains one status comment,
coalesces updates, and does not publish unapproved draft scope". `approveWritebackRepair`
(`writeback.ts:594`) looks at the one row it approves. It takes some thirty steps, six effects and
six events, which no configuration here reaches; the attempt to prove the property led to it.
1. The status is posted and has its receipt. 2. Somebody edits the comment; ingestion makes a second
row, to be repaired; the repair is previewed, approved and its request rejected. 3. The comment is
deleted; ingestion makes one more row to be repaired. 4. The policy is set anew, which puts the
failed repair up for review again. 5. It is previewed and approved as missing, posted, and its answer lost.
6. The other row is previewed and approved as missing as well: its new marker is found nowhere, and
it is posted. What does hold is `NoBlindPost`: two are there only where a human had both posted.

**Triage is of the source** (`ClaimStaleTriage`, `TriageIsOfSource`).
`.plans/factory/SLICE_1_IMPLEMENTATION_PLAN.md:81`: "Dispatch bounded reasoning after meaningful input
changes". A comment's request carries the triage of the one before into the context as it was
refreshed (`planning-store.ts:693`). 1. A request is triaged. 2. The issue changes. 3. A refresh, then a
comment: new context, old triage. 4. The next request skips its triage.

**A failure is handled** (`ClaimFailureHandled`, `FailureIsHandled`).
`.plans/factory/SLICE_1_IMPLEMENTATION_PLAN.md:388`: "Bad output, unavailable provider, exhausted budget
and stale turn show recoverable state". The `catch` of `planning-dispatch.ts:164` prepares the intake's
next triage, which throws where the factory was disabled after the source had changed; most
callers have dropped the promise, and the process ends.

### 5.1 What waits for a human

No word of the repository is broken here, but the liveness properties hold only with these exceptions, and
a user of the deck should know of them.

* **A worktree that cannot be collected** keeps its run quarantined and the only writer slot taken
  (`coding-runs/local-collect.ts:50,73,76`, `host-workspace.ts:51,67,125`), for good: the operator's handbook
  says "retain/quarantine the run and workspace for reconciliation" of filters and submodules, and that
  clearing the ownership by hand "is not a recovery path" (`.plans/factory/SLICE_2_OPERATOR.md:43-45`). No other
  run starts until somebody changes the worktree. `KnownGroupEnds` excepts `Refused`. The process table is
  read by number: a number that the host gave to another process holds a recovery up as long as that
  process lives, which is not modelled.
* **A worktree that is busy without a lock**: the process dies between the release and the record
  (`worktrees/service.ts:586` and `591`, `748` and `752`). It is not cleaned up, and one that no workflow run owns is
  counted as an active job (`autopilot-policy/service.ts:180`), until the next call locks it. `BusyIsLocked`
  excepts `torn`.
* **A review whose comment changed on GitHub** before its follow-up had compared it: a first try fails, the
  comment is edited, or a push moves its line, and no retry matches again
  (`pr-events/review-submission.ts:320-327`, `352-374`). The row is tried for ever and never completed.
  `FollowupSettles` excepts `Mismatched`.
* **A dispatched effect whose connection is gone or changed** is refused its reconciliation
  (`factory/writeback.ts:193-203`: "Restore the original connection to reconcile this effect") and stays uncertain
  until a human restores the mapping (`.plans/factory/INCREMENT_5_OPERATOR.md:52-54`). The same holds while the issue
  or its repository is not where it was (`writeback.ts:207-218`); a status that was not sent yet is then cancelled
  and queued anew on every tick. `AnswersAreFound` excepts both (`Reached`), `StatusIsShown` the second (`moved`).

## 6. What is left

**Next to be proved.** `OneShotSubmittedOnce` and `ActiveIsBounded` of the scheduler.

**Next to be modelled**, in this order: `upsertScheduledTask`, which reads and writes in two
statements; the watch of a pull request, which polls while a posted review is not yet on the books and may
take it for foreign feedback; the autopilot's owner over the worktree locks; repository workflow runs, review assistance
and learning as far as they differ from the admission of briefings; the cleanup of a delivery; the
admission and paging of the intake; the approval of tool calls in the MCP domain.

**Not modelled.** Two thirds of the code are views, the command line, the desktop, configuration with
its validation, and the parsing of what GitHub, Linear and Kilo answer: no state that several actors
change, so little that a test would not reach. Sessions, memory and watches are rows written by
one statement. `PROJECT.json` gives the reason for each component.

## 7. Running it

    tlc -workers 2 -config DeliveryAggregate.cfg MCDeliveryAggregate
    tlapm DeliveryCoordinator_proofs.tla

The module of each run is in `PROJECT.json`; the configurations beside the runs belong to
`MCSchedulerTick` (`SchedulerShape`, `ClaimPauseSticks`), `MCDeliveryCoordinator` (`CoordinatorShape`),
`ReviewSubmission` (`ReviewShape`, `ClaimNoMatch`, `ClaimReservation`), `FactoryWriteback`
(`FactoryWritebackSafety`, `ClaimStaleRepair`), `MCFactoryPlanning` (`ClaimStaleTriage`,
`ClaimFailureHandled`), `MCBriefings` (`ClaimOneSubmission`, `ClaimCommandSettles`), `MCCodingRuns`
(`ClaimLaunchMonitored`), `WorktreeLocks` (`ClaimDeletedStays`) and `MCDeliveryCoordinator` (the other
claims). The longest run takes two and a half minutes, `ClaimStaleRepair` more than five, the longest proof
(`FactoryWriteback_proofs`) six, the others from a few seconds to two.

`CHECK_DEADLOCK FALSE` is set where the system may really stop: finished deliveries, bounded runs of a
task and spent faults leave nothing to do.
