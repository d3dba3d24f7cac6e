---------------------------- MODULE FactoryPlanning ----------------------------
(***************************************************************************)
(* Planning one factory task with a model, src/src/modules/factory: the        *)
(* requests a human, an intake or a comment makes of it (planning-store.ts),   *)
(* the driver that carries each to Flue through two stages, triage and planner *)
(* (planning-dispatch.ts), and the tools by which a run of Flue writes the     *)
(* triage or a revision of the brief (agents/factory-planner.ts).             *)
(*                                                                          *)
(* A request is admitted in one transaction, but the repository is fetched     *)
(* before the first one, outside of it.  Flue is at another store: what a call *)
(* to it has done when it fails, or the process with it, is unknown, and its   *)
(* runs go on until they end or the conversation is aborted.  Requests are     *)
(* numbered in the order they are made.                                       *)
(***************************************************************************)
EXTENDS FactoryTask

CONSTANTS MaxRequests    \* bound: requests made before a human or a comment makes no more

ASSUME PlanningAssumption == MaxRequests \in Nat /\ 0 \notin Repos

VARIABLES
    requests,   \* the planning intents
    binding,    \* the context the task's conversation is bound to
    captures,   \* the fetches of the repository, each for a request or a refresh
    driver,     \* what resumeFactoryPlanning is at, for the request that is pending
    stopping,   \* the abort that the human's stop has sent: its request and stage
    told,       \* the operator's last word on the pending request is an error
    comment,    \* a comment of the issue waits to be made a request
    runs,       \* Flue: the runs it has admitted
    up          \* the process

planning == <<requests, binding, comment>>
process == <<captures, driver, stopping, up>>
planningVars == <<planning, process, told, runs>>
vars == <<taskVars, planningVars>>

Stages == {"triage", "planner"}
None == 0
NoKey == <<>>
NoContext == [repo |-> None, source |-> None, base |-> None]
NoStop == [of |-> None, stage |-> "none"]

----------------------------------------------------------------------------
(* planning-store.ts *)

PendingIn(rs) == rs # <<>> /\ rs[Len(rs)].stage \in Stages

\* latestIntent, and assertPlanningIdle: only the latest request is looked at.
Latest == Len(requests)
Request == requests[Latest]
Pending == PendingIn(requests)

OpenForPlanning == work.life \notin {"paused", "closed", "queued"}

\* The human has made a request before: the commit of the repository is pinned.
Started == \E n \in DOMAIN requests : requests[n].kind = "human"

\* captureContext, and planningContextChanged: the commit is the context's own.
Context(s, base) == [repo |-> repo, source |-> s.version, base |-> base]
ContextChanged(ctx) == ctx # Context(source, ctx.base)

\* capturePlanningGuard
Guard == <<task, config, binding, requests>>

\* An intent, of the task w and its source s.
Made(kind, w, s, ctx, stage, triage, key) ==
    [kind |-> kind, stage |-> stage, key |-> key, version |-> w.version,
     spec |-> Len(revisions), asked |-> s.version, context |-> ctx,
     triage |-> triage, abort |-> FALSE, sent |-> {}]

\* The triage of the request before, where it was made in this context.
Reusable ==
    IF /\ Latest # 0
       /\ Request.context.source = source.version /\ Request.context.repo = repo
    THEN Request.triage ELSE None

\* preparePlanningCaptured: a request of the human's in context ctx.
Asked(ctx) ==
    /\ enabled /\ OpenForPlanning /\ ~Pending
    /\ ~ContextChanged(ctx)
    /\ binding' = ctx
    /\ requests' = Append(requests, Made("human", work, source, ctx,
                       IF Reusable # None THEN "planner" ELSE "triage", Reusable, NoKey))

\* What an intake is to be triaged for, and whether it still is: nobody has shaped the
\* task, and there was no request for what the source says, unless it is asked again.
Key(s) == <<s.content, repo>>
Triageable(w) == w.life = "inbox" /\ Len(revisions) = 1
Untriaged(w, s) == Triageable(w) /\ \A n \in DOMAIN requests : requests[n].key # Key(s)
Due(w, s, retry) == (Untriaged(w, s) \/ (retry /\ Triageable(w))) /\ ~Pending

TriageRequest(w, s, retry) ==
    Made("triage", w, s, Context(s, None), "triage", None,
         IF retry THEN NoKey ELSE Key(s))

\* prepareFactoryTriage, once no request in rs is pending.
Triaged(rs, w, s, retry) ==
    /\ requests' = Append(rs, TriageRequest(w, s, retry))
    /\ binding' = IF binding = NoContext THEN Context(s, None) ELSE binding

----------------------------------------------------------------------------
(* planning-dispatch.ts *)

\* Where resumeFactoryPlanning takes a request up, if it is pending and nobody has.
At(r) == IF r.stage \notin r.sent THEN "dispatch" ELSE IF r.abort THEN "abort" ELSE "read"
Resumed(rs) ==
    IF driver = "none" /\ PendingIn(rs) THEN At(rs[Len(rs)]) ELSE driver

\* A request of an intake, or nothing new; whoever asked resumes what is pending, if that
\* is the request it was answered.
Intake(w, s, retry) ==
    IF Due(w, s, retry)
    THEN enabled /\ Triaged(requests, w, s, retry) /\ driver' = Resumed(requests')
    ELSE /\ UNCHANGED <<requests, binding>>
         /\ driver' = IF /\ Triageable(w)
                         /\ retry \/ \A n \in 1..(Latest - 1) : requests[n].key # Key(s)
                      THEN Resumed(requests) ELSE driver

PlanningInit ==
    /\ TaskInit
    /\ captures = {} /\ stopping = NoStop /\ told = FALSE /\ comment = FALSE /\ runs = {}
    /\ \/ /\ source.provider = "manual" /\ up = TRUE /\ driver = "dispatch"
          /\ requests = <<TriageRequest(work, source, FALSE)>>
          /\ binding = Context(source, None)
       \/ /\ up = (source.provider = "github") /\ driver = "none"
          /\ requests = <<>> /\ binding = NoContext

Room == Latest < MaxRequests

\* prepareFactoryPlanning, and the route that resumes what it answers.  The first
\* request waits for the repository to be fetched.
AskNext ==
    /\ up /\ Room /\ Started
    /\ Asked(binding) /\ driver' = Resumed(requests')
    /\ UNCHANGED <<taskVars, comment, captures, stopping, up, told, runs>>

\* The preflight of a first request, and of a refresh of the context.
Fetch(for) ==
    /\ up /\ Room /\ enabled /\ ~Pending
    /\ \A c \in captures : c.for # for
    /\ IF for = "ask" THEN OpenForPlanning /\ ~Started /\ UNCHANGED events
                      ELSE binding # NoContext /\ Event
    /\ captures' = captures \cup {[for |-> for, guard |-> Guard, base |-> repo]}
    /\ UNCHANGED <<config, task, planning, driver, stopping, up, told, runs>>

\* Mutant: only the task is looked at again.
UnmovedTask(c) == task = c.guard[1]

\* The inputs are as they were when the fetch began.
Unmoved(c) == Guard = c.guard

FetchEnds(c) ==
    /\ captures' = captures \ {c}
    /\ \/ /\ c.for = "ask" /\ Unmoved(c)
          /\ Asked(Context(source, c.base)) /\ driver' = Resumed(requests')
       \/ /\ c.for = "refresh" /\ enabled /\ Unmoved(c)
          /\ binding' = Context(source, c.base)
          /\ UNCHANGED <<requests, driver>>
       \/ UNCHANGED <<requests, binding, driver>>      \* refused, or the fetch has failed
    /\ UNCHANGED <<taskVars, comment, stopping, up, told, runs>>

\* The operator retries an intake's triage; a poll of the issue ends with one.
Retriage(retry) ==
    /\ up
    /\ IF retry THEN Event /\ Room ELSE source.provider = "github" /\ enabled /\ UNCHANGED events
    /\ Intake(work, source, retry)
    /\ UNCHANGED <<config, task, comment, captures, stopping, up, told, runs>>

\* updateFactorySource, and the intake of its route.
EditSource(content) ==
    /\ up /\ UpdateSource(content)
    /\ Intake(work', source', FALSE)
    /\ UNCHANGED <<comment, captures, stopping, up, told, runs>>

\* prepareGitHubContext: a comment joins a conversation that a human has begun.
CommentArrives ==
    /\ Event /\ source.provider = "github"
    /\ comment' = TRUE
    /\ UNCHANGED <<config, task, requests, binding, process, told, runs>>
AdmitComment ==
    /\ up /\ enabled /\ comment /\ Room
    /\ binding # NoContext /\ Started /\ OpenForPlanning /\ ~Pending
    /\ requests' = Append(requests, Made("comment", work, source, binding, "planner",
                                         Request.triage, NoKey))
    /\ comment' = FALSE /\ driver' = Resumed(requests')
    /\ UNCHANGED <<taskVars, binding, captures, stopping, up, told, runs>>

\* recoverFactoryWorkPlanning, and a message sent again under its request key.
Recover ==
    /\ up
    /\ IF Due(work, source, FALSE) THEN enabled /\ Triaged(requests, work, source, FALSE)
                                   ELSE UNCHANGED <<requests, binding>>
    /\ driver' = Resumed(requests')
    /\ UNCHANGED <<taskVars, comment, captures, stopping, up, told, runs>>

----------------------------------------------------------------------------
(* The driver, and Flue *)

\* Flue admits the request once, whether or not its receipt arrives.
Run(n, stage) == {r \in runs : r.of = n /\ r.stage = stage}
Admit ==
    /\ driver = "dispatch" /\ Run(Latest, Request.stage) = {}
    /\ runs' = runs \cup {[of |-> Latest, stage |-> Request.stage, end |-> "going"]}
    /\ UNCHANGED <<taskVars, planning, process, told>>
Dispatched ==
    /\ driver = "dispatch" /\ Run(Latest, Request.stage) # {}
    /\ requests' = [requests EXCEPT ![Latest].sent = @ \cup {Request.stage}]
    /\ driver' = At(requests'[Latest])
    /\ told' = FALSE
    /\ UNCHANGED <<taskVars, binding, comment, captures, stopping, up, runs>>

\* An abort ends whatever runs in the conversation: each triage has its own, the planner
\* one for all requests.
Aborted(n, stage) ==
    {IF r.end = "going" /\ r.stage = stage /\ (stage = "triage" => r.of = n)
     THEN [r EXCEPT !.end = "failed"] ELSE r : r \in runs}
AbortReturns ==
    /\ driver = "abort"
    /\ runs' = Aborted(Latest, Request.stage)
    /\ driver' = "read"
    /\ UNCHANGED <<taskVars, planning, captures, stopping, up, told>>

\* Mutant: a call that fails is taken for a run that has failed.
CallEnds ==
    /\ Event /\ driver # "none"
    /\ driver' = "none" /\ told' = TRUE
    /\ requests' = [requests EXCEPT ![Latest].stage = "failed"]
    /\ UNCHANGED <<config, task, binding, comment, captures, stopping, up, runs>>

\* A call to Flue fails for a reason that is not the run's: the request stays pending.
CallFails ==
    /\ Event /\ driver # "none"
    /\ driver' = "none" /\ told' = TRUE
    /\ UNCHANGED <<config, task, planning, captures, stopping, up, runs>>

\* What a request becomes whose run has ended as it should.
StageAfter(r) ==
    IF r.abort \/ (r.stage = "triage" /\ r.triage = None) THEN "failed"
    ELSE IF r.stage = "triage" /\ r.kind # "triage" THEN "planner" ELSE "completed"

\* The process goes down, and everything under way in it.
Down == up' = FALSE /\ driver' = "none" /\ captures' = {} /\ stopping' = NoStop

\* The receipts of the run that has ended so; one that was read is not asked for again.
Ended(end) == {r \in Run(Latest, Request.stage) : r.end = end}

\* The driver reads the receipt and settles the stage; an intake's triage that has ended
\* is followed by one of what the source says by now.  If the factory was disabled
\* meanwhile, that is refused: caught where the run had ended well, and an unhandled
\* rejection, which ends the process, where it had not.
ReadReturns(end) ==
    LET stage == IF end = "done" THEN StageAfter(Request) ELSE "failed"
        settled == [requests EXCEPT ![Latest].stage = stage]
        next == Request.kind = "triage" /\ Untriaged(work, source)
    IN  /\ driver = "read" /\ Ended(end) # {}
        /\ runs' = runs \ Ended(end)
        /\ told' = FALSE
        /\ IF next /\ enabled
           THEN Triaged(settled, work, source, FALSE)
           ELSE requests' = settled /\ UNCHANGED binding
        /\ IF next /\ ~enabled /\ end = "failed"
           THEN Down
           ELSE /\ driver' = IF PendingIn(requests') THEN "dispatch" ELSE "none"
                /\ UNCHANGED <<captures, stopping, up>>
        /\ UNCHANGED <<taskVars, comment>>

\* stopFactoryPlanning: the request loses its authority first; then its conversation is
\* aborted, if a receipt says there is one, and the driver resumed.
Stop ==
    /\ Event /\ up /\ Pending /\ stopping = NoStop
    /\ requests' = [requests EXCEPT ![Latest].abort = TRUE]
    /\ told' = FALSE
    /\ IF Request.sent # {}
       THEN stopping' = [of |-> Latest, stage |-> Request.stage] /\ UNCHANGED driver
       ELSE driver' = Resumed(requests') /\ UNCHANGED stopping
    /\ UNCHANGED <<config, task, binding, comment, captures, up, runs>>
StopReturns ==
    /\ stopping # NoStop
    /\ runs' = Aborted(stopping.of, stopping.stage)
    /\ stopping' = NoStop
    /\ driver' = IF stopping.of = Latest THEN Resumed(requests) ELSE driver
    /\ UNCHANGED <<taskVars, planning, captures, up, told>>
StopFails ==
    /\ Event /\ stopping # NoStop
    /\ stopping' = NoStop
    /\ told' = (told \/ (stopping.of = Latest /\ Pending))
    /\ UNCHANGED <<config, task, planning, captures, driver, up, runs>>

Crash ==
    /\ Event /\ up /\ Down
    /\ UNCHANGED <<config, task, planning, told, runs>>

\* Mutant: the restart makes the intake's requests and resumes none.
RestartIdle ==
    /\ ~up /\ up' = TRUE
    /\ IF enabled /\ Due(work, source, FALSE) THEN Triaged(requests, work, source, FALSE)
                                              ELSE UNCHANGED <<requests, binding>>
    /\ UNCHANGED <<taskVars, comment, captures, driver, stopping, told, runs>>

\* recoverFactoryPlanning, at the start of the server.
Restart ==
    /\ ~up /\ up' = TRUE
    /\ IF enabled /\ Due(work, source, FALSE) THEN Triaged(requests, work, source, FALSE)
                                              ELSE UNCHANGED <<requests, binding>>
    /\ driver' = Resumed(requests')
    /\ UNCHANGED <<taskVars, comment, captures, stopping, told, runs>>

----------------------------------------------------------------------------
(* The runs, and the tools they call: agents/factory-planner.ts *)

\* Mutant: what the human asked of is the brief, whatever became of its source.
AuthorizedByBrief(n, stage) ==
    LET r == requests[n] IN
    /\ enabled /\ r.stage = stage /\ ~r.abort /\ r.kind # "comment"
    /\ OpenForPlanning /\ Len(revisions) = r.spec

\* authorizePlanningIntent; what proposeFactorySpec and saveSpecInTransaction compare
\* follows from it.
Authorized(n, stage) ==
    LET r == requests[n] IN
    /\ enabled /\ r.stage = stage /\ ~r.abort /\ r.kind # "comment"
    /\ OpenForPlanning /\ work.version = r.version
    /\ repo = r.context.repo /\ source.version = r.context.source

\* recordTriage: of the source as the request has shown it.
RecordTriage(r) ==
    /\ up /\ r.end = "going" /\ r.stage = "triage"
    /\ requests[r.of].triage = None /\ Authorized(r.of, "triage")
    /\ requests' = [requests EXCEPT ![r.of].triage = requests[r.of].asked]
    /\ UNCHANGED <<taskVars, binding, comment, process, told, runs>>

\* proposeFactorySpec; a question is a revision that is not ready.
Propose(r, ready) ==
    /\ up /\ r.end = "going" /\ r.stage = "planner"
    /\ Authorized(r.of, "planner")
    /\ Saved(r.of, ready)
    /\ UNCHANGED <<events, planningVars>>

\* Flue ends a run, well or not, by its timeout at the latest.
RunEnds(r) ==
    /\ up /\ r.end = "going"
    /\ \E end \in {"done", "failed"} : runs' = (runs \ {r}) \cup {[r EXCEPT !.end = end]}
    /\ UNCHANGED <<taskVars, planning, process, told>>

----------------------------------------------------------------------------

\* What else happens to the task; the registry can change with the server down.
TaskStep ==
    /\ \/ up /\ \/ \E ready \in BOOLEAN : SaveSpec(ready)
                \/ Release
                \/ \E a \in {"withdraw", "pause", "close", "reopen"} : Transition(a)
                \/ enabled /\ \E c \in Contents, s \in {"open", "closed"}, b \in BOOLEAN :
                       Reconcile(c, s, b)
                \/ \E why \in {"review", "other"} : MarkAttention(why)
       \/ Switch
       \/ \E r \in Repos : ChangeRepo(r) \/ EditRegistry(r)
    /\ UNCHANGED planningVars

Next ==
    \/ TaskStep
    \/ AskNext \/ \E for \in {"ask", "refresh"} : Fetch(for)
    \/ \E c \in captures : FetchEnds(c)
    \/ \E retry \in BOOLEAN : Retriage(retry)
    \/ \E c \in Contents : EditSource(c)
    \/ CommentArrives \/ AdmitComment \/ Recover
    \/ Admit \/ Dispatched \/ AbortReturns \/ CallFails
    \/ \E end \in {"done", "failed"} : ReadReturns(end)
    \/ Stop \/ StopReturns \/ StopFails \/ Crash \/ Restart
    \/ \E r \in runs : RecordTriage(r) \/ RunEnds(r) \/ \E b \in BOOLEAN : Propose(r, b)

Spec == PlanningInit /\ [][Next]_vars

\* The driver and the calls it makes go on, Flue ends its runs, the server is restarted.
Progress ==
    \/ Admit \/ Dispatched \/ AbortReturns \/ StopReturns \/ Restart
    \/ \E end \in {"done", "failed"} : ReadReturns(end)
    \/ \E r \in runs : RunEnds(r)

LiveSpec == Spec /\ WF_vars(Progress)

----------------------------------------------------------------------------
(* Properties *)

Contexts == [repo : Repos \cup {None}, source : Nat, base : Repos \cup {None}]
Requests ==
    [kind : {"human", "triage", "comment"}, stage : Stages \cup {"completed", "failed"},
     key : {NoKey} \cup (Contents \X Repos), version : Nat, spec : Nat, asked : Nat,
     context : Contexts, triage : Nat, abort : BOOLEAN, sent : SUBSET Stages]

\* The rows of the task and of its planning, and what the server has in hand.
PlanningTypeOK ==
    /\ TaskTypeOK
    /\ requests \in Seq(Requests) /\ binding \in Contexts
    /\ \A c \in captures : c.for \in {"ask", "refresh"} /\ c.base \in Repos
    /\ driver \in {"none", "dispatch", "abort", "read"}
    /\ stopping \in [of : Nat, stage : Stages \cup {"none"}]
    /\ told \in BOOLEAN /\ comment \in BOOLEAN /\ up \in BOOLEAN
    /\ \A r \in runs : r \in [of : Nat, stage : Stages, end : {"going", "done", "failed"}]

\* A run that goes on at Flue is the latest request's, which waits for it at the very
\* stage: no outcome of dispatch, stop, crash or recovery leaves a model at work for a
\* request that is settled, and the next request never meets the run of another.
RunsArePending ==
    \A r \in runs : r.end = "going" => r.of = Latest /\ Request.stage = r.stage

\* A revision written by a model is the answer to one request of a human, made upon the
\* very brief, source and repository that request was made of: one revision per request,
\* never over a later one, and never from a comment or an intake.
RevisionsAreAsked ==
    \A k \in DOMAIN revisions : revisions[k].of # ByHuman =>
        LET r == requests[revisions[k].of] IN
        /\ r.kind = "human" /\ r.triage # None
        /\ r.spec = k - 1
        /\ r.asked = revisions[k].source /\ r.context.repo = revisions[k].repo

\* The commit a request of the human's is pinned to was fetched from the repository its
\* context names, whatever was edited while it was fetched.
BaselineIsOfRepo ==
    \A n \in DOMAIN requests :
        requests[n].kind = "human" => requests[n].context.base = requests[n].context.repo

\* A pending request is settled, or the operator is told that it is not.
PendingSettles == Pending ~> (~Pending \/ told)

\* The triage a request of the human's is planned with is of the source it is made of.
TriageIsOfSource ==
    \A n \in DOMAIN requests :
        requests[n].kind = "human" /\ requests[n].triage # None
            => requests[n].triage = requests[n].asked

\* Nothing but a crash takes the process down: the failure of a model's run does not.
FailureIsHandled == [][up /\ ~up' => events' # events]_vars
=============================================================================
