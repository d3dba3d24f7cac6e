------------------------ MODULE FactoryPlanning_proofs ------------------------
(***************************************************************************)
(* Proofs about a task and its planning, for any contents, repositories and  *)
(* bounds: types, the authority of a release, the runs at Flue, the revisions *)
(* a model may write and the commit a request is pinned to.                   *)
(***************************************************************************)
EXTENDS FactoryPlanning, SequenceTheorems, TLAPS

Tools == {"withdraw", "pause", "close", "reopen"}

-----------------------------------------------------------------------------
(* The task. *)

\* What may change the brief, the source or the releases.
TaskChange ==
    \/ \E of \in Nat, ready \in BOOLEAN : Saved(of, ready)
    \/ Release
    \/ \E a \in Tools : Transition(a)
    \/ \E c \in Contents : UpdateSource(c)
    \/ \E c \in Contents, s \in {"open", "closed"}, b \in BOOLEAN : Reconcile(c, s, b)
    \/ \E why \in {"review", "other"} : MarkAttention(why)
    \/ \E r \in Repos : ChangeRepo(r)

\* What does not.
TaskRests == UNCHANGED task /\ enabled' \in BOOLEAN /\ repo' \in Repos

EventsStep == events' = events \/ events' = events + 1

LEMMA TaskKinds ==
    ASSUME PlanningTypeOK, Next
    PROVE  (TaskRests \/ TaskChange) /\ EventsStep
  <1> USE DEF EventsStep, Event
  <1>0. /\ enabled \in BOOLEAN /\ repo \in Repos
        /\ \A r \in runs : r.of \in Nat
    BY DEF PlanningTypeOK, TaskTypeOK
  <1>1. ASSUME UNCHANGED <<task, config>> PROVE TaskRests
    BY <1>0, <1>1 DEF TaskRests, config
  <1>2. CASE TaskStep
    <2>1. CASE \E ready \in BOOLEAN : SaveSpec(ready)
      BY <2>1 DEF SaveSpec, TaskChange, ByHuman
    <2>2. CASE Release
      BY <2>2 DEF Release, TaskChange
    <2>3. CASE \E a \in Tools : Transition(a)
      BY <2>3 DEF Transition, TaskChange
    <2>4. CASE \E c \in Contents, s \in {"open", "closed"}, b \in BOOLEAN : Reconcile(c, s, b)
      BY <2>4 DEF Reconcile, TaskChange
    <2>5. CASE \E why \in {"review", "other"} : MarkAttention(why)
      BY <2>5 DEF MarkAttention, TaskChange
    <2>6. CASE Switch
      BY <2>6, <1>0 DEF Switch, TaskRests
    <2>7. CASE \E r \in Repos : ChangeRepo(r)
      BY <2>7 DEF ChangeRepo, TaskChange
    <2>8. CASE \E r \in Repos : EditRegistry(r)
      BY <2>8, <1>0 DEF EditRegistry, TaskRests
    <2> QED
      BY <1>2, <2>1, <2>2, <2>3, <2>4, <2>5, <2>6, <2>7, <2>8 DEF TaskStep, Tools
  <1>3. CASE \E c \in Contents : EditSource(c)
    BY <1>3 DEF EditSource, UpdateSource, TaskChange
  <1>4. CASE \E r \in runs, b \in BOOLEAN : Propose(r, b)
    BY <1>4, <1>0 DEF Propose, TaskChange
  <1> USE DEF taskVars
  <1>5. CASE AskNext
    BY <1>1, <1>5 DEF AskNext
  <1>6. CASE \E for \in {"ask", "refresh"} : Fetch(for)
    BY <1>1, <1>6 DEF Fetch
  <1>7. CASE \E c \in captures : FetchEnds(c)
    BY <1>1, <1>7 DEF FetchEnds
  <1>8. CASE \E retry \in BOOLEAN : Retriage(retry)
    BY <1>1, <1>8 DEF Retriage
  <1>9. CASE CommentArrives \/ AdmitComment \/ Recover
    BY <1>1, <1>9 DEF CommentArrives, AdmitComment, Recover
  <1>10. CASE Admit \/ Dispatched \/ AbortReturns \/ CallFails
    BY <1>1, <1>10 DEF Admit, Dispatched, AbortReturns, CallFails
  <1>11. CASE \E end \in {"done", "failed"} : ReadReturns(end)
    BY <1>1, <1>11 DEF ReadReturns
  <1>12. CASE Stop \/ StopReturns \/ StopFails \/ Crash \/ Restart
    BY <1>1, <1>12 DEF Stop, StopReturns, StopFails, Crash, Restart
  <1>13. CASE \E r \in runs : RecordTriage(r) \/ RunEnds(r)
    BY <1>1, <1>13 DEF RecordTriage, RunEnds
  <1> QED
    BY <1>2, <1>3, <1>4, <1>5, <1>6, <1>7, <1>8, <1>9, <1>10, <1>11, <1>12, <1>13 DEF Next

\* Appending to a sequence.
LEMMA AppendFacts ==
    ASSUME NEW S, NEW s \in Seq(S), NEW e \in S
    PROVE  /\ Append(s, e) \in Seq(S)
           /\ Len(Append(s, e)) = Len(s) + 1
           /\ DOMAIN Append(s, e) = 1..(Len(s) + 1)
           /\ \A k \in DOMAIN s : Append(s, e)[k] = s[k]
           /\ Append(s, e)[Len(s) + 1] = e
  <1>1. Append(s, e) \in Seq(S) /\ Len(Append(s, e)) = Len(s) + 1
    BY AppendProperties
  <1>2. DOMAIN Append(s, e) = 1..(Len(s) + 1) /\ DOMAIN s = 1..Len(s)
    BY <1>1, LenProperties
  <1> QED
    BY <1>1, <1>2, AppendProperties

Revisions == [of : Nat, ready : BOOLEAN, source : Nat, repo : Repos]
Releases == [live : BOOLEAN, spec : Nat, source : Nat, repo : Repos]

LEMMA WithdrawnFacts ==
    ASSUME NEW rs \in Seq(Releases)
    PROVE  /\ Withdrawn(rs) \in Seq(Releases) /\ Len(Withdrawn(rs)) = Len(rs)
           /\ \A k \in DOMAIN Withdrawn(rs) : ~Withdrawn(rs)[k].live
  <1>1. /\ Len(rs) \in Nat /\ rs \in [1..Len(rs) -> Releases] /\ DOMAIN rs = 1..Len(rs)
    BY LenProperties
  <1>2. Withdrawn(rs) \in [1..Len(rs) -> Releases]
    BY <1>1 DEF Withdrawn, Releases
  <1>3. Withdrawn(rs) \in Seq(Releases)
    BY <1>1, <1>2, SeqDef
  <1>4. DOMAIN Withdrawn(rs) = 1..Len(rs)
    BY <1>2
  <1>5. Len(Withdrawn(rs)) = Len(rs)
    BY <1>1, <1>3, <1>4, LenProperties
  <1> QED
    BY <1>1, <1>3, <1>4, <1>5 DEF Withdrawn, Releases

Sources == [provider : {"manual", "github"}, content : Contents, version : Nat,
            status : {"open", "closed"}, attention : {"none", "review", "other"}]
Works == [life : Lives, version : Nat]

LEMMA TaskChangeType ==
    ASSUME TaskTypeOK, TaskChange
    PROVE  /\ enabled' \in BOOLEAN /\ repo' \in Repos /\ source' \in Sources /\ work' \in Works
           /\ revisions' \in Seq(Revisions) /\ releases' \in Seq(Releases)
  <1>1. /\ enabled \in BOOLEAN /\ repo \in Repos /\ source \in Sources /\ work \in Works
        /\ revisions \in Seq(Revisions) /\ releases \in Seq(Releases)
    BY DEF TaskTypeOK, Sources, Works, Revisions, Releases
  <1>2. Withdrawn(releases) \in Seq(Releases)
    BY <1>1, WithdrawnFacts
  <1>3. ASSUME NEW life \in Lives, Put(life) PROVE work' \in Works
    BY <1>1, <1>3 DEF Put, Works
  <1>4. "shaping" \in Lives /\ "queued" \in Lives /\ "paused" \in Lives /\ "closed" \in Lives
    BY DEF Lives, Open
  <1>5. work.life \in Lives /\ Unqueued \in Lives
    BY <1>1, <1>4 DEF Works, Unqueued
  <1>13. source.version + 1 \in Nat
    BY <1>1 DEF Sources
  <1>6. ASSUME NEW of \in Nat, NEW ready \in BOOLEAN, Saved(of, ready)
        PROVE  /\ enabled' \in BOOLEAN /\ repo' \in Repos /\ source' \in Sources /\ work' \in Works
               /\ revisions' \in Seq(Revisions) /\ releases' \in Seq(Releases)
    <2>1. Revision(of, ready) \in Revisions
      BY <1>1 DEF Revision, Revisions, Sources
    <2>2. revisions' \in Seq(Revisions)
      BY <1>1, <1>6, <2>1, AppendFacts DEF Saved
    <2>3. work' \in Works
      BY <1>3, <1>4, <1>6 DEF Saved
    <2>4. source' \in Sources
      BY <1>1, <1>6 DEF Saved, Sources
    <2> QED
      BY <1>1, <1>2, <1>6, <2>2, <2>3, <2>4 DEF Saved, config
  <1>7. CASE Release
    <2>1. Len(revisions) \in Nat
      BY <1>1, LenProperties
    <2>2. [live |-> TRUE, spec |-> Len(revisions), source |-> source.version, repo |-> repo]
             \in Releases
      BY <1>1, <2>1 DEF Releases, Sources
    <2>3. releases' \in Seq(Releases)
      BY <1>1, <1>7, <2>2, AppendFacts DEF Release
    <2> QED
      BY <1>1, <1>3, <1>4, <1>7, <2>3 DEF Release, config
  <1>8. ASSUME NEW a \in Tools, Transition(a)
        PROVE  /\ enabled' \in BOOLEAN /\ repo' \in Repos /\ source' \in Sources /\ work' \in Works
               /\ revisions' \in Seq(Revisions) /\ releases' \in Seq(Releases)
    <2>1. Leads(a) \in Lives
      BY <1>4 DEF Leads, Tools
    <2>2. source' \in Sources
      <3>1. \/ source' = source
            \/ \E status \in {"open", "closed"} :
                   source' = [source EXCEPT !.version = source.version + 1, !.status = status]
        BY <1>8 DEF Transition
      <3> QED
        BY <1>1, <1>13, <3>1 DEF Sources
    <2> QED
      BY <1>1, <1>2, <1>3, <1>8, <2>1, <2>2 DEF Transition, config
  <1>9. ASSUME NEW c \in Contents, UpdateSource(c)
        PROVE  /\ enabled' \in BOOLEAN /\ repo' \in Repos /\ source' \in Sources /\ work' \in Works
               /\ revisions' \in Seq(Revisions) /\ releases' \in Seq(Releases)
    <2>1. source' = [source EXCEPT !.content = c, !.version = source.version + 1]
      BY <1>9 DEF UpdateSource
    <2>2. source' \in Sources
      BY <1>1, <1>13, <2>1 DEF Sources
    <2> QED
      BY <1>1, <1>2, <1>3, <1>5, <1>9, <2>2 DEF UpdateSource, config
  <1>10. ASSUME NEW c \in Contents, NEW s \in {"open", "closed"}, NEW b \in BOOLEAN,
                Reconcile(c, s, b)
         PROVE  /\ enabled' \in BOOLEAN /\ repo' \in Repos /\ source' \in Sources /\ work' \in Works
                /\ revisions' \in Seq(Revisions) /\ releases' \in Seq(Releases)
    <2> DEFINE changed == <<c, s>> # <<source.content, source.status>>
    <2>1. source' \in Sources
      <3>1. \E v \in Nat, a \in {"none", "review", "other"} :
               source' = [source EXCEPT !.content = c, !.status = s, !.version = v, !.attention = a]
        <4> DEFINE v == IF changed THEN source.version + 1 ELSE source.version
                   a == IF b \/ source.attention = "review" THEN "review" ELSE "none"
        <4>1. source' = [source EXCEPT !.content = c, !.status = s, !.version = v, !.attention = a]
          BY <1>10 DEF Reconcile
        <4>2. v \in Nat /\ a \in {"none", "review", "other"}
          BY <1>1, <1>13 DEF Sources
        <4> QED
          BY <4>1, <4>2
      <3> QED
        BY <1>1, <3>1 DEF Sources
    <2>2. Reconciled(s) \in Lives
      BY <1>4, <1>5 DEF Reconciled
    <2>3. CASE changed
      BY <1>1, <1>2, <1>3, <1>10, <2>1, <2>2, <2>3 DEF Reconcile, config
    <2>4. CASE ~changed
      BY <1>1, <1>10, <2>1, <2>4 DEF Reconcile, config
    <2> QED
      BY <2>3, <2>4
  <1>11. ASSUME NEW why \in {"review", "other"}, MarkAttention(why)
         PROVE  /\ enabled' \in BOOLEAN /\ repo' \in Repos /\ source' \in Sources /\ work' \in Works
                /\ revisions' \in Seq(Revisions) /\ releases' \in Seq(Releases)
    <2>1. source' = [source EXCEPT !.attention = why, !.version = source.version + 1]
      BY <1>11 DEF MarkAttention
    <2>2. source' \in Sources
      BY <1>1, <1>13, <2>1 DEF Sources
    <2> QED
      BY <1>1, <1>2, <1>3, <1>5, <1>11, <2>2 DEF MarkAttention, config
  <1>12. ASSUME NEW r \in Repos, ChangeRepo(r)
         PROVE  /\ enabled' \in BOOLEAN /\ repo' \in Repos /\ source' \in Sources /\ work' \in Works
                /\ revisions' \in Seq(Revisions) /\ releases' \in Seq(Releases)
    <2>1. \E a \in {"none", "review", "other"} :
             source' = [source EXCEPT !.version = source.version + 1, !.attention = a]
      BY <1>1, <1>12 DEF ChangeRepo, Sources
    <2>2. source' \in Sources
      BY <1>1, <1>13, <2>1 DEF Sources
    <2> QED
      BY <1>1, <1>2, <1>3, <1>5, <1>12, <2>2 DEF ChangeRepo
  <1> QED
    BY <1>6, <1>7, <1>8, <1>9, <1>10, <1>11, <1>12 DEF TaskChange

LEMMA TaskType ==
    ASSUME PlanningTypeOK, Next
    PROVE  TaskTypeOK'
  <1>1. TaskTypeOK
    BY DEF PlanningTypeOK
  <1>2. events' \in Nat
    BY <1>1, TaskKinds DEF EventsStep, TaskTypeOK
  <1>3. CASE TaskRests
    BY <1>1, <1>2, <1>3 DEF TaskRests, TaskTypeOK, task
  <1>4. CASE TaskChange
    BY <1>1, <1>2, <1>4, TaskChangeType DEF TaskTypeOK, Sources, Works, Revisions, Releases
  <1> QED
    BY <1>3, <1>4, TaskKinds

-----------------------------------------------------------------------------
(* The authority of a release. *)

\* Where the releases were withdrawn, none is in force.
LEMMA WithdrawnIsCurrent ==
    ASSUME TaskTypeOK, releases' = Withdrawn(releases)
    PROVE  ActiveIsCurrent'
  <1>1. releases \in Seq(Releases)
    BY DEF TaskTypeOK, Releases
  <1>2. Live' = {}
    BY <1>1, WithdrawnFacts DEF Live
  <1> QED
    BY <1>2 DEF ActiveIsCurrent

LEMMA ReleaseIsCurrent ==
    ASSUME TaskTypeOK, Release
    PROVE  ActiveIsCurrent'
  <1> DEFINE given == [live |-> TRUE, spec |-> Len(revisions),
                       source |-> source.version, repo |-> repo]
  <1>1. releases \in Seq(Releases) /\ revisions \in Seq(Revisions) /\ source \in Sources
    BY DEF TaskTypeOK, Releases, Revisions, Sources
  <1>2. Len(revisions) \in Nat
    BY <1>1, LenProperties
  <1>3. given \in Releases
    BY <1>1, <1>2 DEF Releases, Sources, TaskTypeOK
  <1>4. releases' = Append(releases, given) /\ Live = {}
    BY DEF Release
  <1>5. Live' = {Len(releases')}
    <2>1. /\ Len(releases') = Len(releases) + 1 /\ DOMAIN releases' = 1..(Len(releases) + 1)
          /\ \A k \in DOMAIN releases : releases'[k] = releases[k]
          /\ releases'[Len(releases) + 1] = given
      BY <1>1, <1>3, <1>4, AppendFacts
    <2>2. DOMAIN releases = 1..Len(releases) /\ Len(releases) \in Nat
      BY <1>1, LenProperties
    <2>3. \A k \in DOMAIN releases : ~releases[k].live
      BY <1>4 DEF Live
    <2> QED
      BY <2>1, <2>2, <2>3 DEF Live
  <1>6. releases'[Len(releases')] = given
    BY <1>1, <1>3, <1>4, AppendFacts
  <1>7. /\ work'.life = "queued" /\ source' = source /\ revisions' = revisions /\ Brief' = Brief
        /\ Brief.ready /\ Brief.source = source.version
        /\ source.attention = "none" /\ source.status # "closed"
    BY DEF Release, Put, Blocked, Brief
  <1>8. source.status = "open"
    BY <1>1, <1>7 DEF Sources
  <1> QED
    BY <1>5, <1>6, <1>7, <1>8 DEF ActiveIsCurrent

LEMMA ReconcileIsCurrent ==
    ASSUME TaskTypeOK, ActiveIsCurrent, NEW c \in Contents, NEW s \in {"open", "closed"},
           NEW b \in BOOLEAN, Reconcile(c, s, b)
    PROVE  ActiveIsCurrent'
  <1> DEFINE changed == <<c, s>> # <<source.content, source.status>>
  <1>1. CASE changed
    BY <1>1, WithdrawnIsCurrent DEF Reconcile
  <1>2. CASE ~changed
    <2>1. releases' = releases /\ work' = work /\ revisions' = revisions
      BY <1>2 DEF Reconcile
    <2>2. /\ source'.version = source.version /\ source'.status = source.status
          /\ source.attention = "none" => source'.attention = "none"
      BY <1>2 DEF Reconcile, TaskTypeOK
    <2> QED
      BY <2>1, <2>2 DEF ActiveIsCurrent, Live, Brief
  <1> QED
    BY <1>1, <1>2

LEMMA StepIsCurrent ==
    ASSUME PlanningTypeOK, ActiveIsCurrent, [Next]_vars
    PROVE  ActiveIsCurrent'
  <1>0. TaskTypeOK
    BY DEF PlanningTypeOK
  <1>1. ASSUME UNCHANGED task PROVE ActiveIsCurrent'
    BY <1>1 DEF task, ActiveIsCurrent, Live, Brief
  <1>2. CASE TaskRests
    BY <1>1, <1>2 DEF TaskRests
  <1>3. CASE TaskChange
    <2>1. CASE \/ \E of \in Nat, ready \in BOOLEAN : Saved(of, ready)
               \/ \E a \in Tools : Transition(a)
               \/ \E c \in Contents : UpdateSource(c)
               \/ \E why \in {"review", "other"} : MarkAttention(why)
               \/ \E r \in Repos : ChangeRepo(r)
      BY <1>0, <2>1, WithdrawnIsCurrent DEF Saved, Transition, UpdateSource, MarkAttention,
                                            ChangeRepo
    <2> QED
      BY <1>0, <1>3, <2>1, ReleaseIsCurrent, ReconcileIsCurrent DEF TaskChange
  <1>4. CASE UNCHANGED vars
    BY <1>1, <1>4 DEF vars, taskVars
  <1> QED
    BY <1>2, <1>3, <1>4, TaskKinds

\* A version counts whatever changes the brief.
LEMMA VersionStep ==
    ASSUME PlanningTypeOK, Next
    PROVE  /\ work.version \in Nat /\ work'.version \in Nat
           /\ work'.version >= work.version
           /\ revisions' = revisions \/ \E of \in Nat, ready \in BOOLEAN : Saved(of, ready)
           /\ work'.version = work.version => revisions' = revisions
  <1>1. work.version \in Nat /\ work'.version \in Nat
    BY TaskType DEF PlanningTypeOK, TaskTypeOK
  <1>2. ASSUME NEW life, Put(life) PROVE work'.version = work.version + 1
    BY <1>2 DEF Put
  <1>3. CASE TaskRests
    BY <1>1, <1>3 DEF TaskRests, task
  <1>4. CASE \E of \in Nat, ready \in BOOLEAN : Saved(of, ready)
    BY <1>1, <1>2, <1>4 DEF Saved
  <1>5. CASE Release
    BY <1>1, <1>2, <1>5 DEF Release
  <1>9. ASSUME NEW a \in Tools, Transition(a)
        PROVE  work'.version = work.version + 1 /\ revisions' = revisions
    BY <1>2, <1>9 DEF Transition
  <1>6. CASE \E c \in Contents : UpdateSource(c)
    BY <1>1, <1>2, <1>6 DEF UpdateSource
  <1>7. CASE \E c \in Contents, s \in {"open", "closed"}, b \in BOOLEAN : Reconcile(c, s, b)
    BY <1>1, <1>2, <1>7 DEF Reconcile
  <1>8. CASE \/ \E why \in {"review", "other"} : MarkAttention(why)
             \/ \E r \in Repos : ChangeRepo(r)
    BY <1>1, <1>2, <1>8 DEF MarkAttention, ChangeRepo
  <1> QED
    BY <1>1, <1>3, <1>4, <1>5, <1>6, <1>7, <1>8, <1>9, TaskKinds DEF TaskChange

-----------------------------------------------------------------------------
(* The requests: what a step does to them. *)

\* What a request is when it is made.
IsNew(q) ==
    /\ q.version = work'.version /\ q.spec = Len(revisions')
    /\ q.kind = "human" => /\ q.context.source = q.asked
                           /\ q.context.base = q.context.repo
    /\ q.stage \in Stages
    /\ q.stage = "planner" => /\ q.kind # "triage"
                              /\ q.kind = "human" => q.triage # None

\* What becomes of it: what was asked stays, and only a triage leads to the planner.
Follows(r, q) ==
    /\ q.kind = r.kind /\ q.version = r.version /\ q.spec = r.spec
    /\ q.asked = r.asked /\ q.context = r.context
    /\ r.triage # None => q.triage = r.triage
    /\ q.stage = "planner" =>
           r.stage = "planner" \/ (r.kind # "triage" /\ q.triage # None)

RequestsStep ==
    /\ DOMAIN requests \subseteq DOMAIN requests'
    /\ \A n \in DOMAIN requests : Follows(requests[n], requests'[n])
    /\ \A n \in DOMAIN requests' \ DOMAIN requests : IsNew(requests'[n])

LEMMA Untouched ==
    ASSUME requests \in Seq(Requests), requests' = requests
    PROVE  requests' \in Seq(Requests) /\ RequestsStep
  BY DEF RequestsStep, Follows

LEMMA Edited ==
    ASSUME requests \in Seq(Requests), NEW n \in DOMAIN requests,
           NEW q \in Requests, Follows(requests[n], q),
           requests' = [requests EXCEPT ![n] = q]
    PROVE  requests' \in Seq(Requests) /\ RequestsStep
  <1>1. n \in 1..Len(requests)
    BY LenProperties
  <1>2. requests' \in Seq(Requests) /\ Len(requests') = Len(requests)
    BY <1>1, ExceptSeq
  <1>3. DOMAIN requests' = DOMAIN requests
    OBVIOUS
  <1> QED
    BY <1>2, <1>3 DEF RequestsStep, Follows

LEMMA Extended ==
    ASSUME requests \in Seq(Requests), NEW rs \in Seq(Requests),
           DOMAIN rs = DOMAIN requests,
           \A n \in DOMAIN requests : Follows(requests[n], rs[n]),
           NEW q \in Requests, IsNew(q), requests' = Append(rs, q)
    PROVE  /\ requests' \in Seq(Requests) /\ RequestsStep
           /\ \A n \in DOMAIN requests' \ DOMAIN requests : requests'[n] = q
  <1>1. /\ requests' \in Seq(Requests)
        /\ DOMAIN requests' = 1..(Len(rs) + 1)
        /\ \A n \in DOMAIN rs : requests'[n] = rs[n]
        /\ requests'[Len(rs) + 1] = q
    BY AppendFacts
  <1>2. DOMAIN rs = 1..Len(rs) /\ Len(rs) \in Nat
    BY LenProperties
  <1>3. \A n \in DOMAIN requests' \ DOMAIN requests : n = Len(rs) + 1
    BY <1>1, <1>2
  <1>4. DOMAIN requests \subseteq DOMAIN requests'
    BY <1>1, <1>2
  <1> QED
    BY <1>1, <1>2, <1>3, <1>4 DEF RequestsStep

LEMMA LatestIsThere ==
    ASSUME requests \in Seq(Requests), requests # <<>>
    PROVE  Latest \in DOMAIN requests /\ Request \in Requests
  <1>1. Len(requests) \in Nat \ {0} /\ DOMAIN requests = 1..Len(requests)
    BY EmptySeq, LenProperties
  <1> QED
    BY <1>1, ElementOfSeq DEF Latest, Request

-----------------------------------------------------------------------------
(* The commit that is pinned. *)

\* Where a human has made a request, the conversation is bound, to one repository.
BindingInv == Started => binding # NoContext /\ binding.base = binding.repo

\* A fetch is from the repository that its guard names.
CapturesInv == \A c \in captures : c.base = c.guard[2][2]

LEMMA BindingKept ==
    ASSUME BindingInv, RequestsStep,
           \/ binding' # NoContext /\ binding'.base = binding'.repo
           \/ /\ binding' = binding \/ binding = NoContext
              /\ \A n \in DOMAIN requests' \ DOMAIN requests : requests'[n].kind # "human"
    PROVE  BindingInv'
  <1>1. CASE binding' # NoContext /\ binding'.base = binding'.repo
    BY <1>1 DEF BindingInv
  <1>2. CASE /\ binding' = binding \/ binding = NoContext
             /\ \A n \in DOMAIN requests' \ DOMAIN requests : requests'[n].kind # "human"
    <2>1. Started' => Started
      BY <1>2 DEF Started, RequestsStep, Follows
    <2> QED
      BY <1>2, <2>1 DEF BindingInv
  <1> QED
    BY <1>1, <1>2

LEMMA ContextFacts ==
    ASSUME PlanningTypeOK, NEW s \in Sources, NEW base \in Repos \cup {None}
    PROVE  /\ Context(s, base) \in Contexts /\ Context(s, base) # NoContext
           /\ Context(s, base).repo = repo /\ Context(s, base).base = base
           /\ Context(s, base).source = s.version
  BY PlanningAssumption DEF PlanningTypeOK, TaskTypeOK, Sources, Context, Contexts, NoContext, None

LEMMA MadeType ==
    ASSUME PlanningTypeOK, NEW kind \in {"human", "triage", "comment"}, NEW w \in Works,
           NEW s \in Sources, NEW ctx \in Contexts, NEW stage \in Stages, NEW triage \in Nat,
           NEW key \in {NoKey} \cup (Contents \X Repos)
    PROVE  Made(kind, w, s, ctx, stage, triage, key) \in Requests
  <1>1. Len(revisions) \in Nat
    BY LenProperties DEF PlanningTypeOK, TaskTypeOK
  <1> QED
    BY <1>1 DEF Made, Requests, Works, Sources, Stages

\* What a step shows of the requests and the binding.
PlanningStep ==
    /\ requests' \in Seq(Requests) /\ binding' \in Contexts
    /\ RequestsStep /\ BindingInv'

LEMMA AskedStep ==
    ASSUME PlanningTypeOK, BindingInv, NEW ctx \in Contexts, Asked(ctx),
           ctx.base = ctx.repo, UNCHANGED <<work, revisions>>
    PROVE  PlanningStep
  <1> DEFINE stage == IF Reusable # None THEN "planner" ELSE "triage"
             q == Made("human", work, source, ctx, stage, Reusable, NoKey)
  <1>1. requests \in Seq(Requests) /\ source \in Sources /\ work \in Works /\ repo \in Repos
    BY DEF PlanningTypeOK, TaskTypeOK, Sources, Works
  <1>2. Reusable \in Nat
    <2>1. CASE requests = <<>>
      <3>1. Latest = 0
        BY <1>1, <2>1, EmptySeq DEF Latest
      <3> QED
        BY <3>1 DEF Reusable, None
    <2>2. CASE requests # <<>>
      BY <1>1, <2>2, LatestIsThere DEF Reusable, None, Requests
    <2> QED
      BY <2>1, <2>2
  <1>3. q \in Requests
    BY <1>1, <1>2, MadeType DEF Stages
  <1>4. ctx = Context(source, ctx.base)
    BY DEF Asked, ContextChanged
  <1>5. IsNew(q)
    BY <1>4 DEF IsNew, Made, Context, Stages
  <1>6. requests' = Append(requests, q) /\ binding' = ctx
    BY DEF Asked
  <1>7. \A n \in DOMAIN requests : Follows(requests[n], requests[n])
    BY DEF Follows
  <1>8. requests' \in Seq(Requests) /\ RequestsStep
    BY <1>1, <1>3, <1>5, <1>6, <1>7, Extended
  <1>9. ctx # NoContext
    BY <1>1, <1>4, PlanningAssumption DEF Context, NoContext, None
  <1> QED
    BY <1>6, <1>8, <1>9, BindingKept DEF PlanningStep

LEMMA TriagedStep ==
    ASSUME PlanningTypeOK, BindingInv, NEW rs \in Seq(Requests), DOMAIN rs = DOMAIN requests,
           \A n \in DOMAIN requests : Follows(requests[n], rs[n]),
           NEW w \in Works, NEW s \in Sources, NEW retry \in BOOLEAN, Triaged(rs, w, s, retry),
           w.version = work'.version, revisions' = revisions
    PROVE  PlanningStep
  <1> DEFINE q == TriageRequest(w, s, retry)
  <1>1. requests \in Seq(Requests) /\ binding \in Contexts /\ repo \in Repos
    BY DEF PlanningTypeOK, TaskTypeOK
  <1>2. Context(s, None) \in Contexts
    BY ContextFacts DEF None
  <1>3. (IF retry THEN NoKey ELSE Key(s)) \in {NoKey} \cup (Contents \X Repos)
    BY <1>1 DEF Key, Sources
  <1>4. q \in Requests
    BY <1>2, <1>3, MadeType DEF TriageRequest, Stages, None
  <1>5. IsNew(q) /\ q.kind = "triage"
    BY DEF IsNew, TriageRequest, Made, Stages
  <1>6. /\ requests' = Append(rs, q)
        /\ binding' = IF binding = NoContext THEN Context(s, None) ELSE binding
    BY DEF Triaged
  <1>7. /\ requests' \in Seq(Requests) /\ RequestsStep
        /\ \A n \in DOMAIN requests' \ DOMAIN requests : requests'[n] = q
    BY <1>1, <1>4, <1>5, <1>6, Extended
  <1>8. BindingInv'
    BY <1>5, <1>6, <1>7, BindingKept
  <1> QED
    BY <1>1, <1>2, <1>6, <1>7, <1>8 DEF PlanningStep

LEMMA EditedStep ==
    ASSUME PlanningTypeOK, BindingInv, NEW n \in DOMAIN requests,
           NEW q \in Requests, Follows(requests[n], q),
           requests' = [requests EXCEPT ![n] = q], binding' = binding
    PROVE  PlanningStep
  <1>1. requests \in Seq(Requests) /\ binding \in Contexts
    BY DEF PlanningTypeOK
  <1>2. requests' \in Seq(Requests) /\ RequestsStep
    BY <1>1, Edited
  <1>3. DOMAIN requests' = DOMAIN requests
    OBVIOUS
  <1> QED
    BY <1>1, <1>2, <1>3, BindingKept DEF PlanningStep

LEMMA UntouchedStep ==
    ASSUME PlanningTypeOK, BindingInv, UNCHANGED <<requests, binding>>
    PROVE  PlanningStep
  <1>1. requests \in Seq(Requests) /\ binding \in Contexts
    BY DEF PlanningTypeOK
  <1>2. requests' \in Seq(Requests) /\ RequestsStep
    BY <1>1, Untouched
  <1> QED
    BY <1>1, <1>2, BindingKept DEF PlanningStep

\* The driver works on what is pending, and Flue runs each stage of a request once.
RunsInv ==
    /\ driver # "none" => Pending
    /\ \A r \in runs : r.of \in DOMAIN requests
    /\ \A r, s \in runs : r.of = s.of /\ r.stage = s.stage => r = s
    /\ RunsArePending

LEMMA IntakeStep ==
    ASSUME PlanningTypeOK, BindingInv, NEW w \in Works, NEW s \in Sources,
           NEW retry \in BOOLEAN, Intake(w, s, retry),
           w.version = work'.version, revisions' = revisions
    PROVE  PlanningStep
  <1>1. requests \in Seq(Requests) /\ \A n \in DOMAIN requests : Follows(requests[n], requests[n])
    BY DEF PlanningTypeOK, Follows
  <1>2. CASE Due(w, s, retry)
    BY <1>1, <1>2, TriagedStep DEF Intake
  <1>3. CASE ~Due(w, s, retry)
    BY <1>3, UntouchedStep DEF Intake
  <1> QED
    BY <1>2, <1>3

LEMMA StepPlanning ==
    ASSUME PlanningTypeOK, BindingInv, CapturesInv, RunsInv, Next
    PROVE  PlanningStep
  <1>0. /\ requests \in Seq(Requests) /\ binding \in Contexts
        /\ source \in Sources /\ work \in Works /\ repo \in Repos
        /\ work' \in Works /\ source' \in Sources
        /\ \A n \in DOMAIN requests : Follows(requests[n], requests[n])
    BY TaskType DEF PlanningTypeOK, TaskTypeOK, Sources, Works, Follows
  <1>1. CASE UNCHANGED <<requests, binding>>
    BY <1>1, UntouchedStep
  <1>2. CASE AskNext
    <2>1. Started /\ Asked(binding) /\ UNCHANGED <<work, revisions>>
      BY <1>2 DEF AskNext, taskVars, task
    <2> QED
      BY <1>0, <2>1, AskedStep DEF BindingInv
  <1>3. ASSUME NEW c \in captures, FetchEnds(c)
        PROVE  PlanningStep
    <2>1. UNCHANGED <<work, revisions>>
      BY <1>3 DEF FetchEnds, taskVars, task
    <2>2. Unmoved(c) => c.base = repo
      BY DEF Unmoved, Guard, config, CapturesInv
    <2>3. ASSUME Unmoved(c)
          PROVE  LET ctx == Context(source, c.base) IN
                 ctx \in Contexts /\ ctx # NoContext /\ ctx.base = ctx.repo
      BY <1>0, <2>2, <2>3, ContextFacts
    <2>4. CASE Unmoved(c) /\ Asked(Context(source, c.base))
      BY <2>1, <2>3, <2>4, AskedStep
    <2>5. CASE Unmoved(c) /\ binding' = Context(source, c.base) /\ UNCHANGED requests
      <3>1. requests' \in Seq(Requests) /\ RequestsStep
        BY <1>0, <2>5, Untouched
      <3> QED
        BY <2>3, <2>5, <3>1, BindingKept DEF PlanningStep
    <2> QED
      BY <1>1, <1>3, <2>4, <2>5 DEF FetchEnds
  <1>4. ASSUME NEW retry \in BOOLEAN, Retriage(retry)
        PROVE  PlanningStep
    <2>1. work' = work /\ revisions' = revisions /\ Intake(work, source, retry)
      BY <1>4 DEF Retriage, task
    <2> QED
      BY <1>0, <2>1, IntakeStep
  <1>5. ASSUME NEW c \in Contents, EditSource(c)
        PROVE  PlanningStep
    <2>1. revisions' = revisions /\ Intake(work', source', FALSE)
      BY <1>5 DEF EditSource, UpdateSource
    <2> QED
      BY <1>0, <2>1, IntakeStep
  <1>6. CASE AdmitComment
    <2> DEFINE q == Made("comment", work, source, binding, "planner", Request.triage, NoKey)
    <2>1. Started /\ requests' = Append(requests, q) /\ UNCHANGED <<work, revisions, binding>>
      BY <1>6 DEF AdmitComment, taskVars, task
    <2>2. requests # <<>>
      BY <2>1 DEF Started
    <2>3. Request.triage \in Nat
      BY <1>0, <2>2, LatestIsThere DEF Requests
    <2>4. q \in Requests
      BY <1>0, <2>3, MadeType DEF Stages
    <2>5. IsNew(q) /\ q.kind = "comment"
      BY <2>1 DEF IsNew, Made, Stages
    <2>6. /\ requests' \in Seq(Requests) /\ RequestsStep
          /\ \A n \in DOMAIN requests' \ DOMAIN requests : requests'[n] = q
      BY <1>0, <2>1, <2>4, <2>5, Extended
    <2> QED
      BY <1>0, <2>1, <2>5, <2>6, BindingKept DEF PlanningStep
  <1>7. CASE Recover \/ Restart
    <2>1. work' = work /\ revisions' = revisions
      BY <1>7 DEF Recover, Restart, taskVars, task
    <2>2. CASE Triaged(requests, work, source, FALSE)
      BY <1>0, <2>1, <2>2, TriagedStep
    <2> QED
      BY <1>1, <1>7, <2>2 DEF Recover, Restart
  <1>8. ASSUME requests # <<>>, NEW q \in Requests, Follows(Request, q),
               requests' = [requests EXCEPT ![Latest] = q], binding' = binding
        PROVE  PlanningStep
    BY <1>0, <1>8, LatestIsThere, EditedStep DEF Request
  <1>9. ASSUME PendingIn(requests) PROVE requests # <<>> /\ Latest \in DOMAIN requests /\ Request \in Requests
    BY <1>0, <1>9, LatestIsThere DEF PendingIn
  <1>10. CASE Dispatched
    <2> DEFINE q == [Request EXCEPT !.sent = @ \cup {Request.stage}]
    <2>1. PendingIn(requests)
      BY <1>10 DEF Dispatched, RunsInv, Pending
    <2>2. Request.stage \in Stages
      BY <2>1 DEF PendingIn, Request, Latest
    <2>3. q \in Requests
      BY <1>9, <2>1, <2>2 DEF Requests
    <2>4. Follows(Request, q)
      BY <1>9, <2>1 DEF Follows, Requests
    <2>5. requests' = [requests EXCEPT ![Latest] = q] /\ binding' = binding
      BY <1>10 DEF Dispatched, Request
    <2> QED
      BY <1>8, <1>9, <2>1, <2>3, <2>4, <2>5
  <1>11. ASSUME NEW end \in {"done", "failed"}, ReadReturns(end)
         PROVE  PlanningStep
    <2> DEFINE stage == IF end = "done" THEN StageAfter(Request) ELSE "failed"
               settled == [requests EXCEPT ![Latest].stage = stage]
               q == [Request EXCEPT !.stage = stage]
               next == Request.kind = "triage" /\ Untriaged(work, source)
    <2>1. PendingIn(requests)
      BY <1>11 DEF ReadReturns, RunsInv, Pending
    <2>2. /\ requests # <<>> /\ Latest \in DOMAIN requests /\ Request \in Requests
          /\ Latest \in 1..Len(requests)
      BY <1>0, <1>9, <2>1, LenProperties
    <2>3. stage \in Stages \cup {"completed", "failed"}
      BY DEF StageAfter, Stages
    <2>4. q \in Requests
      BY <2>2, <2>3 DEF Requests
    <2>5. stage = "planner" => Request.kind # "triage" /\ Request.triage # None
      BY DEF StageAfter
    <2>6. Follows(Request, q)
      BY <2>2, <2>5 DEF Follows, Requests
    <2>7. settled = [requests EXCEPT ![Latest] = q]
      BY DEF Request
    <2>8. /\ settled \in Seq(Requests) /\ DOMAIN settled = DOMAIN requests
          /\ \A n \in DOMAIN requests : Follows(requests[n], settled[n])
      <3>1. settled \in Seq(Requests)
        BY <1>0, <2>2, <2>4, <2>7, ExceptSeq
      <3>2. \A n \in DOMAIN requests : settled[n] = IF n = Latest THEN q ELSE requests[n]
        BY <2>7
      <3> QED
        BY <1>0, <2>6, <3>1, <3>2 DEF Request
    <2>9. work' = work /\ revisions' = revisions
      BY <1>11 DEF ReadReturns, taskVars, task
    <2>10. CASE next /\ enabled
      <3>1. Triaged(settled, work, source, FALSE)
        BY <1>11, <2>10 DEF ReadReturns
      <3> QED
        BY <1>0, <2>8, <2>9, <3>1, TriagedStep
    <2>11. CASE ~(next /\ enabled)
      <3>1. requests' = settled /\ binding' = binding
        BY <1>11, <2>11 DEF ReadReturns
      <3> QED
        BY <1>8, <2>2, <2>4, <2>6, <2>7, <3>1
    <2> QED
      BY <2>10, <2>11
  <1>12. CASE Stop
    <2> DEFINE q == [Request EXCEPT !.abort = TRUE]
    <2>1. PendingIn(requests)
      BY <1>12 DEF Stop, Pending
    <2>2. q \in Requests /\ Follows(Request, q)
      BY <1>9, <2>1 DEF Requests, Follows
    <2>3. requests' = [requests EXCEPT ![Latest] = q] /\ binding' = binding
      BY <1>12 DEF Stop, Request
    <2> QED
      BY <1>8, <1>9, <2>1, <2>2, <2>3
  <1>13. ASSUME NEW r \in runs, RecordTriage(r)
         PROVE  PlanningStep
    <2> DEFINE q == [requests[r.of] EXCEPT !.triage = requests[r.of].asked]
    <2>1. r.of \in DOMAIN requests
      BY <1>13 DEF RunsInv
    <2>2. requests[r.of] \in Requests
      BY <1>0, <2>1, LenProperties, ElementOfSeq
    <2>3. requests[r.of].triage = None /\ requests[r.of].stage = "triage"
      BY <1>13 DEF RecordTriage, Authorized
    <2>4. q \in Requests /\ Follows(requests[r.of], q)
      BY <2>2, <2>3 DEF Requests, Follows
    <2>5. requests' = [requests EXCEPT ![r.of] = q] /\ binding' = binding
      BY <1>13 DEF RecordTriage
    <2> QED
      BY <2>1, <2>4, <2>5, EditedStep
  <1> USE DEF planning, planningVars
  <1>14. CASE TaskStep \/ CommentArrives \/ Admit \/ AbortReturns \/ CallFails
    BY <1>1, <1>14 DEF TaskStep, CommentArrives, Admit, AbortReturns, CallFails
  <1>15. CASE StopReturns \/ StopFails \/ Crash
    BY <1>1, <1>15 DEF StopReturns, StopFails, Crash
  <1>16. CASE \E for \in {"ask", "refresh"} : Fetch(for)
    BY <1>1, <1>16 DEF Fetch
  <1>17. CASE \E r \in runs : RunEnds(r) \/ \E b \in BOOLEAN : Propose(r, b)
    BY <1>1, <1>17 DEF RunEnds, Propose
  <1> QED
    BY <1>2, <1>3, <1>4, <1>5, <1>6, <1>7, <1>10, <1>11, <1>12, <1>13, <1>14, <1>15, <1>16, <1>17
       DEF Next

\* A fetch keeps the guard it began with.
LEMMA StepCaptures ==
    ASSUME CapturesInv, Next
    PROVE  CapturesInv'
  <1>1. CASE captures' \subseteq captures
    BY <1>1 DEF CapturesInv
  <1>2. CASE \E for \in {"ask", "refresh"} : Fetch(for)
    <2>1. PICK for \in {"ask", "refresh"} :
            captures' = captures \cup {[for |-> for, guard |-> Guard, base |-> repo]}
      BY <1>2 DEF Fetch
    <2>2. Guard[2][2] = repo
      BY DEF Guard, config
    <2> QED
      BY <2>1, <2>2 DEF CapturesInv
  <1>3. CASE \E c \in captures : FetchEnds(c)
    BY <1>1, <1>3 DEF FetchEnds
  <1>4. CASE Crash \/ \E end \in {"done", "failed"} : ReadReturns(end)
    BY <1>1, <1>4 DEF Crash, ReadReturns, Down
  <1>5. CASE captures' = captures
    BY <1>1, <1>5
  <1> USE DEF process, planningVars
  <1>6. CASE TaskStep \/ AskNext \/ CommentArrives \/ AdmitComment \/ Recover
    BY <1>5, <1>6 DEF TaskStep, AskNext, CommentArrives, AdmitComment, Recover
  <1>7. CASE (\E retry \in BOOLEAN : Retriage(retry)) \/ (\E c \in Contents : EditSource(c))
    BY <1>5, <1>7 DEF Retriage, EditSource
  <1>8. CASE Admit \/ Dispatched \/ AbortReturns \/ CallFails
    BY <1>5, <1>8 DEF Admit, Dispatched, AbortReturns, CallFails
  <1>9. CASE Stop \/ StopReturns \/ StopFails \/ Restart
    BY <1>5, <1>9 DEF Stop, StopReturns, StopFails, Restart
  <1>10. CASE \E r \in runs : RecordTriage(r) \/ RunEnds(r) \/ \E b \in BOOLEAN : Propose(r, b)
    BY <1>5, <1>10 DEF RecordTriage, RunEnds, Propose
  <1> QED
    BY <1>2, <1>3, <1>4, <1>6, <1>7, <1>8, <1>9, <1>10 DEF Next

Drives == {"none", "dispatch", "abort", "read"}

LEMMA ResumedFacts ==
    ASSUME driver \in Drives, driver # "none" => Pending, NEW rs,
           Pending => PendingIn(rs)
    PROVE  Resumed(rs) \in Drives /\ (Resumed(rs) # "none" => PendingIn(rs))
  BY DEF Resumed, At, Drives

Runs == [of : Nat, stage : Stages, end : {"going", "done", "failed"}]

-----------------------------------------------------------------------------
(* The driver and the runs. *)

\* What a step does to the request that is pending, where it is not settled by a read.
LEMMA StageStep ==
    ASSUME PlanningTypeOK, RunsInv, Next, Pending
    PROVE  \/ requests' # <<>> /\ Latest' = Latest /\ Request'.stage = Request.stage
           \/ \E end \in {"done", "failed"} : ReadReturns(end)
  <1> DEFINE Stays == requests' # <<>> /\ Latest' = Latest /\ Request'.stage = Request.stage
  <1>0. /\ requests \in Seq(Requests) /\ requests # <<>>
        /\ Latest \in DOMAIN requests /\ Request \in Requests
    BY LatestIsThere DEF PlanningTypeOK, Pending, PendingIn
  <1>1. ASSUME requests' = requests PROVE Stays
    BY <1>0, <1>1 DEF Latest, Request
  <1>2. ASSUME NEW n \in DOMAIN requests, NEW q \in Requests, q.stage = requests[n].stage,
               requests' = [requests EXCEPT ![n] = q]
        PROVE  Stays
    <2>1. n \in 1..Len(requests) /\ Len(requests) \in Nat \ {0}
      BY <1>0, LenProperties, EmptySeq
    <2>2. requests' \in Seq(Requests) /\ Len(requests') = Len(requests)
      BY <1>0, <1>2, <2>1, ExceptSeq
    <2>3. requests' # <<>>
      BY <2>1, <2>2, EmptySeq
    <2>4. requests'[Latest].stage = requests[Latest].stage
      BY <1>0, <1>2
    <2> QED
      BY <2>2, <2>3, <2>4 DEF Latest, Request
  <1>3. CASE Dispatched
    <2> DEFINE q == [Request EXCEPT !.sent = @ \cup {Request.stage}]
    <2>1. Request.stage \in Stages
      BY DEF Pending, PendingIn, Request, Latest
    <2>2. q \in Requests /\ q.stage = requests[Latest].stage
      BY <1>0, <2>1 DEF Requests, Request
    <2>3. requests' = [requests EXCEPT ![Latest] = q]
      BY <1>3 DEF Dispatched, Request
    <2> QED
      BY <1>0, <1>2, <2>2, <2>3
  <1>4. CASE Stop
    <2> DEFINE q == [Request EXCEPT !.abort = TRUE]
    <2>1. q \in Requests /\ q.stage = requests[Latest].stage
      BY <1>0 DEF Requests, Request
    <2>2. requests' = [requests EXCEPT ![Latest] = q]
      BY <1>4 DEF Stop, Request
    <2> QED
      BY <1>0, <1>2, <2>1, <2>2
  <1>5. ASSUME NEW r \in runs, RecordTriage(r)
        PROVE  Stays
    <2> DEFINE q == [requests[r.of] EXCEPT !.triage = requests[r.of].asked]
    <2>1. r.of \in DOMAIN requests
      BY <1>5 DEF RunsInv
    <2>2. requests[r.of] \in Requests
      BY <1>0, <2>1, LenProperties, ElementOfSeq
    <2>3. q \in Requests /\ q.stage = requests[r.of].stage
      BY <2>2 DEF Requests
    <2>4. requests' = [requests EXCEPT ![r.of] = q]
      BY <1>5 DEF RecordTriage
    <2> QED
      BY <1>2, <2>1, <2>3, <2>4
  <1>6. ASSUME NEW w, NEW s, NEW retry, Intake(w, s, retry)
        PROVE  requests' = requests
    BY <1>6 DEF Intake, Due
  <1>7. CASE (\E retry \in BOOLEAN : Retriage(retry)) \/ (\E c \in Contents : EditSource(c))
    BY <1>1, <1>6, <1>7 DEF Retriage, EditSource
  <1>8. ~AskNext /\ ~AdmitComment
    BY DEF AskNext, Asked, AdmitComment
  <1>9. CASE \E c \in captures : FetchEnds(c)
    BY <1>1, <1>9 DEF FetchEnds, Asked
  <1>10. CASE Recover \/ Restart
    BY <1>1, <1>10 DEF Recover, Restart, Due
  <1> USE DEF planning, planningVars
  <1>11. CASE TaskStep \/ CommentArrives \/ Admit \/ AbortReturns \/ CallFails
    BY <1>1, <1>11 DEF TaskStep, CommentArrives, Admit, AbortReturns, CallFails
  <1>12. CASE StopReturns \/ StopFails \/ Crash
    BY <1>1, <1>12 DEF StopReturns, StopFails, Crash
  <1>13. CASE \E for \in {"ask", "refresh"} : Fetch(for)
    BY <1>1, <1>13 DEF Fetch
  <1>14. CASE \E r \in runs : RunEnds(r) \/ \E b \in BOOLEAN : Propose(r, b)
    BY <1>1, <1>14 DEF RunEnds, Propose
  <1> QED
    BY <1>3, <1>4, <1>5, <1>7, <1>8, <1>9, <1>10, <1>11, <1>12, <1>13, <1>14 DEF Next

LEMMA StepDriver ==
    ASSUME PlanningTypeOK, RunsInv, Next
    PROVE  driver' \in Drives /\ (driver' # "none" => PendingIn(requests'))
  <1>0. driver \in Drives /\ (driver # "none" => Pending)
    BY DEF PlanningTypeOK, Drives, RunsInv
  <1>1. CASE \E end \in {"done", "failed"} : ReadReturns(end)
    BY <1>1 DEF ReadReturns, Down, Drives
  <1>2. CASE ~\E end \in {"done", "failed"} : ReadReturns(end)
    <2>1. Pending => PendingIn(requests')
      BY <1>2, StageStep DEF Pending, PendingIn, Latest, Request
    <2>2. ASSUME NEW rs, Pending => PendingIn(rs)
          PROVE  Resumed(rs) \in Drives /\ (Resumed(rs) # "none" => PendingIn(rs))
      BY <1>0, <2>2, ResumedFacts
    <2>3. CASE driver' = driver \/ driver' = "none" \/ driver' = Resumed(requests')
      BY <1>0, <2>1, <2>2, <2>3 DEF Drives
    <2>4. ASSUME NEW w, NEW s, NEW retry, Intake(w, s, retry)
          PROVE  driver' = driver \/ driver' = Resumed(requests')
      BY <2>4 DEF Intake
    <2>5. CASE (\E retry \in BOOLEAN : Retriage(retry)) \/ (\E c \in Contents : EditSource(c))
      BY <2>3, <2>4, <2>5 DEF Retriage, EditSource
    <2>6. CASE Dispatched
      BY <1>0, <2>1, <2>6 DEF Dispatched, At, Drives
    <2>7. CASE AbortReturns
      BY <1>0, <2>1, <2>7 DEF AbortReturns, Drives
    <2>8. CASE StopReturns
      <3>1. requests' = requests
        BY <2>8 DEF StopReturns, planning
      <3> QED
        BY <2>3, <2>8, <3>1 DEF StopReturns
    <2>9. CASE AskNext \/ AdmitComment \/ Recover \/ Restart \/ Stop \/ CallFails
      BY <2>3, <2>9 DEF AskNext, AdmitComment, Recover, Restart, Stop, CallFails
    <2>10. CASE \E c \in captures : FetchEnds(c)
      BY <2>3, <2>10 DEF FetchEnds
    <2> USE DEF process, planningVars
    <2>11. CASE TaskStep \/ CommentArrives \/ Admit \/ StopFails \/ Crash
      BY <2>3, <2>11 DEF TaskStep, CommentArrives, Admit, StopFails, Crash, Down
    <2>12. CASE \E for \in {"ask", "refresh"} : Fetch(for)
      BY <2>3, <2>12 DEF Fetch
    <2>13. CASE \E r \in runs : RecordTriage(r) \/ RunEnds(r) \/ \E b \in BOOLEAN : Propose(r, b)
      BY <2>3, <2>13 DEF RecordTriage, RunEnds, Propose
    <2> QED
      BY <1>2, <2>5, <2>6, <2>7, <2>8, <2>9, <2>10, <2>11, <2>12, <2>13 DEF Next
  <1> QED
    BY <1>1, <1>2

NoneGoes == \A r \in runs : r.end # "going"

LEMMA IdleRuns ==
    ASSUME PlanningTypeOK, RunsInv, ~Pending
    PROVE  NoneGoes
  <1> SUFFICES ASSUME NEW r \in runs, r.end = "going" PROVE FALSE
    BY DEF NoneGoes
  <1>1. r.of = Latest /\ Request.stage = r.stage /\ r.of \in DOMAIN requests
    BY DEF RunsInv, RunsArePending
  <1>2. r.stage \in Stages
    BY DEF PlanningTypeOK
  <1>3. requests # <<>>
    BY <1>1
  <1> QED
    BY <1>1, <1>2, <1>3 DEF Pending, PendingIn, Latest, Request

\* Runs that come from runs, at most ended.
Lasting == \A r \in runs' : \E q \in runs :
               q.of = r.of /\ q.stage = r.stage /\ (r.end = "going" => q.end = "going")
Single(rs) == \A r, s \in rs : r.of = s.of /\ r.stage = s.stage => r = s

LEMMA RunsKept ==
    ASSUME PlanningTypeOK, RunsInv, RequestsStep, Lasting, Single(runs'),
           \/ NoneGoes
           \/ Latest' = Latest /\ Request'.stage = Request.stage,
           driver' # "none" => PendingIn(requests')
    PROVE  RunsInv'
  <1>1. \A r \in runs' : r.of \in DOMAIN requests'
    BY DEF Lasting, RunsInv, RequestsStep
  <1>2. RunsArePending'
    BY DEF Lasting, RunsInv, RunsArePending, NoneGoes
  <1>3. driver' # "none" => Pending'
    BY DEF Pending
  <1> QED
    BY <1>1, <1>2, <1>3 DEF RunsInv, Single

LEMMA AbortedFacts ==
    ASSUME PlanningTypeOK, RunsInv, NEW n, NEW stage, runs' = Aborted(n, stage)
    PROVE  Lasting /\ Single(runs') /\ \A r \in runs' : r \in Runs
  <1> DEFINE hit(r) == r.end = "going" /\ r.stage = stage /\ (stage = "triage" => r.of = n)
             f(r) == IF hit(r) THEN [r EXCEPT !.end = "failed"] ELSE r
  <1>1. \A r \in runs : r \in Runs
    BY DEF PlanningTypeOK, Runs
  <1>2. ASSUME NEW r \in runs
        PROVE  f(r) \in Runs /\ f(r).of = r.of /\ f(r).stage = r.stage
               /\ (f(r).end = "going" => r.end = "going")
    BY <1>1 DEF Runs
  <1>3. runs' = {f(r) : r \in runs}
    BY DEF Aborted
  <1> HIDE DEF f
  <1>4. Single(runs')
    BY <1>2, <1>3 DEF Single, RunsInv
  <1> QED
    BY <1>2, <1>3, <1>4 DEF Lasting

LEMMA StepRuns ==
    ASSUME PlanningTypeOK, RunsInv, RequestsStep, Next
    PROVE  RunsInv' /\ \A r \in runs' : r \in Runs
  <1>0. /\ requests \in Seq(Requests)
        /\ \A r \in runs : r \in Runs
        /\ Single(runs)
        /\ driver' # "none" => PendingIn(requests')
    BY StepDriver DEF PlanningTypeOK, Runs, RunsInv, Single
  <1>1. CASE \E end \in {"done", "failed"} : ReadReturns(end)
    <2>1. PICK end \in {"done", "failed"} : ReadReturns(end)
      BY <1>1
    <2>2. runs' = runs \ Ended(end) /\ Ended(end) # {}
      BY <2>1 DEF ReadReturns
    <2>3. \A r \in runs' : r.end # "going"
      <3> SUFFICES ASSUME NEW g \in runs', g.end = "going" PROVE FALSE
        OBVIOUS
      <3>1. PICK e \in runs : e.of = Latest /\ e.stage = Request.stage /\ e.end = end
        BY <2>2 DEF Ended, Run
      <3>2. g \in runs /\ g.of = Latest /\ g.stage = Request.stage
        BY <2>2 DEF RunsInv, RunsArePending
      <3> QED
        BY <1>0, <3>1, <3>2 DEF Single
    <2>4. RunsArePending' /\ \A r \in runs' : r.of \in DOMAIN requests'
      BY <2>2, <2>3 DEF RunsArePending, RunsInv, RequestsStep
    <2>5. \A r \in runs' : r \in runs
      BY <2>2
    <2> QED
      BY <1>0, <2>4, <2>5 DEF RunsInv, Single, Pending
  <1>2. CASE ~\E end \in {"done", "failed"} : ReadReturns(end)
    <2>0. NoneGoes \/ (Latest' = Latest /\ Request'.stage = Request.stage)
      BY <1>2, StageStep, IdleRuns
    <2>1. ASSUME Lasting, Single(runs') PROVE RunsInv'
      BY <1>0, <2>0, <2>1, RunsKept
    <2>2. CASE runs' = runs
      BY <1>0, <2>1, <2>2 DEF Lasting
    <2>3. CASE Admit
      <3>1. Pending
        BY <2>3 DEF Admit, RunsInv
      <3>2. Latest \in DOMAIN requests /\ Request.stage \in Stages /\ Latest \in Nat
        BY <1>0, <3>1, LatestIsThere, LenProperties DEF Pending, PendingIn, Request, Latest
      <3> DEFINE new == [of |-> Latest, stage |-> Request.stage, end |-> "going"]
      <3>3. runs' = runs \cup {new} /\ Run(Latest, Request.stage) = {} /\ requests' = requests
        BY <2>3 DEF Admit, planning
      <3>4. new \in Runs
        BY <3>2 DEF Runs
      <3>5. Single(runs')
        BY <1>0, <3>3 DEF Single, Run
      <3>6. RunsArePending' /\ \A r \in runs' : r.of \in DOMAIN requests'
        BY <3>2, <3>3 DEF RunsArePending, RunsInv, Latest, Request
      <3>7. driver' # "none" => Pending'
        BY <1>0 DEF Pending
      <3> QED
        BY <1>0, <3>3, <3>4, <3>5, <3>6, <3>7 DEF RunsInv, Single
    <2>4. CASE AbortReturns \/ StopReturns
      <3>1. \E n, stage : runs' = Aborted(n, stage)
        BY <2>4 DEF AbortReturns, StopReturns
      <3> QED
        BY <2>1, <3>1, AbortedFacts
    <2>5. ASSUME NEW r \in runs, RunEnds(r)
          PROVE  RunsInv' /\ \A s \in runs' : s \in Runs
      <3>1. PICK end \in {"done", "failed"} : runs' = (runs \ {r}) \cup {[r EXCEPT !.end = end]}
        BY <2>5 DEF RunEnds
      <3> DEFINE over == [r EXCEPT !.end = end]
      <3>2. over \in Runs /\ over.of = r.of /\ over.stage = r.stage /\ over.end # "going"
        BY <1>0 DEF Runs
      <3> HIDE DEF over
      <3>3. Single(runs')
        <4> SUFFICES ASSUME NEW a \in runs', NEW b \in runs', a.of = b.of, a.stage = b.stage
                     PROVE  a = b
          BY DEF Single
        <4>1. (a = over \/ (a \in runs /\ a # r)) /\ (b = over \/ (b \in runs /\ b # r))
          BY <3>1 DEF over
        <4>2. \A q \in runs : q.of = r.of /\ q.stage = r.stage => q = r
          BY <1>0 DEF Single
        <4>3. a \in runs /\ b \in runs => a = b
          BY <1>0 DEF Single
        <4> QED
          BY <3>2, <4>1, <4>2, <4>3
      <3>5. \A q \in runs' : q \in runs \/ q = over
        BY <3>1 DEF over
      <3>4. Lasting
        BY <3>2, <3>5 DEF Lasting
      <3> QED
        BY <1>0, <2>1, <3>2, <3>3, <3>5, <3>4
    <2> USE DEF planningVars
    <2>6. CASE TaskStep \/ AskNext \/ CommentArrives \/ AdmitComment \/ Recover
      BY <2>2, <2>6 DEF TaskStep, AskNext, CommentArrives, AdmitComment, Recover
    <2>7. CASE (\E retry \in BOOLEAN : Retriage(retry)) \/ (\E c \in Contents : EditSource(c))
      BY <2>2, <2>7 DEF Retriage, EditSource
    <2>8. CASE Dispatched \/ CallFails \/ Stop \/ StopFails \/ Crash \/ Restart
      BY <2>2, <2>8 DEF Dispatched, CallFails, Stop, StopFails, Crash, Restart
    <2>9. CASE \E for \in {"ask", "refresh"} : Fetch(for)
      BY <2>2, <2>9 DEF Fetch
    <2>10. CASE \E c \in captures : FetchEnds(c)
      BY <2>2, <2>10 DEF FetchEnds
    <2>11. CASE \E r \in runs : RecordTriage(r) \/ \E b \in BOOLEAN : Propose(r, b)
      BY <2>2, <2>11 DEF RecordTriage, Propose
    <2> QED
      BY <1>2, <2>3, <2>4, <2>5, <2>6, <2>7, <2>8, <2>9, <2>10, <2>11 DEF Next
  <1> QED
    BY <1>1, <1>2

-----------------------------------------------------------------------------
(* The revisions a model writes. *)

\* What a request is worth: one of the current version of the task is of the brief as it
\* is, and only what a human asked, with a triage, reaches the planner's tool.
Sound(q) ==
    /\ q.version <= work.version
    /\ q.version = work.version => q.spec = Len(revisions)
    /\ q.kind = "human" => q.context.source = q.asked /\ q.context.base = q.context.repo
    /\ q.stage = "planner" => q.kind # "triage" /\ (q.kind = "human" => q.triage # None)
RequestsInv == \A n \in DOMAIN requests : Sound(requests[n])

LEMMA StepRequests ==
    ASSUME PlanningTypeOK, RequestsInv, PlanningStep, Next
    PROVE  RequestsInv'
  <1>0. /\ work.version \in Nat /\ work'.version \in Nat /\ work'.version >= work.version
        /\ work'.version = work.version => revisions' = revisions
    BY VersionStep
  <1>1. RequestsStep /\ requests \in Seq(Requests) /\ requests' \in Seq(Requests)
    BY DEF PlanningStep, PlanningTypeOK
  <1>2. \A n \in DOMAIN requests : requests[n] \in Requests
    BY <1>1, LenProperties, ElementOfSeq
  <1>3. ASSUME NEW n \in DOMAIN requests
        PROVE  Sound(requests[n])'
    <2> DEFINE r == requests[n]
               q == requests'[n]
    <2>1. Follows(r, q) /\ Sound(r) /\ r.version \in Nat
      BY <1>1, <1>2, <1>3 DEF RequestsStep, RequestsInv, Requests
    <2> HIDE DEF r, q
    <2>2. q.version <= work'.version
      BY <1>0, <2>1 DEF Follows, Sound
    <2>3. q.version = work'.version => q.spec = Len(revisions')
      <3>1. ASSUME q.version = work'.version PROVE work'.version = work.version
        BY <1>0, <2>1, <3>1 DEF Follows, Sound
      <3> QED
        BY <1>0, <2>1, <3>1 DEF Follows, Sound
    <2>4. /\ q.kind = "human" => q.context.source = q.asked /\ q.context.base = q.context.repo
          /\ q.stage = "planner" => q.kind # "triage" /\ (q.kind = "human" => q.triage # None)
      BY <2>1 DEF Follows, Sound
    <2> QED
      BY <2>2, <2>3, <2>4 DEF Sound, q
  <1>4. ASSUME NEW n \in DOMAIN requests' \ DOMAIN requests
        PROVE  Sound(requests[n])'
    <2>1. IsNew(requests'[n])
      BY <1>1, <1>4 DEF RequestsStep
    <2> QED
      BY <1>0, <2>1 DEF IsNew, Sound
  <1> QED
    BY <1>3, <1>4 DEF RequestsInv

\* Only a human's save and a model's proposal make a revision.
LEMMA RevisionStep ==
    ASSUME Next
    PROVE  \/ revisions' = revisions
           \/ \E ready \in BOOLEAN : Saved(ByHuman, ready)
           \/ \E r \in runs, ready \in BOOLEAN : Propose(r, ready)
  <1>1. CASE TaskStep
    <2>1. CASE \/ Release \/ Switch
               \/ \E a \in Tools : Transition(a)
               \/ \E c \in Contents, s \in {"open", "closed"}, b \in BOOLEAN : Reconcile(c, s, b)
               \/ \E why \in {"review", "other"} : MarkAttention(why)
               \/ \E r \in Repos : ChangeRepo(r) \/ EditRegistry(r)
      BY <2>1 DEF Release, Switch, Transition, Reconcile, MarkAttention, ChangeRepo,
                  EditRegistry, task
    <2>2. CASE \E ready \in BOOLEAN : SaveSpec(ready)
      BY <2>2 DEF SaveSpec
    <2> QED
      BY <1>1, <2>1, <2>2 DEF TaskStep, Tools
  <1>2. CASE \E c \in Contents : EditSource(c)
    BY <1>2 DEF EditSource, UpdateSource
  <1> USE DEF taskVars, task
  <1>3. CASE AskNext \/ CommentArrives \/ AdmitComment \/ Recover
    BY <1>3 DEF AskNext, CommentArrives, AdmitComment, Recover
  <1>4. CASE (\E for \in {"ask", "refresh"} : Fetch(for)) \/ (\E c \in captures : FetchEnds(c))
    BY <1>4 DEF Fetch, FetchEnds
  <1>5. CASE (\E retry \in BOOLEAN : Retriage(retry)) \/ (\E end \in {"done", "failed"} : ReadReturns(end))
    BY <1>5 DEF Retriage, ReadReturns
  <1>6. CASE Admit \/ Dispatched \/ AbortReturns \/ CallFails
    BY <1>6 DEF Admit, Dispatched, AbortReturns, CallFails
  <1>7. CASE Stop \/ StopReturns \/ StopFails \/ Crash \/ Restart
    BY <1>7 DEF Stop, StopReturns, StopFails, Crash, Restart
  <1>8. CASE \E r \in runs : RecordTriage(r) \/ RunEnds(r)
    BY <1>8 DEF RecordTriage, RunEnds
  <1>9. CASE \E r \in runs, b \in BOOLEAN : Propose(r, b)
    BY <1>9
  <1> QED
    BY <1>1, <1>2, <1>3, <1>4, <1>5, <1>6, <1>7, <1>8, <1>9 DEF Next

\* The request a revision answers is there, and it is what was asked.
Answered(k) ==
    LET rev == revisions[k]
        r == requests[rev.of]
    IN  rev.of # ByHuman =>
            /\ rev.of \in DOMAIN requests
            /\ r.kind = "human" /\ r.triage # None
            /\ r.spec = k - 1
            /\ r.asked = rev.source /\ r.context.repo = rev.repo
AnsweredInv == \A k \in DOMAIN revisions : Answered(k)

LEMMA StepAnswered ==
    ASSUME PlanningTypeOK, RunsInv, RequestsInv, AnsweredInv, PlanningStep, Next
    PROVE  AnsweredInv'
  <1>0. /\ RequestsStep /\ revisions \in Seq(Revisions) /\ requests \in Seq(Requests)
        /\ repo \in Repos /\ source \in Sources
    BY DEF PlanningStep, PlanningTypeOK, TaskTypeOK, Revisions, Sources
  <1>1. ASSUME NEW k \in DOMAIN revisions, revisions'[k] = revisions[k]
        PROVE  Answered(k)'
    <2>1. Answered(k)
      BY <1>1 DEF AnsweredInv
    <2> DEFINE n == revisions[k].of
    <2>2. CASE n # ByHuman
      <3>1. n \in DOMAIN requests /\ n \in DOMAIN requests' /\ Follows(requests[n], requests'[n])
        BY <1>0, <2>1, <2>2 DEF Answered, RequestsStep
      <3> QED
        BY <1>1, <2>1, <2>2, <3>1 DEF Answered, Follows
    <2> QED
      BY <1>1, <2>2 DEF Answered
  <1>2. CASE revisions' = revisions
    BY <1>1, <1>2 DEF AnsweredInv
  <1>3. PICK last \in Nat : last = Len(revisions) + 1
    BY <1>0, LenProperties
  <1>4. ASSUME NEW of \in Nat, NEW ready \in BOOLEAN, Saved(of, ready)
        PROVE  /\ \A k \in DOMAIN revisions : revisions'[k] = revisions[k]
               /\ \A k \in DOMAIN revisions' : k \in DOMAIN revisions \/ k = last
               /\ revisions'[last] = Revision(of, ready)
    <2>1. Revision(of, ready) \in Revisions
      BY <1>0 DEF Revision, Revisions, Sources
    <2>2. revisions' = Append(revisions, Revision(of, ready))
      BY <1>4 DEF Saved
    <2>3. DOMAIN revisions = 1..Len(revisions) /\ Len(revisions) \in Nat
      BY <1>0, LenProperties
    <2> HIDE DEF Saved
    <2> QED
      BY <1>0, <1>3, <2>1, <2>2, <2>3, AppendFacts
  <1>5. ASSUME NEW of \in Nat, NEW ready \in BOOLEAN, Saved(of, ready), Answered(last)'
        PROVE  AnsweredInv'
    <2> SUFFICES ASSUME NEW k \in DOMAIN revisions' PROVE Answered(k)'
      BY DEF AnsweredInv
    <2>1. CASE k = last
      BY <1>5, <2>1
    <2>2. CASE k \in DOMAIN revisions
      BY <1>1, <1>4, <1>5, <2>2
    <2> QED
      BY <1>4, <1>5, <2>1, <2>2
  <1>6. ASSUME NEW ready \in BOOLEAN, Saved(ByHuman, ready)
        PROVE  AnsweredInv'
    <2>1. ByHuman \in Nat
      BY DEF ByHuman
    <2>2. revisions'[last] = Revision(ByHuman, ready)
      BY <1>4, <1>6, <2>1
    <2>3. Answered(last)'
      BY <2>2 DEF Answered, Revision
    <2> QED
      BY <1>5, <1>6, <2>1, <2>3
  <1>7. ASSUME NEW r \in runs, NEW ready \in BOOLEAN, Propose(r, ready)
        PROVE  AnsweredInv'
    <2> DEFINE q == requests[r.of]
    <2>1. /\ r.of \in DOMAIN requests /\ r.of \in Nat /\ Sound(q)
          /\ Saved(r.of, ready) /\ requests' = requests
      BY <1>7 DEF RunsInv, PlanningTypeOK, RequestsInv, Propose, planningVars, planning
    <2>2. /\ q.stage = "planner" /\ q.kind # "comment" /\ work.version = q.version
          /\ repo = q.context.repo /\ source.version = q.context.source
      BY <1>7 DEF Propose, Authorized
    <2>3. q \in Requests
      BY <1>0, <2>1, LenProperties, ElementOfSeq
    <2>4. /\ q.kind = "human" /\ q.triage # None /\ q.spec = last - 1
          /\ q.asked = source.version
      <3>1. Len(revisions) = last - 1
        BY <1>0, <1>3, LenProperties
      <3> QED
        BY <2>1, <2>2, <2>3, <3>1 DEF Sound, Requests
    <2>5. revisions'[last] = Revision(r.of, ready)
      BY <1>4, <2>1
    <2>6. /\ revisions'[last].of = r.of
          /\ revisions'[last].source = source.version /\ revisions'[last].repo = repo
      BY <2>5 DEF Revision
    <2>7. Answered(last)'
      BY <2>1, <2>2, <2>4, <2>6 DEF Answered
    <2> QED
      BY <1>5, <2>1, <2>7
  <1> QED
    BY <1>2, <1>6, <1>7, RevisionStep

-----------------------------------------------------------------------------
(* The rest of the types. *)

LEMMA StepProcess ==
    ASSUME PlanningTypeOK, RunsInv, Next
    PROVE  /\ \A c \in captures' : c.for \in {"ask", "refresh"} /\ c.base \in Repos
           /\ stopping' \in [of : Nat, stage : Stages \cup {"none"}]
           /\ told' \in BOOLEAN /\ comment' \in BOOLEAN /\ up' \in BOOLEAN
  <1> DEFINE Fetches(cs) == \A c \in cs : c.for \in {"ask", "refresh"} /\ c.base \in Repos
             Stops == [of : Nat, stage : Stages \cup {"none"}]
             Goal == /\ Fetches(captures') /\ stopping' \in Stops
                     /\ told' \in BOOLEAN /\ comment' \in BOOLEAN /\ up' \in BOOLEAN
  <1>0. /\ Fetches(captures) /\ stopping \in Stops /\ NoStop \in Stops /\ repo \in Repos
        /\ told \in BOOLEAN /\ comment \in BOOLEAN /\ up \in BOOLEAN
        /\ requests \in Seq(Requests)
    BY DEF PlanningTypeOK, TaskTypeOK, NoStop, None
  <1> USE DEF planningVars, planning, process
  <1>1. ASSUME captures' \subseteq captures, stopping' \in {stopping, NoStop},
               told' \in BOOLEAN, comment' \in BOOLEAN, up' \in BOOLEAN
        PROVE  Goal
    BY <1>0, <1>1
  <1>2. ASSUME NEW for \in {"ask", "refresh"}, Fetch(for)
        PROVE  Goal
    BY <1>0, <1>2 DEF Fetch
  <1>3. CASE Stop
    <2>1. PendingIn(requests)
      BY <1>3 DEF Stop, Pending
    <2>2. Latest \in Nat /\ Request.stage \in Stages
      BY <1>0, <2>1, LenProperties DEF PendingIn, Latest, Request
    <2>3. stopping' \in Stops
      BY <1>0, <1>3, <2>2 DEF Stop
    <2> QED
      BY <1>0, <1>3, <2>3 DEF Stop
  <1>4. CASE \E c \in captures : FetchEnds(c)
    BY <1>0, <1>1, <1>4 DEF FetchEnds
  <1>5. CASE Crash \/ Restart
    BY <1>0, <1>1, <1>5 DEF Crash, Restart, Down
  <1>6. CASE \E end \in {"done", "failed"} : ReadReturns(end)
    BY <1>0, <1>1, <1>6 DEF ReadReturns, Down
  <1>7. CASE TaskStep \/ AskNext \/ CommentArrives \/ AdmitComment \/ Recover
    BY <1>0, <1>1, <1>7 DEF TaskStep, AskNext, CommentArrives, AdmitComment, Recover
  <1>8. CASE (\E retry \in BOOLEAN : Retriage(retry)) \/ (\E c \in Contents : EditSource(c))
    BY <1>0, <1>1, <1>8 DEF Retriage, EditSource
  <1>9. CASE Admit \/ Dispatched \/ AbortReturns \/ CallFails
    BY <1>0, <1>1, <1>9 DEF Admit, Dispatched, AbortReturns, CallFails
  <1>10. CASE StopReturns \/ StopFails
    BY <1>0, <1>1, <1>10 DEF StopReturns, StopFails
  <1>11. CASE \E r \in runs : RecordTriage(r) \/ RunEnds(r) \/ \E b \in BOOLEAN : Propose(r, b)
    BY <1>0, <1>1, <1>11 DEF RecordTriage, RunEnds, Propose
  <1> QED
    BY <1>2, <1>3, <1>4, <1>5, <1>6, <1>7, <1>8, <1>9, <1>10, <1>11 DEF Next

-----------------------------------------------------------------------------
(* The inductive invariant. *)

Inv ==
    /\ PlanningTypeOK /\ ActiveIsCurrent
    /\ BindingInv /\ CapturesInv /\ RunsInv
    /\ RequestsInv /\ AnsweredInv

LEMMA Singleton ==
    ASSUME NEW S, NEW e \in S
    PROVE  <<e>> \in Seq(S) /\ \A n \in DOMAIN <<e>> : <<e>>[n] = e
  OBVIOUS

LEMMA InitInv == PlanningInit => Inv
  <1> SUFFICES ASSUME PlanningInit PROVE Inv
    OBVIOUS
  <1> USE DEF PlanningInit
  <1> DEFINE first == [of |-> ByHuman, ready |-> FALSE, source |-> 1, repo |-> repo]
             q == TriageRequest(work, source, FALSE)
  <1>0. /\ enabled \in BOOLEAN /\ repo \in Repos /\ events \in Nat
        /\ source \in Sources /\ source.version = 1
        /\ work = [life |-> "inbox", version |-> 1] /\ work \in Works
        /\ revisions = <<first>> /\ first \in Revisions /\ releases = <<>>
    BY DEF TaskInit, Sources, Works, Revisions, Lives, Open, ByHuman
  <1> HIDE DEF first
  <1>1. revisions \in Seq(Revisions) /\ Len(revisions) = 1 /\ DOMAIN revisions = {1}
    BY <1>0
  <1>2. releases \in Seq(Releases) /\ DOMAIN releases = {}
    BY <1>0, EmptySeq, LenProperties
  <1>3. TaskTypeOK
    BY <1>0, <1>1, <1>2 DEF TaskTypeOK, Sources, Works, Revisions, Releases
  <1>4. ActiveIsCurrent
    BY <1>2 DEF ActiveIsCurrent, Live
  <1>5. Context(source, None) \in Contexts /\ NoContext \in Contexts
    BY <1>0 DEF Context, Contexts, NoContext, None, Sources
  <1>6. q \in Requests /\ q.kind = "triage" /\ q.stage = "triage"
    BY <1>0, <1>1, <1>5 DEF TriageRequest, Made, Requests, Key, Sources, Stages, None
  <1>7. Sound(q)
    BY <1>0, <1>1, <1>6 DEF Sound, TriageRequest, Made
  <1>8. \/ requests = <<>> /\ driver = "none"
        \/ requests = <<q>> /\ driver = "dispatch"
    OBVIOUS
  <1> HIDE DEF q
  <1>9. requests \in Seq(Requests) /\ \A n \in DOMAIN requests : requests[n] = q
    <2>1. CASE requests = <<>>
      BY <2>1, EmptySeq, LenProperties
    <2>2. CASE requests = <<q>>
      BY <1>6, <2>2, Singleton
    <2> QED
      BY <1>8, <2>1, <2>2
  <1>10. requests = <<q>> => Pending
    <2>1. ASSUME requests = <<q>>
          PROVE  requests # <<>> /\ Len(requests) = 1 /\ requests[1] = q
      BY <2>1
    <2> QED
      BY <1>6, <2>1 DEF Pending, PendingIn, Stages
  <1>11. binding \in Contexts
    BY <1>5
  <1>12. PlanningTypeOK
    BY <1>3, <1>9, <1>11 DEF PlanningTypeOK, NoStop, None
  <1>13. BindingInv /\ CapturesInv
    BY <1>6, <1>9 DEF BindingInv, CapturesInv, Started
  <1>14. RunsInv
    BY <1>8, <1>10 DEF RunsInv, RunsArePending
  <1>15. RequestsInv
    BY <1>7, <1>9 DEF RequestsInv
  <1>16. AnsweredInv
    <2>1. revisions[1].of = ByHuman
      BY <1>0 DEF first
    <2> QED
      BY <1>1, <2>1 DEF AnsweredInv, Answered
  <1> QED
    BY <1>4, <1>12, <1>13, <1>14, <1>15, <1>16 DEF Inv

LEMMA StepInv == Inv /\ [Next]_vars => Inv'
  <1> SUFFICES ASSUME Inv, [Next]_vars PROVE Inv'
    OBVIOUS
  <1> USE DEF Inv
  <1>1. ActiveIsCurrent'
    BY StepIsCurrent
  <1>2. CASE Next
    <2>1. PlanningStep
      BY <1>2, StepPlanning
    <2>2. RunsInv' /\ \A r \in runs' : r \in Runs
      BY <1>2, <2>1, StepRuns DEF PlanningStep
    <2>3. PlanningTypeOK'
      <3>1. TaskTypeOK'
        BY <1>2, TaskType
      <3>2. driver' \in Drives
        BY <1>2, StepDriver
      <3>3. /\ \A c \in captures' : c.for \in {"ask", "refresh"} /\ c.base \in Repos
            /\ stopping' \in [of : Nat, stage : Stages \cup {"none"}]
            /\ told' \in BOOLEAN /\ comment' \in BOOLEAN /\ up' \in BOOLEAN
        BY <1>2, StepProcess
      <3> QED
        BY <2>1, <2>2, <3>1, <3>2, <3>3 DEF PlanningTypeOK, PlanningStep, Drives, Runs
    <2>4. CapturesInv'
      BY <1>2, StepCaptures
    <2>5. RequestsInv'
      BY <1>2, <2>1, StepRequests
    <2>6. AnsweredInv'
      BY <1>2, <2>1, StepAnswered
    <2> QED
      BY <1>1, <2>1, <2>2, <2>3, <2>4, <2>5, <2>6 DEF PlanningStep
  <1>3. CASE UNCHANGED vars
    <2> USE <1>3 DEF vars, taskVars, config, task, planningVars, planning, process
    <2>1. PlanningTypeOK'
      BY DEF PlanningTypeOK, TaskTypeOK
    <2>2. BindingInv' /\ CapturesInv'
      BY DEF BindingInv, CapturesInv, Started
    <2>3. RunsInv'
      BY DEF RunsInv, RunsArePending, Pending, Latest, Request
    <2>4. RequestsInv' /\ AnsweredInv'
      BY DEF RequestsInv, Sound, AnsweredInv, Answered
    <2> QED
      BY <1>1, <2>1, <2>2, <2>3, <2>4
  <1> QED
    BY <1>2, <1>3

\* Every reachable state satisfies the inductive invariant: the shapes of the rows, what
\* a release binds, what a request was asked of and what its run may still write.
THEOREM Invariance == Spec => []Inv
  BY InitInv, StepInv, PTL DEF Spec

-----------------------------------------------------------------------------
(* What it shows. *)

\* The rows of a task and of its planning, and what the server has in hand, keep their
\* shape through every command, poll, call and crash.
THEOREM TypeCorrect == Spec => []PlanningTypeOK
  <1>1. Inv => PlanningTypeOK
    BY DEF Inv
  <1> QED
    BY <1>1, Invariance, PTL

\* A release in force binds the brief and the source as they are, of a queued task with
\* nothing left to review.
THEOREM ReleasesAreCurrent == Spec => []ActiveIsCurrent
  <1>1. Inv => ActiveIsCurrent
    BY DEF Inv
  <1> QED
    BY <1>1, Invariance, PTL

\* A run that goes on at Flue is the pending request's, at its very stage.
THEOREM NoStrayRun == Spec => []RunsArePending
  <1>1. Inv => RunsArePending
    BY DEF Inv, RunsInv
  <1> QED
    BY <1>1, Invariance, PTL

\* A revision written by a model answers one request of a human, made upon the brief,
\* the source and the repository that the revision follows.
THEOREM ModelsAnswer == Spec => []RevisionsAreAsked
  <1>1. Inv => RevisionsAreAsked
    BY DEF Inv, AnsweredInv, Answered, RevisionsAreAsked
  <1> QED
    BY <1>1, Invariance, PTL

\* The commit a human's request is pinned to was fetched from the repository its context
\* names.
THEOREM CommitIsPinned == Spec => []BaselineIsOfRepo
  <1>1. Inv => BaselineIsOfRepo
    BY DEF Inv, RequestsInv, Sound, BaselineIsOfRepo
  <1> QED
    BY <1>1, Invariance, PTL
=============================================================================
