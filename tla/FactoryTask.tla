------------------------------ MODULE FactoryTask ------------------------------
(***************************************************************************)
(* One factory task, src/src/modules/factory/service.ts: the source it comes  *)
(* from, the work item, the immutable revisions of its brief and the releases *)
(* by which the human lets it be coded.  Whatever changes the brief, the      *)
(* source or the repository takes the release back, and counts a version of   *)
(* the task; a configuration file edited by hand does neither.  A repository  *)
(* stands for the fingerprint of its registration.                            *)
(***************************************************************************)
EXTENDS Naturals, Sequences

CONSTANTS
    Contents,       \* what the title and body of the source say
    Repos,          \* what the registration of the repository says
    MaxEvents       \* bound: what humans, providers and the configuration do to the task

ASSUME TaskAssumption == Contents # {} /\ Repos # {} /\ MaxEvents \in Nat

Open == {"inbox", "shaping"}
Lives == Open \cup {"queued", "paused", "closed"}

VARIABLES
    enabled,    \* factory.enabled of the configuration
    repo,       \* the registration of the task's repository
    source,     \* the row of the source
    work,       \* the row of the task: [life, version]
    revisions,  \* the brief's revisions; the task's specVersion is their number
    releases,   \* the human's decisions
    events      \* how much has happened

config == <<enabled, repo>>
task == <<source, work, revisions, releases>>
taskVars == <<config, task, events>>

\* The request of a model revision: none for the human's and the source's own.
ByHuman == 0

Revision(of, ready) ==
    [of |-> of, ready |-> ready, source |-> source.version, repo |-> repo]

TaskInit ==
    /\ enabled = TRUE /\ repo \in Repos
    /\ \E p \in {"manual", "github"}, c \in Contents :
           source = [provider |-> p, content |-> c, version |-> 1,
                     status |-> "open", attention |-> "none"]
    /\ work = [life |-> "inbox", version |-> 1]
    /\ revisions = <<[of |-> ByHuman, ready |-> FALSE, source |-> 1, repo |-> repo]>>
    /\ releases = <<>>
    /\ events = 0

Event == events < MaxEvents /\ events' = events + 1

Brief == revisions[Len(revisions)]

\* withdraw
Withdrawn(rs) == [k \in DOMAIN rs |-> [rs[k] EXCEPT !.live = FALSE]]

Put(life) == work' = [life |-> life, version |-> work.version + 1]

\* A released task goes back to shaping, any other stays where it is.
Unqueued == IF work.life = "queued" THEN "shaping" ELSE work.life

\* Mutant: what the human was asked to review does not block.
BlockedByState ==
    \/ ~enabled \/ source.status = "closed" \/ work.life \in {"paused", "closed"}
    \/ Brief.source # source.version \/ Brief.repo # repo
    \/ ~Brief.ready

\* The blockers of detail.
Blocked ==
    \/ ~enabled
    \/ source.attention # "none" \/ source.status = "closed"
    \/ work.life \in {"paused", "closed"}
    \/ Brief.source # source.version \/ Brief.repo # repo
    \/ ~Brief.ready

Live == {k \in DOMAIN releases : releases[k].live}

\* What detail answers to whoever would code the task.
Eligible ==
    /\ work.life = "queued" /\ ~Blocked
    /\ \E k \in Live : /\ releases[k].spec = Len(revisions)
                       /\ releases[k].source = source.version
                       /\ releases[k].repo = repo

\* saveSpecInTransaction: a new revision clears the request for one.
Saved(of, ready) ==
    /\ enabled /\ work.life # "closed"
    /\ releases' = Withdrawn(releases)
    /\ source' = [source EXCEPT !.attention = IF @ = "review" THEN "none" ELSE @]
    /\ revisions' = Append(revisions, Revision(of, ready))
    /\ Put(IF work.life = "paused" THEN "paused" ELSE "shaping")
    /\ UNCHANGED config

\* saveFactorySpec.  An open decision that blocks leaves the brief unready.
SaveSpec(ready) == Event /\ Saved(ByHuman, ready)

\* releaseFactoryWork
Release ==
    /\ ~Blocked /\ Live = {}
    /\ releases' = Append(releases, [live |-> TRUE, spec |-> Len(revisions),
                                     source |-> source.version, repo |-> repo])
    /\ Put("queued")
    /\ UNCHANGED <<config, source, revisions, events>>

\* transitionFactoryWork: what each asks of the task, and where it leads.
Allowed(action) ==
    CASE action = "withdraw" -> work.life = "queued"
      [] action = "pause"    -> work.life # "closed"
      [] action = "close"    -> TRUE
      [] action = "reopen"   -> enabled /\ work.life \in {"paused", "closed"}
Leads(action) ==
    CASE action = "pause" -> "paused" [] action = "close" -> "closed" [] OTHER -> "shaping"

\* Closing and reopening a manual task closes and opens its source with it.
Transition(action) ==
    /\ Event /\ Allowed(action)
    /\ releases' = Withdrawn(releases)
    /\ source' = IF /\ source.provider = "manual"
                    /\ action = "close" \/ (action = "reopen" /\ work.life = "closed")
                 THEN [source EXCEPT !.version = @ + 1,
                           !.status = IF action = "close" THEN "closed" ELSE "open"]
                 ELSE source
    /\ Put(Leads(action))
    /\ UNCHANGED <<config, revisions>>

\* updateFactorySource
UpdateSource(content) ==
    /\ Event /\ enabled
    /\ source.provider = "manual" /\ content # source.content /\ work.life # "closed"
    /\ releases' = Withdrawn(releases)
    /\ source' = [source EXCEPT !.content = content, !.version = @ + 1]
    /\ Put(Unqueued)
    /\ UNCHANGED <<config, revisions>>

\* Where a reading of the issue leaves the task.
Reconciled(status) ==
    IF status = "closed" THEN "paused"
    ELSE IF source.status = "closed" THEN "shaping" ELSE Unqueued

\* reconcileGitHubSource.  A change at the timestamp of the last reading is a conflict
\* the human must look at; another attention ends with a reading that succeeds.
Reconcile(content, status, conflict) ==
    LET changed == <<content, status>> # <<source.content, source.status>>
    IN  /\ Event /\ source.provider = "github"
        /\ conflict => changed
        /\ source' = [source EXCEPT
               !.content = content, !.status = status,
               !.version = IF changed THEN @ + 1 ELSE @,
               !.attention = IF conflict \/ @ = "review" THEN "review" ELSE "none"]
        /\ IF changed THEN /\ releases' = Withdrawn(releases)
                           /\ Put(Reconciled(status))
                      ELSE UNCHANGED <<releases, work>>
        /\ UNCHANGED <<config, revisions>>

\* markSourceAttention: the connection has changed, a comment was deleted ("review"),
\* or the issue can no longer be read ("other").
MarkAttention(reason) ==
    /\ Event /\ source.provider = "github"
    /\ source' = [source EXCEPT !.attention = reason, !.version = @ + 1]
    /\ releases' = Withdrawn(releases)
    /\ Put(Unqueued)
    /\ UNCHANGED <<config, revisions>>

\* invalidateFactoryRepoContext, and the registry file written after it, unless that
\* fails: the release is gone all the same.
ChangeRepo(r) ==
    /\ Event
    /\ source' = [source EXCEPT !.version = @ + 1,
                      !.attention = IF @ = "none" THEN "review" ELSE @]
    /\ releases' = Withdrawn(releases)
    /\ Put(work.life)
    /\ repo' = r
    /\ UNCHANGED <<enabled, revisions>>

\* The enable switch, and the registry edited by hand: no task is touched.
Switch == Event /\ enabled' = ~enabled /\ UNCHANGED <<repo, task>>
EditRegistry(r) == Event /\ r # repo /\ repo' = r /\ UNCHANGED <<enabled, task>>

----------------------------------------------------------------------------
(* Properties *)

\* The rows of the task.
TaskTypeOK ==
    /\ enabled \in BOOLEAN /\ repo \in Repos /\ events \in Nat
    /\ source \in [provider : {"manual", "github"}, content : Contents, version : Nat,
                   status : {"open", "closed"}, attention : {"none", "review", "other"}]
    /\ work \in [life : Lives, version : Nat]
    /\ revisions \in Seq([of : Nat, ready : BOOLEAN, source : Nat, repo : Repos])
    /\ releases \in Seq([live : BOOLEAN, spec : Nat, source : Nat, repo : Repos])

\* A release in force is the last one given, of a queued task, and binds the brief and
\* the source as they are, with nothing left for the human to review: no change of
\* either, no closure and no attention leaves an approval standing behind it.
ActiveIsCurrent ==
    \A k \in Live :
        /\ k = Len(releases) /\ work.life = "queued"
        /\ releases[k].spec = Len(revisions) /\ releases[k].source = source.version
        /\ Brief.ready /\ Brief.source = source.version
        /\ source.status = "open" /\ source.attention = "none"
=============================================================================
