----------------------- MODULE FactoryWriteback_proofs -----------------------
(***************************************************************************)
(* Proofs about the write-back of a task, for any bodies and any number of   *)
(* effects and events: types, the fence before a request, the overwriting of  *)
(* comments, receipts and echoes, and how often something is posted.          *)
(***************************************************************************)
EXTENDS FactoryWriteback, FiniteSetTheorems, SequenceTheorems, WellFoundedInduction, TLAPS

-----------------------------------------------------------------------------
(* The inductive invariant. *)

\* The effects made so far are the first ones; what is not made has no trace.
Untouched(n) == comments[n] = [live |-> FALSE, posts |-> 0, log |-> <<>>]
MadeInv ==
    /\ \E k \in 0..MaxEffects : Made = 1..k
    /\ \A n \in Effects \ Made :
          effects[n] = NoEffect /\ request[n] = NoRequest /\ Untouched(n)

\* A row in another state.
With(r, s) == [r EXCEPT !.state = s]

\* The runner holds a copy of a row, of which only the state may have changed since.
InHand(n) == run.at \in {"sending", "recalling", "verifying"} /\ run.on = n
HandInv ==
    run.at # "idle" =>
        /\ run.on \in Made
        /\ run.e = With(effects[run.on], run.e.state)
        /\ run.e.approval = "missing" => run.e.remote = None
        /\ run.at \in {"probing", "fencing"} =>
              /\ run.e.state = "pending"
              /\ effects[run.on].state \in {"pending", "cancelled", "repair"}
        /\ run.at \in {"sending", "recalling", "verifying"} =>
              /\ run.e.state \in Dispatched
              /\ \/ effects[run.on].state \in Dispatched
                 \/ /\ effects[run.on].state = "cancelled"
                    /\ run.e.kind = "status" => status.relinquished
        /\ run.at = "verifying" => run.e.remote = None /\ run.found \in Effects

\* What its text says, and which approvals a row may have.
KindInv ==
    \A n \in Made :
        /\ effects[n].kind = "status" => effects[n].text.body \in Bodies
        /\ effects[n].kind = "question" =>
              effects[n].text.body = "question" /\ effects[n].approval = "none"
        /\ effects[n].approval = "observed" => effects[n].remote # None
        /\ effects[n].state = "sent" => effects[n].remote # None
        /\ effects[n].approval = "missing" /\ effects[n].remote # None =>
              effects[n].state \in {"sent", "repair", "cancelled"}

\* An effect without a comment of its own to edit posts one, and only when it is met.
PostInv ==
    \A n \in Effects :
        /\ comments[n].posts <= 1
        /\ comments[n].live => Created(n)
        /\ effects[n].remote = None =>
              /\ request[n].status # "met" => Untouched(n)
              /\ request[n].status = "met" => Created(n)
              /\ request[n].status # "missing"
              /\ effects[n].state \in {"none", "pending", "failed", "repair"} =>
                    request[n].status \in {"none", "rejected"}

\* Whose comments the status is shown in.
Shows(c) == c \in Effects /\ Created(c) /\ effects[c].kind = "status"
RemoteInv ==
    /\ status.remote # None => Shows(status.remote)
    /\ \A n \in Made : effects[n].remote # None => Created(effects[n].remote)
    /\ \A n \in StatusEffects : effects[n].remote # None =>
          status.remote # None /\ Shows(effects[n].remote)
    /\ \A n \in Made : effects[n].approval = "missing" => status.remote # None
    /\ preview # NoPreview => status.remote # None /\ Shows(preview.remote)
    /\ \A c \in Effects : \A k \in DOMAIN comments[c].log :
          comments[c].log[k].body \in Bodies => effects[c].kind = "status"

\* One effect at most creates the status comment without a repair: as long as it may
\* still do so no other is queued, and once a comment is known it is settled.
First(n) == n \in StatusEffects /\ effects[n].approval # "missing"
InPlay(n) ==
    /\ effects[n].remote = None
    /\ \/ effects[n].state \in {"pending", "failed", "sending", "uncertain", "repair"}
       \/ request[n].status \notin {"none", "rejected"}
       \/ InHand(n)
Creates(n) == First(n) /\ (InPlay(n) \/ Created(n))
FirstInv ==
    /\ \A n, m \in Effects : Creates(n) /\ Creates(m) => n = m
    /\ \A n \in Effects : First(n) /\ InPlay(n) =>
          /\ status.remote = None
          /\ effects[n].state = "cancelled" => status.relinquished

\* What is posted for a missing comment is posted when the first one is gone for good.
Launched(n) ==
    /\ n \in Made /\ effects[n].approval = "missing"
    /\ \/ Created(n)
       \/ /\ effects[n].remote = None
          /\ \/ request[n].status \in {"sent", "met", "lost"}
             \/ run.at = "fencing" /\ run.on = n
RepairInv ==
    /\ (\E n \in Effects : Launched(n)) => \A c \in Effects : First(c) => ~comments[c].live
    /\ status.remote # None =>
          \A c \in Effects : First(c) /\ comments[c].live => c = status.remote

\* What the answer of GitHub will say, and what a receipt has said.
Target(n) == IF effects[n].remote = None THEN n ELSE effects[n].remote
AnswerInv ==
    run.at = "sending" /\ request[run.on].status = "met" =>
        /\ request[run.on].rev \in 1..Rev(Target(run.on))
        /\ comments[Target(run.on)].log[request[run.on].rev] = run.e.text
ReceiptInv ==
    \A n \in Made : effects[n].state = "sent" =>
        LET c == effects[n].remote
        IN  /\ effects[n].rev \in 1..Rev(c)
            /\ effects[n].expects = comments[c].log[effects[n].rev]
            /\ effects[n].text = effects[n].expects

\* A foreign edit that the runner has not seen is noted at the request it races.
RaceInv ==
    \A n \in Made : Undone(n) /\ effects[n].remote # None =>
        LET c == effects[n].remote
        IN  Now(c) = Foreign => Rev(c) = effects[n].rev \/ request[n].raced

Inv ==
    /\ WritebackTypeOK /\ MadeInv /\ HandInv /\ KindInv /\ PostInv /\ RemoteInv
    /\ FirstInv /\ RepairInv /\ AnswerInv /\ ReceiptInv /\ RaceInv /\ ReceiptsAreEchoes

-----------------------------------------------------------------------------
(* Sequences of texts, records of rows. *)

LEMMA LogFacts ==
    ASSUME NEW s \in Seq(Texts), NEW t \in Texts
    PROVE  /\ Len(s) \in Nat
           /\ DOMAIN s = 1..Len(s)
           /\ \A k \in 1..Len(s) : s[k] \in Texts
           /\ Append(s, t) \in Seq(Texts)
           /\ Len(Append(s, t)) = Len(s) + 1
           /\ DOMAIN Append(s, t) = 1..(Len(s) + 1)
           /\ \A k \in 1..Len(s) : Append(s, t)[k] = s[k]
           /\ Append(s, t)[Len(s) + 1] = t
  <1>1. Append(s, t) \in Seq(Texts) /\ Len(Append(s, t)) = Len(s) + 1
    BY AppendProperties
  <1>2. Len(s) \in Nat /\ DOMAIN s = 1..Len(s) /\ s \in [1..Len(s) -> Texts]
    BY LenProperties
  <1>3. DOMAIN Append(s, t) = 1..(Len(s) + 1)
    BY <1>1, LenProperties
  <1> QED
    BY <1>1, <1>2, <1>3, AppendProperties

States == {"none", "pending", "sending", "uncertain", "sent", "failed", "repair", "cancelled"}

LEMMA RowFacts ==
    \A r \in Rows :
        /\ r.state \in States
        /\ With(r, r.state) = r
        /\ \A s \in States :
              LET w == With(r, s)
              IN  /\ w \in Rows /\ w.state = s
                  /\ w.kind = r.kind /\ w.text = r.text /\ w.approval = r.approval
                  /\ w.remote = r.remote /\ w.expects = r.expects /\ w.rev = r.rev
                  /\ w.epoch = r.epoch /\ w.version = r.version /\ w.source = r.source
                  /\ w.mapping = r.mapping
                  /\ \A t \in States : With(w, t) = With(r, t)
  <1> SUFFICES ASSUME NEW r \in Rows
               PROVE  /\ r.state \in States
                      /\ With(r, r.state) = r
                      /\ \A s \in States :
                            LET w == With(r, s)
                            IN  /\ w \in Rows /\ w.state = s
                                /\ w.kind = r.kind /\ w.text = r.text
                                /\ w.approval = r.approval
                                /\ w.remote = r.remote /\ w.expects = r.expects
                                /\ w.rev = r.rev /\ w.epoch = r.epoch
                                /\ w.version = r.version /\ w.source = r.source
                                /\ w.mapping = r.mapping
                                /\ \A t \in States : With(w, t) = With(r, t)
    OBVIOUS
  <1>1. r.state \in States /\ With(r, r.state) = r
    BY DEF Rows, States, With
  <1>2. ASSUME NEW s \in States
        PROVE  LET w == With(r, s)
               IN  /\ w \in Rows /\ w.state = s
                   /\ w.kind = r.kind /\ w.text = r.text /\ w.approval = r.approval
                   /\ w.remote = r.remote /\ w.expects = r.expects /\ w.rev = r.rev
                   /\ w.epoch = r.epoch /\ w.version = r.version /\ w.source = r.source
                   /\ w.mapping = r.mapping
    BY DEF Rows, States, With
  <1>3. ASSUME NEW s \in States, NEW t \in States PROVE With(With(r, s), t) = With(r, t)
    BY DEF Rows, With
  <1> QED
    BY <1>1, <1>2, <1>3

LEMMA MadeFacts ==
    ASSUME WritebackTypeOK, MadeInv
    PROVE  /\ Last \in 0..MaxEffects
           /\ Made = 1..Last
           /\ \A n \in Effects : n \in Made <=> n <= Last
           /\ Room => Last + 1 \in Effects \ Made
  <1>1. PICK k \in 0..MaxEffects : Made = 1..k
    BY DEF MadeInv
  <1>2. k \in Nat /\ MaxEffects \in Nat
    BY BoundsAssumption
  <1>3. Cardinality(1..k) = k
    BY <1>2, FS_Interval
  <1>4. Last = k
    BY <1>1, <1>3 DEF Last
  <1> QED
    BY <1>1, <1>2, <1>4 DEF Room, Effects

LEMMA EffectFacts ==
    ASSUME WritebackTypeOK, NEW k \in {"status", "question"}, NEW t \in Texts,
           NEW a \in {"none", "observed", "missing"}, NEW c \in Effects \cup {None},
           NEW x \in Texts, NEW v \in Nat
    PROVE  /\ Effect(k, t, a, c, x, v) \in Rows
           /\ Effect(k, t, a, c, x, v).state = "pending"
           /\ Effect(k, t, a, c, x, v).kind = k
           /\ Effect(k, t, a, c, x, v).text = t
           /\ Effect(k, t, a, c, x, v).approval = a
           /\ Effect(k, t, a, c, x, v).remote = c
           /\ Effect(k, t, a, c, x, v).rev = v
  BY DEF WritebackTypeOK, Effect, Rows

LEMMA TextFacts ==
    ASSUME WritebackTypeOK
    PROVE  /\ \A b \in Bodies \cup {"question", "foreign", "none"}, m \in Effects \cup {None} :
                 /\ Text(b, m) \in Texts
                 /\ Text(b, m).body = b
           /\ Foreign \in Texts /\ NoText \in Texts
           /\ template \in Bodies
           /\ \A c \in Effects : /\ Rev(c) \in Nat
                                 /\ DOMAIN comments[c].log = 1..Rev(c)
                                 /\ comments[c].log \in Seq(Texts)
                                 /\ Created(c) => Now(c) \in Texts
  <1>1. \A b \in Bodies \cup {"question", "foreign", "none"}, m \in Effects \cup {None} :
           Text(b, m) \in Texts /\ Text(b, m).body = b
    BY DEF Text, Texts
  <1>2. Foreign \in Texts /\ NoText \in Texts
    BY <1>1 DEF Foreign, NoText
  <1>3. ASSUME NEW c \in Effects
        PROVE  /\ Rev(c) \in Nat
               /\ DOMAIN comments[c].log = 1..Rev(c)
               /\ comments[c].log \in Seq(Texts)
               /\ Created(c) => Now(c) \in Texts
    <2>1. comments[c].log \in Seq(Texts)
      BY DEF WritebackTypeOK
    <2> QED
      BY <2>1, LenProperties DEF Rev, Created, Now
  <1> QED
    BY <1>1, <1>2, <1>3 DEF WritebackTypeOK

-----------------------------------------------------------------------------
(* The rows: what the human, the policy, the queue and ingestion do to them. *)

\* What may become of a row that is there.
Moved(n) ==
    LET s == effects[n].state
        t == effects'[n].state
    IN  /\ effects'[n] = With(effects[n], t)
        /\ \/ t = s
           \/ s \in {"pending", "failed", "repair"} /\ t \in {"repair", "cancelled"}
           \/ s = "failed" /\ t = "pending"
           \/ s \in Dispatched /\ t = "uncertain" /\ run.at = "idle"
           \/ s # "none" /\ t = "cancelled"
              /\ (effects[n].kind = "status" => status'.relinquished)

\* What may be new.
IsQuestion(r) ==
    /\ r.kind = "question" /\ r.text.body = "question" /\ r.approval = "none"
    /\ r.remote = None /\ r.state = "pending"
IsUpdate(r) ==
    /\ r.kind = "status" /\ r.text.body \in Bodies /\ r.approval = "none"
    /\ r.remote = status.remote /\ r.state = "pending"
    /\ run.at = "idle" /\ ~status.relinquished /\ ~status'.relinquished
    /\ \A m \in StatusEffects : effects'[m].state \in {"sent", "cancelled"}
IsRepair(r) ==
    /\ r.kind = "status" /\ r.text.body \in Bodies /\ r.state = "pending"
    /\ preview # NoPreview
    /\ \/ r.approval = "observed" /\ r.remote = preview.remote
       \/ r.approval = "missing" /\ r.remote = None
IsCopy(r) ==
    /\ r.kind = "status" /\ r.text.body \in Bodies /\ r.state = "repair"
    /\ r.remote # None
    /\ \E m \in StatusEffects : r.remote = effects[m].remote /\ r.approval = effects[m].approval
New(r) == r \in Rows /\ (IsQuestion(r) \/ IsUpdate(r) \/ IsRepair(r) \/ IsCopy(r))

RowsMove ==
    /\ effects' \in [Effects -> Rows]
    /\ \A n \in Made : Moved(n)
    /\ \/ \A n \in Effects \ Made : effects'[n] = effects[n]
       \/ /\ Room
          /\ New(effects'[Last + 1])
          /\ \A n \in Effects \ Made : n # Last + 1 => effects'[n] = effects[n]

\* The status keeps its comment, and its management may be given up.
StatusKept ==
    /\ status'.remote = status.remote
    /\ status.relinquished => status'.relinquished

Picks ==
    /\ run.at = "idle"
    /\ \E n \in Effects :
          \/ effects'[n].state \in Dispatched
             /\ run' = [at |-> "recalling", on |-> n, e |-> effects'[n], found |-> None]
          \/ effects'[n].state = "pending"
             /\ run' = [at |-> "probing", on |-> n, e |-> effects'[n], found |-> None]

RowsStep ==
    /\ RowsMove /\ StatusKept
    /\ UNCHANGED run \/ Picks
    /\ preview' # preview => preview'.remote = status.remote /\ status.remote # None
    /\ UNCHANGED <<comments, request>>

LEMMA Unmoved ==
    ASSUME WritebackTypeOK, NEW n \in Effects, effects'[n] = effects[n]
    PROVE  Moved(n)
  <1>1. effects[n] \in Rows
    BY DEF WritebackTypeOK
  <1> QED
    BY <1>1, RowFacts DEF Moved

LEMMA QueuedFacts ==
    ASSUME WritebackTypeOK, MadeInv, KindInv, run.at = "idle", Renewing => Room
    PROVE  /\ Queued \in [Effects -> Rows]
           /\ \A n \in Made :
                 \/ Queued[n] = effects[n]
                 \/ /\ effects[n].state \in {"pending", "failed"}
                    /\ \E t \in {"repair", "cancelled"} :
                          Queued[n] = With(effects[n], t)
           /\ \A n \in Effects \ Made : Queued[n] = effects[n] \/ (Renewing /\ n = Last + 1)
           /\ Renewing =>
                 /\ Queued[Last + 1] = Update
                 /\ Update \in Rows /\ Authorized(Update) /\ Update.state = "pending"
                 /\ Update.kind = "status" /\ Update.text.body \in Bodies
                 /\ Update.approval = "none" /\ Update.remote = status.remote
                 /\ ~status.relinquished
                 /\ \A m \in StatusEffects : Queued[m].state \in {"sent", "cancelled"}
  <1>1. status.remote \in Effects \cup {None} /\ status.marker \in Effects \cup {None}
        /\ status.text \in Texts /\ status.rev \in Nat
    BY DEF WritebackTypeOK
  <1>2. Text(template, status.marker) \in Texts /\ Text(template, status.marker).body = template
        /\ template \in Bodies
    BY <1>1, TextFacts
  <1>3. /\ Update \in Rows /\ Update.state = "pending" /\ Update.kind = "status"
        /\ Update.text.body \in Bodies
        /\ Update.approval = "none" /\ Update.remote = status.remote
    <2>1. NoText \in Texts /\ None \in Effects \cup {None}
      BY TextFacts
    <2>2. Update = Effect("status", Text(template, status.marker), "none",
                          status.remote, status.text, status.rev)
      BY DEF Update
    <2> HIDE DEF None
    <2> QED
      BY <1>1, <1>2, <2>1, <2>2, EffectFacts
  <1>4. Renewing => Authorized(Update) /\ ~status.relinquished
    BY <1>2 DEF Renewing, Free, Queueing, Authorized, Update, Effect
  <1>5. /\ Made \subseteq Effects /\ Lapsed \subseteq Made
        /\ \A n \in Lapsed : effects[n].state = "pending"
        /\ Renewing => Last + 1 \in Effects \ Made
    BY MadeFacts DEF Made, Lapsed, PendingRepairs, StatusEffects
  <1>6. ASSUME NEW n \in Made
        PROVE  \/ Queued[n] = effects[n]
               \/ /\ effects[n].state \in {"pending", "failed"}
                  /\ \E t \in {"repair", "cancelled"} :
                        Queued[n] = With(effects[n], t)
    <2>1. ~(Renewing /\ n = Last + 1) /\ n \in Effects
      BY <1>5
    <2>2. Superseded(n) => effects[n].state \in {"pending", "failed"}
      BY DEF Superseded, Waiting
    <2> QED
      BY <1>5, <2>1, <2>2 DEF Queued, With
  <1>7. ASSUME NEW n \in Effects \ Made
        PROVE  Queued[n] = effects[n] \/ (Renewing /\ n = Last + 1)
    BY <1>5 DEF Queued
  <1>8. Renewing => Queued[Last + 1] = Update
    BY <1>5 DEF Queued
  <1>9. Queued \in [Effects -> Rows]
    <2>1. \A n \in Effects : Queued[n] \in Rows
      <3> SUFFICES ASSUME NEW n \in Effects PROVE Queued[n] \in Rows
        OBVIOUS
      <3>1. effects[n] \in Rows
        BY DEF WritebackTypeOK
      <3>2. \A t \in {"repair", "cancelled"} : With(effects[n], t) \in Rows
        BY <3>1, RowFacts DEF States
      <3> QED
        BY <1>3, <1>6, <1>7, <1>8, <3>1, <3>2
    <2> QED
      BY <2>1 DEF Queued
  <1>10. ASSUME Renewing, NEW m \in StatusEffects
         PROVE  Queued[m].state \in {"sent", "cancelled"}
    <2>1. Free /\ Queueing /\ m \in Made /\ effects[m].state # "none" /\ effects[m] \in Rows
      BY <1>10 DEF Renewing, Free, StatusEffects, Made, WritebackTypeOK
    <2>2. ~Blocking(m)
      BY <2>1 DEF Free
    <2>3. effects[m].state \in {"pending", "failed", "sent", "cancelled"}
      BY <2>1, <2>2 DEF Blocking, Rows
    <2>4. m \notin Lapsed
      BY <2>1 DEF Lapsed, Queueing
    <2>5. CASE effects[m].state \in {"pending", "failed"}
      <3>1. Superseded(m)
        BY <2>1, <2>2, <2>5 DEF Superseded, Waiting
      <3>2. Queued[m] = With(effects[m], "cancelled")
        BY <1>5, <2>1, <2>4, <3>1 DEF Queued, With
      <3> QED
        BY <2>1, <3>2, RowFacts DEF States
    <2>6. CASE effects[m].state \in {"sent", "cancelled"}
      BY <2>1, <2>6, <1>6
    <2> QED
      BY <2>3, <2>5, <2>6
  <1> QED
    BY <1>3, <1>4, <1>6, <1>7, <1>8, <1>9, <1>10

\* The queue moves rows and may append an update; the runner may refuse one of them.
LEMMA QueueMoves ==
    ASSUME WritebackTypeOK, MadeInv, KindInv, run.at = "idle", Renewing => Room,
           UNCHANGED status,
           \/ effects' = Queued
           \/ \E n \in Effects, t \in {"repair", "cancelled"} :
                 /\ Queued[n].state = "pending" /\ ~Authorized(Queued[n])
                 /\ effects' = [Queued EXCEPT ![n].state = t]
           \/ \E n \in Effects :
                 /\ Queued[n].state \in Dispatched
                 /\ effects' = [Queued EXCEPT ![n].state = "uncertain"]
    PROVE  RowsMove
  <1> DEFINE Kept(m) == effects'[m] = Queued[m]
             Cut(m) == /\ Queued[m].state = "pending" /\ ~Authorized(Queued[m])
                       /\ \E t \in {"repair", "cancelled"} : effects'[m] = With(Queued[m], t)
             Doubt(m) == /\ Queued[m].state \in Dispatched
                         /\ effects'[m] = With(Queued[m], "uncertain")
  <1>1. \A m \in Effects : Queued[m] \in Rows /\ effects[m] \in Rows
    BY QueuedFacts DEF WritebackTypeOK
  <1>2. effects' \in [Effects -> Rows] /\ \A m \in Effects : Kept(m) \/ Cut(m) \/ Doubt(m)
    <2>1. Queued \in [Effects -> Rows]
      BY QueuedFacts
    <2>2. CASE effects' = Queued
      BY <2>1, <2>2
    <2>3. ASSUME NEW n \in Effects, NEW t \in {"repair", "cancelled"},
                 Queued[n].state = "pending" /\ ~Authorized(Queued[n]),
                 effects' = [Queued EXCEPT ![n].state = t]
          PROVE  effects' \in [Effects -> Rows] /\ \A m \in Effects : Kept(m) \/ Cut(m) \/ Doubt(m)
      <3>1. effects' = [Queued EXCEPT ![n] = With(Queued[n], t)]
        BY <2>3 DEF With
      <3>2. With(Queued[n], t) \in Rows
        BY <1>1, RowFacts DEF States
      <3> QED
        BY <2>1, <2>3, <3>1, <3>2
    <2>4. ASSUME NEW n \in Effects, Queued[n].state \in Dispatched,
                 effects' = [Queued EXCEPT ![n].state = "uncertain"]
          PROVE  effects' \in [Effects -> Rows] /\ \A m \in Effects : Kept(m) \/ Cut(m) \/ Doubt(m)
      <3>1. effects' = [Queued EXCEPT ![n] = With(Queued[n], "uncertain")]
        BY <2>4 DEF With
      <3>2. With(Queued[n], "uncertain") \in Rows
        BY <1>1, RowFacts DEF States
      <3> QED
        BY <2>1, <2>4, <3>1, <3>2
    <2> QED
      BY <2>2, <2>3, <2>4
  <1>3. Made \subseteq Effects
    BY DEF Made
  <1>4. ASSUME NEW m \in Made PROVE Moved(m)
    <2>1. m \in Effects /\ effects[m] \in Rows /\ Queued[m] \in Rows
      BY <1>1, <1>3
    <2>2. \/ Queued[m] = effects[m]
          \/ /\ effects[m].state \in {"pending", "failed"}
             /\ \E u \in {"repair", "cancelled"} : Queued[m] = With(effects[m], u)
      BY QueuedFacts
    <2>3. CASE Kept(m)
      BY <2>1, <2>2, <2>3, RowFacts DEF Moved, States
    <2>4. CASE Cut(m)
      <3>1. Queued[m] = effects[m] /\ effects[m].state = "pending"
        BY <2>1, <2>2, <2>4, RowFacts DEF States
      <3> QED
        BY <2>1, <2>4, <3>1, RowFacts DEF Moved, States
    <2>5. CASE Doubt(m)
      <3>1. Queued[m] = effects[m]
        BY <2>1, <2>2, <2>5, RowFacts DEF States, Dispatched
      <3> QED
        BY <2>1, <2>5, <3>1, RowFacts DEF Moved, States
    <2> QED
      BY <1>2, <2>1, <2>3, <2>4, <2>5
  <1>5. CASE Renewing
    <2>1. Last + 1 \in Effects \ Made /\ Room
      BY <1>5, MadeFacts
    <2>2. effects'[Last + 1] = Update
      BY <1>2, <1>5, <2>1, QueuedFacts DEF Dispatched
    <2>3. ASSUME NEW m \in StatusEffects PROVE effects'[m].state \in {"sent", "cancelled"}
      <3>1. m \in Effects /\ Queued[m].state \in {"sent", "cancelled"}
        BY <1>3, <1>5, QueuedFacts DEF StatusEffects
      <3> QED
        BY <1>2, <3>1 DEF Dispatched
    <2>4. New(effects'[Last + 1])
      BY <1>5, <2>2, <2>3, QueuedFacts DEF New, IsUpdate
    <2>5. ASSUME NEW m \in Effects \ Made, m # Last + 1 PROVE effects'[m] = effects[m]
      <3>1. Queued[m] = effects[m] /\ effects[m].state = "none"
        BY <2>5, QueuedFacts DEF Made
      <3> QED
        BY <1>2, <3>1 DEF Dispatched
    <2> QED
      BY <1>2, <1>4, <2>1, <2>4, <2>5 DEF RowsMove
  <1>6. CASE ~Renewing
    <2>1. ASSUME NEW m \in Effects \ Made PROVE effects'[m] = effects[m]
      <3>1. Queued[m] = effects[m] /\ effects[m].state = "none"
        BY <1>6, QueuedFacts DEF Made
      <3> QED
        BY <1>2, <3>1 DEF Dispatched
    <2> QED
      BY <1>2, <1>4, <2>1 DEF RowsMove
  <1> QED
    BY <1>5, <1>6

\* A set of effects that is not empty has a last one.
LEMMA LastOf ==
    ASSUME NEW S, S \subseteq Effects, S # {}
    PROVE  \E n \in S : \A m \in S : m <= n
  <1>1. MaxEffects \in Nat
    BY BoundsAssumption
  <1> DEFINE T == {MaxEffects - n : n \in S}
  <1>2. T \subseteq Nat /\ T # {}
    <2>1. \A n \in S : n \in 1..MaxEffects
      BY DEF Effects
    <2>2. \A n \in S : MaxEffects - n \in Nat
      BY <1>1, <2>1
    <2> QED
      BY <2>2
  <1>3. PICK x \in T : \A y \in T : ~(<<y, x>> \in OpToRel(<, Nat))
    BY <1>2, NatLessThanWellFounded, WFMin
  <1>4. ASSUME NEW y \in T PROVE x <= y
    <2>1. x \in Nat /\ y \in Nat
      BY <1>2
    <2>2. y < x => <<y, x>> \in OpToRel(<, Nat)
      BY <2>1 DEF OpToRel
    <2>3. ~(<<y, x>> \in OpToRel(<, Nat))
      BY <1>3
    <2>4. ~(y < x)
      BY <2>2, <2>3
    <2> QED
      BY <2>1, <2>4
  <1>5. \E n \in S : x = MaxEffects - n
    <2>1. x \in T
      BY <1>3
    <2> QED
      BY <2>1
  <1>6. PICK n \in S : x = MaxEffects - n
    BY <1>5
  <1>7. ASSUME NEW m \in S PROVE m <= n
    <2>1. MaxEffects - m \in T
      OBVIOUS
    <2>2. x <= MaxEffects - m
      BY <1>4, <2>1
    <2>3. m \in Nat /\ n \in Nat
      BY <1>1 DEF Effects
    <2> QED
      BY <1>1, <1>6, <2>2, <2>3
  <1> QED
    BY <1>7

Ingested(c) ==
    \/ retained' = [retained EXCEPT ![c] = [rev |-> Rev(c), echo |-> Echo(c)]]
    \/ retained' = [retained EXCEPT ![c].echo = "deleted"]

\* A step of the human, of the queue or of ingestion.
OutboxStep == RowsStep /\ (UNCHANGED retained \/ \E c \in Effects : Ingested(c))

LEMMA Rest ==
    ASSUME WritebackTypeOK, UNCHANGED effects
    PROVE  RowsMove
  BY Unmoved DEF RowsMove, WritebackTypeOK, Made

LEMMA Grows ==
    ASSUME WritebackTypeOK, MadeInv, Room, NEW r \in Rows, New(r),
           effects' = [effects EXCEPT ![Last + 1] = r]
    PROVE  RowsMove
  <1>1. Last + 1 \in Effects \ Made
    BY MadeFacts
  <1>2. effects' \in [Effects -> Rows] /\ effects'[Last + 1] = r
        /\ \A n \in Effects : n # Last + 1 => effects'[n] = effects[n]
    BY <1>1 DEF WritebackTypeOK
  <1>3. \A n \in Made : Moved(n)
    BY <1>1, <1>2, Unmoved DEF Made
  <1> QED
    BY <1>1, <1>2, <1>3 DEF RowsMove

LEMMA Observes ==
    ASSUME WritebackTypeOK, MadeInv, KindInv, NEW c \in Effects, Observe(c)
    PROVE  RowsMove
  <1>1. CASE ~Observable(c)
    BY <1>1, Rest DEF Observe
  <1>2. CASE Observable(c)
    <2> DEFINE last == CHOOSE n \in Receipts(c) : \A m \in Receipts(c) : m <= n
    <2>1. last \in Receipts(c)
      BY <1>2, LastOf DEF Observable, Receipts, StatusEffects, Made
    <2> HIDE DEF last
    <2>2. /\ last \in StatusEffects /\ last \in Made /\ last \in Effects
          /\ effects[last].remote = c /\ effects[last].kind = "status"
          /\ effects[last].state = "sent" /\ c # None
      BY <2>1 DEF Receipts, StatusEffects, Made, Effects, None
    <2> DEFINE r == With(effects[last], "repair")
    <2>3. effects[last] \in Rows
      BY <2>2 DEF WritebackTypeOK
    <2>4. r \in Rows /\ r.state = "repair" /\ r.kind = "status" /\ r.remote = c
          /\ r.approval = effects[last].approval /\ r.text = effects[last].text
      BY <2>2, <2>3, RowFacts DEF States
    <2>5. effects[last].text.body \in Bodies
      BY <2>2 DEF KindInv
    <2>6. Room /\ effects' = [effects EXCEPT ![Last + 1] = r]
      BY <1>2 DEF Observe, last, With
    <2> HIDE DEF r
    <2>7. New(r)
      BY <2>2, <2>4, <2>5 DEF New, IsCopy
    <2> QED
      BY <2>4, <2>6, <2>7, Grows
  <1> QED
    BY <1>1, <1>2

LEMMA HumanSteps ==
    ASSUME Inv,
           \/ \E b \in Bodies : \/ ChangeTask(b) \/ ChangeFacts(b)
                                \/ \E on \in BOOLEAN : SetPolicy(on, b)
           \/ Move \/ \E m \in Mappings : Reconfigure(m)
           \/ ApproveQuestion \/ ApproveRepair
           \/ \E n \in Effects : Retry(n) \/ Relinquish(n) \/ PreviewRepair(n)
    PROVE  OutboxStep
  <1> USE DEF OutboxStep, RowsStep, StatusKept
  <1>0. WritebackTypeOK /\ MadeInv /\ KindInv /\ Made \subseteq Effects
        /\ \A m \in Effects : effects[m] \in Rows
    BY DEF Inv, Made, WritebackTypeOK
  <1>1. CASE Move \/ \E b \in Bodies : ChangeTask(b) \/ ChangeFacts(b)
    BY <1>0, <1>1, Rest DEF Move, ChangeTask, ChangeFacts, rows, github
  <1>2. ASSUME \/ \E b \in Bodies, on \in BOOLEAN : SetPolicy(on, b)
               \/ \E m \in Mappings : Reconfigure(m)
        PROVE  OutboxStep
    <2>0. effects' = Invalidated /\ UNCHANGED <<status, preview, run, github, retained>>
      BY <1>2 DEF SetPolicy, Reconfigure
    <2>1. \A m \in Effects :
             effects'[m] = IF Revoked(m) THEN With(effects[m], Refused(effects[m])) ELSE effects[m]
      BY <2>0 DEF Invalidated, With
    <2>2. \A m \in Effects : Refused(effects[m]) \in {"repair", "cancelled"}
      BY DEF Refused
    <2>3. effects' \in [Effects -> Rows]
      <3>1. \A m \in Effects : effects'[m] \in Rows
        BY <1>0, <2>1, <2>2, RowFacts DEF States
      <3> QED
        BY <2>0, <3>1 DEF Invalidated
    <2>4. ASSUME NEW m \in Made PROVE Moved(m)
      BY <1>0, <2>1, <2>2, RowFacts, Unmoved DEF Moved, Revoked, States
    <2>5. \A m \in Effects \ Made : effects'[m] = effects[m]
      BY <2>1 DEF Revoked, Made
    <2> QED
      BY <2>0, <2>3, <2>4, <2>5 DEF RowsMove, github
  <1>3. CASE ApproveQuestion
    <2> DEFINE r == Effect("question", Text("question", Last + 1), "none", None, NoText, None)
    <2>1. Room /\ effects' = [effects EXCEPT ![Last + 1] = r]
      BY <1>3 DEF ApproveQuestion
    <2>2. Last + 1 \in Effects
      BY <1>0, <2>1, MadeFacts
    <2>3. /\ Text("question", Last + 1) \in Texts /\ Text("question", Last + 1).body = "question"
          /\ NoText \in Texts
      BY <1>0, <2>2, TextFacts
    <2>4. None \in Nat
      BY DEF None
    <2>5. r \in Rows /\ New(r)
      <3>1. /\ r \in Rows /\ r.kind = "question" /\ r.text.body = "question"
            /\ r.approval = "none" /\ r.remote = None /\ r.state = "pending"
        BY <1>0, <2>3, <2>4, EffectFacts
      <3> QED
        BY <3>1 DEF New, IsQuestion
    <2> QED
      BY <1>0, <1>3, <2>1, <2>5, Grows DEF ApproveQuestion, github
  <1>4. CASE ApproveRepair
    <2> DEFINE of == preview.of
               r == IF preview.observed
                    THEN Effect("status", Text(template, status.marker), "observed",
                                preview.remote, preview.text, preview.rev)
                    ELSE Effect("status", Text(template, Last + 1), "missing", None, NoText, None)
    <2>1. /\ preview # NoPreview /\ of \in Effects /\ effects[of].state = "repair" /\ Room
          /\ preview.remote \in Effects /\ preview.text \in Texts /\ preview.rev \in Nat
          /\ preview.observed \in BOOLEAN
      <3>1. preview # NoPreview
        BY <1>4 DEF ApproveRepair, NoPreview
      <3>2. preview \in [of : Effects, epoch : Nat, version : Nat, body : Bodies,
                         observed : BOOLEAN, remote : Effects, text : Texts, rev : Nat]
        BY <1>0, <3>1 DEF WritebackTypeOK
      <3> QED
        BY <1>4, <3>1, <3>2 DEF ApproveRepair
    <2>2. effects' = [effects EXCEPT ![of].state = "cancelled", ![Last + 1] = r]
      BY <1>4 DEF ApproveRepair
    <2>3. of \in Made /\ Last + 1 \in Effects \ Made
      BY <1>0, <2>1, MadeFacts DEF Made
    <2>4. r \in Rows /\ New(r)
      <3>1. /\ status.marker \in Effects \cup {None} /\ template \in Bodies
            /\ NoText \in Texts /\ None \in Nat
            /\ \A m \in Effects \cup {None} : Text(template, m) \in Texts
                                              /\ Text(template, m).body = template
        BY <1>0, TextFacts DEF WritebackTypeOK, None
      <3>2. CASE preview.observed
        <4>1. r = Effect("status", Text(template, status.marker), "observed",
                         preview.remote, preview.text, preview.rev)
          BY <3>2
        <4> HIDE DEF r
        <4>2. /\ r \in Rows /\ r.kind = "status" /\ r.text.body \in Bodies
              /\ r.approval = "observed" /\ r.remote = preview.remote /\ r.state = "pending"
          <5>1. preview.remote \in Effects \cup {None} /\ Text(template, status.marker) \in Texts
                /\ Text(template, status.marker).body \in Bodies
            BY <2>1, <3>1
          <5> HIDE DEF None
          <5> QED
            BY <1>0, <2>1, <4>1, <5>1, EffectFacts
        <4> QED
          BY <2>1, <4>2 DEF New, IsRepair
      <3>3. CASE ~preview.observed
        <4>1. r = Effect("status", Text(template, Last + 1), "missing", None, NoText, None)
          BY <3>3
        <4> HIDE DEF r
        <4>2. /\ r \in Rows /\ r.kind = "status" /\ r.text.body \in Bodies
              /\ r.approval = "missing" /\ r.remote = None /\ r.state = "pending"
          <5>1. None \in Effects \cup {None} /\ Text(template, Last + 1) \in Texts
                /\ Text(template, Last + 1).body \in Bodies
            BY <2>3, <3>1
          <5> DEFINE t == Text(template, Last + 1)
          <5>2. t \in Texts /\ t.body \in Bodies /\ NoText \in Texts /\ None \in Nat
            BY <3>1, <5>1
          <5>3. r = Effect("status", t, "missing", None, NoText, None)
            BY <4>1
          <5> HIDE DEF None, t
          <5> DEFINE q == Effect("status", t, "missing", None, NoText, None)
          <5>4. /\ q \in Rows /\ q.state = "pending" /\ q.kind = "status" /\ q.text = t
                /\ q.approval = "missing" /\ q.remote = None
            BY <1>0, <5>2 DEF Effect, Rows, WritebackTypeOK
          <5> QED
            BY <5>2, <5>3, <5>4
        <4> QED
          BY <2>1, <4>2 DEF New, IsRepair
      <3> QED
        BY <3>2, <3>3
    <2> HIDE DEF r
    <2>5. /\ effects'[of] = With(effects[of], "cancelled")
          /\ effects'[Last + 1] = r
          /\ \A m \in Effects : m # of /\ m # Last + 1 => effects'[m] = effects[m]
      BY <1>0, <2>2, <2>3 DEF With, WritebackTypeOK
    <2>6. effects' \in [Effects -> Rows]
      <3>1. \A m \in Effects : effects'[m] \in Rows
        BY <1>0, <2>1, <2>4, <2>5, RowFacts DEF States
      <3> QED
        BY <1>0, <2>2, <3>1 DEF WritebackTypeOK
    <2>7. ASSUME NEW m \in Made PROVE Moved(m)
      <3>1. CASE m = of
        BY <1>0, <2>1, <2>3, <2>5, <3>1, RowFacts DEF Moved, States
      <3>2. CASE m # of
        BY <1>0, <2>3, <2>5, <3>2, Unmoved
      <3> QED
        BY <3>1, <3>2
    <2>8. RowsMove
      BY <2>1, <2>3, <2>4, <2>5, <2>6, <2>7 DEF RowsMove
    <2> QED
      BY <1>0, <1>4, <2>8 DEF ApproveRepair, github, WritebackTypeOK
  <1>5. ASSUME NEW n \in Effects, Retry(n) PROVE OutboxStep
    <2>1. effects' = [effects EXCEPT ![n] = With(effects[n], "pending")]
          /\ effects[n].state = "failed"
      BY <1>5 DEF Retry, With
    <2>2. With(effects[n], "pending") \in Rows
      BY <1>0, RowFacts DEF States
    <2>3. effects' \in [Effects -> Rows] /\ effects'[n] = With(effects[n], "pending")
          /\ \A m \in Effects : m # n => effects'[m] = effects[m]
      BY <1>0, <2>1, <2>2 DEF WritebackTypeOK
    <2>4. \A m \in Made : Moved(m)
      BY <1>0, <2>1, <2>3, RowFacts, Unmoved DEF Moved, States
    <2>5. RowsMove
      BY <1>5, <2>3, <2>4 DEF RowsMove, Retry
    <2> QED
      BY <1>5, <2>5 DEF Retry, github
  <1>6. ASSUME NEW n \in Effects, Relinquish(n) PROVE OutboxStep
    <2> DEFINE Given(m) == IF n \in StatusEffects
                           THEN m \in StatusEffects /\ effects[m].state # "sent"
                           ELSE m = n
    <2>1. \A m \in Effects :
             effects'[m] = IF Given(m) THEN With(effects[m], "cancelled") ELSE effects[m]
      <3>1. CASE n \in StatusEffects
        <4>1. effects' = [m \in Effects |->
                             IF m \in StatusEffects /\ effects[m].state # "sent"
                             THEN [effects[m] EXCEPT !.state = "cancelled"] ELSE effects[m]]
          BY <1>6, <3>1 DEF Relinquish
        <4>2. ASSUME NEW m \in Effects
              PROVE  effects'[m] = IF m \in StatusEffects /\ effects[m].state # "sent"
                                   THEN With(effects[m], "cancelled") ELSE effects[m]
          BY <4>1 DEF With
        <4> QED
          BY <3>1, <4>2
      <3>2. CASE n \notin StatusEffects
        <4>1. effects' = [effects EXCEPT ![n] = With(effects[n], "cancelled")]
          BY <1>6, <3>2 DEF Relinquish, With
        <4> QED
          BY <1>0, <3>2, <4>1 DEF WritebackTypeOK
      <3> QED
        BY <3>1, <3>2
    <2>2. n \in Made /\ (n \in StatusEffects => status'.relinquished)
          /\ StatusKept
      BY <1>0, <1>6 DEF Relinquish, WritebackTypeOK
    <2>3. effects' \in [Effects -> Rows]
      <3>1. \A m \in Effects : effects'[m] \in Rows
        BY <1>0, <2>1, RowFacts DEF States
      <3> QED
        BY <1>0, <1>6, <3>1 DEF Relinquish, WritebackTypeOK
    <2>4. ASSUME NEW m \in Made PROVE Moved(m)
      <3>1. m \in Effects /\ effects[m].state # "none"
        BY DEF Made
      <3>2. CASE Given(m)
        <4>1. effects[m].kind = "status" => status'.relinquished
          BY <2>2, <3>2 DEF StatusEffects
        <4> QED
          BY <1>0, <2>1, <3>1, <3>2, <4>1, RowFacts DEF Moved, States
      <3>3. CASE ~Given(m)
        BY <1>0, <2>1, <3>1, <3>3, Unmoved
      <3> QED
        BY <3>2, <3>3
    <2>5. \A m \in Effects \ Made : effects'[m] = effects[m]
      BY <2>1, <2>2 DEF StatusEffects
    <2>6. RowsMove
      BY <2>3, <2>4, <2>5 DEF RowsMove
    <2> QED
      BY <1>6, <2>2, <2>6 DEF Relinquish, github
  <1>7. ASSUME NEW n \in Effects, PreviewRepair(n) PROVE OutboxStep
    BY <1>0, <1>7, Rest DEF PreviewRepair, github
  <1> QED
    BY <1>1, <1>2, <1>3, <1>4, <1>5, <1>6, <1>7

LEMMA QueueSteps ==
    ASSUME Inv, QueueOnly \/ \E n \in Effects : Pick(n) \/ Ingest(n) \/ IngestDeletion(n)
    PROVE  OutboxStep
  <1> USE DEF OutboxStep, RowsStep, StatusKept
  <1>0. WritebackTypeOK /\ MadeInv /\ KindInv
    BY DEF Inv
  <1>1. ASSUME NEW n \in Effects, Pick(n) PROVE OutboxStep
    <2> DEFINE e == Queued[n]
    <2>0. run.at = "idle" /\ (Renewing => Room) /\ UNCHANGED <<status, preview, github, retained>>
      BY <1>1 DEF Pick
    <2>1. Queued \in [Effects -> Rows]
      BY <1>0, <2>0, QueuedFacts
    <2>2. CASE effects' = Queued /\ Picks
      <3>1. RowsMove
        BY <1>0, <2>0, <2>2, QueueMoves
      <3> QED
        BY <2>0, <2>2, <3>1 DEF github
    <2>3. CASE /\ e.state = "pending" /\ ~Authorized(e)
               /\ effects' = [Queued EXCEPT ![n].state = Refused(e)]
               /\ UNCHANGED run
      <3>1. Refused(e) \in {"repair", "cancelled"}
        BY DEF Refused
      <3>2. RowsMove
        BY <1>0, <2>0, <2>3, <3>1, QueueMoves
      <3> QED
        BY <2>0, <2>3, <3>2 DEF github
    <2>4. CASE /\ e.state \in Dispatched
               /\ effects' = [Queued EXCEPT ![n].state = "uncertain"]
               /\ UNCHANGED run
      <3>1. RowsMove
        BY <1>0, <2>0, <2>4, QueueMoves
      <3> QED
        BY <2>0, <2>4, <3>1 DEF github
    <2> QED
      BY <1>1, <2>2, <2>3, <2>4 DEF Pick, Picks, Unanswered
  <1>2. CASE QueueOnly
    <2>1. RowsMove
      BY <1>0, <1>2, QueueMoves DEF QueueOnly
    <2> QED
      BY <1>2, <2>1 DEF QueueOnly, github
  <1>3. ASSUME NEW n \in Effects, Ingest(n) PROVE OutboxStep
    <2>1. RowsMove
      BY <1>0, <1>3, Rest, Observes DEF Ingest
    <2> QED
      BY <1>3, <2>1 DEF Ingest, Ingested, github
  <1>4. ASSUME NEW n \in Effects, IngestDeletion(n) PROVE OutboxStep
    <2>1. RowsMove
      BY <1>0, <1>4, Observes DEF IngestDeletion
    <2> QED
      BY <1>4, <2>1 DEF IngestDeletion, Ingested, github
  <1> QED
    BY <1>1, <1>2, <1>3, <1>4

-----------------------------------------------------------------------------
(* The runner and GitHub: the kinds of their steps. *)

RowBecomes(n, r) ==
    /\ effects' \in [Effects -> Rows]
    /\ effects'[n] = r
    /\ \A m \in Effects : m # n => effects'[m] = effects[m]

Requests == [status : {"none", "sent", "met", "rejected", "lost", "missing"},
             rev : Nat, raced : BOOLEAN]
RequestBecomes(n, q) ==
    /\ request' \in [Effects -> Requests]
    /\ request'[n] = q
    /\ \A m \in Effects : m # n => request'[m] = request[m]

\* The row in hand is written over, which has not changed but in its state.
SaveAllowed(to) ==
    \/ /\ run.at \in {"probing", "fencing"} /\ effects[run.on].state # "cancelled"
       /\ to \in {"failed", "repair", "cancelled"}
    \/ run.e.remote # None /\ to = "repair"
    \/ run.at = "sending" /\ request[run.on].status = "rejected" /\ to = "failed"
    \/ run.at \in {"sending", "recalling", "verifying"} /\ to = "uncertain"
SaveStep ==
    /\ run.at # "idle"
    /\ \E to \in {"failed", "repair", "cancelled", "uncertain"} :
          SaveAllowed(to) /\ RowBecomes(run.on, With(effects[run.on], to))
    /\ run' = Idle
    /\ UNCHANGED <<status, preview, comments, request, retained>>

DropStep ==
    /\ run' = Idle
    /\ UNCHANGED <<effects, status, preview, comments, request, retained>>

FenceStep ==
    /\ run.at = "probing"
    /\ run' = [run EXCEPT !.at = "fencing"]
    /\ \/ /\ run.e.remote # None /\ Unedited(run.e.remote, run.e)
          /\ RequestBecomes(run.on, NoRequest)
       \/ /\ run.e.approval = "missing"
          /\ status.remote # None /\ ~comments[status.remote].live
          /\ UNCHANGED request
       \/ run.e.approval # "missing" /\ run.e.remote = None /\ UNCHANGED request
    /\ UNCHANGED <<effects, status, preview, comments, retained>>

DispatchStep ==
    /\ run.at = "fencing"
    /\ effects[run.on].state = "pending" /\ Authorized(run.e)
    /\ RowBecomes(run.on, With(effects[run.on], "sending"))
    /\ RequestBecomes(run.on, [request[run.on] EXCEPT !.status = "sent"])
    /\ run' = [run EXCEPT !.at = "sending", !.e = With(run.e, "sending")]
    /\ UNCHANGED <<status, preview, comments, retained>>

ScanStep ==
    /\ run.at = "recalling" /\ run.e.remote = None
    /\ \E c \in Effects : run' = [run EXCEPT !.at = "verifying", !.found = c]
    /\ UNCHANGED <<effects, status, preview, comments, request, retained>>

Settled(r, c, v) ==
    [r EXCEPT !.state = "sent", !.remote = c, !.expects = comments[c].log[v], !.rev = v]
ReceiptStep(c, v) ==
    /\ \/ /\ run.at = "sending" /\ request[run.on].status = "met"
          /\ c = Target(run.on) /\ v = request[run.on].rev
       \/ /\ run.at \in {"recalling", "verifying"}
          /\ Exact(c, run.e) /\ v = Rev(c) /\ run.e.remote \in {None, c}
    /\ RowBecomes(run.on, Settled(run.e, c, v))
    /\ status' = IF run.e.kind = "status" THEN SettledStatus(c, v) ELSE status
    /\ retained' = Confirming(c, v)
    /\ run' = Idle
    /\ UNCHANGED <<preview, comments, request>>

LEMMA HandFacts ==
    ASSUME Inv, run.at # "idle"
    PROVE  /\ run.on \in Effects /\ run.on \in Made
           /\ run.e \in Rows /\ effects[run.on] \in Rows
           /\ effects \in [Effects -> Rows]
           /\ request \in [Effects -> Requests]
           /\ run.e.kind = effects[run.on].kind /\ run.e.text = effects[run.on].text
           /\ run.e.approval = effects[run.on].approval
           /\ run.e.remote = effects[run.on].remote /\ run.e.rev = effects[run.on].rev
           /\ run.e.expects = effects[run.on].expects
           /\ \A s \in States : With(run.e, s) = With(effects[run.on], s)
           /\ run.e.remote \in Effects \cup {None}
  <1>1. WritebackTypeOK /\ HandInv
    BY DEF Inv
  <1>2. run.on \in Made /\ run.on \in Effects
    BY <1>1 DEF HandInv, Made
  <1>3. effects[run.on] \in Rows /\ run.e \in Rows /\ effects \in [Effects -> Rows]
    BY <1>1, <1>2 DEF WritebackTypeOK
  <1>4. run.e = With(effects[run.on], run.e.state)
    BY <1>1 DEF HandInv
  <1>5. run.e.state \in States /\ run.e.remote \in Effects \cup {None}
    BY <1>3 DEF Rows, States
  <1>6. request \in [Effects -> Requests]
    BY <1>1 DEF WritebackTypeOK, Requests
  <1> DEFINE r == effects[run.on]
             s == run.e.state
  <1>7. /\ run.e.kind = r.kind /\ run.e.text = r.text /\ run.e.approval = r.approval
        /\ run.e.remote = r.remote /\ run.e.rev = r.rev /\ run.e.expects = r.expects
    BY <1>3, <1>4, <1>5, RowFacts
  <1>8. \A t \in States : With(run.e, t) = With(r, t)
    BY <1>3, <1>4, <1>5, RowFacts
  <1> QED
    BY <1>2, <1>3, <1>5, <1>6, <1>7, <1>8

LEMMA Overwrites ==
    ASSUME NEW n \in Effects, NEW r \in Rows, effects \in [Effects -> Rows],
           effects' = [effects EXCEPT ![n] = r]
    PROVE  RowBecomes(n, r)
  BY DEF RowBecomes

LEMMA Requested ==
    ASSUME NEW n \in Effects, NEW q \in Requests, request \in [Effects -> Requests],
           request' = [request EXCEPT ![n] = q]
    PROVE  RequestBecomes(n, q)
  BY DEF RequestBecomes

LEMMA Saves ==
    ASSUME Inv, run.at # "idle", NEW to \in {"failed", "repair", "cancelled", "uncertain"},
           SaveAllowed(to), Save(to), UNCHANGED <<status, preview, comments, request, retained>>
    PROVE  SaveStep
  <1>1. to \in States
    BY DEF States
  <1>2. effects' = [effects EXCEPT ![run.on] = With(run.e, to)] /\ run' = Idle
    BY DEF Save, With
  <1>3. With(run.e, to) = With(effects[run.on], to) /\ With(run.e, to) \in Rows
    BY <1>1, HandFacts, RowFacts
  <1>4. RowBecomes(run.on, With(effects[run.on], to))
    BY <1>2, <1>3, HandFacts, Overwrites
  <1> QED
    BY <1>2, <1>4 DEF SaveStep

LEMMA Abandons ==
    ASSUME Inv, run.at \in {"probing", "fencing"}, NEW to \in {"failed", "repair", "cancelled"},
           Abandon(to), UNCHANGED <<status, preview, comments, request, retained>>
    PROVE  SaveStep \/ DropStep
  <1>1. CASE effects[run.on].state = "cancelled"
    BY <1>1 DEF Abandon, DropStep
  <1>2. CASE effects[run.on].state # "cancelled"
    BY <1>2, Saves DEF Abandon, SaveAllowed
  <1> QED
    BY <1>1, <1>2

\* A comment that says what a row says is there, and was created.
LEMMA ExactFacts ==
    ASSUME Inv, NEW c \in Effects, NEW r, r.text.body # "foreign", Exact(c, r)
    PROVE  /\ Created(c) /\ comments[c].live
           /\ Rev(c) \in 1..Rev(c)
           /\ comments[c].log[Rev(c)] = r.text
           /\ Now(c) # Foreign
  <1>1. WritebackTypeOK /\ PostInv
    BY DEF Inv
  <1>2. comments[c].live /\ Now(c) = r.text
    BY DEF Exact
  <1>3. Created(c)
    BY <1>1, <1>2 DEF PostInv
  <1>4. Rev(c) \in Nat
    BY <1>1, TextFacts
  <1> QED
    BY <1>2, <1>3, <1>4 DEF Created, Now, Foreign, Text

LEMMA Receives ==
    ASSUME Inv, NEW c \in Effects, NEW v \in Nat, Receipt(c, v),
           v \in 1..Rev(c),
           \/ /\ run.at = "sending" /\ request[run.on].status = "met"
              /\ c = Target(run.on) /\ v = request[run.on].rev
           \/ /\ run.at \in {"recalling", "verifying"}
              /\ Exact(c, run.e) /\ v = Rev(c) /\ run.e.remote \in {None, c}
    PROVE  ReceiptStep(c, v)
  <1>1. run.at # "idle"
    OBVIOUS
  <1>2. run.e \in Rows /\ run.on \in Effects /\ effects \in [Effects -> Rows]
    BY <1>1, HandFacts
  <1>3. comments[c].log[v] \in Texts
    <2>1. comments[c].log \in Seq(Texts)
      BY DEF Inv, WritebackTypeOK
    <2> QED
      BY <2>1, LogFacts DEF Rev
  <1>4. Settled(run.e, c, v) \in Rows
    BY <1>2, <1>3 DEF Settled, Rows
  <1>5. effects' = [effects EXCEPT ![run.on] = Settled(run.e, c, v)]
    BY DEF Receipt, Settled
  <1>6. RowBecomes(run.on, Settled(run.e, c, v))
    BY <1>2, <1>4, <1>5, Overwrites
  <1> QED
    BY <1>6 DEF ReceiptStep, Receipt, github

LEMMA RunnerSteps ==
    ASSUME Inv, RunnerStep \/ ProbeFails \/ SourceMoved \/ IdentityChanged \/ ReadFails \/ Crash
    PROVE  \/ SaveStep \/ DropStep \/ FenceStep \/ DispatchStep \/ ScanStep
           \/ \E c \in Effects, v \in Nat : ReceiptStep(c, v) /\ v \in 1..Rev(c)
  <1> DEFINE Kind == \/ SaveStep \/ DropStep \/ FenceStep \/ DispatchStep \/ ScanStep
                     \/ \E c \in Effects, v \in Nat : ReceiptStep(c, v) /\ v \in 1..Rev(c)
  <1>0. WritebackTypeOK /\ HandInv /\ PostInv /\ RemoteInv /\ AnswerInv
    BY DEF Inv
  <1>1. CASE Compare
    <2>1. run.at = "probing" /\ run.e.remote # None
          /\ UNCHANGED <<status, preview, comments, retained>>
      BY <1>1 DEF Compare
    <2>2. CASE Unedited(run.e.remote, run.e)
      <3>1. request' = [request EXCEPT ![run.on] = NoRequest]
            /\ run' = [run EXCEPT !.at = "fencing"] /\ UNCHANGED effects
        BY <1>1, <2>2 DEF Compare
      <3>2. NoRequest \in Requests
        BY DEF NoRequest, Requests, None
      <3>3. RequestBecomes(run.on, NoRequest)
        BY <2>1, <3>1, <3>2, HandFacts, Requested
      <3> QED
        BY <2>1, <2>2, <3>1, <3>3 DEF FenceStep
    <2>3. CASE ~Unedited(run.e.remote, run.e)
      <3>1. UNCHANGED request /\ (Save("repair") \/ Abandon("repair"))
        BY <1>1, <2>3 DEF Compare
      <3>2. SaveAllowed("repair")
        BY <2>1 DEF SaveAllowed
      <3> QED
        BY <2>1, <3>1, <3>2, Saves, Abandons
    <2> QED
      BY <2>2, <2>3
  <1>2. CASE CheckAbsence
    <2>1. run.at = "probing" /\ run.e.approval = "missing"
          /\ UNCHANGED <<status, preview, comments, request, retained>>
      BY <1>2 DEF CheckAbsence, github
    <2>2. CASE status.remote # None /\ ~comments[status.remote].live
      BY <1>2, <2>1, <2>2 DEF CheckAbsence, FenceStep
    <2>3. CASE ~(status.remote # None /\ ~comments[status.remote].live)
      BY <1>2, <2>1, <2>3, Abandons DEF CheckAbsence
    <2> QED
      BY <2>2, <2>3
  <1>3. CASE NothingToCompare
    BY <1>3 DEF NothingToCompare, FenceStep, rows, github
  <1>4. CASE Dispatch
    <2>1. run.at = "fencing" /\ effects[run.on].state = "pending" /\ Authorized(run.e)
          /\ UNCHANGED <<status, preview, comments, retained>>
      BY <1>4 DEF Dispatch, Fence
    <2>2. effects' = [effects EXCEPT ![run.on] = With(run.e, "sending")]
      BY <1>4 DEF Dispatch, With
    <2>3. With(run.e, "sending") \in Rows /\ With(run.e, "sending") = With(effects[run.on], "sending")
      BY <2>1, HandFacts, RowFacts DEF States
    <2>4. RowBecomes(run.on, With(effects[run.on], "sending"))
      BY <2>1, <2>2, <2>3, HandFacts, Overwrites
    <2>5. request' = [request EXCEPT ![run.on] = [request[run.on] EXCEPT !.status = "sent"]]
      BY <1>4 DEF Dispatch
    <2>6. [request[run.on] EXCEPT !.status = "sent"] \in Requests
      BY <2>1, HandFacts DEF Requests
    <2>7. RequestBecomes(run.on, [request[run.on] EXCEPT !.status = "sent"])
      BY <2>1, <2>5, <2>6, HandFacts, Requested
    <2>8. run' = [run EXCEPT !.at = "sending", !.e = With(run.e, "sending")]
      BY <1>4 DEF Dispatch, With
    <2> QED
      BY <2>1, <2>4, <2>7, <2>8 DEF DispatchStep
  <1>5. CASE FenceHolds
    <2>1. Refused(run.e) \in {"repair", "cancelled"}
      BY DEF Refused
    <2> QED
      BY <1>5, <2>1, Abandons DEF FenceHolds, github
  <1>6. CASE Answered
    <2>1. run.at = "sending" /\ request[run.on].status = "met"
          /\ Receipt(Target(run.on), request[run.on].rev)
      BY <1>6, HandFacts DEF Answered, Target
    <2>2. request[run.on].rev \in 1..Rev(Target(run.on)) /\ request[run.on].rev \in Nat
      BY <1>0, <2>1, HandFacts DEF AnswerInv, Requests
    <2>3. Target(run.on) \in Effects
      BY <2>1, HandFacts DEF Target
    <2>4. ReceiptStep(Target(run.on), request[run.on].rev)
      BY <2>1, <2>2, <2>3, Receives
    <2> QED
      BY <2>2, <2>3, <2>4
  <1>7. CASE Rejected
    <2>1. run.at = "sending" /\ UNCHANGED <<status, preview, comments, request, retained>>
      BY <1>7 DEF Rejected, github
    <2>2. CASE request[run.on].status = "rejected" /\ Save("failed")
      BY <2>1, <2>2, Saves DEF SaveAllowed
    <2>3. CASE request[run.on].status = "missing" /\ Save("repair")
      <3>1. run.e.remote # None
        BY <1>0, <2>1, <2>3, HandFacts DEF PostInv
      <3> QED
        BY <2>1, <2>3, <3>1, Saves DEF SaveAllowed
    <2> QED
      BY <1>7, <2>2, <2>3 DEF Rejected
  <1>8. CASE LoseTouch
    BY <1>8, Saves DEF LoseTouch, Unanswered, SaveAllowed, github
  <1>9. CASE Recall
    <2>1. run.at = "recalling" /\ run.e.remote # None /\ run.e.remote \in Effects
      BY <1>9, HandFacts DEF Recall
    <2>2. CASE Exact(run.e.remote, run.e)
      <3>1. run.e.text.body # "foreign"
        BY <1>0, <2>1, HandFacts, BodiesAssumption DEF Inv, KindInv, Rows
      <3>2. Rev(run.e.remote) \in 1..Rev(run.e.remote) /\ Rev(run.e.remote) \in Nat
        BY <1>0, <2>1, <2>2, <3>1, ExactFacts, TextFacts
      <3>3. ReceiptStep(run.e.remote, Rev(run.e.remote))
        BY <1>9, <2>1, <2>2, <3>2, Receives DEF Recall
      <3> QED
        BY <2>1, <3>2, <3>3
    <2>3. CASE ~Exact(run.e.remote, run.e)
      BY <1>9, <2>1, <2>3, Saves DEF Recall, SaveAllowed, github
    <2> QED
      BY <2>2, <2>3
  <1>10. CASE Scan
    <2>1. run.at = "recalling" /\ run.e.remote = None
          /\ UNCHANGED <<status, preview, comments, request, retained>>
      BY <1>10 DEF Scan, github
    <2>2. CASE Save("uncertain")
      BY <2>1, <2>2, Saves DEF SaveAllowed
    <2> QED
      BY <1>10, <2>1, <2>2 DEF Scan, ScanStep
  <1>11. CASE Verify
    <2>1. run.at = "verifying" /\ run.e.remote = None /\ run.found \in Effects
      BY <1>0, <1>11 DEF Verify, HandInv
    <2>2. CASE Exact(run.found, run.e)
      <3>1. run.e.text.body # "foreign"
        BY <1>0, <2>1, HandFacts, BodiesAssumption DEF Inv, KindInv, Rows
      <3>2. Rev(run.found) \in 1..Rev(run.found) /\ Rev(run.found) \in Nat
        BY <1>0, <2>1, <2>2, <3>1, ExactFacts, TextFacts
      <3>3. ReceiptStep(run.found, Rev(run.found))
        BY <1>11, <2>1, <2>2, <3>2, Receives DEF Verify
      <3> QED
        BY <2>1, <3>2, <3>3
    <2>3. CASE ~Exact(run.found, run.e)
      BY <1>11, <2>1, <2>3, Saves DEF Verify, SaveAllowed, github
    <2> QED
      BY <2>2, <2>3
  <1>12. CASE ProbeFails
    <2>1. run.at = "probing" /\ UNCHANGED <<status, preview, comments, request, retained>>
          /\ \E to \in {"failed", "repair"} : Abandon(to)
      BY <1>12 DEF ProbeFails, Unreadable, github
    <2> QED
      BY <2>1, Abandons
  <1>13. CASE SourceMoved
    <2>1. Refused(run.e) \in {"repair", "cancelled"}
      BY DEF Refused
    <2> QED
      BY <1>13, <2>1, Abandons DEF SourceMoved, github
  <1>14. CASE ReadFails
    <2>1. /\ run.at \in {"recalling", "verifying"}
          /\ UNCHANGED <<status, preview, comments, request, retained>>
          /\ Save("uncertain") \/ (run.e.remote # None /\ Save("repair"))
      BY <1>14 DEF ReadFails, Unreadable, github
    <2> QED
      BY <2>1, Saves DEF SaveAllowed
  <1>15. CASE Crash
    BY <1>15 DEF Crash, DropStep, rows, github
  <1>16. CASE Astray
    <2>1. Refused(run.e) \in {"repair", "cancelled"}
      BY DEF Refused
    <2>2. UNCHANGED <<status, preview, comments, request, retained>>
      BY <1>16 DEF Astray, github
    <2>3. CASE run.at = "probing" /\ Abandon(Refused(run.e))
      BY <2>1, <2>2, <2>3, Abandons
    <2>4. CASE run.at = "recalling" /\ Save("uncertain")
      BY <2>2, <2>4, Saves DEF SaveAllowed
    <2> QED
      BY <1>16, <2>3, <2>4 DEF Astray, Unanswered
  <1>17. CASE IdentityChanged
    <2>1. /\ run.at = "probing" /\ run.e.remote # None /\ Save("repair")
          /\ UNCHANGED <<status, preview, comments, request, retained>>
      BY <1>17 DEF IdentityChanged, github
    <2> QED
      BY <2>1, Saves DEF SaveAllowed
  <1> QED
    BY <1>1, <1>2, <1>3, <1>4, <1>5, <1>6, <1>7, <1>8, <1>9, <1>10, <1>11, <1>12, <1>13,
       <1>14, <1>15, <1>16, <1>17 DEF RunnerStep

Comments == [live : BOOLEAN, posts : Nat, log : Seq(Texts)]
CommentBecomes(c, k) ==
    /\ comments' \in [Effects -> Comments]
    /\ comments'[c] = k
    /\ \A d \in Effects : d # c => comments'[d] = comments[d]

EditStep(c) ==
    /\ comments[c].live
    /\ CommentBecomes(c, [comments[c] EXCEPT !.log = Append(comments[c].log, Foreign)])
    /\ request' = Raced(c)
    /\ UNCHANGED <<effects, status, preview, run, retained>>

DeleteStep(c) ==
    /\ CommentBecomes(c, [comments[c] EXCEPT !.live = FALSE])
    /\ UNCHANGED <<effects, status, preview, run, request, retained>>

Posted(n) == IF effects[n].remote = None THEN comments[n].posts + 1
                                         ELSE comments[Target(n)].posts
MeetStep(n) ==
    /\ request[n].status = "sent"
    /\ \/ /\ comments[Target(n)].live \/ effects[n].remote = None
          /\ CommentBecomes(Target(n), [live |-> TRUE, posts |-> Posted(n),
                                        log |-> Append(comments[Target(n)].log, effects[n].text)])
          /\ RequestBecomes(n, [request[n] EXCEPT !.status = "met", !.rev = Rev(Target(n)) + 1])
       \/ /\ UNCHANGED comments
          /\ \E end \in {"missing", "rejected", "lost"} :
                /\ RequestBecomes(n, [request[n] EXCEPT !.status = end])
                /\ end = "missing" => effects[n].remote # None
    /\ UNCHANGED <<effects, status, preview, run, retained>>

LEMMA GitHubSteps ==
    ASSUME Inv, NEW n \in Effects, Edit(n) \/ Delete(n) \/ Meet(n)
    PROVE  EditStep(n) \/ DeleteStep(n) \/ MeetStep(n)
  <1>1. /\ comments \in [Effects -> Comments] /\ request \in [Effects -> Requests]
        /\ comments[n] \in Comments /\ Foreign \in Texts
        /\ effects[n].remote \in Effects \cup {None} /\ effects[n].text \in Texts
    <2>1. WritebackTypeOK
      BY DEF Inv
    <2>2. comments \in [Effects -> Comments] /\ request \in [Effects -> Requests]
      BY <2>1 DEF WritebackTypeOK, Comments, Requests
    <2>3. effects[n] \in Rows
      BY <2>1 DEF WritebackTypeOK
    <2> QED
      BY <2>1, <2>2, <2>3, TextFacts DEF Rows
  <1>2. \A c \in Effects, k \in Comments :
           comments' = [comments EXCEPT ![c] = k] => CommentBecomes(c, k)
    BY <1>1 DEF CommentBecomes
  <1>3. CASE Edit(n)
    <2> DEFINE k == [comments[n] EXCEPT !.log = Append(comments[n].log, Foreign)]
    <2>1. comments[n].live /\ comments' = [comments EXCEPT ![n] = k]
      BY <1>3 DEF Edit
    <2>2. k \in Comments
      <3>1. Append(comments[n].log, Foreign) \in Seq(Texts)
        BY <1>1, LogFacts DEF Comments
      <3> QED
        BY <1>1, <3>1 DEF Comments
    <2>3. CommentBecomes(n, k)
      BY <1>2, <2>1, <2>2
    <2> QED
      BY <1>3, <2>1, <2>3 DEF Edit, EditStep, rows
  <1>4. CASE Delete(n)
    <2> DEFINE k == [comments[n] EXCEPT !.live = FALSE]
    <2>1. comments' = [comments EXCEPT ![n] = k]
      BY <1>4 DEF Delete
    <2>2. k \in Comments
      BY <1>1 DEF Comments
    <2>3. CommentBecomes(n, k)
      BY <1>2, <2>1, <2>2
    <2> QED
      BY <1>4, <2>3 DEF Delete, DeleteStep, rows
  <1>5. CASE Meet(n)
    <2> DEFINE c == Target(n)
               k == [live |-> TRUE, posts |-> Posted(n),
                     log |-> Append(comments[c].log, effects[n].text)]
    <2>0. c \in Effects /\ comments[c] \in Comments /\ request[n].status = "sent"
          /\ request[n] \in Requests /\ UNCHANGED <<effects, status, preview, run, retained>>
      BY <1>1, <1>5 DEF Target, Meet, rows
    <2>1. CASE /\ comments[c].live \/ effects[n].remote = None
               /\ comments' = [comments EXCEPT ![c] = k]
               /\ request' = [request EXCEPT ![n] =
                     [request[n] EXCEPT !.status = "met", !.rev = Rev(c) + 1]]
      <3>1. k \in Comments
        <4>1. Append(comments[c].log, effects[n].text) \in Seq(Texts)
          BY <1>1, <2>0, LogFacts DEF Comments
        <4>2. Posted(n) \in Nat
          BY <1>1, <2>0 DEF Comments, Posted
        <4> QED
          BY <4>1, <4>2 DEF Comments
      <3>2. [request[n] EXCEPT !.status = "met", !.rev = Rev(c) + 1] \in Requests
        <4>1. Rev(c) + 1 \in Nat
          BY <2>0, LogFacts, LenProperties DEF Comments, Rev
        <4> QED
          BY <2>0, <4>1 DEF Requests
      <3>3. CommentBecomes(c, k)
        BY <1>2, <2>0, <2>1, <3>1
      <3>4. RequestBecomes(n, [request[n] EXCEPT !.status = "met", !.rev = Rev(c) + 1])
        BY <1>1, <2>1, <3>2, Requested
      <3> QED
        BY <2>0, <2>1, <3>3, <3>4 DEF MeetStep
    <2>2. ASSUME NEW end \in {"missing", "rejected", "lost"}, UNCHANGED comments,
                 end = "missing" => effects[n].remote # None,
                 request' = [request EXCEPT ![n] = [request[n] EXCEPT !.status = end]]
          PROVE  MeetStep(n)
      <3>1. [request[n] EXCEPT !.status = end] \in Requests
        BY <2>0 DEF Requests
      <3>2. RequestBecomes(n, [request[n] EXCEPT !.status = end])
        BY <1>1, <2>2, <3>1, Requested
      <3> QED
        BY <2>0, <2>2, <3>2 DEF MeetStep
    <2>3. \/ /\ comments[c].live \/ effects[n].remote = None
             /\ comments' = [comments EXCEPT ![c] = k]
             /\ request' = [request EXCEPT ![n] =
                   [request[n] EXCEPT !.status = "met", !.rev = Rev(c) + 1]]
          \/ \E end \in {"missing", "rejected", "lost"} :
                /\ UNCHANGED comments
                /\ end = "missing" => effects[n].remote # None
                /\ request' = [request EXCEPT ![n] = [request[n] EXCEPT !.status = end]]
      <3>1. c = IF effects[n].remote = None THEN n ELSE effects[n].remote
        BY DEF Target
      <3>2. comments[c].posts \in Nat
        BY <2>0 DEF Comments
      <3>3. Posted(n) = comments[c].posts + (IF effects[n].remote = None THEN 1 ELSE 0)
        BY <3>1, <3>2 DEF Posted
      <3> HIDE DEF c
      <3>4. \/ /\ comments[c].live \/ effects[n].remote = None
               /\ comments' = [comments EXCEPT ![c] = k]
               /\ request' = [request EXCEPT ![n].status = "met", ![n].rev = Rev(c) + 1]
            \/ /\ ~(comments[c].live \/ effects[n].remote = None)
               /\ request' = [request EXCEPT ![n].status = "missing"]
               /\ UNCHANGED comments
            \/ /\ \E end \in {"rejected", "lost"} : request' = [request EXCEPT ![n].status = end]
               /\ UNCHANGED comments
        BY <1>5, <3>1, <3>3 DEF Meet
      <3>5. [request EXCEPT ![n].status = "met", ![n].rev = Rev(c) + 1]
               = [request EXCEPT ![n] = [request[n] EXCEPT !.status = "met", !.rev = Rev(c) + 1]]
        BY <1>1, <2>0
      <3> QED
        BY <3>4, <3>5
    <2> QED
      BY <2>1, <2>2, <2>3
  <1> QED
    BY <1>3, <1>4, <1>5

\* Every step is of one of these kinds.
QuietStep == SaveStep \/ DropStep \/ FenceStep \/ DispatchStep \/ ScanStep
ReceivedStep == \E c \in Effects, v \in Nat : ReceiptStep(c, v) /\ v \in 1..Rev(c)
RemoteStep == \E c \in Effects : EditStep(c) \/ DeleteStep(c) \/ MeetStep(c)
LEMMA Kinds ==
    ASSUME Inv, [Next]_vars
    PROVE  OutboxStep \/ QuietStep \/ ReceivedStep \/ RemoteStep
  <1>1. CASE UNCHANGED vars
    <2>1. UNCHANGED <<effects, status, preview, run, comments, request, retained>>
      BY <1>1 DEF vars, rows, github
    <2>2. RowsMove
      BY <2>1, Rest DEF Inv
    <2> QED
      BY <2>1, <2>2 DEF OutboxStep, RowsStep, StatusKept
  <1>2. CASE RunnerStep \/ ProbeFails \/ SourceMoved \/ IdentityChanged \/ ReadFails \/ Crash
    BY <1>2, RunnerSteps DEF QuietStep, ReceivedStep
  <1>3. CASE \E n \in Effects : Edit(n) \/ Delete(n) \/ Meet(n)
    BY <1>3, GitHubSteps DEF RemoteStep
  <1>4. CASE QueueOnly \/ \E n \in Effects : Pick(n) \/ Ingest(n) \/ IngestDeletion(n)
    BY <1>4, QueueSteps
  <1>5. CASE \/ \E b \in Bodies : \/ ChangeTask(b) \/ ChangeFacts(b)
                                 \/ \E on \in BOOLEAN : SetPolicy(on, b)
             \/ Move \/ \E m \in Mappings : Reconfigure(m)
             \/ ApproveQuestion \/ ApproveRepair
             \/ \E n \in Effects : Retry(n) \/ Relinquish(n) \/ PreviewRepair(n)
    BY <1>5, HumanSteps
  <1> QED
    <2>1. CASE Next
      <3>1. CASE \E b \in Bodies : \/ ChangeTask(b) \/ ChangeFacts(b)
                                 \/ \E on \in BOOLEAN : SetPolicy(on, b)
        BY <1>5, <3>1
      <3>2. CASE ApproveQuestion \/ ApproveRepair \/ Move \/ \E m \in Mappings : Reconfigure(m)
        BY <1>5, <3>2
      <3>3. CASE \E n \in Effects : Retry(n) \/ Relinquish(n) \/ PreviewRepair(n)
        BY <1>5, <3>3
      <3>4. CASE \E n \in Effects : Pick(n) \/ Ingest(n) \/ IngestDeletion(n)
        BY <1>4, <3>4
      <3> QED
        BY <1>2, <1>3, <1>4, <2>1, <3>1, <3>2, <3>3, <3>4 DEF Next
    <2> QED
      BY <1>1, <2>1

-----------------------------------------------------------------------------
(* What the steps leave alone. *)

\* A row is about the same, and of the same comment.
Alike(n) ==
    /\ effects'[n].kind = effects[n].kind
    /\ effects'[n].text = effects[n].text
    /\ effects'[n].approval = effects[n].approval
Still(n) ==
    /\ Alike(n)
    /\ effects'[n].remote = effects[n].remote
    /\ effects'[n].expects = effects[n].expects
    /\ effects'[n].rev = effects[n].rev

LEMMA StillFacts ==
    ASSUME NEW n, effects[n] \in Rows, NEW s \in States, effects'[n] = With(effects[n], s)
    PROVE  Still(n) /\ effects'[n].state = s
  BY RowFacts DEF Still, Alike

LEMMA Unchanged ==
    ASSUME NEW n, effects'[n] = effects[n]
    PROVE  Still(n) /\ effects'[n].state = effects[n].state
  BY DEF Still, Alike

\* The rows a step of the outbox finds, and the one it may append.
LEMMA OutboxRows ==
    ASSUME Inv, OutboxStep
    PROVE  /\ effects' \in [Effects -> Rows]
           /\ UNCHANGED <<comments, request>>
           /\ Made \subseteq Effects /\ Made \subseteq Made'
           /\ \A n \in Made : Still(n) /\ Moved(n)
           /\ \A n \in Made : n \in StatusEffects' <=> n \in StatusEffects
           /\ \A n \in Effects \ Made' : effects'[n] = effects[n]
           /\ \/ Made' = Made
              \/ Room /\ Made' = Made \cup {Last + 1} /\ Last + 1 \in Effects \ Made
           /\ \A n \in Made' \ Made :
                 /\ New(effects'[n])
                 /\ comments[n] = [live |-> FALSE, posts |-> 0, log |-> <<>>]
                 /\ request[n] = NoRequest /\ effects[n] = NoEffect
  <1>0. WritebackTypeOK /\ MadeInv /\ RowsMove /\ UNCHANGED <<comments, request>>
    BY DEF Inv, OutboxStep, RowsStep
  <1>1. Made \subseteq Effects /\ \A n \in Effects : effects[n] \in Rows
    BY <1>0 DEF Made, WritebackTypeOK
  <1>2. effects' \in [Effects -> Rows] /\ \A n \in Made : Moved(n)
    BY <1>0 DEF RowsMove
  <1>3. ASSUME NEW n \in Made
        PROVE  Still(n) /\ n \in Made' /\ (n \in StatusEffects' <=> n \in StatusEffects)
    <2>1. Moved(n) /\ n \in Effects /\ effects[n].state # "none" /\ effects[n] \in Rows
      BY <1>1, <1>2 DEF Made
    <2>2. effects'[n] = With(effects[n], effects'[n].state) /\ effects'[n].state \in States
      BY <1>2, <2>1, RowFacts DEF Moved
    <2>3. Still(n)
      BY <2>1, <2>2, StillFacts
    <2>4. effects'[n].state # "none"
      BY <2>1 DEF Moved
    <2> QED
      BY <2>1, <2>3, <2>4 DEF Made, StatusEffects, Still, Alike
  <1>4. \A n \in Effects \ Made : effects[n] = NoEffect /\ request[n] = NoRequest
                                  /\ comments[n] = [live |-> FALSE, posts |-> 0, log |-> <<>>]
    BY <1>0 DEF MadeInv, Untouched
  <1>5. CASE \A n \in Effects \ Made : effects'[n] = effects[n]
    <2>1. Made' = Made
      BY <1>1, <1>3, <1>5 DEF Made
    <2> QED
      BY <1>0, <1>1, <1>2, <1>3, <1>5, <2>1
  <1>6. CASE /\ Room
             /\ New(effects'[Last + 1])
             /\ \A n \in Effects \ Made : n # Last + 1 => effects'[n] = effects[n]
    <2>1. Last + 1 \in Effects \ Made
      BY <1>0, <1>6, MadeFacts
    <2>2. effects'[Last + 1].state # "none"
      BY <1>6 DEF New, IsQuestion, IsUpdate, IsRepair, IsCopy
    <2>3. Made' = Made \cup {Last + 1}
      BY <1>1, <1>3, <1>6, <2>1, <2>2 DEF Made
    <2> QED
      BY <1>0, <1>1, <1>2, <1>3, <1>4, <1>6, <2>1, <2>3
  <1> QED
    BY <1>0, <1>5, <1>6 DEF RowsMove

\* The runner changes the state of the row in hand and GitHub of none.
LEMMA QuietRows ==
    ASSUME Inv, QuietStep \/ RemoteStep
    PROVE  /\ effects' \in [Effects -> Rows]
           /\ Made \subseteq Effects /\ Made' = Made /\ StatusEffects' = StatusEffects
           /\ \A n \in Effects : Still(n)
           /\ \A n \in Effects \ Made : effects'[n] = effects[n]
           /\ UNCHANGED <<status, preview, retained>>
  <1>0. WritebackTypeOK
    BY DEF Inv
  <1>1. effects \in [Effects -> Rows] /\ Made \subseteq Effects
    BY <1>0 DEF WritebackTypeOK, Made
  <1>2. CASE UNCHANGED effects
    <2>1. Made' = Made /\ StatusEffects' = StatusEffects
      BY <1>2 DEF Made, StatusEffects
    <2>2. UNCHANGED <<status, preview, retained>>
      BY DEF QuietStep, RemoteStep, SaveStep, DropStep, FenceStep, DispatchStep, ScanStep,
             EditStep, DeleteStep, MeetStep
    <2> QED
      BY <1>1, <1>2, <2>1, <2>2, Unchanged
  <1>3. ASSUME NEW to \in States, to # "none", run.at # "idle",
               RowBecomes(run.on, With(effects[run.on], to)), UNCHANGED <<status, preview, retained>>
        PROVE  /\ effects' \in [Effects -> Rows]
               /\ Made \subseteq Effects /\ Made' = Made /\ StatusEffects' = StatusEffects
               /\ \A n \in Effects : Still(n)
               /\ \A n \in Effects \ Made : effects'[n] = effects[n]
               /\ UNCHANGED <<status, preview, retained>>
    <2>1. run.on \in Made /\ run.on \in Effects
      BY <1>3, HandFacts
    <2>2. /\ effects' \in [Effects -> Rows]
          /\ effects'[run.on] = With(effects[run.on], to)
          /\ \A m \in Effects : m # run.on => effects'[m] = effects[m]
      BY <1>3 DEF RowBecomes
    <2>3. ASSUME NEW n \in Effects
          PROVE  Still(n) /\ (n \in Made' <=> n \in Made)
                 /\ (n \in StatusEffects' <=> n \in StatusEffects)
      <3>1. effects[n] \in Rows
        BY <1>1
      <3>2. CASE n = run.on
        <4>1. Still(n) /\ effects'[n].state = to
          BY <1>3, <2>2, <3>1, <3>2, StillFacts
        <4> QED
          BY <1>3, <2>1, <3>2, <4>1 DEF Made, StatusEffects, Still, Alike
      <3>3. CASE n # run.on
        BY <2>2, <3>3, Unchanged DEF Made, StatusEffects
      <3> QED
        BY <3>2, <3>3
    <2>4. Made' \subseteq Effects /\ StatusEffects' \subseteq Effects /\ StatusEffects \subseteq Effects
      BY DEF Made, StatusEffects
    <2> QED
      BY <1>1, <1>3, <2>1, <2>2, <2>3, <2>4
  <1>4. CASE SaveStep
    BY <1>3, <1>4 DEF SaveStep, States
  <1>5. CASE DispatchStep
    BY <1>3, <1>5 DEF DispatchStep, States
  <1>6. CASE DropStep \/ FenceStep \/ ScanStep \/ RemoteStep
    BY <1>2, <1>6 DEF DropStep, FenceStep, ScanStep, RemoteStep, EditStep, DeleteStep, MeetStep
  <1> QED
    BY <1>4, <1>5, <1>6 DEF QuietStep

LEMMA ReceivedRows ==
    ASSUME Inv, NEW c \in Effects, NEW v \in 1..Rev(c), ReceiptStep(c, v)
    PROVE  /\ effects' \in [Effects -> Rows]
           /\ run.on \in Effects /\ run.on \in Made /\ InHand(run.on)
           /\ Made \subseteq Effects /\ Made' = Made /\ StatusEffects' = StatusEffects
           /\ \A n \in Effects : Alike(n) /\ (n # run.on => effects'[n] = effects[n])
           /\ effects'[run.on].state = "sent" /\ effects'[run.on].remote = c
           /\ effects'[run.on].rev = v /\ effects'[run.on].expects = comments[c].log[v]
           /\ c # None
           /\ status' = IF effects[run.on].kind = "status" THEN SettledStatus(c, v) ELSE status
           /\ effects[run.on].remote \in {None, c}
           /\ UNCHANGED <<preview, comments, request>>
           /\ run' = Idle
           /\ comments[c].log[v] = effects[run.on].text
           /\ Created(c)
           /\ \/ /\ run.at = "sending" /\ request[run.on].status = "met" /\ c = Target(run.on)
              \/ /\ run.at \in {"recalling", "verifying"} /\ comments[c].live
                 /\ Now(c) = effects[run.on].text /\ v = Rev(c)
  <1>0. WritebackTypeOK /\ AnswerInv /\ PostInv
    BY DEF Inv
  <1>1. run.at \in {"sending", "recalling", "verifying"} /\ run.at # "idle"
    BY DEF ReceiptStep
  <1>2. /\ run.on \in Effects /\ run.on \in Made /\ effects \in [Effects -> Rows]
        /\ run.e \in Rows /\ run.e.kind = effects[run.on].kind
        /\ run.e.text = effects[run.on].text /\ run.e.approval = effects[run.on].approval
        /\ run.e.remote = effects[run.on].remote
    BY <1>1, HandFacts
  <1>3. InHand(run.on) /\ Made \subseteq Effects
    BY <1>1 DEF InHand, Made
  <1>4. v \in Nat /\ c # None /\ Created(c) /\ Rev(c) \in Nat
    <2>1. Rev(c) \in Nat
      BY <1>0, TextFacts
    <2> QED
      BY <2>1 DEF Created, Effects, None
  <1>5. comments[c].log[v] \in Texts
    BY <1>0, <1>4, LogFacts, TextFacts DEF Rev
  <1>6. LET r == Settled(run.e, c, v)
        IN  /\ r.kind = run.e.kind /\ r.text = run.e.text /\ r.approval = run.e.approval
            /\ r.state = "sent" /\ r.remote = c /\ r.rev = v /\ r.expects = comments[c].log[v]
    BY <1>2, <1>4, <1>5 DEF Settled, Rows
  <1>7. /\ effects' \in [Effects -> Rows] /\ effects'[run.on] = Settled(run.e, c, v)
        /\ \A m \in Effects : m # run.on => effects'[m] = effects[m]
    BY DEF ReceiptStep, RowBecomes
  <1>8. ASSUME NEW n \in Effects
        PROVE  Alike(n) /\ (n \in Made' <=> n \in Made)
               /\ (n \in StatusEffects' <=> n \in StatusEffects)
    <2>1. CASE n = run.on
      BY <1>2, <1>6, <1>7, <2>1 DEF Alike, Made, StatusEffects
    <2>2. CASE n # run.on
      BY <1>7, <2>2 DEF Alike, Made, StatusEffects
    <2> QED
      BY <2>1, <2>2
  <1>9. Made' = Made /\ StatusEffects' = StatusEffects
    <2>1. Made' \subseteq Effects /\ StatusEffects' \subseteq Effects /\ StatusEffects \subseteq Effects
      BY DEF Made, StatusEffects
    <2> QED
      BY <1>3, <1>8, <2>1
  <1>10. comments[c].log[v] = effects[run.on].text
         /\ effects[run.on].remote \in {None, c}
    <2>1. CASE run.at = "sending"
      BY <1>0, <1>2, <2>1 DEF ReceiptStep, AnswerInv, Target
    <2>2. CASE run.at # "sending"
      BY <1>2, <2>2 DEF ReceiptStep, Exact, Now
    <2> QED
      BY <2>1, <2>2
  <1>11. \/ /\ run.at = "sending" /\ request[run.on].status = "met" /\ c = Target(run.on)
         \/ /\ run.at \in {"recalling", "verifying"} /\ comments[c].live
            /\ Now(c) = effects[run.on].text /\ v = Rev(c)
    BY <1>2 DEF ReceiptStep, Exact
  <1>12. /\ status' = IF effects[run.on].kind = "status" THEN SettledStatus(c, v) ELSE status
         /\ UNCHANGED <<preview, comments, request>> /\ run' = Idle
    BY <1>2 DEF ReceiptStep
  <1> QED
    BY <1>2, <1>3, <1>4, <1>6, <1>7, <1>8, <1>9, <1>10, <1>11, <1>12

\* What is in flight or shown belongs to a row.
LEMMA TraceFacts ==
    ASSUME Inv, NEW n \in Effects
    PROVE  /\ request[n] # NoRequest => n \in Made
           /\ Created(n) => n \in Made
           /\ comments[n].live => Created(n) /\ n \in Made
           /\ effects[n].remote # None => effects[n].remote \in Effects /\ Created(effects[n].remote)
           /\ n \in Made => Target(n) \in Effects /\ Target(n) \in Made
  <1>0. WritebackTypeOK /\ MadeInv /\ PostInv /\ RemoteInv
    BY DEF Inv
  <1>1. \A m \in Effects : m \notin Made =>
           effects[m] = NoEffect /\ request[m] = NoRequest /\ comments[m].log = <<>>
    BY <1>0 DEF MadeInv, Untouched
  <1>2. \A m \in Effects : Created(m) => m \in Made
    BY <1>1 DEF Created, Rev
  <1>3. effects[n].remote # None => effects[n].remote \in Effects /\ Created(effects[n].remote)
    <2>1. effects[n].remote \in Effects \cup {None}
      BY <1>0 DEF WritebackTypeOK, Rows
    <2>2. effects[n].remote # None => n \in Made
      BY <1>1 DEF NoEffect
    <2> QED
      BY <1>0, <2>1, <2>2 DEF RemoteInv
  <1>4. comments[n].live => Created(n)
    BY <1>0 DEF PostInv
  <1> QED
    BY <1>1, <1>2, <1>3, <1>4 DEF Target

LEMMA EditFacts ==
    ASSUME Inv, NEW c \in Effects, EditStep(c)
    PROVE  /\ c \in Made /\ Created(c)
           /\ comments' \in [Effects -> Comments] /\ request' \in [Effects -> Requests]
           /\ comments'[c].log = Append(comments[c].log, Foreign)
           /\ comments'[c].live = comments[c].live /\ comments'[c].posts = comments[c].posts
           /\ \A d \in Effects : d # c => comments'[d] = comments[d]
           /\ \A n \in Effects : /\ request'[n].status = request[n].status
                                 /\ request'[n].rev = request[n].rev
                                 /\ request[n].raced => request'[n].raced
                                 /\ effects[n].remote = c /\ Undone(n) => request'[n].raced
                                 /\ request[n] = NoRequest /\ n \notin Made => request'[n] = NoRequest
  <1>0. WritebackTypeOK /\ request \in [Effects -> Requests]
    BY DEF Inv, WritebackTypeOK, Requests
  <1>1. c \in Made /\ Created(c)
    BY TraceFacts DEF EditStep
  <1>2. comments[c] \in Comments
    BY <1>0 DEF WritebackTypeOK, Comments
  <1>3. /\ comments' \in [Effects -> Comments]
        /\ comments'[c] = [comments[c] EXCEPT !.log = Append(comments[c].log, Foreign)]
        /\ \A d \in Effects : d # c => comments'[d] = comments[d]
    BY DEF EditStep, CommentBecomes
  <1>4. comments'[c].log = Append(comments[c].log, Foreign)
        /\ comments'[c].live = comments[c].live /\ comments'[c].posts = comments[c].posts
    BY <1>2, <1>3 DEF Comments
  <1>5. request' = Raced(c)
    BY DEF EditStep
  <1>6. ASSUME NEW n \in Effects
        PROVE  /\ request'[n] \in Requests
               /\ request'[n].status = request[n].status
               /\ request'[n].rev = request[n].rev
               /\ request[n].raced => request'[n].raced
               /\ effects[n].remote = c /\ Undone(n) => request'[n].raced
               /\ n \notin Made => request'[n] = request[n]
    <2>1. request[n] \in Requests
      BY <1>0
    <2>2. n \notin Made => effects[n].remote # c
      <3>1. n \notin Made => effects[n] = NoEffect
        BY DEF Inv, MadeInv
      <3> QED
        BY <3>1 DEF NoEffect, None, Effects
    <2>3. request'[n] = IF effects[n].remote = c /\ Undone(n)
                        THEN [request[n] EXCEPT !.raced = TRUE] ELSE request[n]
      BY <1>5 DEF Raced
    <2> QED
      BY <2>1, <2>2, <2>3 DEF Requests
  <1>7. request' \in [Effects -> Requests]
    BY <1>5, <1>6 DEF Raced
  <1> QED
    BY <1>1, <1>3, <1>4, <1>6, <1>7

LEMMA DeleteFacts ==
    ASSUME Inv, NEW c \in Effects, DeleteStep(c)
    PROVE  /\ comments' \in [Effects -> Comments]
           /\ ~comments'[c].live
           /\ comments'[c].log = comments[c].log /\ comments'[c].posts = comments[c].posts
           /\ \A d \in Effects : d # c => comments'[d] = comments[d]
           /\ comments[c] = [live |-> FALSE, posts |-> 0, log |-> <<>>] => comments'[c] = comments[c]
           /\ UNCHANGED request
  <1>1. comments[c] \in Comments
    BY DEF Inv, WritebackTypeOK, Comments
  <1>2. /\ comments' \in [Effects -> Comments]
        /\ comments'[c] = [comments[c] EXCEPT !.live = FALSE]
        /\ \A d \in Effects : d # c => comments'[d] = comments[d]
        /\ UNCHANGED request
    BY DEF DeleteStep, CommentBecomes
  <1>3. comments[c] = [live |-> FALSE, posts |-> 0, log |-> <<>>] => comments'[c] = comments[c]
    <2>1. ASSUME NEW k \in Comments, k.live = FALSE PROVE [k EXCEPT !.live = FALSE] = k
      BY <2>1 DEF Comments
    <2>2. comments[c].live = FALSE => comments'[c] = comments[c]
      <3>1. comments[c].live = FALSE => [comments[c] EXCEPT !.live = FALSE] = comments[c]
        BY <1>1, <2>1
      <3> QED
        BY <1>2, <3>1
    <2>3. comments[c] = [live |-> FALSE, posts |-> 0, log |-> <<>>] => comments[c].live = FALSE
      OBVIOUS
    <2> QED
      BY <2>2, <2>3
  <1>4. ~comments'[c].live /\ comments'[c].log = comments[c].log
        /\ comments'[c].posts = comments[c].posts
    BY <1>1, <1>2 DEF Comments
  <1> QED
    BY <1>2, <1>3, <1>4

LEMMA MeetFacts ==
    ASSUME Inv, NEW n \in Effects, MeetStep(n)
    PROVE  /\ n \in Made /\ Target(n) \in Effects /\ Target(n) \in Made
           /\ request[n].status = "sent"
           /\ comments' \in [Effects -> Comments] /\ request' \in [Effects -> Requests]
           /\ \A m \in Effects : m # n => request'[m] = request[m]
           /\ request'[n].raced = request[n].raced
           /\ effects[n].remote = None => comments[n] = [live |-> FALSE, posts |-> 0, log |-> <<>>]
           /\ \/ /\ request'[n].status = "met" /\ request'[n].rev = Rev(Target(n)) + 1
                 /\ comments'[Target(n)].live
                 /\ comments'[Target(n)].log = Append(comments[Target(n)].log, effects[n].text)
                 /\ comments'[Target(n)].posts = Posted(n)
                 /\ comments[Target(n)].live \/ effects[n].remote = None
                 /\ \A d \in Effects : d # Target(n) => comments'[d] = comments[d]
              \/ /\ request'[n].status \in {"missing", "rejected", "lost"}
                 /\ request'[n].status = "missing" => effects[n].remote # None
                 /\ UNCHANGED comments
  <1>0. WritebackTypeOK /\ PostInv
    BY DEF Inv
  <1>1. request[n].status = "sent" /\ request[n] \in Requests
    BY <1>0 DEF MeetStep, WritebackTypeOK, Requests
  <1>2. n \in Made /\ Target(n) \in Effects /\ Target(n) \in Made
    <2>1. request[n] # NoRequest
      BY <1>1 DEF NoRequest
    <2> QED
      BY <2>1, TraceFacts
  <1>3. effects[n].remote = None => comments[n] = [live |-> FALSE, posts |-> 0, log |-> <<>>]
    BY <1>0, <1>1 DEF PostInv, Untouched
  <1>4. comments \in [Effects -> Comments]
    BY <1>0 DEF WritebackTypeOK, Comments
  <1>5. CASE /\ comments[Target(n)].live \/ effects[n].remote = None
             /\ CommentBecomes(Target(n), [live |-> TRUE, posts |-> Posted(n),
                   log |-> Append(comments[Target(n)].log, effects[n].text)])
             /\ RequestBecomes(n, [request[n] EXCEPT !.status = "met", !.rev = Rev(Target(n)) + 1])
    <2> DEFINE q == [request[n] EXCEPT !.status = "met", !.rev = Rev(Target(n)) + 1]
    <2>1. q.status = "met" /\ q.rev = Rev(Target(n)) + 1 /\ q.raced = request[n].raced
      BY <1>1 DEF Requests
    <2> HIDE DEF q
    <2>2. /\ request' \in [Effects -> Requests] /\ request'[n] = q
          /\ \A m \in Effects : m # n => request'[m] = request[m]
      BY <1>5 DEF RequestBecomes, q
    <2>3. /\ comments' \in [Effects -> Comments]
          /\ comments'[Target(n)] = [live |-> TRUE, posts |-> Posted(n),
                log |-> Append(comments[Target(n)].log, effects[n].text)]
          /\ \A d \in Effects : d # Target(n) => comments'[d] = comments[d]
      BY <1>5 DEF CommentBecomes
    <2> QED
      BY <1>1, <1>2, <1>3, <1>5, <2>1, <2>2, <2>3
  <1>6. ASSUME NEW end \in {"missing", "rejected", "lost"}, UNCHANGED comments,
               RequestBecomes(n, [request[n] EXCEPT !.status = end]),
               end = "missing" => effects[n].remote # None
        PROVE  /\ comments' \in [Effects -> Comments] /\ request' \in [Effects -> Requests]
               /\ \A m \in Effects : m # n => request'[m] = request[m]
               /\ request'[n].raced = request[n].raced
               /\ request'[n].status = end
    <2>1. [request[n] EXCEPT !.status = end].status = end
          /\ [request[n] EXCEPT !.status = end].raced = request[n].raced
      BY <1>1 DEF Requests
    <2> QED
      BY <1>4, <1>6, <2>1 DEF RequestBecomes
  <1> QED
    BY <1>1, <1>2, <1>3, <1>5, <1>6 DEF MeetStep

\* Logs only grow.
LEMMA Growth ==
    ASSUME Inv, RemoteStep, NEW d \in Effects
    PROVE  /\ comments' \in [Effects -> Comments] /\ request' \in [Effects -> Requests]
           /\ Rev(d) \in Nat /\ Rev(d)' \in Nat /\ Rev(d) <= Rev(d)'
           /\ Created(d) => Created(d)'
           /\ \A k \in 1..Rev(d) : comments'[d].log[k] = comments[d].log[k]
  <1>0. WritebackTypeOK
    BY DEF Inv
  <1>1. /\ comments[d].log \in Seq(Texts) /\ Rev(d) \in Nat /\ Foreign \in Texts
        /\ \A n \in Effects : effects[n].text \in Texts
    <2>1. \A n \in Effects : effects[n] \in Rows
      BY <1>0 DEF WritebackTypeOK
    <2> QED
      BY <1>0, <2>1, TextFacts DEF Rows
  <1>2. request \in [Effects -> Requests]
    BY <1>0 DEF WritebackTypeOK, Requests
  <1>3. /\ comments' \in [Effects -> Comments] /\ request' \in [Effects -> Requests]
        /\ \/ comments'[d].log = comments[d].log
           \/ \E t \in Texts : comments'[d].log = Append(comments[d].log, t)
    <2>1. ASSUME NEW c \in Effects, EditStep(c)
          PROVE  /\ comments' \in [Effects -> Comments] /\ request' \in [Effects -> Requests]
                 /\ \/ comments'[d].log = comments[d].log
                    \/ \E t \in Texts : comments'[d].log = Append(comments[d].log, t)
      BY <1>1, <2>1, EditFacts
    <2>2. ASSUME NEW c \in Effects, DeleteStep(c)
          PROVE  /\ comments' \in [Effects -> Comments] /\ request' \in [Effects -> Requests]
                 /\ comments'[d].log = comments[d].log
      BY <1>2, <2>2, DeleteFacts
    <2>3. ASSUME NEW n \in Effects, MeetStep(n)
          PROVE  /\ comments' \in [Effects -> Comments] /\ request' \in [Effects -> Requests]
                 /\ \/ comments'[d].log = comments[d].log
                    \/ \E t \in Texts : comments'[d].log = Append(comments[d].log, t)
      BY <1>1, <2>3, MeetFacts
    <2> QED
      BY <2>1, <2>2, <2>3 DEF RemoteStep
  <1>4. CASE comments'[d].log = comments[d].log
    BY <1>1, <1>3, <1>4 DEF Rev, Created
  <1>5. ASSUME NEW t \in Texts, comments'[d].log = Append(comments[d].log, t)
        PROVE  /\ Rev(d)' \in Nat /\ Rev(d) <= Rev(d)' /\ (Created(d) => Created(d)')
               /\ \A k \in 1..Rev(d) : comments'[d].log[k] = comments[d].log[k]
    BY <1>1, <1>5, LogFacts DEF Rev, Created
  <1> QED
    BY <1>1, <1>3, <1>4, <1>5

-----------------------------------------------------------------------------
(* Types. *)

Policies == [enabled : BOOLEAN, epoch : Nat]
Statuses == [marker : Effects \cup {None}, remote : Effects \cup {None}, text : Texts,
             rev : Nat, relinquished : BOOLEAN, repairRequired : BOOLEAN]
Previews == [of : Effects, epoch : Nat, version : Nat, body : Bodies, observed : BOOLEAN,
             remote : Effects, text : Texts, rev : Nat]
Runs == [at : {"idle", "probing", "fencing", "sending", "recalling", "verifying"},
         on : Effects \cup {None}, e : Rows, found : Effects \cup {None}]
Echoes == {"none", "confirmed", "awaiting-receipt", "external", "deleted"}
Retained == [rev : Nat, echo : Echoes]

LEMMA TypeFacts ==
    WritebackTypeOK <=>
        /\ template \in Bodies /\ version \in Nat /\ source \in Nat
        /\ mapping \in Mappings /\ moved \in BOOLEAN
        /\ policy \in Policies /\ status \in Statuses
        /\ effects \in [Effects -> Rows]
        /\ preview \in {NoPreview} \cup Previews
        /\ run \in Runs
        /\ comments \in [Effects -> Comments]
        /\ request \in [Effects -> Requests]
        /\ retained \in [Effects -> Retained]
        /\ events \in 0..MaxEvents
  BY DEF WritebackTypeOK, Policies, Statuses, Previews, Runs, Comments, Requests, Retained,
         Echoes

LEMMA NoEffectFacts == NoEffect \in Rows /\ Idle \in Runs
  <1>1. NoText \in Texts
    BY DEF NoText, Text, Texts
  <1>2. NoEffect \in Rows
    BY <1>1 DEF NoEffect, Rows, Mappings, None
  <1> QED
    BY <1>2 DEF Idle, Runs

\* The task, the policy and the bound.
LEMMA TaskTypes ==
    ASSUME Inv, [Next]_vars
    PROVE  /\ template' \in Bodies /\ version' \in Nat /\ source' \in Nat
           /\ mapping' \in Mappings /\ moved' \in BOOLEAN
           /\ policy' \in Policies /\ events' \in 0..MaxEvents
  <1> DEFINE Goal == /\ template' \in Bodies /\ version' \in Nat /\ source' \in Nat
                     /\ mapping' \in Mappings /\ moved' \in BOOLEAN
                     /\ policy' \in Policies /\ events' \in 0..MaxEvents
  <1>0. /\ template \in Bodies /\ version \in Nat /\ source \in Nat
        /\ mapping \in Mappings /\ moved \in BOOLEAN
        /\ policy \in Policies /\ events \in 0..MaxEvents /\ MaxEvents \in Nat
    BY TypeFacts, BoundsAssumption DEF Inv
  <1>1. Event => events' \in 0..MaxEvents
    BY <1>0 DEF Event
  <1>2. CASE UNCHANGED vars
    BY <1>0, <1>2 DEF vars, task, rows
  <1>15. CASE Move
    BY <1>0, <1>1, <1>15 DEF Move, Attention, rows
  <1>16. ASSUME NEW m \in Mappings, Reconfigure(m) PROVE Goal
    BY <1>0, <1>1, <1>16 DEF Reconfigure, Attention, Policies
  <1>3. ASSUME NEW b \in Bodies, ChangeTask(b) \/ ChangeFacts(b) PROVE Goal
    BY <1>0, <1>1, <1>3 DEF ChangeTask, ChangeFacts, rows
  <1>4. ASSUME NEW b \in Bodies, NEW on \in BOOLEAN, SetPolicy(on, b) PROVE Goal
    BY <1>0, <1>1, <1>4 DEF SetPolicy, Policies
  <1>5. CASE ApproveQuestion \/ ApproveRepair \/ QueueOnly
    BY <1>0, <1>1, <1>5 DEF ApproveQuestion, ApproveRepair, QueueOnly, task
  <1>6. ASSUME NEW n \in Effects, Retry(n) \/ Relinquish(n) \/ PreviewRepair(n) \/ Pick(n)
        PROVE  Goal
    BY <1>0, <1>6 DEF Retry, Relinquish, PreviewRepair, Pick, task
  <1>7. ASSUME NEW n \in Effects, Ingest(n) \/ IngestDeletion(n) PROVE Goal
    BY <1>0, <1>7 DEF Ingest, IngestDeletion, Attention, task
  <1>8. ASSUME NEW n \in Effects, Edit(n) \/ Delete(n) \/ Meet(n) PROVE Goal
    BY <1>0, <1>1, <1>8 DEF Edit, Delete, Meet, task, rows
  <1>9. CASE Compare \/ CheckAbsence \/ NothingToCompare \/ Dispatch \/ FenceHolds
    BY <1>0, <1>9 DEF Compare, CheckAbsence, NothingToCompare, Dispatch, FenceHolds, task, rows
  <1>10. CASE Answered \/ Rejected \/ LoseTouch
    BY <1>0, <1>1, <1>10 DEF Answered, Rejected, LoseTouch, Receipt, task
  <1>11. CASE Recall \/ Scan \/ Verify \/ Astray
    BY <1>0, <1>11 DEF Recall, Scan, Verify, Astray, Receipt, task
  <1>12. CASE ProbeFails \/ SourceMoved \/ IdentityChanged \/ ReadFails \/ Crash
    BY <1>0, <1>1, <1>12
       DEF ProbeFails, SourceMoved, IdentityChanged, ReadFails, Crash, task, rows
  <1>13. CASE RunnerStep
    BY <1>9, <1>10, <1>11, <1>13 DEF RunnerStep
  <1>14. CASE Next
    BY <1>3, <1>4, <1>5, <1>6, <1>7, <1>8, <1>12, <1>13, <1>14, <1>15, <1>16 DEF Next
  <1> QED
    BY <1>2, <1>14

\* The status, what the human was shown and what ingestion has stored.
LEMMA StatusTypes ==
    ASSUME Inv, [Next]_vars
    PROVE  /\ status' \in Statuses
           /\ preview' \in {NoPreview} \cup Previews
           /\ retained' \in [Effects -> Retained]
  <1> DEFINE Goal == /\ status' \in Statuses
                     /\ preview' \in {NoPreview} \cup Previews
                     /\ retained' \in [Effects -> Retained]
  <1>0. /\ status \in Statuses /\ preview \in {NoPreview} \cup Previews
        /\ retained \in [Effects -> Retained] /\ WritebackTypeOK /\ RemoteInv
    BY TypeFacts DEF Inv
  <1>1. CASE UNCHANGED <<status, preview, retained>>
    BY <1>0, <1>1
  <1>2. ASSUME NEW n \in Effects, Relinquish(n) PROVE Goal
    BY <1>0, <1>2 DEF Relinquish, Statuses
  <1>3. CASE ApproveRepair
    BY <1>0, <1>3 DEF ApproveRepair, Statuses
  <1>4. ASSUME NEW n \in Effects, PreviewRepair(n) PROVE Goal
    <2> DEFINE c == status.remote
    <2>1. c \in Effects /\ Created(c)
      <3>1. c # None
        BY <1>4 DEF PreviewRepair
      <3> QED
        BY <1>0, <3>1 DEF RemoteInv, Shows
    <2>2. /\ Now(c) \in Texts /\ Rev(c) \in Nat /\ comments[c].live \in BOOLEAN
          /\ template \in Bodies /\ version \in Nat /\ policy.epoch \in Nat
      BY <1>0, <2>1, TextFacts DEF WritebackTypeOK
    <2>3. preview' = [of |-> n, epoch |-> policy.epoch, version |-> version, body |-> template,
                      observed |-> comments[c].live, remote |-> c,
                      text |-> Now(c), rev |-> Rev(c)]
      BY <1>4 DEF PreviewRepair
    <2>4. preview' \in Previews
      BY <2>1, <2>2, <2>3 DEF Previews
    <2> QED
      BY <1>0, <1>4, <2>4 DEF PreviewRepair
  <1>5. ASSUME NEW n \in Effects, Ingest(n) \/ IngestDeletion(n) PROVE Goal
    <2>1. Rev(n) \in Nat /\ Echo(n) \in Echoes
      BY <1>0, TextFacts DEF Echo, Echoes
    <2>2. retained' = [retained EXCEPT ![n] = [rev |-> Rev(n), echo |-> Echo(n)]]
          \/ retained' = [retained EXCEPT ![n].echo = "deleted"]
      BY <1>5 DEF Ingest, IngestDeletion
    <2>3. retained' \in [Effects -> Retained]
      BY <1>0, <2>1, <2>2 DEF Retained, Echoes
    <2> QED
      BY <1>0, <1>5, <2>3 DEF Ingest, IngestDeletion
  <1>6. CASE ReceivedStep
    <2>1. PICK c \in Effects, v \in Nat : ReceiptStep(c, v) /\ v \in 1..Rev(c)
      BY <1>6 DEF ReceivedStep
    <2>2. comments[c].log[v] \in Texts
      BY <1>0, <2>1, LogFacts, TextFacts DEF Rev
    <2>3. run.e.text \in Texts /\ run.e.text.marker \in Effects \cup {None}
      <3>1. run.e \in Rows
        BY <1>0 DEF WritebackTypeOK
      <3> QED
        BY <3>1 DEF Rows, Texts
    <2>4. SettledStatus(c, v) \in Statuses
      BY <1>0, <2>1, <2>2, <2>3 DEF SettledStatus, Statuses
    <2>5. Confirming(c, v) \in [Effects -> Retained]
      BY <1>0 DEF Confirming, Retained, Echoes
    <2> QED
      BY <1>0, <2>1, <2>4, <2>5 DEF ReceiptStep
  <1>7. CASE RunnerStep \/ ProbeFails \/ SourceMoved \/ IdentityChanged \/ ReadFails \/ Crash
    <2>1. CASE QuietStep
      BY <1>1, <2>1, QuietRows
    <2> QED
      BY <1>6, <1>7, <2>1, RunnerSteps DEF QuietStep, ReceivedStep
  <1>8. CASE \E n \in Effects : Edit(n) \/ Delete(n) \/ Meet(n)
    BY <1>1, <1>8, GitHubSteps DEF EditStep, DeleteStep, MeetStep
  <1>9. ASSUME NEW b \in Bodies, ChangeTask(b) \/ ChangeFacts(b)
                                 \/ \E on \in BOOLEAN : SetPolicy(on, b)
        PROVE  Goal
    BY <1>1, <1>9 DEF ChangeTask, ChangeFacts, SetPolicy, rows
  <1>10. CASE ApproveQuestion \/ QueueOnly \/ Move \/ \E m \in Mappings : Reconfigure(m)
    BY <1>1, <1>10 DEF ApproveQuestion, QueueOnly, Move, Reconfigure, rows
  <1>11. ASSUME NEW n \in Effects, Retry(n) \/ Pick(n) PROVE Goal
    BY <1>1, <1>11 DEF Retry, Pick
  <1>12. CASE Next
    <2>1. CASE Move \/ \E m \in Mappings : Reconfigure(m)
      BY <1>10, <2>1
    <2> QED
      BY <1>2, <1>3, <1>4, <1>5, <1>7, <1>8, <1>9, <1>10, <1>11, <1>12, <2>1 DEF Next
  <1>13. CASE UNCHANGED vars
    BY <1>1, <1>13 DEF vars, rows
  <1> QED
    BY <1>12, <1>13

LEMMA Types ==
    ASSUME Inv, [Next]_vars
    PROVE  WritebackTypeOK'
  <1>0. /\ run \in Runs /\ comments \in [Effects -> Comments] /\ request \in [Effects -> Requests]
        /\ Idle \in Runs
    BY TypeFacts, NoEffectFacts DEF Inv
  <1>1. /\ effects' \in [Effects -> Rows]
        /\ comments' \in [Effects -> Comments] /\ request' \in [Effects -> Requests]
        /\ run' \in Runs
    <2>1. CASE OutboxStep
      <3>1. effects' \in [Effects -> Rows] /\ UNCHANGED <<comments, request>>
        BY <2>1, OutboxRows
      <3>2. CASE Picks
        <4>1. PICK n \in Effects, at \in {"recalling", "probing"} :
                 run' = [at |-> at, on |-> n, e |-> effects'[n], found |-> None]
          BY <3>2 DEF Picks
        <4>2. effects'[n] \in Rows
          BY <3>1
        <4>3. ASSUME NEW e \in Rows
              PROVE  [at |-> at, on |-> n, e |-> e, found |-> None] \in Runs
          BY DEF Runs
        <4> QED
          <5>1. [at |-> at, on |-> n, e |-> effects'[n], found |-> None] \in Runs
            BY <4>2, <4>3
          <5> QED
            BY <1>0, <3>1, <4>1, <5>1
      <3> QED
        BY <1>0, <2>1, <3>1, <3>2 DEF OutboxStep, RowsStep
    <2>2. CASE QuietStep
      <3>1. effects' \in [Effects -> Rows]
        BY <2>2, QuietRows
      <3>2. CASE SaveStep \/ DropStep
        BY <1>0, <3>1, <3>2 DEF SaveStep, DropStep
      <3>3. CASE FenceStep
        <4>1. request' \in [Effects -> Requests] /\ UNCHANGED comments
          BY <1>0, <3>3 DEF FenceStep, RequestBecomes
        <4>2. run' \in Runs
          BY <1>0, <3>3 DEF FenceStep, Runs
        <4> QED
          BY <1>0, <3>1, <4>1, <4>2
      <3>4. CASE DispatchStep
        <4>1. run.e \in Rows
          BY <1>0 DEF Runs
        <4>2. With(run.e, "sending") \in Rows
          BY <4>1, RowFacts DEF States
        <4>3. run' \in Runs
          BY <1>0, <3>4, <4>2 DEF DispatchStep, Runs
        <4> QED
          BY <1>0, <3>1, <3>4, <4>3 DEF DispatchStep, RequestBecomes
      <3>5. CASE ScanStep
        BY <1>0, <3>1, <3>5 DEF ScanStep, Runs
      <3> QED
        BY <2>2, <3>2, <3>3, <3>4, <3>5 DEF QuietStep
    <2>3. CASE ReceivedStep
      BY <1>0, <2>3, ReceivedRows DEF ReceivedStep
    <2>4. CASE RemoteStep
      <3>1. effects' \in [Effects -> Rows] /\ UNCHANGED run
        BY <2>4, QuietRows DEF RemoteStep, EditStep, DeleteStep, MeetStep
      <3>2. ASSUME NEW c \in Effects, EditStep(c) \/ DeleteStep(c) \/ MeetStep(c)
            PROVE  comments' \in [Effects -> Comments] /\ request' \in [Effects -> Requests]
        BY <1>0, <3>2, EditFacts, DeleteFacts, MeetFacts
      <3> QED
        BY <1>0, <2>4, <3>1, <3>2 DEF RemoteStep
    <2> QED
      BY <2>1, <2>2, <2>3, <2>4, Kinds
  <1>2. /\ template' \in Bodies /\ version' \in Nat /\ source' \in Nat
        /\ mapping' \in Mappings /\ moved' \in BOOLEAN
        /\ policy' \in Policies /\ events' \in 0..MaxEvents
    BY TaskTypes
  <1>3. /\ status' \in Statuses /\ preview' \in {NoPreview} \cup Previews
        /\ retained' \in [Effects -> Retained]
    BY StatusTypes
  <1> QED
    BY <1>1, <1>2, <1>3, TypeFacts DEF WritebackTypeOK, Policies, Statuses, Previews, Runs,
       Comments, Requests, Retained, Echoes

-----------------------------------------------------------------------------
(* Rows: which are there, what is in hand, what they say. *)

LEMMA MadeStep ==
    ASSUME Inv, OutboxStep \/ QuietStep \/ ReceivedStep \/ RemoteStep
    PROVE  MadeInv'
  <1>0. WritebackTypeOK /\ MadeInv
    BY DEF Inv
  <1>1. /\ Last \in 0..MaxEffects /\ Made = 1..Last
        /\ MaxEffects \in Nat /\ (Room => Last + 1 \in Effects)
    BY <1>0, MadeFacts, BoundsAssumption
  <1>2. \A n \in Effects \ Made :
           effects[n] = NoEffect /\ request[n] = NoRequest
           /\ comments[n] = [live |-> FALSE, posts |-> 0, log |-> <<>>]
    BY <1>0 DEF MadeInv, Untouched
  <1>3. CASE OutboxStep
    <2>1. Made' = Made \/ (Room /\ Made' = Made \cup {Last + 1} /\ Last + 1 \in Effects \ Made)
      BY <1>3, OutboxRows
    <2>2. \E k \in 0..MaxEffects : Made' = 1..k
      <3>1. CASE Made' = Made
        BY <1>1, <3>1
      <3>2. CASE Room /\ Made' = Made \cup {Last + 1}
        <4>1. 1..(Last + 1) = 1..Last \cup {Last + 1}
          BY <1>1
        <4>2. Last + 1 \in 0..MaxEffects
          BY <1>1, <3>2 DEF Effects
        <4> QED
          BY <1>1, <3>2, <4>1, <4>2
      <3> QED
        BY <2>1, <3>1, <3>2
    <2>3. Made \subseteq Made' /\ \A n \in Effects \ Made' : effects'[n] = effects[n]
          /\ UNCHANGED <<comments, request>>
      BY <1>3, OutboxRows
    <2> QED
      BY <1>2, <2>2, <2>3 DEF MadeInv, Untouched
  <1>4. CASE QuietStep \/ RemoteStep
    <2>1. Made' = Made /\ \A n \in Effects \ Made : effects'[n] = effects[n]
      BY <1>4, QuietRows
    <2>2. ASSUME NEW n \in Effects \ Made
          PROVE  request'[n] = NoRequest
                 /\ comments'[n] = [live |-> FALSE, posts |-> 0, log |-> <<>>]
      <3>1. CASE SaveStep \/ DropStep \/ ScanStep
        BY <1>2, <2>2, <3>1 DEF SaveStep, DropStep, ScanStep
      <3>2. CASE FenceStep \/ DispatchStep
        <4>1. run.on \in Made
          BY <3>2, HandFacts DEF FenceStep, DispatchStep
        <4> QED
          BY <1>2, <2>2, <3>2, <4>1 DEF FenceStep, DispatchStep, RequestBecomes
      <3>3. ASSUME NEW c \in Effects, EditStep(c) PROVE request'[n] = NoRequest
               /\ comments'[n] = [live |-> FALSE, posts |-> 0, log |-> <<>>]
        BY <1>2, <2>2, <3>3, EditFacts
      <3>4. ASSUME NEW c \in Effects, DeleteStep(c) PROVE request'[n] = NoRequest
               /\ comments'[n] = [live |-> FALSE, posts |-> 0, log |-> <<>>]
        BY <1>2, <2>2, <3>4, DeleteFacts
      <3>5. ASSUME NEW c \in Effects, MeetStep(c) PROVE request'[n] = NoRequest
               /\ comments'[n] = [live |-> FALSE, posts |-> 0, log |-> <<>>]
        BY <1>2, <2>2, <3>5, MeetFacts
      <3> QED
        BY <1>4, <3>1, <3>2, <3>3, <3>4, <3>5 DEF QuietStep, RemoteStep
    <2> QED
      BY <1>1, <1>2, <2>1, <2>2 DEF MadeInv, Untouched
  <1>5. CASE ReceivedStep
    <2>1. Made' = Made /\ run.on \in Made /\ UNCHANGED <<comments, request>>
          /\ \A n \in Effects : n # run.on => effects'[n] = effects[n]
      BY <1>5, ReceivedRows DEF ReceivedStep
    <2> QED
      BY <1>1, <1>2, <2>1 DEF MadeInv, Untouched
  <1> QED
    BY <1>3, <1>4, <1>5

LEMMA KindStep ==
    ASSUME Inv, OutboxStep \/ QuietStep \/ ReceivedStep \/ RemoteStep
    PROVE  KindInv'
  <1> DEFINE Good(n) ==
         /\ effects'[n].kind = "status" => effects'[n].text.body \in Bodies
         /\ effects'[n].kind = "question" =>
               effects'[n].text.body = "question" /\ effects'[n].approval = "none"
         /\ effects'[n].approval = "observed" => effects'[n].remote # None
         /\ effects'[n].state = "sent" => effects'[n].remote # None
         /\ effects'[n].approval = "missing" /\ effects'[n].remote # None =>
               effects'[n].state \in {"sent", "repair", "cancelled"}
  <1> SUFFICES ASSUME NEW n \in Made' PROVE Good(n)
    BY DEF KindInv
  <1>0. KindInv /\ WritebackTypeOK /\ RemoteInv /\ HandInv
    BY DEF Inv
  <1>1. CASE OutboxStep
    <2>1. CASE n \in Made
      <3>1. Still(n) /\ Moved(n)
        BY <1>1, <2>1, OutboxRows
      <3> QED
        BY <1>0, <2>1, <3>1 DEF KindInv, Still, Alike, Moved, Dispatched
    <2>2. CASE n \notin Made
      <3>1. New(effects'[n])
        BY <1>1, <2>2, OutboxRows
      <3>2. CASE IsQuestion(effects'[n])
        BY <3>2 DEF IsQuestion
      <3>3. CASE IsUpdate(effects'[n])
        BY <3>3 DEF IsUpdate
      <3>4. CASE IsRepair(effects'[n])
        <4>1. preview.remote # None
          BY <1>0, <3>4 DEF IsRepair, WritebackTypeOK, Effects, None
        <4> QED
          BY <3>4, <4>1 DEF IsRepair
      <3>5. CASE IsCopy(effects'[n])
        BY <3>5 DEF IsCopy
      <3> QED
        BY <3>1, <3>2, <3>3, <3>4, <3>5 DEF New
    <2> QED
      BY <2>1, <2>2
  <1>2. CASE QuietStep \/ RemoteStep
    <2>1. Still(n) /\ n \in Made /\ n \in Effects
      BY <1>2, QuietRows
    <2>2. CASE effects'[n].state = effects[n].state
      BY <1>0, <2>1, <2>2 DEF KindInv, Still, Alike
    <2>3. CASE effects'[n].state # effects[n].state
      <3>1. run.on = n /\ run.at # "idle" /\ run.e.approval = effects[n].approval
            /\ run.e.remote = effects[n].remote
        <4>1. run.on = n /\ run.at # "idle"
          BY <1>2, <2>1, <2>3
             DEF QuietStep, RemoteStep, SaveStep, DropStep, FenceStep, DispatchStep, ScanStep,
                 EditStep, DeleteStep, MeetStep, RowBecomes
        <4> QED
          BY <4>1, HandFacts
      <3>2. effects[n].approval = "missing" => effects[n].remote = None
        BY <1>0, <3>1 DEF HandInv
      <3>3. effects'[n].state # "sent"
        <4>1. \A s \in States : With(effects[n], s).state = s
          BY <3>1, HandFacts, RowFacts
        <4> QED
          BY <1>2, <2>1, <2>3, <4>1
             DEF QuietStep, RemoteStep, SaveStep, DropStep, FenceStep, DispatchStep, ScanStep,
                 EditStep, DeleteStep, MeetStep, RowBecomes, States
      <3> QED
        BY <1>0, <2>1, <3>2, <3>3 DEF KindInv, Still, Alike
    <2> QED
      BY <2>2, <2>3
  <1>3. CASE ReceivedStep
    <2>1. n \in Made /\ n \in Effects /\ Alike(n)
          /\ (n # run.on => effects'[n] = effects[n])
          /\ effects'[run.on].state = "sent" /\ effects'[run.on].remote # None
      BY <1>3, ReceivedRows DEF ReceivedStep
    <2>2. CASE n = run.on
      BY <1>0, <2>1, <2>2 DEF KindInv, Alike
    <2>3. CASE n # run.on
      BY <1>0, <2>1, <2>3 DEF KindInv
    <2> QED
      BY <2>2, <2>3
  <1> QED
    BY <1>1, <1>2, <1>3

LEMMA HandStep ==
    ASSUME Inv, OutboxStep \/ QuietStep \/ ReceivedStep \/ RemoteStep
    PROVE  HandInv'
  <1>0. HandInv /\ WritebackTypeOK
    BY DEF Inv
  <1>1. CASE OutboxStep
    <2>1. KindInv'
      BY <1>1, KindStep
    <2>2. CASE UNCHANGED run /\ run.at # "idle"
      <3> DEFINE n == run.on
      <3>1. n \in Made /\ n \in Made' /\ Moved(n) /\ Still(n)
        BY <1>1, <2>2, HandFacts, OutboxRows
      <3>2. effects[n] \in Rows /\ effects'[n] = With(effects[n], effects'[n].state)
            /\ effects'[n].state \in States /\ run.e.state \in States
        BY <1>1, <2>2, <3>1, HandFacts, OutboxRows, RowFacts DEF Moved
      <3>3. run.e = With(effects'[n], run.e.state)
        <4>1. run.e = With(effects[n], run.e.state)
          BY <1>0, <2>2 DEF HandInv
        <4> QED
          BY <3>2, <4>1, RowFacts
      <3>4. run.at \in {"probing", "fencing"} =>
                effects'[n].state \in {"pending", "cancelled", "repair"}
        BY <1>0, <2>2, <3>1 DEF HandInv, Moved
      <3>5. run.at \in {"sending", "recalling", "verifying"} =>
                \/ effects'[n].state \in Dispatched
                \/ /\ effects'[n].state = "cancelled"
                   /\ run.e.kind = "status" => status'.relinquished
        <4>1. run.e.kind = effects[n].kind
          BY <2>2, HandFacts
        <4>2. status.relinquished => status'.relinquished
          BY <1>1 DEF OutboxStep, RowsStep, StatusKept
        <4> QED
          BY <1>0, <2>2, <3>1, <4>1, <4>2 DEF HandInv, Moved, Dispatched
      <3> QED
        BY <1>0, <2>2, <3>1, <3>3, <3>4, <3>5 DEF HandInv, Dispatched
    <2>3. CASE Picks
      <3>1. PICK n \in Effects :
               \/ /\ effects'[n].state \in Dispatched
                  /\ run' = [at |-> "recalling", on |-> n, e |-> effects'[n], found |-> None]
               \/ /\ effects'[n].state = "pending"
                  /\ run' = [at |-> "probing", on |-> n, e |-> effects'[n], found |-> None]
        BY <2>3 DEF Picks
      <3>2. effects'[n] \in Rows /\ n \in Made'
        BY <1>1, <3>1, OutboxRows DEF Made, Dispatched
      <3>3. With(effects'[n], effects'[n].state) = effects'[n]
        BY <3>2, RowFacts
      <3>4. effects'[n].approval = "missing" => effects'[n].remote = None
        BY <2>1, <3>1, <3>2 DEF KindInv, Dispatched
      <3> QED
        BY <3>1, <3>2, <3>3, <3>4 DEF HandInv, Dispatched
    <2> QED
      BY <1>1, <2>2, <2>3 DEF OutboxStep, RowsStep, HandInv
  <1>2. CASE SaveStep \/ DropStep \/ ReceivedStep
    <2>1. run' = Idle
      BY <1>2, ReceivedRows DEF SaveStep, DropStep, ReceivedStep
    <2> QED
      BY <2>1 DEF HandInv, Idle
  <1>3. CASE FenceStep
    <2>1. run \in Runs
      BY <1>0, TypeFacts
    <2>2. run.at = "probing" /\ run'.at = "fencing" /\ run'.on = run.on /\ run'.e = run.e
          /\ run'.found = run.found /\ UNCHANGED effects
      BY <1>3, <2>1 DEF FenceStep, Runs
    <2>3. Made' = Made
      BY <2>2 DEF Made
    <2> QED
      BY <1>0, <2>2, <2>3 DEF HandInv
  <1>4. CASE ScanStep
    <2>1. run \in Runs
      BY <1>0, TypeFacts
    <2>2. run.at = "recalling" /\ run'.at = "verifying" /\ run'.on = run.on /\ run'.e = run.e
          /\ run'.found \in Effects /\ UNCHANGED <<effects, status>> /\ run.e.remote = None
      BY <1>4, <2>1 DEF ScanStep, Runs
    <2>3. Made' = Made
      BY <2>2 DEF Made
    <2> QED
      BY <1>0, <2>2, <2>3 DEF HandInv, Dispatched
  <1>5. CASE DispatchStep
    <2>1. run \in Runs /\ run.e \in Rows /\ effects[run.on] \in Rows /\ run.on \in Made
      BY <1>0, <1>5, TypeFacts, HandFacts DEF DispatchStep
    <2>2. run'.at = "sending" /\ run'.on = run.on /\ run'.e = With(run.e, "sending")
          /\ effects'[run.on] = With(effects[run.on], "sending") /\ run.at = "fencing"
      BY <1>5, <2>1 DEF DispatchStep, Runs, RowBecomes
    <2>3. Made' = Made
      BY <1>5, QuietRows DEF QuietStep
    <2>4. With(run.e, "sending") = With(effects[run.on], "sending")
      BY <1>5, HandFacts DEF DispatchStep, States
    <2>5. /\ With(run.e, "sending").state = "sending"
          /\ With(run.e, "sending").approval = run.e.approval
          /\ With(run.e, "sending").remote = run.e.remote
      BY <2>1, RowFacts DEF States
    <2>6. With(With(effects[run.on], "sending"), "sending") = With(effects[run.on], "sending")
      BY <2>1, RowFacts DEF States
    <2> QED
      BY <1>0, <2>1, <2>2, <2>3, <2>4, <2>5, <2>6 DEF HandInv, Dispatched
  <1>6. CASE RemoteStep
    <2>1. UNCHANGED <<effects, run, status>>
      BY <1>6 DEF RemoteStep, EditStep, DeleteStep, MeetStep
    <2>2. Made' = Made
      BY <2>1 DEF Made
    <2> QED
      BY <1>0, <2>1, <2>2 DEF HandInv, Dispatched
  <1> QED
    BY <1>1, <1>2, <1>3, <1>4, <1>5, <1>6 DEF QuietStep

-----------------------------------------------------------------------------
(* Comments: how often one is posted, and whose it is. *)

\* What a step of the runner does to the row in hand, if anything.
LEMMA QuietMoves ==
    ASSUME Inv, QuietStep, NEW n \in Effects
    PROVE  /\ effects'[n].state = effects[n].state
              \/ /\ n = run.on /\ n \in Made /\ run.at # "idle"
                 /\ \/ /\ run.at \in {"probing", "fencing"}
                       /\ effects[n].state \in {"pending", "repair"}
                       /\ effects'[n].state \in {"failed", "repair", "cancelled"}
                    \/ effects[n].remote # None /\ effects'[n].state = "repair"
                    \/ /\ run.at = "sending" /\ request[n].status = "rejected"
                       /\ effects'[n].state = "failed"
                    \/ /\ run.at \in {"sending", "recalling", "verifying"}
                       /\ effects'[n].state = "uncertain"
                    \/ /\ run.at = "fencing" /\ effects[n].state = "pending"
                       /\ effects'[n].state = "sending"
           /\ UNCHANGED comments
           /\ \/ request'[n] = request[n]
              \/ /\ n = run.on /\ run.at = "probing" /\ effects[n].remote # None
                 /\ request'[n] = NoRequest
              \/ /\ n = run.on /\ run.at = "fencing" /\ effects[n].state = "pending"
                 /\ effects'[n].state = "sending"
                 /\ request'[n] = [request[n] EXCEPT !.status = "sent"]
  <1>1. CASE SaveStep
    <2>1. PICK to \in {"failed", "repair", "cancelled", "uncertain"} :
             SaveAllowed(to) /\ RowBecomes(run.on, With(effects[run.on], to))
      BY <1>1 DEF SaveStep
    <2>2. run.at # "idle" /\ UNCHANGED <<comments, request>>
      BY <1>1 DEF SaveStep
    <2>3. With(effects[run.on], to).state = to
      BY <2>2, HandFacts, RowFacts DEF States
    <2>4. /\ effects'[run.on].state = to
          /\ n # run.on => effects'[n] = effects[n]
      BY <2>1, <2>3 DEF RowBecomes
    <2>5. run.on \in Made /\ run.e.remote = effects[run.on].remote
      BY <2>2, HandFacts
    <2>6. run.at \in {"probing", "fencing"} =>
             effects[run.on].state \in {"pending", "cancelled", "repair"}
      BY DEF Inv, HandInv
    <2> QED
      BY <2>1, <2>2, <2>4, <2>5, <2>6 DEF SaveAllowed
  <1>2. CASE DropStep \/ ScanStep
    BY <1>2 DEF DropStep, ScanStep
  <1>3. CASE FenceStep
    <2>1. run.e.remote = effects[run.on].remote
      BY <1>3, HandFacts DEF FenceStep
    <2> QED
      BY <1>3, <2>1 DEF FenceStep, RequestBecomes
  <1>4. CASE DispatchStep
    <2>1. With(effects[run.on], "sending").state = "sending" /\ run.on \in Made
      BY <1>4, HandFacts, RowFacts DEF DispatchStep, States
    <2> QED
      BY <1>4, <2>1 DEF DispatchStep, RowBecomes, RequestBecomes
  <1> QED
    BY <1>1, <1>2, <1>3, <1>4 DEF QuietStep

LEMMA PostStep ==
    ASSUME Inv, OutboxStep \/ QuietStep \/ ReceivedStep \/ RemoteStep
    PROVE  PostInv'
  <1> DEFINE Nothing == [live |-> FALSE, posts |-> 0, log |-> <<>>]
             Good(n) ==
               /\ comments'[n].posts <= 1
               /\ comments'[n].live => Created(n)'
               /\ effects'[n].remote = None =>
                     /\ request'[n].status # "met" => comments'[n] = Nothing
                     /\ request'[n].status = "met" => Created(n)'
                     /\ request'[n].status # "missing"
                     /\ effects'[n].state \in {"none", "pending", "failed", "repair"} =>
                           request'[n].status \in {"none", "rejected"}
  <1> SUFFICES ASSUME NEW n \in Effects PROVE Good(n)
    BY DEF PostInv, Untouched
  <1>0. /\ WritebackTypeOK /\ PostInv /\ HandInv /\ KindInv
        /\ comments[n].posts <= 1 /\ (comments[n].live => Created(n))
        /\ effects[n].remote = None =>
              /\ request[n].status # "met" => comments[n] = Nothing
              /\ request[n].status = "met" => Created(n)
              /\ request[n].status # "missing"
              /\ effects[n].state \in {"none", "pending", "failed", "repair"} =>
                    request[n].status \in {"none", "rejected"}
    BY DEF Inv, PostInv, Untouched
  <1>1. UNCHANGED comments => (Created(n)' <=> Created(n))
    BY DEF Created, Rev
  <1>2. CASE OutboxStep
    <2>1. UNCHANGED <<comments, request>>
      BY <1>2, OutboxRows
    <2>2. CASE n \in Made
      <3>1. Still(n) /\ Moved(n)
        BY <1>2, <2>2, OutboxRows
      <3> QED
        BY <1>0, <1>1, <2>1, <2>2, <3>1 DEF Still, Moved, Made
    <2>3. CASE n \notin Made
      <3>1. request[n] = NoRequest /\ comments[n] = Nothing
        BY <2>3 DEF Inv, MadeInv, Untouched
      <3> QED
        BY <1>0, <1>1, <2>1, <3>1 DEF NoRequest
    <2> QED
      BY <2>2, <2>3
  <1>3. CASE QuietStep
    <2>1. Still(n)
      BY <1>3, QuietRows
    <2>2. UNCHANGED comments
      BY <1>3, QuietMoves
    <2>4. /\ request[n] \in Requests
          /\ [request[n] EXCEPT !.status = "sent"].status = "sent"
      BY <1>0 DEF WritebackTypeOK, Requests
    <2>5. CASE effects[n].remote # None
      BY <1>0, <1>1, <2>1, <2>2, <2>5 DEF Still
    <2>6. CASE effects[n].remote = None
      <3>1. CASE request'[n] = request[n] /\ effects'[n].state = effects[n].state
        BY <1>0, <1>1, <2>1, <2>2, <2>6, <3>1 DEF Still
      <3>2. CASE /\ effects[n].state \in {"pending", "repair"}
                 /\ effects'[n].state \in {"failed", "repair", "cancelled"}
                 /\ request'[n] = request[n]
        BY <1>0, <1>1, <2>1, <2>2, <2>6, <3>2 DEF Still
      <3>3. CASE /\ request[n].status = "rejected" /\ effects'[n].state = "failed"
                 /\ request'[n] = request[n]
        BY <1>0, <1>1, <2>1, <2>2, <2>6, <3>3 DEF Still
      <3>4. CASE effects'[n].state = "uncertain" /\ request'[n] = request[n]
        BY <1>0, <1>1, <2>1, <2>2, <2>6, <3>4 DEF Still
      <3>5. CASE /\ effects[n].state = "pending" /\ effects'[n].state = "sending"
                 /\ request'[n] = [request[n] EXCEPT !.status = "sent"]
        BY <1>0, <1>1, <2>1, <2>2, <2>4, <2>6, <3>5 DEF Still
      <3>6. CASE effects[n].state = "pending" /\ effects'[n].state = "sending"
                 /\ request'[n] = request[n]
        BY <1>0, <1>1, <2>1, <2>2, <2>6, <3>6 DEF Still
      <3> QED
        BY <1>3, <2>6, <3>1, <3>2, <3>3, <3>4, <3>5, <3>6, QuietMoves
    <2> QED
      BY <2>5, <2>6
  <1>4. CASE ReceivedStep
    <2>1. UNCHANGED <<comments, request>> /\ (n # run.on => effects'[n] = effects[n])
          /\ effects'[run.on].remote # None
      BY <1>4, ReceivedRows DEF ReceivedStep
    <2> QED
      BY <1>0, <1>1, <2>1
  <1>5. ASSUME NEW c \in Effects, EditStep(c) PROVE Good(n)
    <2>1. UNCHANGED effects /\ request'[n].status = request[n].status
          /\ (Created(n) => Created(n)')
      BY <1>5, EditFacts, Growth DEF EditStep, RemoteStep
    <2>2. CASE n # c
      BY <1>0, <1>5, <2>1, <2>2, EditFacts
    <2>3. CASE n = c
      <3>1. comments[n] # Nothing
        BY <1>5, <2>3, EditFacts DEF EditStep
      <3> QED
        BY <1>0, <1>5, <2>1, <2>3, <3>1, EditFacts
    <2> QED
      BY <2>2, <2>3
  <1>6. ASSUME NEW c \in Effects, DeleteStep(c) PROVE Good(n)
    <2>1. UNCHANGED <<effects, request>> /\ (Created(n) => Created(n)')
      BY <1>6, DeleteFacts, Growth DEF DeleteStep, RemoteStep
    <2> QED
      BY <1>0, <1>6, <2>1, DeleteFacts
  <1>7. ASSUME NEW m \in Effects, MeetStep(m) PROVE Good(n)
    <2>1. UNCHANGED effects /\ (Created(n) => Created(n)')
      BY <1>7, Growth DEF MeetStep, RemoteStep
    <2>2. CASE UNCHANGED comments
      <3>1. request'[n] = request[n] \/ (n = m /\ request[n].status = "sent"
              /\ request'[n].status \in {"missing", "rejected", "lost", "met"}
              /\ (request'[n].status = "missing" => effects[n].remote # None))
        BY <1>7, MeetFacts
      <3>2. request'[n] = request[n] \/ request'[n].status # "met" \/ effects[n].remote # None
        <4>1. CASE request'[n].status = "met" /\ n = m /\ effects[n].remote = None
          <5>1. comments'[n].live /\ comments[n] = Nothing
            BY <1>7, <4>1, MeetFacts DEF Target
          <5> QED
            BY <2>2, <5>1
        <4> QED
          BY <3>1, <4>1
      <3> QED
        BY <1>0, <1>1, <2>1, <2>2, <3>1, <3>2
    <2>3. CASE /\ request'[m].status = "met"
               /\ comments'[Target(m)].log = Append(comments[Target(m)].log, effects[m].text)
               /\ comments'[Target(m)].posts = Posted(m)
               /\ \A d \in Effects : d # Target(m) => comments'[d] = comments[d]
      <3>1. \A c \in Effects : c = Target(m) => Created(c)'
        <4>1. ASSUME NEW c \in Effects, c = Target(m) PROVE Created(c)'
          <5>1. comments[c].log \in Seq(Texts) /\ effects[m].text \in Texts
            BY <1>0 DEF WritebackTypeOK, Rows
          <5>2. comments'[c].log = Append(comments[c].log, effects[m].text)
            BY <2>3, <4>1
          <5> QED
            BY <5>1, <5>2, LogFacts DEF Created, Rev
        <4> QED
          BY <4>1
      <3>2. Posted(m) <= 1
        <4>1. CASE effects[m].remote = None
          <5>1. comments[m].posts = 0
            BY <1>7, <4>1, MeetFacts
          <5> QED
            BY <4>1, <5>1 DEF Posted
        <4>2. CASE effects[m].remote # None
          BY <1>0, <1>7, <4>2, MeetFacts DEF Posted, PostInv
        <4> QED
          BY <4>1, <4>2
      <3>3. CASE n = m
        <4>1. effects[n].remote = None => Target(m) = n
          BY <3>3 DEF Target
        <4>2. n # Target(m) => comments'[n] = comments[n]
          BY <2>3
        <4>3. request'[n].status = "met"
          BY <2>3, <3>3
        <4>4. CASE n = Target(m)
          <5>1. comments'[n].posts <= 1 /\ Created(n)'
            BY <2>3, <3>1, <3>2, <4>4
          <5>2. request[n].status = "sent"
            BY <1>7, <3>3, MeetFacts
          <5> QED
            BY <1>0, <2>1, <4>3, <5>1, <5>2
        <4>5. CASE n # Target(m)
          <5>1. effects'[n].remote # None /\ comments'[n] = comments[n]
            BY <2>1, <4>1, <4>2, <4>5
          <5> QED
            BY <1>0, <2>1, <5>1
        <4> QED
          BY <4>4, <4>5
      <3>4. CASE n # m
        <4>1. request'[n] = request[n]
          BY <1>7, <3>4, MeetFacts
        <4>2. CASE n # Target(m)
          BY <1>0, <2>1, <2>3, <4>1, <4>2
        <4>3. CASE n = Target(m)
          <5>1. effects[m].remote = n /\ Created(n)
            BY <3>4, <4>3, TraceFacts DEF Target
          <5>2. comments[n] # Nothing
            BY <5>1 DEF Created, Rev
          <5> QED
            <6>1. comments'[n].posts <= 1 /\ Created(n)'
              BY <2>3, <3>1, <3>2, <4>3
            <6>2. effects[n].remote = None => request[n].status = "met"
              BY <1>0, <5>2
            <6> QED
              BY <1>0, <2>1, <4>1, <6>1, <6>2
        <4> QED
          BY <4>2, <4>3
      <3> QED
        BY <3>3, <3>4
    <2> QED
      BY <1>7, <2>2, <2>3, MeetFacts
  <1> QED
    BY <1>2, <1>3, <1>4, <1>5, <1>6, <1>7 DEF RemoteStep

\* The same after the step.
CreatedNext(c) == Len(comments'[c].log) > 0
ShowsNext(c) == c \in Effects /\ CreatedNext(c) /\ effects'[c].kind = "status"

LEMMA RemoteStay ==
    ASSUME Inv, OutboxStep \/ QuietStep \/ ReceivedStep \/ RemoteStep, NEW c \in Effects, Shows(c)
    PROVE  ShowsNext(c)
  <1>0. Created(c) /\ c \in Made /\ effects[c].kind = "status"
    BY TraceFacts DEF Shows
  <1>1. CASE OutboxStep
    <2>1. Still(c) /\ UNCHANGED comments
      BY <1>0, <1>1, OutboxRows
    <2> QED
      BY <1>0, <2>1 DEF Still, Alike, Shows, ShowsNext, CreatedNext, Created, Rev
  <1>2. CASE QuietStep
    <2>1. Still(c) /\ UNCHANGED comments
      BY <1>2, QuietRows, QuietMoves
    <2> QED
      BY <1>0, <2>1 DEF Still, Alike, Shows, ShowsNext, CreatedNext, Created, Rev
  <1>3. CASE ReceivedStep
    <2>1. Alike(c) /\ UNCHANGED comments
      BY <1>3, ReceivedRows DEF ReceivedStep
    <2> QED
      BY <1>0, <2>1 DEF Alike, Shows, ShowsNext, CreatedNext, Created, Rev
  <1>4. CASE RemoteStep
    <2>1. Still(c) /\ CreatedNext(c)
      BY <1>0, <1>4, QuietRows, Growth DEF CreatedNext, Created, Rev
    <2> QED
      BY <1>0, <2>1 DEF Still, Alike, Shows, ShowsNext
  <1> QED
    BY <1>1, <1>2, <1>3, <1>4

\* A comment that a status effect finds or creates shows the status.
LEMMA ReceiptShows ==
    ASSUME Inv, NEW c \in Effects, NEW v \in 1..Rev(c), ReceiptStep(c, v),
           effects[run.on].kind = "status"
    PROVE  Shows(c)
  <1>0. KindInv /\ RemoteInv /\ WritebackTypeOK
    BY DEF Inv
  <1>1. /\ run.on \in Made /\ Created(c)
        /\ comments[c].log[v] = effects[run.on].text
    BY ReceivedRows
  <1>2. effects[run.on].text.body \in Bodies
    BY <1>0, <1>1 DEF KindInv
  <1>3. v \in DOMAIN comments[c].log
    BY <1>0, TextFacts
  <1> QED
    BY <1>0, <1>1, <1>2, <1>3 DEF RemoteInv, Shows

LEMMA RemoteKept ==
    ASSUME Inv, OutboxStep \/ QuietStep \/ ReceivedStep \/ RemoteStep
    PROVE  RemoteInv'
  <1>0. WritebackTypeOK /\ RemoteInv /\ KindInv
    BY DEF Inv
  <1>1. \A c \in Effects : Shows(c) => ShowsNext(c)
    BY RemoteStay
  <1>2. status'.remote # None => ShowsNext(status'.remote)
    <2>1. CASE UNCHANGED status \/ OutboxStep
      <3>1. status'.remote = status.remote
        BY <2>1 DEF OutboxStep, RowsStep, StatusKept
      <3>2. status.remote # None => Shows(status.remote) /\ status.remote \in Effects
        BY <1>0 DEF RemoteInv, Shows
      <3> QED
        BY <1>1, <3>1, <3>2
    <2>2. ASSUME NEW c \in Effects, NEW v \in 1..Rev(c), ReceiptStep(c, v),
                 effects[run.on].kind = "status"
          PROVE  ShowsNext(status'.remote)
      <3>1. status' = SettledStatus(c, v) /\ status \in Statuses
        BY <1>0, <2>2, ReceivedRows, TypeFacts
      <3>2. status'.remote = c
        BY <3>1 DEF SettledStatus, Statuses
      <3> QED
        BY <1>1, <2>2, <3>2, ReceiptShows
    <2>3. ASSUME NEW c \in Effects, NEW v \in 1..Rev(c), ReceiptStep(c, v),
                 effects[run.on].kind # "status"
          PROVE  UNCHANGED status
      BY <2>3, ReceivedRows
    <2> QED
      BY <2>1, <2>2, <2>3, QuietRows DEF ReceivedStep
  <1>3. status.remote # None => status'.remote # None
    <2>1. CASE UNCHANGED status \/ OutboxStep
      BY <2>1 DEF OutboxStep, RowsStep, StatusKept
    <2>2. ASSUME NEW c \in Effects, NEW v \in 1..Rev(c), ReceiptStep(c, v), status' # status
          PROVE  status'.remote # None
      <3>1. status' = SettledStatus(c, v) /\ c # None /\ status \in Statuses
        BY <1>0, <2>2, ReceivedRows, TypeFacts
      <3> QED
        BY <3>1 DEF SettledStatus, Statuses
    <2> QED
      BY <2>1, <2>2, QuietRows DEF ReceivedStep
  <1>4. preview' # NoPreview => status'.remote # None /\ ShowsNext(preview'.remote)
    <2>1. CASE UNCHANGED preview
      <3>1. CASE preview # NoPreview
        <4>1. preview.remote \in Effects
          BY <1>0, <3>1 DEF RemoteInv, Shows
        <4> QED
          BY <1>0, <1>1, <1>3, <2>1, <3>1, <4>1 DEF RemoteInv
      <3> QED
        BY <2>1, <3>1
    <2>2. CASE preview' # preview /\ OutboxStep
      BY <1>2, <2>2 DEF OutboxStep, RowsStep, StatusKept
    <2> QED
      BY <2>1, <2>2, QuietRows, ReceivedRows DEF ReceivedStep
  <1>5. ASSUME NEW n \in Made'
        PROVE  /\ effects'[n].remote # None => CreatedNext(effects'[n].remote)
               /\ n \in StatusEffects' /\ effects'[n].remote # None =>
                     status'.remote # None /\ ShowsNext(effects'[n].remote)
               /\ effects'[n].approval = "missing" => status'.remote # None
    <2>0. \A c \in Effects : Created(c) => CreatedNext(c)
      <3>1. CASE UNCHANGED comments
        BY <3>1 DEF Created, CreatedNext, Rev
      <3>2. CASE RemoteStep
        BY <3>2, Growth DEF Created, CreatedNext, Rev
      <3> QED
        BY <3>1, <3>2, OutboxRows, QuietMoves, ReceivedRows
           DEF ReceivedStep, QuietStep, SaveStep, DropStep, FenceStep, DispatchStep, ScanStep
    <2>1. CASE n \in Made /\ Still(n) /\ (n \in StatusEffects' <=> n \in StatusEffects)
      <3>1. effects[n].remote # None => effects[n].remote \in Effects /\ Created(effects[n].remote)
        BY <2>1, TraceFacts DEF Made
      <3>2. n \in StatusEffects /\ effects[n].remote # None =>
               status.remote # None /\ Shows(effects[n].remote)
        BY <1>0 DEF RemoteInv
      <3>3. effects[n].approval = "missing" => status.remote # None
        BY <1>0, <2>1 DEF RemoteInv
      <3> QED
        BY <1>1, <1>3, <2>0, <2>1, <3>1, <3>2, <3>3 DEF Still, Alike
    <2>2. CASE OutboxStep /\ n \notin Made
      <3>1. New(effects'[n]) /\ status'.remote = status.remote
        BY <2>2, OutboxRows DEF OutboxStep, RowsStep, StatusKept
      <3>2. CASE IsQuestion(effects'[n])
        BY <3>2 DEF IsQuestion, StatusEffects
      <3>3. CASE IsUpdate(effects'[n])
        BY <1>2, <3>1, <3>3 DEF IsUpdate, ShowsNext
      <3>4. CASE IsRepair(effects'[n])
        <4>1. status.remote # None /\ Shows(preview.remote) /\ preview.remote \in Effects
          BY <1>0, <3>4 DEF IsRepair, RemoteInv, Shows
        <4> QED
          BY <1>1, <3>1, <3>4, <4>1 DEF IsRepair, ShowsNext
      <3>5. CASE IsCopy(effects'[n])
        <4>1. PICK m \in StatusEffects : effects'[n].remote = effects[m].remote
                                         /\ effects'[n].approval = effects[m].approval
          BY <3>5 DEF IsCopy
        <4>2. status.remote # None /\ Shows(effects[m].remote) /\ effects[m].remote \in Effects
          BY <1>0, <3>5, <4>1 DEF IsCopy, RemoteInv, Shows
        <4> QED
          BY <1>1, <3>1, <4>1, <4>2 DEF ShowsNext
      <3> QED
        BY <3>1, <3>2, <3>3, <3>4, <3>5 DEF New
    <2>3. ASSUME NEW c \in Effects, NEW v \in 1..Rev(c), ReceiptStep(c, v), n = run.on
          PROVE  /\ effects'[n].remote # None => CreatedNext(effects'[n].remote)
                 /\ n \in StatusEffects' /\ effects'[n].remote # None =>
                       status'.remote # None /\ ShowsNext(effects'[n].remote)
                 /\ effects'[n].approval = "missing" => status'.remote # None
      <3>1. /\ effects'[n].remote = c /\ Created(c) /\ Alike(n) /\ n \in Made /\ c # None
            /\ StatusEffects' = StatusEffects
            /\ status' = IF effects[n].kind = "status" THEN SettledStatus(c, v) ELSE status
        BY <2>3, ReceivedRows
      <3>2. n \in StatusEffects => Shows(c)
        BY <2>3, ReceiptShows DEF StatusEffects
      <3>3. n \in StatusEffects => status'.remote = c
        <4>1. status \in Statuses
          BY <1>0, TypeFacts
        <4> QED
          BY <3>1, <4>1 DEF StatusEffects, SettledStatus, Statuses
      <3>4. effects[n].approval = "missing" => status.remote # None
        BY <1>0, <3>1 DEF RemoteInv
      <3> QED
        BY <1>1, <1>3, <2>0, <3>1, <3>2, <3>3, <3>4 DEF Alike
    <2>4. CASE OutboxStep
      BY <2>1, <2>2, <2>4, OutboxRows
    <2>5. CASE QuietStep \/ RemoteStep
      BY <2>1, <2>5, QuietRows
    <2>6. ASSUME NEW c \in Effects, NEW v \in 1..Rev(c), ReceiptStep(c, v), n # run.on
          PROVE  n \in Made /\ Still(n) /\ (n \in StatusEffects' <=> n \in StatusEffects)
      BY <2>6, ReceivedRows, Unchanged
    <2> QED
      BY <2>1, <2>3, <2>4, <2>5, <2>6 DEF ReceivedStep
  <1>6. ASSUME NEW c \in Effects, NEW k \in DOMAIN comments'[c].log,
               comments'[c].log[k].body \in Bodies
        PROVE  effects'[c].kind = "status"
    <2>1. CASE comments'[c].log = comments[c].log
      <3>1. effects[c].kind = "status"
        BY <1>0, <1>6, <2>1 DEF RemoteInv
      <3>2. c \in Made
        <4>1. DOMAIN comments[c].log = 1..Rev(c) /\ Rev(c) \in Nat
          BY <1>0, TextFacts
        <4>2. Created(c)
          BY <1>6, <2>1, <4>1 DEF Created
        <4> QED
          BY <4>2, TraceFacts
      <3>3. Alike(c)
        BY <3>2, OutboxRows, QuietRows, ReceivedRows DEF ReceivedStep, Still
      <3> QED
        BY <3>1, <3>3 DEF Alike
    <2>2. ASSUME NEW t \in Texts, comments'[c].log = Append(comments[c].log, t), RemoteStep,
                 t.body \in Bodies => effects[c].kind = "status"
          PROVE  effects'[c].kind = "status"
      <3>1. comments[c].log \in Seq(Texts)
        BY <1>0 DEF WritebackTypeOK
      <3>2. k \in 1..(Len(comments[c].log) + 1)
        BY <1>6, <2>2, <3>1, LogFacts
      <3>3. effects[c].kind = "status"
        <4>1. CASE k = Len(comments[c].log) + 1
          BY <1>6, <2>2, <3>1, <4>1, LogFacts
        <4>2. CASE k \in 1..Len(comments[c].log)
          <5>1. comments'[c].log[k] = comments[c].log[k] /\ k \in DOMAIN comments[c].log
            BY <2>2, <3>1, <4>2, LogFacts
          <5> QED
            BY <1>0, <1>6, <5>1 DEF RemoteInv
        <4> QED
          BY <3>1, <3>2, <4>1, <4>2, LogFacts
      <3>4. Still(c)
        BY <2>2, QuietRows
      <3> QED
        BY <3>3, <3>4 DEF Still, Alike
    <2>3. ASSUME NEW d \in Effects, EditStep(d)
          PROVE  effects'[c].kind = "status"
      <3>1. comments'[c].log = comments[c].log
            \/ comments'[c].log = Append(comments[c].log, Foreign)
        BY <2>3, EditFacts
      <3>2. Foreign \in Texts /\ Foreign.body \notin Bodies
        BY <1>0, TextFacts, BodiesAssumption DEF Foreign, Text
      <3> QED
        BY <2>1, <2>2, <2>3, <3>1, <3>2 DEF RemoteStep
    <2>4. ASSUME NEW d \in Effects, DeleteStep(d)
          PROVE  effects'[c].kind = "status"
      BY <2>1, <2>4, DeleteFacts
    <2>5. ASSUME NEW m \in Effects, MeetStep(m)
          PROVE  effects'[c].kind = "status"
      <3>1. \/ comments'[c].log = comments[c].log
            \/ c = Target(m) /\ comments'[c].log = Append(comments[c].log, effects[m].text)
        BY <2>5, MeetFacts
      <3>2. effects[m].text \in Texts /\ m \in Made
        BY <1>0, <2>5, MeetFacts DEF WritebackTypeOK, Rows
      <3>3. c = Target(m) /\ effects[m].text.body \in Bodies => effects[c].kind = "status"
        <4>1. ASSUME c = Target(m), effects[m].text.body \in Bodies
              PROVE  effects[c].kind = "status"
          <5>1. effects[m].kind = "status"
            <6>1. effects[m].kind \in {"status", "question"}
              BY <1>0 DEF WritebackTypeOK, Rows
            <6>2. "question" \notin Bodies
              BY BodiesAssumption
            <6> QED
              BY <1>0, <3>2, <4>1, <6>1, <6>2 DEF KindInv
          <5>2. effects[m].remote # None => Shows(effects[m].remote)
            BY <1>0, <3>2, <5>1 DEF RemoteInv, StatusEffects
          <5> QED
            BY <4>1, <5>1, <5>2 DEF Target, Shows
        <4> QED
          BY <4>1
      <3> QED
        BY <2>1, <2>2, <2>5, <3>1, <3>2, <3>3 DEF RemoteStep
    <2>6. CASE UNCHANGED comments
      BY <2>1, <2>6
    <2> QED
      BY <2>3, <2>4, <2>5, <2>6, OutboxRows, ReceivedRows
         DEF RemoteStep, ReceivedStep, QuietStep, SaveStep, DropStep, FenceStep, DispatchStep,
             ScanStep
  <1> QED
    BY <1>2, <1>4, <1>5, <1>6
       DEF RemoteInv, StatusEffects, Shows, ShowsNext, Created, CreatedNext, Rev

-----------------------------------------------------------------------------
(* The one comment. *)

LEMMA HandMoves ==
    ASSUME Inv, QuietStep, NEW n \in Effects
    PROVE  /\ InHand(n)' => InHand(n) \/ effects[n].state = "pending"
           /\ effects'[n].state = "cancelled" /\ effects[n].state # "cancelled" => ~InHand(n)'
           /\ run'.at = "fencing" => run.at = "probing" /\ run'.on = run.on /\ FenceStep
  <1>0. run \in Runs
    BY TypeFacts DEF Inv
  <1>1. CASE SaveStep \/ DropStep
    BY <1>1 DEF SaveStep, DropStep, Idle, InHand
  <1>2. CASE FenceStep
    BY <1>0, <1>2 DEF FenceStep, InHand, Runs
  <1>3. CASE DispatchStep
    <2>1. With(effects[run.on], "sending").state = "sending"
      BY <1>3, HandFacts, RowFacts DEF DispatchStep, States
    <2> QED
      BY <1>0, <1>3, <2>1 DEF DispatchStep, InHand, Runs, RowBecomes
  <1>4. CASE ScanStep
    BY <1>0, <1>4 DEF ScanStep, InHand, Runs
  <1> QED
    BY <1>1, <1>2, <1>3, <1>4 DEF QuietStep

\* What creates the comment after a step did so before it.
LEMMA FirstBack ==
    ASSUME Inv, OutboxStep \/ QuietStep \/ ReceivedStep \/ RemoteStep, NEW n \in Made
    PROVE  /\ First(n)' => First(n)
           /\ First(n)' /\ InPlay(n)' => InPlay(n)
           /\ Creates(n)' => Creates(n)
  <1>0. WritebackTypeOK /\ HandInv /\ KindInv /\ n \in Effects
    BY DEF Inv, Made
  <1>1. CASE OutboxStep
    <2>1. Still(n) /\ Moved(n) /\ (n \in StatusEffects' <=> n \in StatusEffects)
          /\ UNCHANGED <<comments, request>>
      BY <1>1, OutboxRows
    <2>2. effects'[n].state \in {"pending", "failed", "sending", "uncertain", "repair"} =>
             effects[n].state \in {"pending", "failed", "sending", "uncertain", "repair"}
      BY <2>1 DEF Moved, Dispatched
    <2>3. InHand(n)' => InHand(n) \/ effects'[n].state \in Dispatched
      BY <1>1 DEF OutboxStep, RowsStep, Picks, InHand
    <2> QED
      BY <2>1, <2>2, <2>3 DEF First, InPlay, Creates, Created, Rev, Still, Alike, Dispatched
  <1>2. CASE QuietStep
    <2>1. Still(n) /\ StatusEffects' = StatusEffects
      BY <1>0, <1>2, QuietRows
    <2>2. UNCHANGED comments
      BY <1>0, <1>2, QuietMoves
    <2>3. First(n)' => First(n)
      BY <2>1 DEF First, Still, Alike
    <2>4. InPlay(n)' => InPlay(n)
      <3>1. CASE effects[n].remote # None
        BY <2>1, <3>1 DEF InPlay, Still
      <3>2. CASE effects[n].state \in {"pending", "failed", "sending", "uncertain", "repair"}
                 /\ effects[n].remote = None
        BY <3>2 DEF InPlay
      <3>3. CASE effects[n].state \notin {"pending", "failed", "sending", "uncertain", "repair"}
                 /\ effects[n].remote = None /\ InPlay(n)'
        <4>1. effects'[n].state = effects[n].state \/ InHand(n)
          BY <1>0, <1>2, <3>3, QuietMoves DEF InHand
        <4>2. request'[n] = request[n]
          BY <1>0, <1>2, <3>3, QuietMoves
        <4>3. InHand(n)' => InHand(n)
          BY <1>0, <1>2, <3>3, HandMoves
        <4> QED
          BY <2>1, <3>3, <4>1, <4>2, <4>3 DEF InPlay
      <3> QED
        BY <3>1, <3>2, <3>3
    <2> QED
      BY <2>2, <2>3, <2>4 DEF Creates, Created, Rev
  <1>3. ASSUME NEW c \in Effects, NEW v \in 1..Rev(c), ReceiptStep(c, v)
        PROVE  /\ First(n)' => First(n)
               /\ First(n)' /\ InPlay(n)' => InPlay(n)
               /\ Creates(n)' => Creates(n)
    <2>1. /\ Alike(n) /\ StatusEffects' = StatusEffects /\ UNCHANGED <<comments, request>>
          /\ run' = Idle /\ (n # run.on => effects'[n] = effects[n])
          /\ (n = run.on => effects'[n].remote # None)
      BY <1>0, <1>3, ReceivedRows
    <2>2. ~InHand(n)'
      BY <2>1 DEF InHand, Idle
    <2> QED
      BY <2>1, <2>2 DEF First, InPlay, Creates, Created, Rev, Alike
  <1>4. CASE RemoteStep
    <2>1. Still(n) /\ StatusEffects' = StatusEffects /\ UNCHANGED <<effects, run>>
      BY <1>0, <1>4, QuietRows DEF RemoteStep, EditStep, DeleteStep, MeetStep
    <2>2. First(n)' => First(n)
      BY <2>1 DEF First
    <2>3. (InHand(n)' <=> InHand(n)) /\ (InPlay(n)' /\ InHand(n) => InPlay(n))
      BY <2>1 DEF InHand, InPlay
    <2>4. ASSUME NEW c \in Effects, EditStep(c) PROVE (Creates(n)' => Creates(n))
             /\ (InPlay(n)' => InPlay(n))
      <3>1. request'[n].status = request[n].status
        BY <1>0, <2>4, EditFacts
      <3>2. InPlay(n)' => InPlay(n)
        BY <2>1, <2>3, <3>1 DEF InPlay
      <3>3. Created(n)' => Created(n)
        <4>1. CASE n = c
          BY <2>4, <4>1, EditFacts
        <4>2. CASE n # c
          BY <1>0, <2>4, <4>2, EditFacts DEF Created, Rev
        <4> QED
          BY <4>1, <4>2
      <3> QED
        BY <2>2, <3>2, <3>3 DEF Creates
    <2>5. ASSUME NEW c \in Effects, DeleteStep(c) PROVE (Creates(n)' => Creates(n))
             /\ (InPlay(n)' => InPlay(n))
      <3>1. request'[n].status = request[n].status
        BY <2>5, DeleteFacts
      <3>2. InPlay(n)' => InPlay(n)
        BY <2>1, <2>3, <3>1 DEF InPlay
      <3>3. Created(n)' => Created(n)
        BY <1>0, <2>5, DeleteFacts DEF Created, Rev
      <3> QED
        BY <2>2, <3>2, <3>3 DEF Creates
    <2>6. ASSUME NEW m \in Effects, MeetStep(m) PROVE (Creates(n)' => Creates(n))
             /\ (InPlay(n)' => InPlay(n))
      <3>1. request'[n] = request[n] \/ request[n].status = "sent"
        BY <1>0, <2>6, MeetFacts
      <3>2. InPlay(n)' => InPlay(n)
        BY <2>1, <2>3, <3>1 DEF InPlay
      <3>3. Created(n)' => Created(n) \/ InPlay(n)
        <4>1. CASE n # Target(m)
          <5>1. comments'[n] = comments[n]
            BY <1>0, <2>6, <4>1, MeetFacts
          <5> QED
            BY <5>1 DEF Created, Rev
        <4>2. CASE n = Target(m) /\ effects[m].remote = None
          <5>1. n = m /\ request[n].status = "sent"
            BY <2>6, <4>2, MeetFacts DEF Target
          <5> QED
            BY <4>2, <5>1 DEF InPlay
        <4>3. CASE n = Target(m) /\ effects[m].remote # None
          BY <4>3, TraceFacts DEF Target
        <4> QED
          BY <4>1, <4>2, <4>3
      <3> QED
        BY <2>2, <3>2, <3>3 DEF Creates
    <2> QED
      BY <1>4, <2>2, <2>4, <2>5, <2>6 DEF RemoteStep
  <1> QED
    BY <1>1, <1>2, <1>3, <1>4 DEF ReceivedStep

\* An update is made only where nothing else can create the comment.
LEMMA FirstOfUpdate ==
    ASSUME Inv, OutboxStep, NEW n \in Made' \ Made, Creates(n)'
    PROVE  /\ status.remote = None /\ effects'[n].state = "pending"
           /\ \A m \in Made : ~Creates(m)'
  <1>0. WritebackTypeOK /\ PostInv /\ HandInv /\ KindInv /\ RemoteInv /\ FirstInv
    BY DEF Inv
  <1>1. /\ New(effects'[n]) /\ request[n] = NoRequest /\ UNCHANGED <<comments, request>>
        /\ comments[n] = [live |-> FALSE, posts |-> 0, log |-> <<>>]
    BY OutboxRows
  <1>2. ~Created(n)'
    BY <1>1 DEF Created, Rev
  <1>3. effects'[n].remote = None /\ effects'[n].kind = "status"
        /\ effects'[n].approval # "missing"
    BY <1>2 DEF Creates, InPlay, First, StatusEffects
  <1>4. IsUpdate(effects'[n])
    <2>1. ~IsQuestion(effects'[n])
      BY <1>3 DEF IsQuestion
    <2>2. ~IsCopy(effects'[n])
      BY <1>3 DEF IsCopy
    <2>3. ~IsRepair(effects'[n])
      <3>1. preview # NoPreview => preview.remote # None
        BY <1>0 DEF WritebackTypeOK, Effects, None
      <3> QED
        BY <1>3, <3>1 DEF IsRepair
    <2> QED
      BY <1>1, <2>1, <2>2, <2>3 DEF New
  <1>5. status.remote = None /\ ~status.relinquished /\ run.at = "idle"
        /\ ~status'.relinquished
        /\ \A m \in StatusEffects : effects'[m].state \in {"sent", "cancelled"}
    BY <1>3, <1>4 DEF IsUpdate
  <1>6. ASSUME NEW m \in Made, Creates(m)' PROVE FALSE
    <2>1. Creates(m) /\ First(m) /\ m \in StatusEffects /\ Still(m) /\ Moved(m) /\ m \in Effects
          /\ (First(m)' /\ InPlay(m)' => InPlay(m))
      BY <1>6, FirstBack, OutboxRows DEF Creates, First, Made
    <2>2. effects[m].remote = None
      BY <1>0, <1>5, <2>1 DEF RemoteInv
    <2>3. InPlay(m)
      <3>1. CASE Created(m)
        <4>1. request[m].status = "met"
          BY <1>0, <2>1, <2>2, <3>1 DEF PostInv, Untouched, Created, Rev
        <4> QED
          BY <2>2, <4>1 DEF InPlay
      <3> QED
        BY <2>1, <3>1 DEF Creates
    <2>4. effects[m].state # "cancelled"
      BY <1>0, <1>5, <2>1, <2>3 DEF FirstInv
    <2>5. effects[m].state # "sent"
      BY <1>0, <2>1, <2>2 DEF KindInv, First, StatusEffects
    <2>6. effects[m].state \in {"pending", "failed", "repair"}
      BY <1>5, <2>1, <2>4, <2>5 DEF Moved, StatusEffects
    <2>7. request[m].status \in {"none", "rejected"}
      BY <1>0, <2>1, <2>2, <2>6 DEF PostInv
    <2>8. ~InHand(m)' \/ effects'[m].state \in Dispatched
      BY <1>5 DEF OutboxStep, RowsStep, Picks, InHand
    <2>9. ~InPlay(m)'
      BY <1>1, <1>5, <2>1, <2>7, <2>8 DEF InPlay, Dispatched
    <2>10. Created(m)
      BY <1>1, <1>6, <2>9 DEF Creates, Created, Rev
    <2> QED
      BY <1>0, <2>1, <2>2, <2>7, <2>10 DEF PostInv, Untouched, Created, Rev
  <1> QED
    BY <1>4, <1>5, <1>6 DEF IsUpdate

LEMMA FirstStep ==
    ASSUME Inv, OutboxStep \/ QuietStep \/ ReceivedStep \/ RemoteStep
    PROVE  FirstInv'
  <1>0. WritebackTypeOK /\ PostInv /\ HandInv /\ KindInv /\ RemoteInv /\ FirstInv
    BY DEF Inv
  <1>1. \A n \in Made : /\ Creates(n)' => Creates(n)
                        /\ First(n)' => First(n)
                        /\ First(n)' /\ InPlay(n)' => InPlay(n)
    BY FirstBack
  <1>2. Made \subseteq Effects /\ Made' \subseteq Effects
        /\ \A n \in Effects : First(n)' => n \in Made'
    BY DEF Made, First, StatusEffects
  <1>3. Made' \subseteq Made \/ OutboxStep
    BY QuietRows, ReceivedRows DEF ReceivedStep
  <1>4. ASSUME NEW n \in Effects, NEW m \in Effects, Creates(n)', Creates(m)'
        PROVE  n = m
    <2>1. n \in Made' /\ m \in Made'
      BY <1>2, <1>4 DEF Creates
    <2>2. CASE n \in Made /\ m \in Made
      BY <1>0, <1>1, <1>4, <2>2 DEF FirstInv
    <2>3. CASE OutboxStep
      <3>1. ~(n \in Made /\ m \notin Made) /\ ~(m \in Made /\ n \notin Made)
        BY <1>4, <2>1, <2>3, FirstOfUpdate
      <3>2. n \notin Made /\ m \notin Made => n = m
        BY <2>1, <2>3, OutboxRows
      <3> QED
        BY <2>2, <3>1, <3>2
    <2> QED
      BY <1>3, <2>1, <2>2, <2>3
  <1>5. ASSUME NEW n \in Effects, First(n)', InPlay(n)'
        PROVE  /\ status'.remote = None
               /\ effects'[n].state = "cancelled" => status'.relinquished
    <2>1. CASE n \notin Made
      <3>1. n \in Made' \ Made /\ OutboxStep /\ Creates(n)'
        BY <1>2, <1>3, <1>5, <2>1 DEF Creates
      <3>2. status.remote = None /\ effects'[n].state = "pending"
        BY <3>1, FirstOfUpdate
      <3>3. status'.remote = status.remote
        BY <3>1 DEF OutboxStep, RowsStep, StatusKept
      <3> QED
        BY <3>2, <3>3
    <2>2. CASE n \in Made
      <3>1. First(n) /\ InPlay(n) /\ status.remote = None
            /\ (effects[n].state = "cancelled" => status.relinquished)
        BY <1>0, <1>1, <1>5, <2>2 DEF FirstInv
      <3>2. effects[n].remote = None /\ effects[n].kind = "status"
        BY <3>1 DEF InPlay, First, StatusEffects
      <3>3. CASE OutboxStep
        <4>1. status'.remote = status.remote /\ (status.relinquished => status'.relinquished)
              /\ Moved(n) /\ UNCHANGED request
          BY <2>2, <3>3, OutboxRows DEF OutboxStep, RowsStep, StatusKept
        <4>2. ASSUME effects'[n].state = "cancelled", effects[n].state \in {"pending", "failed", "repair"}
              PROVE  FALSE
          <5>1. request[n].status \in {"none", "rejected"}
            BY <1>0, <3>2, <4>2 DEF PostInv
          <5>2. ~InHand(n)
            BY <1>0, <4>2 DEF HandInv, InHand, Dispatched
          <5>3. ~InHand(n)'
            BY <3>3, <4>2, <5>2 DEF OutboxStep, RowsStep, Picks, InHand, Dispatched
          <5> QED
            BY <1>5, <4>1, <4>2, <5>1, <5>3 DEF InPlay
        <4> QED
          BY <3>1, <3>2, <4>1, <4>2 DEF Moved
      <3>4. CASE QuietStep
        <4>1. UNCHANGED status
          BY <3>4, QuietRows
        <4>2. ASSUME effects'[n].state = "cancelled", effects[n].state # "cancelled"
              PROVE  FALSE
          <5>1. effects[n].state \in {"pending", "repair"} /\ request'[n] = request[n]
            BY <3>2, <3>4, <4>2, QuietMoves
          <5>2. request[n].status \in {"none", "rejected"}
            BY <1>0, <3>2, <5>1 DEF PostInv
          <5>3. ~InHand(n)'
            BY <3>4, <4>2, HandMoves
          <5> QED
            BY <1>5, <4>2, <5>1, <5>2, <5>3 DEF InPlay
        <4> QED
          BY <3>1, <4>1, <4>2
      <3>5. ASSUME NEW c \in Effects, NEW v \in 1..Rev(c), ReceiptStep(c, v)
            PROVE  /\ status'.remote = None
                   /\ effects'[n].state = "cancelled" => status'.relinquished
        <4>1. /\ n # run.on /\ effects'[n] = effects[n] /\ run.on \in Made /\ InHand(run.on)
              /\ run.on \in Effects
              /\ status' = IF effects[run.on].kind = "status" THEN SettledStatus(c, v) ELSE status
          <5>1. n # run.on
            BY <1>5, <3>5, ReceivedRows DEF InPlay
          <5> QED
            BY <3>5, <5>1, ReceivedRows
        <4>2. effects[run.on].kind # "status"
          <5>1. SUFFICES ASSUME effects[run.on].kind = "status" PROVE FALSE
            OBVIOUS
          <5>2. effects[run.on].remote = None /\ effects[run.on].approval # "missing"
            BY <1>0, <3>1, <4>1, <5>1 DEF RemoteInv, StatusEffects
          <5>3. Creates(run.on) /\ Creates(n)
            BY <3>1, <4>1, <5>1, <5>2 DEF Creates, First, InPlay, StatusEffects
          <5> QED
            BY <1>0, <4>1, <5>3 DEF FirstInv
        <4> QED
          BY <3>1, <4>1, <4>2
      <3>6. CASE RemoteStep
        <4>1. UNCHANGED <<status, effects>>
          BY <3>6 DEF RemoteStep, EditStep, DeleteStep, MeetStep
        <4> QED
          BY <3>1, <4>1
      <3> QED
        BY <3>3, <3>4, <3>5, <3>6 DEF ReceivedStep
    <2> QED
      BY <2>1, <2>2
  <1> QED
    BY <1>4, <1>5 DEF FirstInv

\* A comment that is there after a step was there, or is posted by it.
LEMMA LiveBack ==
    ASSUME Inv, OutboxStep \/ QuietStep \/ ReceivedStep \/ RemoteStep,
           NEW c \in Effects, comments'[c].live
    PROVE  /\ c \in Made
           /\ \/ comments[c].live
              \/ RemoteStep /\ effects[c].remote = None /\ request[c].status = "sent"
  <1>0. KindInv /\ WritebackTypeOK
    BY DEF Inv
  <1>1. CASE UNCHANGED comments
    BY <1>1, TraceFacts
  <1>2. ASSUME NEW d \in Effects, EditStep(d) \/ DeleteStep(d)
        PROVE  comments[c].live
    <2>1. CASE c = d
      BY <1>2, <2>1, EditFacts, DeleteFacts
    <2>2. CASE c # d
      BY <1>2, <2>2, EditFacts, DeleteFacts
    <2> QED
      BY <2>1, <2>2
  <1>3. ASSUME NEW m \in Effects, MeetStep(m), ~comments[c].live
        PROVE  effects[c].remote = None /\ request[c].status = "sent" /\ c \in Made
    <2>1. c = Target(m) /\ effects[m].remote = None
      BY <1>3, MeetFacts
    <2>2. c = m
      BY <2>1 DEF Target
    <2> QED
      BY <1>3, <2>1, <2>2, MeetFacts
  <1>4. OutboxStep \/ QuietStep \/ ReceivedStep => UNCHANGED comments
    BY OutboxRows, ReceivedRows
       DEF ReceivedStep, QuietStep, SaveStep, DropStep, FenceStep, DispatchStep, ScanStep
  <1> QED
    BY <1>1, <1>2, <1>3, <1>4, TraceFacts DEF RemoteStep

\* A repair of a missing comment is launched at the fence alone.
LEMMA LaunchedBack ==
    ASSUME Inv, OutboxStep \/ QuietStep \/ ReceivedStep \/ RemoteStep,
           NEW n \in Effects, Launched(n)'
    PROVE  /\ n \in Made /\ effects[n].approval = "missing"
           /\ Launched(n) \/ (FenceStep /\ run.on = n)
  <1>0. WritebackTypeOK /\ HandInv /\ Made \subseteq Effects
    BY DEF Inv, Made
  <1>1. CASE OutboxStep
    <2>1. UNCHANGED <<comments, request>> /\ n \in Made'
      BY <1>1, OutboxRows DEF Launched
    <2>2. run'.at = "fencing" => UNCHANGED run
      BY <1>1 DEF OutboxStep, RowsStep, Picks
    <2>3. CASE n \in Made
      <3>1. Still(n)
        BY <1>1, <2>3, OutboxRows
      <3> QED
        BY <2>1, <2>2, <2>3, <3>1 DEF Launched, Created, Rev, Still, Alike
    <2>4. CASE n \notin Made
      <3>1. request[n] = NoRequest /\ comments[n] = [live |-> FALSE, posts |-> 0, log |-> <<>>]
        BY <1>1, <2>1, <2>4, OutboxRows
      <3>2. ~Created(n)' /\ request'[n].status = "none"
        BY <2>1, <3>1 DEF Created, Rev, NoRequest
      <3>3. run.at = "fencing" => run.on # n
        BY <1>0, <2>4 DEF HandInv
      <3> QED
        BY <2>2, <3>2, <3>3 DEF Launched
    <2> QED
      BY <2>3, <2>4
  <1>2. CASE QuietStep
    <2>1. Still(n) /\ UNCHANGED comments /\ n \in Made
      BY <1>2, QuietRows, QuietMoves DEF Launched
    <2>2. effects[n].approval = "missing" /\ (Created(n)' => Created(n))
          /\ effects'[n].remote = effects[n].remote
      BY <2>1 DEF Launched, Created, Rev, Still, Alike
    <2>3. CASE Created(n)
      BY <2>1, <2>2, <2>3 DEF Launched
    <2>4. CASE run'.at = "fencing" /\ run'.on = n
      <3>1. FenceStep /\ run.on = n
        BY <1>2, <2>4, HandMoves
      <3> QED
        BY <2>1, <2>2, <3>1
    <2>5. CASE request'[n].status \in {"sent", "met", "lost"} /\ effects[n].remote = None
      <3>1. CASE request'[n] = request[n]
        BY <2>1, <2>2, <2>5, <3>1 DEF Launched
      <3>2. CASE n = run.on /\ run.at = "fencing"
        BY <2>1, <2>2, <2>5, <3>2 DEF Launched
      <3> QED
        BY <1>2, <2>5, <3>1, <3>2, QuietMoves
    <2> QED
      BY <2>2, <2>3, <2>4, <2>5 DEF Launched
  <1>3. CASE ReceivedStep
    <2>1. /\ Alike(n) /\ Made' = Made /\ UNCHANGED <<comments, request>> /\ run' = Idle
          /\ effects'[run.on].remote # None /\ (n # run.on => effects'[n] = effects[n])
      BY <1>3, ReceivedRows DEF ReceivedStep
    <2> QED
      BY <2>1 DEF Launched, Created, Rev, Alike, Idle
  <1>4. CASE RemoteStep
    <2>1. Still(n) /\ Made' = Made /\ UNCHANGED <<effects, run>>
      BY <1>4, QuietRows DEF RemoteStep, EditStep, DeleteStep, MeetStep
    <2>2. n \in Made /\ effects[n].approval = "missing"
      BY <2>1 DEF Launched
    <2>3. ASSUME NEW c \in Effects, EditStep(c) \/ DeleteStep(c) PROVE Launched(n)
      <3>1. request'[n].status = request[n].status
        BY <2>3, EditFacts, DeleteFacts
      <3>2. Created(n)' => Created(n)
        <4>1. CASE n # c
          BY <2>3, <4>1, EditFacts, DeleteFacts DEF Created, Rev
        <4>2. CASE n = c
          BY <2>3, <4>2, EditFacts, DeleteFacts DEF Created, Rev
        <4> QED
          BY <4>1, <4>2
      <3> QED
        BY <2>1, <2>2, <3>1, <3>2 DEF Launched
    <2>4. ASSUME NEW m \in Effects, MeetStep(m) PROVE Launched(n)
      <3>1. request'[n] = request[n] \/ (n = m /\ request[n].status = "sent")
        BY <2>4, MeetFacts
      <3>2. Created(n)' => Created(n) \/ (effects[n].remote = None /\ request[n].status = "sent")
        <4>1. CASE n # Target(m)
          BY <2>4, <4>1, MeetFacts DEF Created, Rev
        <4>2. CASE n = Target(m) /\ effects[m].remote = None
          BY <2>4, <4>2, MeetFacts DEF Target
        <4>3. CASE n = Target(m) /\ effects[m].remote # None
          BY <4>3, TraceFacts DEF Target
        <4> QED
          BY <4>1, <4>2, <4>3
      <3> QED
        BY <2>1, <2>2, <3>1, <3>2 DEF Launched
    <2> QED
      BY <1>4, <2>2, <2>3, <2>4 DEF RemoteStep
  <1> QED
    BY <1>1, <1>2, <1>3, <1>4 DEF Launched

LEMMA RepairStep ==
    ASSUME Inv, OutboxStep \/ QuietStep \/ ReceivedStep \/ RemoteStep
    PROVE  RepairInv'
  <1>0. WritebackTypeOK /\ HandInv /\ PostInv /\ RemoteInv /\ FirstInv /\ RepairInv
    BY DEF Inv
  <1>1. ASSUME NEW c \in Effects, First(c)', comments'[c].live
        PROVE  /\ c \in Made /\ First(c)
               /\ \/ comments[c].live
                  \/ RemoteStep /\ status.remote = None
    <2>1. /\ c \in Made
          /\ \/ comments[c].live
             \/ RemoteStep /\ effects[c].remote = None /\ request[c].status = "sent"
      BY <1>1, LiveBack
    <2>2. First(c)
      BY <1>1, <2>1, FirstBack
    <2>3. effects[c].remote = None /\ request[c].status = "sent" => InPlay(c)
      BY DEF InPlay
    <2> QED
      BY <1>0, <2>1, <2>2, <2>3 DEF FirstInv
  <1>2. ASSUME NEW n \in Effects, Launched(n)', NEW c \in Effects, First(c)', comments'[c].live
        PROVE  FALSE
    <2>1. /\ n \in Made /\ effects[n].approval = "missing"
          /\ Launched(n) \/ (FenceStep /\ run.on = n)
      BY <1>2, LaunchedBack
    <2>2. First(c) /\ comments[c].live
      BY <1>0, <1>1, <1>2, <2>1 DEF RemoteInv
    <2>3. FenceStep /\ run.on = n
      BY <1>0, <1>2, <2>1, <2>2 DEF RepairInv
    <2>4. run.e.approval = "missing" /\ run.e.remote = None
      BY <1>0, <2>1, <2>3, HandFacts DEF HandInv, FenceStep
    <2>5. status.remote # None /\ ~comments[status.remote].live
      BY <2>3, <2>4 DEF FenceStep
    <2> QED
      BY <1>0, <2>2, <2>5 DEF RepairInv
  <1>3. ASSUME status'.remote # None, NEW c \in Effects, First(c)', comments'[c].live
        PROVE  c = status'.remote
    <2>1. c \in Made /\ First(c) /\ (comments[c].live \/ (RemoteStep /\ status.remote = None))
      BY <1>1, <1>3
    <2>2. CASE status'.remote = status.remote
      BY <1>0, <1>3, <2>1, <2>2 DEF RepairInv
    <2>3. ASSUME NEW d \in Effects, NEW v \in 1..Rev(d), ReceiptStep(d, v),
                 effects[run.on].kind = "status"
          PROVE  c = status'.remote
      <3>1. status'.remote = d
        <4>1. status' = SettledStatus(d, v) /\ status \in Statuses
          BY <1>0, <2>3, ReceivedRows, TypeFacts
        <4> QED
          BY <4>1 DEF SettledStatus, Statuses
      <3>2. Shows(d) /\ d \in Made
        BY <2>3, ReceiptShows, TraceFacts DEF Shows
      <3>3. UNCHANGED comments
        BY <2>3, ReceivedRows
      <3>4. comments[c].live /\ Created(c)
        BY <1>3, <3>3, TraceFacts
      <3>5. effects[d].approval # "missing"
        <4>1. effects[d].approval = "missing" => Launched(d)
          BY <3>2 DEF Launched, Shows
        <4> QED
          BY <1>0, <2>1, <3>4, <4>1 DEF RepairInv
      <3>6. Creates(c) /\ Creates(d)
        BY <2>1, <3>2, <3>4, <3>5 DEF Creates, First, Shows, StatusEffects
      <3> QED
        BY <1>0, <3>1, <3>6 DEF FirstInv
    <2>4. status'.remote = status.remote \/ ReceivedStep
      BY QuietRows DEF OutboxStep, RowsStep, StatusKept
    <2>5. ASSUME NEW d \in Effects, NEW v \in 1..Rev(d), ReceiptStep(d, v),
                 effects[run.on].kind # "status"
          PROVE  status'.remote = status.remote
      BY <2>5, ReceivedRows
    <2> QED
      BY <2>2, <2>3, <2>4, <2>5 DEF ReceivedStep
  <1> QED
    BY <1>2, <1>3 DEF RepairInv

-----------------------------------------------------------------------------
(* Answers, receipts, races and echoes. *)

LEMMA OwnText ==
    ASSUME Inv, NEW n \in Made
    PROVE  effects[n].text \in Texts /\ effects[n].text # Foreign
  <1>1. effects[n] \in Rows /\ KindInv
    BY DEF Inv, WritebackTypeOK, Made
  <1>2. effects[n].kind \in {"status", "question"} /\ effects[n].text \in Texts
    BY <1>1 DEF Rows
  <1>3. effects[n].text.body \in Bodies \cup {"question"}
    BY <1>1, <1>2 DEF KindInv
  <1>4. Foreign.body = "foreign"
    BY DEF Foreign, Text
  <1> QED
    BY <1>2, <1>3, <1>4, BodiesAssumption

LEMMA AnswerStep ==
    ASSUME Inv, OutboxStep \/ QuietStep \/ ReceivedStep \/ RemoteStep
    PROVE  AnswerInv'
  <1> DEFINE n == run.on
             c == IF effects'[n].remote = None THEN n ELSE effects'[n].remote
  <1>0. WritebackTypeOK /\ AnswerInv /\ run \in Runs /\ HandInv
    BY TypeFacts DEF Inv
  <1>1. SUFFICES ASSUME run'.at = "sending", request'[run'.on].status = "met"
                 PROVE  /\ run'.on = n
                        /\ request'[n].rev \in 1..Len(comments'[c].log)
                        /\ comments'[c].log[request'[n].rev] = run'.e.text
    BY DEF AnswerInv, Target, Rev
  <1>2. CASE OutboxStep
    <2>1. UNCHANGED <<run, comments, request>>
      BY <1>1, <1>2, OutboxRows DEF OutboxStep, RowsStep, Picks
    <2>2. effects'[n].remote = effects[n].remote
      <3>1. n \in Made
        BY <1>1, <2>1, HandFacts
      <3> QED
        BY <1>2, <3>1, OutboxRows DEF Still
    <2>3. c = Target(n)
      BY <2>2 DEF Target
    <2> QED
      BY <1>0, <1>1, <2>1, <2>3 DEF AnswerInv, Rev
  <1>3. CASE QuietStep
    <2>1. ~SaveStep /\ ~DropStep
      BY <1>1 DEF SaveStep, DropStep, Idle
    <2>2. ~FenceStep /\ ~ScanStep
      BY <1>0, <1>1 DEF FenceStep, ScanStep, Runs
    <2>3. ~DispatchStep
      <3>1. SUFFICES ASSUME DispatchStep PROVE FALSE
        OBVIOUS
      <3>2. run'.on = n /\ request'[n] = [request[n] EXCEPT !.status = "sent"]
        BY <1>0, <3>1 DEF DispatchStep, RequestBecomes, Runs
      <3>3. n \in Effects /\ request[n] \in Requests
        BY <3>1, HandFacts DEF DispatchStep
      <3>4. [request[n] EXCEPT !.status = "sent"].status = "sent"
        BY <3>3 DEF Requests
      <3> QED
        BY <1>1, <3>2, <3>4
    <2> QED
      BY <1>3, <2>1, <2>2, <2>3 DEF QuietStep
  <1>4. CASE ReceivedStep
    BY <1>1, <1>4, ReceivedRows DEF ReceivedStep, Idle
  <1>5. CASE RemoteStep
    <2>1. UNCHANGED <<run, effects>>
      BY <1>5 DEF RemoteStep, EditStep, DeleteStep, MeetStep
    <2>2. c = Target(n) /\ n \in Made /\ n \in Effects /\ c \in Effects
          /\ run.e.text = effects[n].text
      <3>1. n \in Made /\ n \in Effects /\ run.e.text = effects[n].text
        BY <1>1, <2>1, HandFacts
      <3>2. c = Target(n)
        BY <2>1 DEF Target
      <3> QED
        BY <3>1, <3>2, TraceFacts
    <2> HIDE DEF c
    <2>3. CASE request[n].status = "met" /\ request'[n].rev = request[n].rev
      <3>1. /\ Rev(c) \in Nat
            /\ \A k \in 1..Rev(c) : comments'[c].log[k] = comments[c].log[k]
        BY <1>5, <2>2, Growth
      <3>2. request[n].rev \in 1..Rev(c) /\ comments[c].log[request[n].rev] = run.e.text
        BY <1>0, <1>1, <2>1, <2>2, <2>3 DEF AnswerInv
      <3>3. request[n].rev \in 1..Len(comments'[c].log)
        <4>1. Len(comments'[c].log) \in Nat /\ Rev(c) <= Len(comments'[c].log)
          BY <1>5, <2>2, Growth DEF Rev
        <4> QED
          BY <3>1, <3>2, <4>1
      <3> QED
        BY <2>1, <2>3, <3>1, <3>2, <3>3
    <2>4. ASSUME NEW m \in Effects, MeetStep(m), n = m
          PROVE  /\ request'[n].rev \in 1..Len(comments'[c].log)
                 /\ comments'[c].log[request'[n].rev] = effects[n].text
      <3>1. /\ request'[n].rev = Rev(c) + 1
            /\ comments'[c].log = Append(comments[c].log, effects[n].text)
        BY <1>1, <2>1, <2>2, <2>4, MeetFacts
      <3>2. comments[c].log \in Seq(Texts) /\ effects[n].text \in Texts
        BY <1>0, <2>2, TextFacts, OwnText
      <3> QED
        BY <3>1, <3>2, LogFacts DEF Rev
    <2>5. ASSUME NEW m \in Effects, MeetStep(m), n # m
          PROVE  request[n].status = "met" /\ request'[n].rev = request[n].rev
      BY <1>1, <2>1, <2>2, <2>5, MeetFacts
    <2>6. ASSUME NEW d \in Effects, EditStep(d) \/ DeleteStep(d)
          PROVE  request[n].status = "met" /\ request'[n].rev = request[n].rev
      BY <1>1, <2>1, <2>2, <2>6, EditFacts, DeleteFacts
    <2> QED
      BY <1>5, <2>1, <2>2, <2>3, <2>4, <2>5, <2>6 DEF RemoteStep
  <1> QED
    BY <1>2, <1>3, <1>4, <1>5

LEMMA ReceiptStays ==
    ASSUME Inv, OutboxStep \/ QuietStep \/ ReceivedStep \/ RemoteStep
    PROVE  ReceiptInv'
  <1>0. WritebackTypeOK /\ ReceiptInv /\ KindInv
    BY DEF Inv
  <1> DEFINE c(n) == effects'[n].remote
             Good(n) == /\ effects'[n].rev \in 1..Len(comments'[c(n)].log)
                        /\ effects'[n].expects = comments'[c(n)].log[effects'[n].rev]
                        /\ effects'[n].text = effects'[n].expects
  <1>1. SUFFICES ASSUME NEW n \in Made', effects'[n].state = "sent" PROVE Good(n)
    BY DEF ReceiptInv, Rev
  <1>2. ASSUME n \in Made, effects[n].state = "sent", Still(n), UNCHANGED comments PROVE Good(n)
    BY <1>0, <1>2 DEF ReceiptInv, Still, Alike, Rev
  <1>3. CASE OutboxStep
    <2>1. n \in Made
      <3>1. n \notin Made => New(effects'[n])
        BY <1>3, OutboxRows
      <3> QED
        BY <1>1, <3>1 DEF New, IsQuestion, IsUpdate, IsRepair, IsCopy
    <2>2. Still(n) /\ Moved(n) /\ UNCHANGED comments
      BY <1>3, <2>1, OutboxRows
    <2>3. effects[n].state = "sent"
      BY <1>1, <2>2 DEF Moved
    <2> QED
      BY <1>2, <2>1, <2>2, <2>3
  <1>4. CASE QuietStep
    <2>1. Still(n) /\ n \in Made /\ UNCHANGED comments
      BY <1>4, QuietRows, QuietMoves
    <2>2. effects[n].state = "sent"
      BY <1>1, <1>4, <2>1, QuietMoves, QuietRows
    <2> QED
      BY <1>2, <2>1, <2>2
  <1>5. ASSUME NEW d \in Effects, NEW v \in 1..Rev(d), ReceiptStep(d, v) PROVE Good(n)
    <2>1. n \in Made /\ n \in Effects /\ UNCHANGED comments /\ Alike(n)
          /\ (n # run.on => effects'[n] = effects[n])
      BY <1>5, ReceivedRows
    <2>2. CASE n = run.on
      <3>1. /\ c(n) = d /\ effects'[n].rev = v /\ effects'[n].expects = comments[d].log[v]
            /\ comments[d].log[v] = effects[n].text
        BY <1>5, <2>2, ReceivedRows
      <3> QED
        BY <2>1, <3>1 DEF Alike, Rev
    <2>3. CASE n # run.on
      <3>1. Still(n) /\ effects[n].state = "sent"
        BY <1>1, <2>1, <2>3 DEF Still
      <3> QED
        BY <1>2, <2>1, <3>1
    <2> QED
      BY <2>2, <2>3
  <1>6. CASE RemoteStep
    <2>1. UNCHANGED effects /\ n \in Made /\ n \in Effects
      BY <1>6, QuietRows DEF RemoteStep, EditStep, DeleteStep, MeetStep
    <2> DEFINE d == effects[n].remote
    <2>2. d \in Effects
      BY <1>0, <1>1, <2>1, TraceFacts DEF KindInv
    <2>3. /\ effects[n].rev \in 1..Rev(d) /\ effects[n].expects = comments[d].log[effects[n].rev]
          /\ effects[n].text = effects[n].expects
      BY <1>0, <1>1, <2>1 DEF ReceiptInv
    <2>4. /\ Rev(d) \in Nat /\ Len(comments'[d].log) \in Nat /\ Rev(d) <= Len(comments'[d].log)
          /\ \A k \in 1..Rev(d) : comments'[d].log[k] = comments[d].log[k]
      BY <1>6, <2>2, Growth DEF Rev
    <2> HIDE DEF d
    <2>5. effects[n].rev \in 1..Len(comments'[d].log)
      BY <2>3, <2>4
    <2> QED
      BY <2>1, <2>3, <2>4, <2>5 DEF d
  <1> QED
    BY <1>3, <1>4, <1>5, <1>6 DEF ReceivedStep

LEMMA RaceStep ==
    ASSUME Inv, OutboxStep \/ QuietStep \/ ReceivedStep \/ RemoteStep
    PROVE  RaceInv'
  <1>0. WritebackTypeOK /\ RaceInv /\ HandInv /\ run \in Runs
    BY TypeFacts DEF Inv
  <1> DEFINE c(n) == effects'[n].remote
             log(n) == comments'[c(n)].log
             Good(n) == log(n)[Len(log(n))] = Foreign =>
                           Len(log(n)) = effects'[n].rev \/ request'[n].raced
  <1>1. SUFFICES ASSUME NEW n \in Made', Undone(n)', effects'[n].remote # None PROVE Good(n)
    BY DEF RaceInv, Now, Rev
  <1>2. ASSUME n \in Made, Undone(n), Still(n), UNCHANGED comments,
               request'[n].raced = request[n].raced
        PROVE  Good(n)
    BY <1>0, <1>1, <1>2 DEF RaceInv, Still, Now, Rev
  <1>3. CASE OutboxStep
    <2>1. UNCHANGED <<comments, request>> /\ (run'.at = "fencing" => UNCHANGED run)
      BY <1>3, OutboxRows DEF OutboxStep, RowsStep, Picks
    <2>2. Undone(n)
      BY <1>1, <2>1 DEF Undone
    <2>3. n \in Made
      <3>1. n \notin Made => request[n] = NoRequest
        BY <1>3, OutboxRows
      <3> QED
        BY <1>0, <2>2, <3>1 DEF Undone, NoRequest, HandInv
    <2>4. Still(n)
      BY <1>3, <2>3, OutboxRows
    <2> QED
      BY <1>2, <2>1, <2>2, <2>3, <2>4
  <1>4. CASE QuietStep
    <2>1. Still(n) /\ n \in Made /\ n \in Effects /\ UNCHANGED comments
      BY <1>4, QuietRows, QuietMoves
    <2>2. CASE FenceStep /\ n = run.on
      <3>1. run.e.remote = effects[n].remote /\ run.e.rev = effects[n].rev
            /\ run.e.approval = effects[n].approval
        BY <2>2, HandFacts DEF FenceStep
      <3>2. effects[n].remote # None
        BY <1>1, <2>1 DEF Still
      <3>3. Unedited(effects[n].remote, run.e)
        BY <1>0, <2>2, <3>1, <3>2 DEF FenceStep, HandInv
      <3> QED
        BY <2>1, <3>1, <3>3 DEF Unedited, Still, Rev
    <2>3. CASE DispatchStep /\ n = run.on
      <3>1. Undone(n) /\ request[n] \in Requests
            /\ request'[n] = [request[n] EXCEPT !.status = "sent"]
        BY <1>0, <2>1, <2>3, TypeFacts DEF DispatchStep, Undone, RequestBecomes
      <3>2. request'[n].raced = request[n].raced
        BY <3>1 DEF Requests
      <3> QED
        BY <1>2, <2>1, <3>1, <3>2
    <2>4. CASE ~(FenceStep /\ n = run.on) /\ ~(DispatchStep /\ n = run.on)
      <3>1. request'[n] = request[n]
        <4>1. CASE SaveStep \/ DropStep \/ ScanStep
          BY <4>1 DEF SaveStep, DropStep, ScanStep
        <4>2. CASE (FenceStep \/ DispatchStep) /\ n # run.on
          BY <2>1, <4>2 DEF FenceStep, DispatchStep, RequestBecomes
        <4> QED
          BY <1>4, <2>4, <4>1, <4>2 DEF QuietStep
      <3>2. Undone(n)
        <4>1. ~(run'.at = "fencing" /\ run'.on = n)
          BY <1>4, <2>1, <2>4, HandMoves
        <4> QED
          BY <1>1, <3>1, <4>1 DEF Undone
      <3> QED
        BY <1>2, <2>1, <3>1, <3>2
    <2> QED
      BY <2>2, <2>3, <2>4
  <1>5. ASSUME NEW d \in Effects, NEW v \in 1..Rev(d), ReceiptStep(d, v) PROVE Good(n)
    <2>1. n \in Made /\ n \in Effects /\ UNCHANGED <<comments, request>> /\ run' = Idle
          /\ (n # run.on => effects'[n] = effects[n])
      BY <1>5, ReceivedRows
    <2>2. request[n].status = "sent"
      BY <1>1, <2>1 DEF Undone, Idle
    <2>3. CASE n = run.on
      <3>1. comments[d].log[Rev(d)] = effects[n].text /\ c(n) = d
        BY <1>5, <2>2, <2>3, ReceivedRows DEF Now
      <3>2. effects[n].text # Foreign
        BY <2>1, OwnText
      <3> QED
        BY <2>1, <3>1, <3>2 DEF Rev
    <2>4. CASE n # run.on
      <3>1. Still(n) /\ Undone(n)
        BY <2>1, <2>2, <2>4, Unchanged DEF Undone
      <3> QED
        BY <1>2, <2>1, <3>1
    <2> QED
      BY <2>3, <2>4
  <1>6. CASE RemoteStep
    <2>1. UNCHANGED <<effects, run>> /\ n \in Made /\ n \in Effects /\ Still(n)
      BY <1>6, QuietRows DEF RemoteStep, EditStep, DeleteStep, MeetStep
    <2>2. c(n) \in Effects
      BY <1>1, <2>1, TraceFacts
    <2>3. ASSUME Undone(n), comments'[c(n)].log = comments[c(n)].log,
                 request[n].raced => request'[n].raced
          PROVE  Good(n)
      BY <1>0, <1>1, <2>1, <2>3 DEF RaceInv, Now, Rev
    <2>4. ASSUME NEW d \in Effects, EditStep(d) PROVE Good(n)
      <3>1. Undone(n) /\ (request[n].raced => request'[n].raced)
            /\ (effects[n].remote = d => request'[n].raced)
        <4>1. request'[n].status = request[n].status
          BY <2>1, <2>4, EditFacts
        <4>2. Undone(n)
          BY <1>1, <2>1, <4>1 DEF Undone
        <4> QED
          BY <2>1, <2>4, <4>2, EditFacts
      <3>2. c(n) # d => comments'[c(n)].log = comments[c(n)].log
        BY <2>2, <2>4, EditFacts
      <3> QED
        BY <2>1, <2>3, <3>1, <3>2
    <2>5. ASSUME NEW d \in Effects, DeleteStep(d) PROVE Good(n)
      <3>1. Undone(n) /\ request'[n].raced = request[n].raced
        BY <1>1, <2>1, <2>5, DeleteFacts DEF Undone
      <3>2. comments'[c(n)].log = comments[c(n)].log
        BY <2>2, <2>5, DeleteFacts
      <3> QED
        BY <2>3, <3>1, <3>2
    <2>6. ASSUME NEW m \in Effects, MeetStep(m) PROVE Good(n)
      <3>1. Undone(n) /\ request'[n].raced = request[n].raced
        BY <1>1, <2>1, <2>6, MeetFacts DEF Undone
      <3>2. CASE comments'[c(n)].log = comments[c(n)].log
        BY <2>3, <3>1, <3>2
      <3>3. CASE comments'[c(n)].log # comments[c(n)].log
        <4>1. m \in Made /\ c(n) = Target(m)
              /\ comments'[c(n)].log = Append(comments[c(n)].log, effects[m].text)
          BY <2>2, <2>6, <3>3, MeetFacts
        <4>2. comments[c(n)].log \in Seq(Texts) /\ effects[m].text \in Texts
              /\ effects[m].text # Foreign
          BY <1>0, <2>2, <4>1, TextFacts, OwnText
        <4>3. log(n)[Len(log(n))] = effects[m].text
          BY <4>1, <4>2, LogFacts
        <4> QED
          BY <4>2, <4>3
      <3> QED
        BY <3>2, <3>3
    <2> QED
      BY <1>6, <2>4, <2>5, <2>6 DEF RemoteStep
  <1> QED
    BY <1>3, <1>4, <1>5, <1>6 DEF ReceivedStep

LEMMA EchoStep ==
    ASSUME Inv, OutboxStep \/ QuietStep \/ ReceivedStep \/ RemoteStep
    PROVE  ReceiptsAreEchoes'
  <1>0. WritebackTypeOK /\ ReceiptInv /\ KindInv /\ ReceiptsAreEchoes
        /\ retained \in [Effects -> Retained]
    BY TypeFacts DEF Inv
  <1> DEFINE c(n) == effects'[n].remote
             Good(n) == retained'[c(n)].rev = effects'[n].rev =>
                           retained'[c(n)].echo \in {"confirmed", "deleted"}
  <1>1. SUFFICES ASSUME NEW n \in Made', effects'[n].state = "sent" PROVE Good(n)
    BY DEF ReceiptsAreEchoes
  <1>2. ASSUME n \in Made, effects[n].state = "sent"
        PROVE  /\ retained[effects[n].remote].rev = effects[n].rev =>
                     retained[effects[n].remote].echo \in {"confirmed", "deleted"}
               /\ effects[n].remote \in Effects
    <2>1. n \in Effects /\ effects[n].remote # None
      BY <1>0, <1>2 DEF Made, KindInv
    <2> QED
      BY <1>0, <1>2, <2>1, TraceFacts DEF ReceiptsAreEchoes
  <1>3. CASE OutboxStep
    <2>1. n \in Made
      <3>1. n \notin Made => New(effects'[n])
        BY <1>3, OutboxRows
      <3> QED
        BY <1>1, <3>1 DEF New, IsQuestion, IsUpdate, IsRepair, IsCopy
    <2>2. Still(n) /\ Moved(n)
      BY <1>3, <2>1, OutboxRows
    <2>3. effects[n].state = "sent" /\ c(n) = effects[n].remote /\ effects'[n].rev = effects[n].rev
      BY <1>1, <2>2 DEF Moved, Still
    <2>4. CASE UNCHANGED retained
      BY <1>2, <2>1, <2>3, <2>4
    <2>5. ASSUME NEW d \in Effects,
                 retained' = [retained EXCEPT ![d] = [rev |-> Rev(d), echo |-> Echo(d)]]
          PROVE  Good(n)
      <3>1. CASE c(n) # d
        BY <1>0, <1>2, <2>1, <2>3, <2>5, <3>1
      <3>2. CASE c(n) = d
        <4>1. retained'[d].rev = Rev(d) /\ retained'[d].echo = Echo(d)
          BY <1>0, <2>5
        <4>2. effects[n].rev = Rev(d) => effects[n].expects = Now(d)
          BY <1>0, <2>1, <2>3, <3>2 DEF ReceiptInv, Now
        <4>3. effects[n].rev = Rev(d) => Received(d)
          BY <2>1, <2>3, <3>2, <4>2 DEF Received
        <4> QED
          BY <2>3, <3>2, <4>1, <4>3 DEF Echo
      <3> QED
        BY <3>1, <3>2
    <2>6. ASSUME NEW d \in Effects, retained' = [retained EXCEPT ![d].echo = "deleted"]
          PROVE  Good(n)
      <3>1. \A e \in Effects : retained[e] \in Retained
        BY <1>0
      <3>2. retained'[d].echo = "deleted" /\ \A e \in Effects : e # d => retained'[e] = retained[e]
        BY <1>0, <2>6, <3>1 DEF Retained
      <3> QED
        BY <1>2, <2>1, <2>3, <3>2
    <2> QED
      BY <1>3, <2>4, <2>5, <2>6 DEF OutboxStep, Ingested
  <1>4. CASE QuietStep \/ RemoteStep
    <2>1. Still(n) /\ n \in Made /\ n \in Effects /\ UNCHANGED retained
      BY <1>4, QuietRows
    <2>2. effects[n].state = "sent"
      BY <1>1, <1>4, <2>1, QuietMoves DEF RemoteStep, EditStep, DeleteStep, MeetStep
    <2> QED
      BY <1>2, <2>1, <2>2 DEF Still
  <1>5. ASSUME NEW d \in Effects, NEW v \in 1..Rev(d), ReceiptStep(d, v) PROVE Good(n)
    <2>1. n \in Made /\ n \in Effects /\ retained' = Confirming(d, v)
          /\ (n # run.on => effects'[n] = effects[n])
      BY <1>5, ReceivedRows DEF ReceiptStep
    <2>2. /\ \A e \in Effects : e # d => retained'[e] = retained[e]
          /\ retained'[d].rev = retained[d].rev
          /\ retained[d].rev = v => retained'[d].echo \in {"confirmed", "deleted"}
          /\ retained[d].echo \in {"confirmed", "deleted"} =>
                retained'[d].echo \in {"confirmed", "deleted"}
      <3>1. retained[d] \in Retained
        BY <1>0
      <3> QED
        BY <1>0, <2>1, <3>1 DEF Confirming, Retained
    <2>3. CASE n = run.on
      <3>1. c(n) = d /\ effects'[n].rev = v
        BY <1>5, <2>3, ReceivedRows
      <3> QED
        BY <2>2, <3>1
    <2>4. CASE n # run.on
      BY <1>1, <1>2, <2>1, <2>2, <2>4
    <2> QED
      BY <2>3, <2>4
  <1> QED
    BY <1>3, <1>4, <1>5 DEF ReceivedStep

-----------------------------------------------------------------------------
(* The invariant, and what follows from it. *)

LEMMA InitInv == Init => Inv
  <1> SUFFICES ASSUME Init PROVE Inv
    OBVIOUS
  <1>1. /\ effects = [n \in Effects |-> NoEffect] /\ run = Idle /\ preview = NoPreview
        /\ request = [n \in Effects |-> NoRequest]
        /\ comments = [n \in Effects |-> [live |-> FALSE, posts |-> 0, log |-> <<>>]]
        /\ status.remote = None
    BY DEF Init
  <1>2. Made = {}
    BY <1>1 DEF Made, NoEffect
  <1>3. MaxEffects \in Nat /\ MaxEvents \in Nat
    BY BoundsAssumption
  <1>4. WritebackTypeOK
    <2>1. effects \in [Effects -> Rows] /\ run \in Runs
      BY <1>1, NoEffectFacts
    <2>2. request \in [Effects -> Requests]
      BY <1>1 DEF NoRequest, Requests, None
    <2>3. comments \in [Effects -> Comments]
      <3>1. <<>> \in Seq(Texts)
        OBVIOUS
      <3> QED
        BY <1>1, <3>1 DEF Comments
    <2>4. retained \in [Effects -> Retained]
      BY DEF Init, Retained, Echoes, None
    <2>5. status \in Statuses
      <3>1. NoText \in Texts
        BY DEF NoText, Text, Texts
      <3> QED
        BY <3>1 DEF Init, Statuses, None
    <2>6. template \in Bodies /\ version \in Nat /\ source \in Nat /\ policy \in Policies
          /\ events \in 0..MaxEvents
      BY <1>3 DEF Init, Policies
    <2>7. mapping \in Mappings /\ moved \in BOOLEAN
      <3>1. mapping = "admitted" /\ moved = FALSE
        BY DEF Init
      <3> QED
        BY <3>1 DEF Mappings
    <2> QED
      BY <1>1, <2>1, <2>2, <2>3, <2>4, <2>5, <2>6, <2>7, TypeFacts
  <1>5. MadeInv
    <2>1. Made = 1..0 /\ 0 \in 0..MaxEffects
      BY <1>2, <1>3
    <2> QED
      BY <1>1, <2>1 DEF MadeInv, Untouched
  <1>6. HandInv /\ AnswerInv
    BY <1>1 DEF HandInv, AnswerInv, Idle
  <1>7. KindInv /\ ReceiptInv /\ RaceInv /\ ReceiptsAreEchoes
    BY <1>2 DEF KindInv, ReceiptInv, RaceInv, ReceiptsAreEchoes
  <1>8. \A c \in Effects : ~Created(c) /\ ~comments[c].live
    BY <1>1 DEF Created, Rev
  <1>9. PostInv
    BY <1>1, <1>8 DEF PostInv, Untouched, NoRequest
  <1>10. RemoteInv
    BY <1>1, <1>2 DEF RemoteInv, StatusEffects
  <1>11. FirstInv /\ RepairInv
    BY <1>1, <1>2, <1>8 DEF FirstInv, RepairInv, First, Creates, Launched, StatusEffects
  <1> QED
    BY <1>4, <1>5, <1>6, <1>7, <1>9, <1>10, <1>11 DEF Inv

LEMMA StepInv == Inv /\ [Next]_vars => Inv'
  <1> SUFFICES ASSUME Inv, [Next]_vars PROVE Inv'
    OBVIOUS
  <1>1. OutboxStep \/ QuietStep \/ ReceivedStep \/ RemoteStep
    BY Kinds
  <1> QED
    BY <1>1, Types, MadeStep, HandStep, KindStep, PostStep, RemoteKept, FirstStep, RepairStep,
       AnswerStep, ReceiptStays, RaceStep, EchoStep DEF Inv

LEMMA Invariance == Spec => []Inv
  BY InitInv, StepInv, PTL DEF Spec

\* The rows, the runner and GitHub are what their types say.
THEOREM TypeCorrect == Spec => []WritebackTypeOK
  <1>1. Inv => WritebackTypeOK
    BY DEF Inv
  <1> QED
    BY <1>1, Invariance, PTL

\* Whatever is lost, late or repeated, an effect is posted once, and two status comments
\* are there only where a human had both posted for one that was gone.
THEOREM PostsAreNotBlind == Spec => []NoBlindPost
  <1>1. Inv => NoBlindPost
    <2> SUFFICES ASSUME Inv PROVE NoBlindPost
      OBVIOUS
    <2>0. WritebackTypeOK /\ PostInv /\ FirstInv /\ RepairInv
      BY DEF Inv
    <2>1. ASSUME NEW c \in StatusComments, NEW d \in StatusComments, c # d,
                 effects[c].approval # "missing"
          PROVE  FALSE
      <3>1. /\ c \in Effects /\ d \in Effects /\ comments[c].live /\ comments[d].live
            /\ c \in StatusEffects /\ d \in StatusEffects /\ Created(c) /\ Created(d)
        BY TraceFacts DEF StatusComments, StatusEffects
      <3>2. First(c) /\ Creates(c)
        BY <2>1, <3>1 DEF First, Creates
      <3>3. CASE effects[d].approval = "missing"
        <4>1. Launched(d)
          BY <3>1, <3>3 DEF Launched, StatusEffects
        <4> QED
          BY <2>0, <3>1, <3>2, <4>1 DEF RepairInv
      <3>4. CASE effects[d].approval # "missing"
        <4>1. Creates(d)
          BY <3>1, <3>4 DEF First, Creates
        <4> QED
          BY <2>0, <2>1, <3>1, <3>2, <4>1 DEF FirstInv
      <3> QED
        BY <3>3, <3>4
    <2> QED
      BY <2>0, <2>1 DEF NoBlindPost, PostInv
  <1> QED
    BY <1>1, Invariance, PTL

\* What the outbox shows as sent was on GitHub at the revision of its receipt, in the
\* words of the effect.
THEOREM Receipted == Spec => []SentWasShown
  <1>1. Inv => SentWasShown
    <2> SUFFICES ASSUME Inv, NEW n \in Made, effects[n].state = "sent"
                 PROVE  /\ Created(effects[n].remote)
                        /\ comments[effects[n].remote].log[effects[n].rev] = effects[n].text
      BY DEF SentWasShown
    <2>1. effects[n].remote # None /\ n \in Effects
      BY DEF Inv, KindInv, Made
    <2> QED
      BY <2>1, TraceFacts DEF Inv, ReceiptInv
  <1> QED
    BY <1>1, Invariance, PTL

\* The deck's own comment is never handed to the planner once it has its receipt,
\* whichever of the two is stored first.
THEOREM Echoed == Spec => []ReceiptsAreEchoes
  <1>1. Inv => ReceiptsAreEchoes
    BY DEF Inv
  <1> QED
    BY <1>1, Invariance, PTL

\* Only the fence lets a request out, and what it lets out is authorized as it leaves.
THEOREM Authorization == Spec => DispatchIsAuthorized
  <1> DEFINE A == \A n \in Effects : request[n].status # "sent" /\ request'[n].status = "sent" =>
                                       Authorized(effects'[n])
  <1>1. Inv /\ [Next]_vars => [A]_vars
    <2> SUFFICES ASSUME Inv, [Next]_vars, NEW n \in Effects,
                        request[n].status # "sent", request'[n].status = "sent"
                 PROVE  Authorized(effects'[n])
      OBVIOUS
    <2>1. CASE DispatchStep
      <3>1. run.e \in Rows /\ With(run.e, "sending") = With(effects[run.on], "sending")
            /\ Authorized(run.e)
        BY <2>1, HandFacts DEF DispatchStep, States
      <3>2. n = run.on
        BY <2>1 DEF DispatchStep, RequestBecomes
      <3>3. effects'[n] = With(run.e, "sending")
        BY <2>1, <3>1, <3>2 DEF DispatchStep, RowBecomes
      <3> QED
        BY <3>1, <3>3, RowFacts DEF Authorized, States
    <2>2. ~DispatchStep => request'[n].status # "sent"
      <3>1. CASE OutboxStep \/ ReceivedStep
        BY <3>1, OutboxRows, ReceivedRows DEF ReceivedStep
      <3>2. CASE SaveStep \/ DropStep \/ ScanStep
        BY <3>2 DEF SaveStep, DropStep, ScanStep
      <3>3. CASE FenceStep
        BY <3>3 DEF FenceStep, RequestBecomes, NoRequest
      <3>4. ASSUME NEW c \in Effects, EditStep(c) \/ DeleteStep(c) \/ MeetStep(c)
            PROVE  request'[n].status # "sent"
        BY <3>4, EditFacts, DeleteFacts, MeetFacts
      <3> QED
        BY <3>1, <3>2, <3>3, <3>4, Kinds DEF QuietStep, RemoteStep
    <2> QED
      BY <2>1, <2>2
  <1> QED
    BY <1>1, Invariance, PTL DEF Spec, DispatchIsAuthorized

\* A comment somebody edited is written over only by a repair of that edit, or where
\* the edit came between the runner's look and GitHub's.
THEOREM EditsKept == Spec => EditsAreKept
  <1> DEFINE A == \A n \in Effects : LET c == effects[n].remote IN
                    /\ c # None /\ request[n].status = "sent" /\ request'[n].status = "met"
                    /\ Now(c) = Foreign
                    => Rev(c) = effects[n].rev \/ request[n].raced
  <1>1. Inv /\ [Next]_vars => [A]_vars
    <2> SUFFICES ASSUME Inv, NEW n \in Effects, effects[n].remote # None,
                        request[n].status = "sent", Now(effects[n].remote) = Foreign
                 PROVE  Rev(effects[n].remote) = effects[n].rev \/ request[n].raced
      OBVIOUS
    <2>1. n \in Made /\ Undone(n)
      BY TraceFacts DEF Undone, NoRequest
    <2> QED
      BY <2>1 DEF Inv, RaceInv
  <1> QED
    BY <1>1, Invariance, PTL DEF Spec, EditsAreKept
=============================================================================
