--------------------------- MODULE Briefings_proofs ---------------------------
(***************************************************************************)
(* Proofs about briefings, for any tasks, runs, briefings, commands and       *)
(* number of faults: a scheduled run ends as its briefing did.                *)
(***************************************************************************)
EXTENDS Briefings, WellFoundedInduction, TLAPS

Stages == {"idle", "find", "resend", "reattach", "recall", "history", "check",
           "create", "dispatch", "fail", "attach", "early"}
TickStages == {"idle", "recover", "attach", "history", "early", "link", "begin", "await",
               "activate", "defer", "error"}
RunOrNone == RunIds \cup {None}

\* The types that the argument is about; it asks nothing of the tasks.
Typed ==
    /\ runs \in [RunIds -> Run]
    /\ briefings \in [Briefings -> Row]
    /\ flue \in [Briefings -> {"none", "accepted", "working", "completed", "failed"}]
    /\ pending \subseteq {"observe", "task", "close", "refuse"} \X Briefings
    /\ early \subseteq Briefings
    /\ admission \in [at : Stages, run : RunOrNone, b : 0..MaxBriefings]
    /\ tick \in [at : TickStages, rows : SUBSET (Briefings \X BOOLEAN),
                 todo : SUBSET RunIds, run : RunOrNone, b : 0..MaxBriefings]

\* A run for which no briefing has been made.
Unbriefed(r) == \A b \in Briefings : briefings[b].run # r

\* What was refused or failed before its submission was attached.
Unsent(b) == briefings[b].status = "failed" /\ ~Bound(b)

\* A row that is no longer queued was never submitted, and its run neither, or it
\* says what Flue said.  A run that is settled says the same, though its row may
\* still be queued.
RowOK(b) ==
    LET r == briefings[b].run
    IN  /\ briefings[b].status = "none" => r = None /\ ~Bound(b) /\ flue[b] = "none"
        /\ r # None =>
              /\ runs[r].status # "absent"
              /\ \A c \in Briefings : briefings[c].run = r => c = b
              /\ \/ Queued(b)
                 \/ Unsent(b) /\ runs[r].status \in {"claimed", "failed", "deleted"} \cup GivenUp
                 \/ Bound(b) /\ Ended(b) /\ (briefings[b].status = "ready" <=> flue[b] = "completed")
              /\ runs[r].status \in Settled =>
                    \/ Unsent(b) /\ runs[r].status = "failed"
                    \/ Ended(b) /\ runs[r].status = flue[b]

Rows == \A b \in Briefings : RowOK(b)

\* An admission makes one briefing for its run, and alone decides about it until the
\* submission is attached.
Making == admission.at \in {"dispatch", "fail", "attach"}
AdmissionInv ==
    /\ admission.at = "idle" => admission.run = None
    /\ admission.at \notin {"idle", "find", "check", "create"} =>
          admission.b \in Briefings /\ briefings[admission.b].status # "none"
    /\ IF Making \/ admission.at = "early"
       THEN briefings[admission.b].run = admission.run
       ELSE admission.run # None => Unbriefed(admission.run)
    /\ admission.run # None /\ Making => Queued(admission.b) /\ ~Bound(admission.b)
    /\ admission.run # None /\ admission.at = "early" => Bound(admission.b)

\* The tick admits what it has claimed itself, one run after the other.
InHand == {"await", "activate", "defer", "error"}
TickInv ==
    /\ IF tick.at \in InHand THEN tick.run \in RunIds /\ Claimed(tick.run) ELSE tick.run = None
    /\ IF tick.at = "await" THEN admission.run = tick.run ELSE admission.run = None
    /\ tick.at \in InHand \cup {"begin"} =>
          \A r \in tick.todo : Claimed(r) /\ Unbriefed(r) /\ r # tick.run
    /\ \A row \in tick.rows : briefings[row[1]].status # "none"
    /\ tick.at \in {"attach", "history", "early"} => tick.b \in Briefings
    /\ tick.at = "error" => \A b \in Briefings : briefings[b].run = tick.run => Unsent(b)
    /\ tick.at = "activate" =>
          \A b \in Briefings : briefings[b].run = tick.run => Queued(b) \/ Bound(b)

\* What is told of a submission is told once it has ended.
ToldInv ==
    /\ \A b \in early : Ended(b)
    /\ \A call \in {"observe", "task", "close"}, b \in Briefings :
          <<call, b>> \in pending => Ended(b)

Inv == Typed /\ Rows /\ AdmissionInv /\ TickInv /\ ToldInv

-----------------------------------------------------------------------------
(* Types. *)

LEMMA Least ==
    ASSUME NEW S \in SUBSET Briefings, S # {}
    PROVE  (CHOOSE b \in S : \A c \in S : b <= c) \in S
<1>1. S \subseteq Nat
  BY BriefingsAssumption DEF Briefings
<1>2. PICK b \in S : \A c \in S : ~(<<c, b>> \in OpToRel(<, Nat))
  BY <1>1, NatLessThanWellFounded, WFMin
<1>3. ASSUME NEW c \in S PROVE b <= c
  <2>1. b \in Nat /\ c \in Nat
    BY <1>1
  <2>2. c < b => <<c, b>> \in OpToRel(<, Nat)
    BY <2>1 DEF OpToRel
  <2>3. ~(<<c, b>> \in OpToRel(<, Nat))
    BY <1>2
  <2>4. ~(c < b)
    BY <2>2, <2>3
  <2> QED
    BY <2>1, <2>4
<1> QED
  BY <1>3

LEMMA Sets ==
    /\ Briefings \subseteq 0..MaxBriefings /\ 0 \in 0..MaxBriefings
    /\ None \in RunOrNone /\ RunIds \subseteq RunOrNone /\ None \notin RunIds
    /\ NoAdmission \in [at : Stages, run : RunOrNone, b : 0..MaxBriefings]
    /\ IdleTick \in [at : TickStages, rows : SUBSET (Briefings \X BOOLEAN),
                     todo : SUBSET RunIds, run : RunOrNone, b : 0..MaxBriefings]
BY BriefingsAssumption, TasksAssumption
   DEF Briefings, RunOrNone, NoAdmission, IdleTick, Stages, TickStages

LEMMA NewRunFacts ==
    ASSUME NEW r \in NewRuns
    PROVE  r \in RunIds /\ runs[r].status = "absent"
BY DEF NewRuns, NewRun, Due, Unused, RunsOf

LEMMA Initially == BriefingsInit => Inv
<1> SUFFICES ASSUME BriefingsInit PROVE Inv
  OBVIOUS
<1>1. Typed
  BY Sets DEF BriefingsInit, StoreInit, Typed, Row, NoRow, Run, Absent, RunOrNone
<1>2. Rows
  BY DEF Rows, BriefingsInit, NoRow, RowOK, Bound
<1> QED
  BY <1>1, <1>2, TasksAssumption
     DEF BriefingsInit, Inv, AdmissionInv, Making, TickInv, InHand, ToldInv, NoAdmission, IdleTick

\* What Flue is told, and what it tells.
LEMMA AcceptTyped ==
    ASSUME Typed, NEW b \in Briefings
    PROVE  /\ Accepted(b) \in [Briefings -> {"none", "accepted", "working", "completed", "failed"}]
           /\ \A c \in Briefings :
                 \/ Accepted(b)[c] = flue[c]
                 \/ c = b /\ flue[c] = "none" /\ Accepted(b)[c] = "accepted"
BY DEF Typed, Accepted

\* What settles a row.
LEMMA EndTyped ==
    ASSUME Typed, NEW b \in Briefings
    PROVE  /\ WithEnd(b) \in [Briefings -> Row]
           /\ \A c \in Briefings : c # b => WithEnd(b)[c] = briefings[c]
           /\ WithEnd(b)[b].status = (IF flue[b] = "completed" THEN "ready" ELSE "failed")
           /\ WithEnd(b)[b].bound = briefings[b].bound
           /\ WithEnd(b)[b].run = briefings[b].run
           /\ Closing(b) \subseteq {<<"close", b>>}
BY DEF Typed, WithEnd, Row, Closing

LEMMA AttachTyped ==
    ASSUME Typed, NEW b \in Briefings, Attach(b)
    PROVE  /\ briefings' \in [Briefings -> Row]
           /\ \A c \in Briefings :
                 \/ briefings'[c] = briefings[c]
                 \/ c = b /\ Queued(b) /\ briefings'[b].status = "queued" /\ briefings'[b].bound
                          /\ briefings'[b].run = briefings[b].run
           /\ Queued(b) => briefings'[b].status = "queued" /\ briefings'[b].bound
<1>1. CASE Queued(b)
  BY <1>1 DEF Typed, Attach, Queued, Row
<1>2. CASE ~Queued(b)
  BY <1>2 DEF Typed, Attach
<1> QED
  BY <1>1, <1>2

-----------------------------------------------------------------------------
(* What a step does to the rows and the runs: one thing at a time. *)

\* The rows rest, Flue goes on.
FlueGoesOn ==
    /\ UNCHANGED <<briefings, runs>>
    /\ flue' \in [Briefings -> {"none", "accepted", "working", "completed", "failed"}]
    /\ \A b \in Briefings :
          flue'[b] = flue[b] \/ (~Ended(b) /\ briefings[b].status # "none")

\* One row is attached, or settled as Flue ended it.
RowAttached == \E b \in Briefings : Attach(b) /\ UNCHANGED <<runs, flue>>
RowSettled ==
    \E b \in Briefings : Settleable(b) /\ Ended(b) /\ briefings' = WithEnd(b) /\ UNCHANGED <<runs, flue>>

\* Runs are settled or given up as their rows say, or made active over them.
RunsFollow ==
    /\ UNCHANGED <<briefings, flue>>
    /\ runs' \in [RunIds -> Run]
    /\ \A r \in RunIds :
          \/ runs'[r] = runs[r]
          \/ Unbriefed(r)
          \/ /\ runs'[r].status # "absent"
             /\ \A b \in Briefings : briefings[b].run = r =>
                   IF Unsent(b) THEN runs'[r].status \in {"claimed", "failed", "deleted"} \cup GivenUp
                   ELSE runs'[r].status \in Settled => Ended(b) /\ runs'[r].status = flue[b]

RowMade ==
    /\ UNCHANGED <<runs, flue>>
    /\ admission.run # None => Claimed(admission.run) /\ Unbriefed(admission.run)
    /\ \E b \in Unwritten :
          briefings' = [briefings EXCEPT ![b] = [status |-> "queued", bound |-> FALSE,
                                                 run |-> admission.run]]

RowRefused ==
    /\ UNCHANGED <<runs, flue>>
    /\ \E b \in Briefings :
          /\ briefings[b].run # None => Queued(b) /\ ~Bound(b) /\ Claimed(briefings[b].run)
          /\ briefings[b].status # "none"
          /\ briefings' = [briefings EXCEPT ![b].status = "failed"]

RowStep == FlueGoesOn \/ RowAttached \/ RowSettled \/ RunsFollow \/ RowMade \/ RowRefused

LEMMA FlueRows == Typed /\ Rows /\ FlueGoesOn => Rows'
BY DEF Rows, RowOK, FlueGoesOn, Queued, Bound, Unsent, Ended

LEMMA AttachedRows == Typed /\ Rows /\ RowAttached => Rows'
<1> SUFFICES ASSUME Typed, Rows, NEW b \in Briefings, Attach(b), UNCHANGED <<runs, flue>>,
                    NEW c \in Briefings
             PROVE  RowOK(c)'
  BY DEF RowAttached, Rows
<1>1. \A d \in Briefings : briefings'[d].run = briefings[d].run
  BY AttachTyped
<1>2. RowOK(c)
  BY DEF Rows
<1>3. CASE briefings'[c] = briefings[c]
  BY <1>1, <1>2, <1>3 DEF RowOK, Queued, Bound, Unsent, Ended
<1>4. CASE briefings'[c] # briefings[c]
  <2>1. c = b /\ Queued(c) /\ briefings'[c].status = "queued" /\ briefings'[c].bound
    BY <1>4, AttachTyped
  <2> QED
    BY <1>1, <1>2, <2>1 DEF RowOK, Queued, Bound, Unsent, Ended
<1> QED
  BY <1>3, <1>4

LEMMA SettledRows == Typed /\ Rows /\ RowSettled => Rows'
<1> SUFFICES ASSUME Typed, Rows, NEW b \in Briefings, Settleable(b), Ended(b),
                    briefings' = WithEnd(b), UNCHANGED <<runs, flue>>, NEW c \in Briefings
             PROVE  RowOK(c)'
  BY DEF RowSettled, Rows
<1>1. \A d \in Briefings : briefings'[d].run = briefings[d].run
  BY EndTyped
<1>2. RowOK(c)
  BY DEF Rows
<1>3. CASE c # b
  <2>1. briefings'[c] = briefings[c]
    BY <1>3, EndTyped
  <2> QED
    BY <1>1, <1>2, <2>1 DEF RowOK, Queued, Bound, Unsent, Ended
<1>4. CASE c = b
  <2>1. /\ briefings'[c].status = (IF flue[c] = "completed" THEN "ready" ELSE "failed")
        /\ briefings'[c].bound /\ Queued(c) /\ Bound(c) /\ Ended(c)
    BY <1>4, EndTyped DEF Settleable, Bound
  <2> QED
    BY <1>1, <1>2, <2>1 DEF RowOK, Queued, Bound, Unsent, Ended
<1> QED
  BY <1>3, <1>4

LEMMA RunsRows == Typed /\ Rows /\ RunsFollow => Rows'
<1> SUFFICES ASSUME Typed, Rows, RunsFollow, NEW b \in Briefings
             PROVE  RowOK(b)'
  BY DEF Rows
<1>1. RowOK(b) /\ UNCHANGED <<briefings, flue>>
  BY DEF Rows, RunsFollow
<1>2. CASE briefings[b].run = None
  BY <1>1, <1>2 DEF RowOK, Bound
<1>3. CASE briefings[b].run # None
  <2> DEFINE r == briefings[b].run
  <2>1. r \in RunIds
    BY <1>3 DEF Typed, Row
  <2>2. CASE runs'[r] = runs[r]
    BY <1>1, <2>2 DEF RowOK, Queued, Bound, Unsent, Ended
  <2>3. CASE runs'[r] # runs[r]
    <3>1. /\ runs'[r].status # "absent"
          /\ IF Unsent(b) THEN runs'[r].status \in {"claimed", "failed", "deleted"} \cup GivenUp
             ELSE runs'[r].status \in Settled => Ended(b) /\ runs'[r].status = flue[b]
      BY <2>1, <2>3 DEF RunsFollow, Unbriefed
    <3>2. Unsent(b) /\ runs'[r].status \in Settled => runs'[r].status = "failed"
      BY <3>1 DEF Settled, GivenUp
    <3>3. \/ Queued(b)
          \/ Unsent(b)
          \/ Bound(b) /\ Ended(b) /\ (briefings[b].status = "ready" <=> flue[b] = "completed")
      BY <1>1, <1>3 DEF RowOK
    <3> QED
      BY <1>1, <1>3, <3>1, <3>2, <3>3 DEF RowOK, Queued, Bound, Unsent, Ended
  <2> QED
    BY <2>2, <2>3
<1> QED
  BY <1>2, <1>3

LEMMA MadeRows == Typed /\ Rows /\ RowMade => Rows'
<1> SUFFICES ASSUME Typed, Rows, UNCHANGED <<runs, flue>>,
                    admission.run # None => Claimed(admission.run) /\ Unbriefed(admission.run),
                    NEW b \in Unwritten,
                    briefings' = [briefings EXCEPT ![b] = [status |-> "queued", bound |-> FALSE,
                                                           run |-> admission.run]],
                    NEW c \in Briefings
             PROVE  RowOK(c)'
  BY DEF RowMade, Rows
<1>1. /\ b \in Briefings /\ briefings[b].status = "none"
      /\ briefings'[b].status = "queued" /\ ~briefings'[b].bound /\ briefings'[b].run = admission.run
      /\ \A d \in Briefings : d # b => briefings'[d] = briefings[d]
  BY DEF Unwritten, Typed
<1>2. RowOK(c) /\ RowOK(b)
  BY <1>1 DEF Rows
<1>3. CASE c # b
  <2>1. briefings'[c] = briefings[c]
    BY <1>1, <1>3
  <2>2. briefings[c].run # None => briefings'[b].run # briefings[c].run
    BY <1>1 DEF Unbriefed
  <2> QED
    BY <1>1, <1>2, <2>1, <2>2 DEF RowOK, Queued, Bound, Unsent, Ended
<1>4. CASE c = b
  <2>1. flue[b] = "none"
    BY <1>1, <1>2 DEF RowOK
  <2>2. admission.run # None =>
            /\ runs[admission.run].status = "claimed"
            /\ \A d \in Briefings : briefings'[d].run = admission.run => d = b
    BY <1>1 DEF Unbriefed, Claimed
  <2> QED
    BY <1>1, <1>4, <2>1, <2>2 DEF RowOK, Queued, Bound, Unsent, Ended, Settled
<1> QED
  BY <1>3, <1>4

LEMMA RefusedRows == Typed /\ Rows /\ RowRefused => Rows'
<1> SUFFICES ASSUME Typed, Rows, UNCHANGED <<runs, flue>>, NEW b \in Briefings,
                    briefings[b].run # None => Queued(b) /\ ~Bound(b) /\ Claimed(briefings[b].run),
                    briefings[b].status # "none",
                    briefings' = [briefings EXCEPT ![b].status = "failed"],
                    NEW c \in Briefings
             PROVE  RowOK(c)'
  BY DEF RowRefused, Rows
<1>1. /\ briefings'[b].status = "failed"
      /\ briefings'[b].bound = briefings[b].bound /\ briefings'[b].run = briefings[b].run
      /\ \A d \in Briefings : d # b => briefings'[d] = briefings[d]
  BY DEF Typed, Row
<1>2. RowOK(c)
  BY DEF Rows
<1>3. CASE c # b
  BY <1>1, <1>2, <1>3 DEF RowOK, Queued, Bound, Unsent, Ended
<1>4. CASE c = b
  BY <1>1, <1>2, <1>4 DEF RowOK, Queued, Bound, Unsent, Ended, Settled, Claimed
<1> QED
  BY <1>3, <1>4

LEMMA RowsKept == Typed /\ Rows /\ RowStep => Rows'
BY FlueRows, AttachedRows, SettledRows, RunsRows, MadeRows, RefusedRows DEF RowStep

-----------------------------------------------------------------------------
(* What the admission and the tick have in hand, while others move. *)

\* The rows keep their runs, and what has been attached or refused stays so; only the
\* admission refuses, a row of its own.
RowsStay ==
    \A b \in Briefings :
        /\ briefings'[b].run = briefings[b].run
        /\ briefings[b].status # "none" => briefings'[b].status # "none"
        /\ Bound(b) => briefings'[b].bound
        /\ Unsent(b) => briefings'[b] = briefings[b]
        /\ Queued(b) /\ briefings[b].run \notin {None, admission.run} /\ briefings'[b].status # "queued" =>
              briefings'[b].bound

LEMMA AdmissionRests ==
    ASSUME AdmissionInv, UNCHANGED admission, RowsStay,
           admission.run # None /\ Making => briefings'[admission.b] = briefings[admission.b],
           Making \/ admission.at = "early" => admission.b \in Briefings
    PROVE  AdmissionInv'
BY DEF AdmissionInv, RowsStay, Making, Queued, Bound, Unbriefed

LEMMA TickRests ==
    ASSUME Typed, TickInv, UNCHANGED tick, admission'.run = admission.run, RowsStay,
           \A r \in RunIds : Claimed(r) => runs'[r] = runs[r]
    PROVE  TickInv'
<1>1. tick.todo \subseteq RunIds
  BY DEF Typed
<1>2. \A r \in RunIds : Claimed(r) => Claimed(r)'
  BY DEF Claimed
<1>3. \A r : Unbriefed(r) => Unbriefed(r)'
  BY DEF Unbriefed, RowsStay
<1>4. \A b \in Briefings : Unsent(b) => Unsent(b)'
  BY DEF RowsStay, Unsent, Bound
<1>5. \A b \in Briefings :
          briefings[b].run \notin {None, admission.run} /\ (Queued(b) \/ Bound(b)) => Queued(b)' \/ Bound(b)'
  BY DEF RowsStay, Queued, Bound
<1>6. \A b \in Briefings : briefings'[b].run = briefings[b].run
  BY DEF RowsStay
<1>7. \A row \in tick.rows : briefings'[row[1]].status # "none"
  <2>1. \A row \in tick.rows : row[1] \in Briefings /\ briefings[row[1]].status # "none"
    BY DEF Typed, TickInv
  <2> QED
    BY <2>1 DEF RowsStay
<1> QED
  BY <1>1, <1>2, <1>3, <1>4, <1>5, <1>6, <1>7, TasksAssumption DEF TickInv, InHand

\* Where no row loses or gains anything else, rows stay.
LEMMA StayFlue == FlueGoesOn => RowsStay
BY DEF FlueGoesOn, RowsStay, Queued, Bound

LEMMA StayRuns == RunsFollow => RowsStay
BY DEF RunsFollow, RowsStay, Queued, Bound

LEMMA StayAttached ==
    ASSUME Typed, NEW b \in Briefings, Attach(b)
    PROVE  RowsStay
BY AttachTyped DEF RowsStay, Queued, Bound, Unsent

LEMMA StaySettled ==
    ASSUME Typed, NEW b \in Briefings, Settleable(b), briefings' = WithEnd(b)
    PROVE  RowsStay
<1>1. /\ \A c \in Briefings : c # b => briefings'[c] = briefings[c]
      /\ briefings'[b].status # "none" /\ briefings'[b].bound
      /\ briefings'[b].run = briefings[b].run
  BY EndTyped DEF Settleable, Bound
<1>2. ~Unsent(b)
  BY DEF Settleable, Unsent
<1> QED
  BY <1>1, <1>2 DEF RowsStay, Queued, Bound, Unsent

\* What is told stays true, and what is new is told of what has ended.
LEMMA ToldStays ==
    ASSUME Typed, ToldInv, \A b \in Briefings : Ended(b) => flue'[b] = flue[b],
           \A b \in early' : b \in Briefings /\ (b \in early \/ Ended(b)'),
           \A p \in pending' : p \in pending \/ p[1] = "refuse" \/ (p[2] \in Briefings /\ Ended(p[2])')
    PROVE  ToldInv'
<1>1. \A b \in Briefings : Ended(b) => Ended(b)'
  BY DEF Ended
<1>2. \A b \in early' : Ended(b)'
  BY <1>1 DEF ToldInv, Typed
<1>3. ASSUME NEW call \in {"observe", "task", "close"}, NEW b \in Briefings,
             <<call, b>> \in pending'
      PROVE  Ended(b)'
  BY <1>1, <1>3 DEF ToldInv
<1> QED
  BY <1>2, <1>3 DEF ToldInv

\* A row is settled under the admission or the tick, or by an observation.
LEMMA SettleStep ==
    ASSUME Typed, Rows, ToldInv, NEW b \in Briefings, Ended(b), Settle(b), UNCHANGED <<runs, flue>>
    PROVE  /\ briefings' \in [Briefings -> Row]
           /\ Rows' /\ RowsStay
           /\ \A c \in Briefings : ~Bound(c) => briefings'[c] = briefings[c]
           /\ pending' \subseteq pending \cup {<<"close", b>>}
           /\ pending' \subseteq {"observe", "task", "close", "refuse"} \X Briefings
<1>1. CASE Settleable(b)
  <2>1. briefings' = WithEnd(b) /\ pending' = pending \cup Closing(b)
    BY <1>1 DEF Settle
  <2>2. RowSettled
    BY <1>1, <2>1 DEF RowSettled
  <2>3. /\ briefings' \in [Briefings -> Row]
        /\ \A c \in Briefings : c # b => briefings'[c] = briefings[c]
        /\ Closing(b) \subseteq {<<"close", b>>}
    BY <2>1, EndTyped
  <2>4. \A c \in Briefings : ~Bound(c) => briefings'[c] = briefings[c]
    BY <1>1, <2>3 DEF Settleable
  <2>5. pending \subseteq {"observe", "task", "close", "refuse"} \X Briefings
    BY DEF Typed
  <2> QED
    BY <1>1, <2>1, <2>2, <2>3, <2>4, <2>5, SettledRows, StaySettled
<1>2. CASE ~Settleable(b)
  <2>1. UNCHANGED <<briefings, pending>>
    BY <1>2 DEF Settle
  <2>2. FlueGoesOn
    BY <2>1 DEF FlueGoesOn, Typed
  <2> QED
    BY <2>1, <2>2, FlueRows, StayFlue DEF Typed
<1> QED
  BY <1>1, <1>2

\* The shape of what a step that touches none of these leaves.
LEMMA TypedRest ==
    ASSUME Typed, UNCHANGED <<runs, briefings, flue, pending, early, admission, tick>>
    PROVE  Typed'
BY DEF Typed

LEMMA Resting ==
    ASSUME Inv, UNCHANGED <<runs, briefings, flue, pending, early, admission, tick>>
    PROVE  Inv'
<1>1. Typed'
  BY TypedRest DEF Inv
<1>2. FlueGoesOn
  BY DEF Inv, Typed, FlueGoesOn
<1>3. Rows' /\ RowsStay
  BY <1>2, FlueRows, StayFlue DEF Inv
<1>4. AdmissionInv'
  BY DEF Inv, AdmissionInv, Making, Queued, Bound, Unbriefed
<1>5. TickInv'
  BY <1>3, TickRests DEF Inv
<1>6. ToldInv'
  BY DEF Inv, ToldInv, Ended
<1> QED
  BY <1>1, <1>3, <1>4, <1>5, <1>6 DEF Inv

-----------------------------------------------------------------------------
(* The admission. *)

Admissions == [at : Stages, run : RunOrNone, b : 0..MaxBriefings]
Ticks == [at : TickStages, rows : SUBSET (Briefings \X BOOLEAN),
          todo : SUBSET RunIds, run : RunOrNone, b : 0..MaxBriefings]
RowsTyped ==
    /\ briefings \in [Briefings -> Row]
    /\ flue \in [Briefings -> {"none", "accepted", "working", "completed", "failed"}]
    /\ pending \subseteq {"observe", "task", "close", "refuse"} \X Briefings
    /\ early \subseteq Briefings

LEMMA TypedParts ==
    Typed <=> runs \in [RunIds -> Run] /\ RowsTyped /\ admission \in Admissions /\ tick \in Ticks
BY DEF Typed, RowsTyped, Admissions, Ticks

LEMMA TypedNext ==
    ASSUME runs' \in [RunIds -> Run], RowsTyped', admission' \in Admissions, tick' \in Ticks
    PROVE  Typed'
BY DEF Typed, RowsTyped, Admissions, Ticks

\* The tick and the runs that it has claimed are left alone.
LEMMA TickAside ==
    ASSUME Inv, UNCHANGED <<tick, runs>>, admission'.run = admission.run, RowsStay, RowsTyped',
           admission' \in Admissions
    PROVE  TickInv' /\ Typed'
<1>1. TickInv'
  BY TickRests DEF Inv
<1>2. Typed'
  BY TypedParts, TypedNext DEF Inv
<1> QED
  BY <1>1, <1>2

\* It goes on, with what is above: Past are the stages in which it has not made a
\* briefing of its own.
Past == {"find", "resend", "reattach", "recall", "history", "check", "create"}

LEMMA Proceeds ==
    ASSUME Typed, NEW stage \in Stages, Proceed(stage)
    PROVE  /\ admission' \in Admissions /\ admission'.at = stage
           /\ admission'.run = admission.run /\ admission'.b = admission.b
BY DEF Typed, Proceed, Admissions

LEMMA Goes ==
    ASSUME Inv, NEW stage \in Stages \ {"idle"}, Proceed(stage), UNCHANGED <<tick, runs>>, RowsStay,
           Rows', RowsTyped', ToldInv',
           \/ /\ admission.at \in Past /\ stage \in Past
              /\ admission.at \notin {"find", "check", "create"} \/ stage \in {"check", "create"}
           \/ /\ admission.at = "dispatch" /\ stage \in {"attach", "fail"} /\ UNCHANGED briefings
           \/ /\ admission.at = "attach" /\ stage = "early"
              /\ admission.run # None => briefings'[admission.b].bound
    PROVE  Inv'
<1>1. /\ admission' \in Admissions /\ admission'.at = stage
      /\ admission'.run = admission.run /\ admission'.b = admission.b
  BY Proceeds DEF Inv
<1>2. Typed' /\ TickInv'
  BY <1>1, TickAside
<1>4. /\ Unbriefed(admission.run) => Unbriefed(admission.run)'
      /\ \A b \in Briefings : /\ briefings'[b].run = briefings[b].run
                              /\ briefings[b].status # "none" => briefings'[b].status # "none"
  <2>1. \A b \in Briefings : /\ briefings'[b].run = briefings[b].run
                             /\ briefings[b].status # "none" => briefings'[b].status # "none"
    BY DEF RowsStay
  <2> QED
    BY <1>1, <2>1 DEF Unbriefed
<1>5. AdmissionInv'
  <2>1. CASE /\ admission.at \in Past /\ stage \in Past
             /\ admission.at \notin {"find", "check", "create"} \/ stage \in {"check", "create"}
    <3>1. admission'.at \in Past /\ ~(Making \/ admission.at = "early") /\ ~(Making \/ admission.at = "early")'
      BY <1>1, <2>1 DEF Making, Past
    <3>2. admission.run # None => Unbriefed(admission.run)
      BY <3>1 DEF Inv, AdmissionInv
    <3>3. admission'.at \notin {"idle", "find", "check", "create"} =>
              admission'.b \in Briefings /\ briefings'[admission'.b].status # "none"
      BY <1>1, <1>4, <2>1 DEF Inv, AdmissionInv, Past
    <3> QED
      BY <1>1, <1>4, <3>1, <3>2, <3>3 DEF AdmissionInv, Making, Past
  <2>2. CASE admission.at = "dispatch" /\ stage \in {"attach", "fail"} /\ UNCHANGED briefings
    BY <1>1, <2>2 DEF Inv, AdmissionInv, Making, Queued, Bound
  <2>3. CASE /\ admission.at = "attach" /\ stage = "early"
             /\ admission.run # None => briefings'[admission.b].bound
    BY <1>1, <1>4, <2>3 DEF Inv, AdmissionInv, Making, Bound
  <2> QED
    BY <2>1, <2>2, <2>3
<1> QED
  BY <1>2, <1>5 DEF Inv

\* It returns to the tick or to the user.
LEMMA Returns ==
    ASSUME Inv, NEW outcome \in {"activate", "defer", "error"}, Return(outcome), UNCHANGED runs,
           RowsStay, Rows', RowsTyped', ToldInv',
           admission.run # None /\ outcome = "error" =>
               \A b \in Briefings : briefings'[b].run = admission.run => Unsent(b)',
           admission.run # None /\ outcome = "activate" =>
               \A b \in Briefings : briefings'[b].run = admission.run => Queued(b)' \/ Bound(b)'
    PROVE  Inv'
<1>1. admission' = NoAdmission /\ admission' \in Admissions
      /\ admission'.at = "idle" /\ admission'.run = None /\ admission'.b = 0
  BY Sets DEF Return, NoAdmission, Admissions
<1>2. AdmissionInv'
  BY <1>1 DEF AdmissionInv, Making
<1>3. CASE admission.run = None
  <2>1. UNCHANGED tick
    BY <1>3 DEF Return
  <2> QED
    BY <1>1, <1>2, <1>3, <2>1, TickAside DEF Inv
<1>4. CASE admission.run # None
  <2>1. /\ tick \in Ticks /\ tick' = [tick EXCEPT !.at = outcome]
        /\ tick.at = "await" /\ tick.run = admission.run /\ tick.run \in RunIds
    BY <1>4, TypedParts DEF Inv, Return, TickInv
  <2>2. /\ tick' \in Ticks /\ tick'.at = outcome /\ tick'.run = tick.run /\ tick'.todo = tick.todo
        /\ tick'.rows = tick.rows
    BY <2>1 DEF Ticks, TickStages
  <2>3. \A r \in tick.todo : Claimed(r) /\ Unbriefed(r) /\ r # tick.run
    BY <2>1 DEF Inv, TickInv, InHand
  <2>4. \A r \in tick.todo : Claimed(r)' /\ Unbriefed(r)'
    BY <2>3 DEF Claimed, Unbriefed, RowsStay
  <2>5. \A row \in tick.rows : briefings'[row[1]].status # "none"
    <3>1. \A row \in tick.rows : row[1] \in Briefings /\ briefings[row[1]].status # "none"
      BY DEF Inv, Typed, TickInv
    <3> QED
      BY <3>1 DEF RowsStay
  <2>6. Claimed(tick.run)'
    BY <2>1 DEF Inv, TickInv, InHand, Claimed
  <2>7. TickInv'
    BY <1>1, <1>4, <2>1, <2>2, <2>3, <2>4, <2>5, <2>6, TasksAssumption DEF TickInv, InHand
  <2>8. Typed'
    BY <1>1, <2>2, TypedParts, TypedNext DEF Inv
  <2> QED
    BY <1>2, <2>7, <2>8 DEF Inv
<1> QED
  BY <1>3, <1>4

\* Where nothing is done to the rows and Flue.
LEMMA NothingDone ==
    ASSUME Inv, UNCHANGED <<runs, briefings, flue>>
    PROVE  FlueGoesOn /\ Rows' /\ RowsStay
<1>1. FlueGoesOn
  BY DEF Inv, Typed, FlueGoesOn
<1> QED
  BY <1>1, FlueRows, StayFlue DEF Inv

LEMMA ToldRest ==
    ASSUME Inv, \A b \in Briefings : Ended(b) => flue'[b] = flue[b], early' \subseteq early,
           pending' \subseteq pending
    PROVE  ToldInv'
BY ToldStays DEF Inv, Typed

LEMMA AdmissionOnB ==
    ASSUME Inv, admission.at \notin {"idle", "find", "check", "create"}
    PROVE  admission.b \in Briefings /\ briefings[admission.b].status # "none"
BY DEF Inv, AdmissionInv

LEMMA RunNowKeeps == ASSUME Inv, RunNow PROVE Inv'
<1>1. Rows' /\ RowsStay
  BY NothingDone DEF RunNow, storeVars
<1>2. /\ admission' \in Admissions /\ admission'.at = "find" /\ admission'.run = None
      /\ admission.run = None
  BY Sets DEF RunNow, NoAdmission, Admissions, Stages, Inv, AdmissionInv
<1>3. AdmissionInv'
  BY <1>2 DEF AdmissionInv, Making
<1>4. ToldInv' /\ RowsTyped' /\ UNCHANGED <<tick, runs>>
  BY TypedParts, ToldRest DEF RunNow, storeVars, RowsTyped, Inv
<1>5. TickInv' /\ Typed'
  BY <1>1, <1>2, <1>4, TickAside
<1> QED
  BY <1>1, <1>3, <1>4, <1>5 DEF Inv

LEMMA FindKeeps == ASSUME Inv, FindActive PROVE Inv'
<1>1. Rows' /\ RowsStay
  BY NothingDone DEF FindActive, storeVars
<1>2. ToldInv' /\ runs' \in [RunIds -> Run] /\ RowsTyped' /\ UNCHANGED <<tick, runs, briefings>>
  BY TypedParts, ToldRest DEF FindActive, Admitting, storeVars, RowsTyped, Inv
<1>3. admission \in Admissions /\ admission.at = "find"
  BY TypedParts DEF Inv, FindActive, Admitting
<1>4. /\ admission' \in Admissions /\ admission'.run = admission.run
      /\ \/ admission'.at = "create"
         \/ /\ admission'.at \in {"history", "resend"}
            /\ admission'.b \in Briefings /\ briefings[admission'.b].status # "none"
  <2>1. CASE Active = {}
    <3>1. admission' = [admission EXCEPT !.at = "create"]
      BY <2>1 DEF FindActive
    <3> QED
      BY <1>3, <3>1 DEF Admissions, Stages
  <2>2. CASE Active # {}
    <3>1. Oldest \in Active /\ Oldest \in Briefings /\ briefings[Oldest].status # "none"
      <4>1. Active \in SUBSET Briefings
        BY DEF Active
      <4>2. Oldest \in Active
        BY <2>2, <4>1, Least DEF Oldest
      <4> QED
        BY <4>1, <4>2 DEF Active, Queued
    <3>2. PICK stage \in {"history", "resend"} :
              admission' = [admission EXCEPT !.at = stage, !.b = Oldest]
      BY <2>2 DEF FindActive
    <3> HIDE DEF Oldest
    <3> QED
      BY <1>3, <3>1, <3>2, Sets DEF Admissions, Stages
  <2> QED
    BY <2>1, <2>2
<1>5. AdmissionInv'
  BY <1>2, <1>3, <1>4 DEF Inv, AdmissionInv, Making, Unbriefed
<1>6. TickInv' /\ Typed'
  BY <1>1, <1>2, <1>4, TickAside
<1> QED
  BY <1>1, <1>2, <1>5, <1>6 DEF Inv

\* What it does to a row of Flue, to one that it attaches, and to one that it settles.
Moved == Rows' /\ RowsStay /\ RowsTyped' /\ ToldInv'

LEMMA AcceptStep ==
    ASSUME Inv, NEW b \in Briefings, briefings[b].status # "none", flue' \in {flue, Accepted(b)},
           UNCHANGED <<runs, briefings, pending, early>>
    PROVE  Moved
<1>1. /\ flue' \in [Briefings -> {"none", "accepted", "working", "completed", "failed"}]
      /\ \A c \in Briefings : flue'[c] = flue[c] \/ (c = b /\ flue[c] = "none")
  BY AcceptTyped DEF Inv, Typed
<1>2. FlueGoesOn
  BY <1>1 DEF FlueGoesOn, Ended
<1>3. ToldInv'
  BY <1>1, ToldRest DEF Ended
<1>4. RowsTyped'
  BY <1>1 DEF RowsTyped, Inv, Typed
<1> QED
  BY <1>2, <1>3, <1>4, FlueRows, StayFlue DEF Inv, Moved

LEMMA AttachStep ==
    ASSUME Inv, NEW b \in Briefings, Attach(b), UNCHANGED <<runs, flue, pending, early>>
    PROVE  Moved
<1>1. Rows' /\ RowsStay
  BY AttachedRows, StayAttached DEF Inv, RowAttached
<1>2. ToldInv'
  BY ToldRest
<1>3. RowsTyped'
  BY AttachTyped DEF RowsTyped, Inv, Typed
<1> QED
  BY <1>1, <1>2, <1>3 DEF Moved

LEMMA RestStep ==
    ASSUME Inv, UNCHANGED <<runs, briefings, flue>>, early' \subseteq early, pending' \subseteq pending
    PROVE  Moved
<1>1. ToldInv'
  BY ToldRest
<1>2. RowsTyped'
  BY DEF RowsTyped, Inv, Typed
<1> QED
  BY <1>1, <1>2, NothingDone DEF Moved

LEMMA SettledStep ==
    ASSUME Inv, NEW b \in Briefings, Ended(b), Settle(b), early' \subseteq early,
           UNCHANGED <<runs, flue>>
    PROVE  Moved /\ \A c \in Briefings : ~Bound(c) => briefings'[c] = briefings[c]
<1>1. /\ briefings' \in [Briefings -> Row]
      /\ Rows' /\ RowsStay
      /\ \A c \in Briefings : ~Bound(c) => briefings'[c] = briefings[c]
      /\ pending' \subseteq pending \cup {<<"close", b>>}
      /\ pending' \subseteq {"observe", "task", "close", "refuse"} \X Briefings
  BY SettleStep DEF Inv
<1>2. ToldInv'
  <2>1. \A p \in pending' : p \in pending \/ p[1] = "refuse" \/ (p[2] \in Briefings /\ Ended(p[2])')
    <3>1. Ended(b)'
      BY DEF Ended
    <3> QED
      BY <1>1, <3>1
  <2>2. \A c \in early' : c \in Briefings /\ (c \in early \/ Ended(c)')
    BY DEF Inv, Typed
  <2> QED
    BY <2>1, <2>2, ToldStays DEF Inv
<1>3. RowsTyped'
  BY <1>1 DEF RowsTyped, Inv, Typed
<1> QED
  BY <1>1, <1>2, <1>3 DEF Moved

LEMMA MemoryStep ==
    ASSUME Inv, NEW b \in Briefings, SettleFromMemory(b), UNCHANGED <<runs, flue>>
    PROVE  Moved /\ \A c \in Briefings : ~Bound(c) => briefings'[c] = briefings[c]
<1>1. early' \subseteq early
  BY DEF SettleFromMemory
<1>2. CASE b \in early /\ Bound(b) /\ Settle(b)
  <2>1. Ended(b)
    BY <1>2 DEF Inv, ToldInv
  <2> QED
    BY <1>1, <1>2, <2>1, SettledStep
<1>3. CASE UNCHANGED <<briefings, pending>>
  BY <1>1, <1>3, RestStep
<1> QED
  BY <1>2, <1>3 DEF SettleFromMemory

LEMMA HistoryStep ==
    ASSUME Inv, NEW b \in Briefings, SettleFromHistory(b), UNCHANGED <<runs, flue, early>>
    PROVE  Moved /\ \A c \in Briefings : ~Bound(c) => briefings'[c] = briefings[c]
<1>1. CASE Ended(b)
  BY <1>1, SettledStep DEF SettleFromHistory
<1>2. CASE ~Ended(b)
  BY <1>2, RestStep DEF SettleFromHistory
<1> QED
  BY <1>1, <1>2

\* Goes and Returns with these.
LEMMA GoesOn ==
    ASSUME Inv, NEW stage \in Stages \ {"idle"}, Proceed(stage), UNCHANGED <<tick, runs>>, Moved,
           \/ /\ admission.at \in Past /\ stage \in Past
              /\ admission.at \notin {"find", "check", "create"} \/ stage \in {"check", "create"}
           \/ /\ admission.at = "dispatch" /\ stage \in {"attach", "fail"} /\ UNCHANGED briefings
           \/ /\ admission.at = "attach" /\ stage = "early"
              /\ admission.run # None => briefings'[admission.b].bound
    PROVE  Inv'
BY Goes DEF Moved

\* While it looks for what is active it has made nothing that it could fail.
LEMMA ReturnsUnmade ==
    ASSUME Inv, NEW outcome \in {"defer", "error"}, Return(outcome), UNCHANGED runs, Moved,
           admission.at \in Past
    PROVE  Inv'
<1>1. admission.run # None => \A b \in Briefings : briefings'[b].run # admission.run
  <2>1. ~(Making \/ admission.at = "early")
    BY DEF Making, Past
  <2> QED
    BY <2>1 DEF Inv, AdmissionInv, Unbriefed, Moved, RowsStay
<1> QED
  BY <1>1, Returns DEF Moved

\* What it has made is the only one of its run.
LEMMA Mine ==
    ASSUME Inv, admission.run # None, Making \/ admission.at = "early"
    PROVE  /\ admission.b \in Briefings /\ briefings[admission.b].run = admission.run
           /\ \A c \in Briefings : briefings[c].run = admission.run => c = admission.b
<1>1. admission.b \in Briefings
  BY AdmissionOnB DEF Making
<1>2. briefings[admission.b].run = admission.run
  BY DEF Inv, AdmissionInv
<1> QED
  BY <1>1, <1>2 DEF Inv, Rows, RowOK

LEMMA ReturnsMade ==
    ASSUME Inv, Return("activate"), UNCHANGED runs, Moved, Making \/ admission.at = "early",
           admission.run # None => briefings'[admission.b].status = "queued" \/ briefings'[admission.b].bound
    PROVE  Inv'
<1>1. admission.run # None =>
          \A b \in Briefings : briefings'[b].run = admission.run => Queued(b)' \/ Bound(b)'
  BY Mine DEF Moved, RowsStay, Queued, Bound
<1> QED
  BY <1>1, Returns DEF Moved

LEMMA ResendKeeps == ASSUME Inv, Resend PROVE Inv'
<1>1. admission.at = "resend" /\ UNCHANGED <<runs, briefings, pending, early>>
  BY DEF Resend, storeVars
<1>2. flue' \in {flue, Accepted(admission.b)}
  BY DEF Resend
<1>3. Moved
  BY <1>1, <1>2, AdmissionOnB, AcceptStep
<1>4. CASE Proceed("reattach") /\ UNCHANGED tick
  BY <1>1, <1>3, <1>4, GoesOn DEF Past, Stages
<1>5. CASE Return("error")
  BY <1>1, <1>3, <1>5, ReturnsUnmade DEF Past
<1> QED
  BY <1>4, <1>5 DEF Resend

LEMMA ReattachKeeps == ASSUME Inv, Reattach PROVE Inv'
<1>1. admission.at = "reattach" /\ UNCHANGED <<runs, flue, tick, pending, early>>
  BY DEF Reattach, Admitting, storeVars
<1>2. Moved
  BY <1>1, AdmissionOnB, AttachStep, RestStep DEF Reattach
<1>3. PICK stage \in {"recall", "history", "check"} : Proceed(stage)
  BY DEF Reattach
<1> QED
  BY <1>1, <1>2, <1>3, GoesOn DEF Past, Stages

LEMMA RecallKeeps == ASSUME Inv, Recall PROVE Inv'
<1>1. /\ admission.at = "recall" /\ UNCHANGED <<runs, flue, tick>>
      /\ SettleFromMemory(admission.b) /\ Proceed("history")
  BY DEF Recall, Admitting, storeVars
<1>2. Moved
  BY <1>1, AdmissionOnB, MemoryStep
<1> QED
  BY <1>1, <1>2, GoesOn DEF Past, Stages

LEMMA ReadHistoryKeeps == ASSUME Inv, ReadHistory PROVE Inv'
<1>1. /\ admission.at = "history" /\ UNCHANGED <<runs, flue, tick, early>>
      /\ Proceed("check")
  BY DEF ReadHistory, Admitting, storeVars
<1>2. Moved
  BY <1>1, AdmissionOnB, HistoryStep, RestStep DEF ReadHistory
<1> QED
  BY <1>1, <1>2, GoesOn DEF Past, Stages

LEMMA CheckKeeps == ASSUME Inv, CheckActive PROVE Inv'
<1>1. /\ admission.at = "check" /\ UNCHANGED <<runs, briefings, flue, pending>>
      /\ early' \subseteq early
  BY DEF CheckActive, storeVars
<1>2. Moved
  BY <1>1, RestStep
<1>3. CASE Return("defer")
  BY <1>1, <1>2, <1>3, ReturnsUnmade DEF Past
<1>4. CASE Proceed("create") /\ UNCHANGED tick
  BY <1>1, <1>2, <1>4, GoesOn DEF Past, Stages
<1> QED
  BY <1>3, <1>4 DEF CheckActive

LEMMA CreateKeeps == ASSUME Inv, Create PROVE Inv'
<1> DEFINE b == CHOOSE b \in Unwritten : \A c \in Unwritten : b <= c
<1>1. admission.at = "create" /\ UNCHANGED <<runs, flue, pending, early>>
  BY DEF Create, storeVars
<1>2. CASE Active # {} \/ Unwritten = {}
  <2>1. Return("defer") /\ UNCHANGED briefings
    BY <1>2 DEF Create
  <2> QED
    BY <1>1, <2>1, RestStep, ReturnsUnmade DEF Past
<1>3. CASE ~(Active # {} \/ Unwritten = {})
  <2>1. b \in Unwritten
    <3>1. Unwritten \in SUBSET Briefings /\ Unwritten # {}
      BY <1>3 DEF Unwritten
    <3> QED
      BY <3>1, Least
  <2>2. /\ briefings' = [briefings EXCEPT ![b] =
                             [status |-> "queued", bound |-> FALSE, run |-> admission.run]]
        /\ admission' = [admission EXCEPT !.at = "dispatch", !.b = b]
        /\ UNCHANGED tick
    BY <1>3 DEF Create
  <2> HIDE DEF b
  <2>3. b \in Briefings /\ briefings[b].status = "none"
    BY <2>1 DEF Unwritten
  <2>4. /\ admission \in Admissions
        /\ admission.run # None =>
              /\ Claimed(admission.run) /\ Unbriefed(admission.run)
              /\ tick.at = "await" /\ tick.run = admission.run
    BY <1>1, TypedParts DEF Inv, AdmissionInv, Making, TickInv, InHand
  <2>5. RowMade
    BY <1>1, <2>1, <2>2, <2>4 DEF RowMade
  <2>6. Rows'
    BY <2>5, MadeRows DEF Inv
  <2>7. /\ briefings' \in [Briefings -> Row]
        /\ briefings'[b] = [status |-> "queued", bound |-> FALSE, run |-> admission.run]
        /\ \A c \in Briefings : c # b => briefings'[c] = briefings[c]
    <3>1. [status |-> "queued", bound |-> FALSE, run |-> admission.run] \in Row
      BY <2>4 DEF Admissions, RunOrNone, Row
    <3> QED
      BY <2>2, <2>3, <3>1 DEF Inv, Typed
  <2>8. RowsTyped' /\ ToldInv'
    BY <1>1, <2>7, ToldRest DEF RowsTyped, Inv, Typed
  <2>9. /\ admission' \in Admissions /\ admission'.at = "dispatch"
        /\ admission'.run = admission.run /\ admission'.b = b
    BY <2>2, <2>3, <2>4, Sets DEF Admissions, Stages
  <2>10. AdmissionInv'
    BY <2>3, <2>7, <2>9 DEF AdmissionInv, Making, Queued, Bound
  <2>11. TickInv' /\ Typed'
    <3>1. CASE admission.run = None
      <4>1. briefings[b].run = None /\ ~Bound(b)
        BY <2>3 DEF Inv, Rows, RowOK
      <4>2. RowsStay
        BY <2>3, <2>7, <3>1, <4>1 DEF RowsStay, Queued, Bound, Unsent
      <4> QED
        BY <1>1, <2>2, <2>8, <2>9, <4>2, TickAside
    <3>2. CASE admission.run # None
      <4>1. \A row \in tick.rows : briefings'[row[1]].status # "none"
        <5>1. \A row \in tick.rows : row[1] \in Briefings /\ briefings[row[1]].status # "none"
          BY DEF Inv, Typed, TickInv
        <5> QED
          BY <2>7, <5>1
      <4>2. tick.run \in RunIds /\ Claimed(tick.run)'
        <5>1. tick.run \in RunIds
          BY <2>4, <3>2 DEF Inv, TickInv, InHand
        <5> QED
          BY <1>1, <2>2, <2>4, <3>2, <5>1 DEF Claimed
      <4>3. \A r \in tick.todo : Claimed(r) /\ Unbriefed(r) /\ r # tick.run
        BY <2>4, <3>2 DEF Inv, TickInv, InHand
      <4>4. \A r \in tick.todo : Claimed(r)' /\ Unbriefed(r)'
        BY <1>1, <2>4, <2>7, <3>2, <4>3 DEF Claimed, Unbriefed
      <4>5. TickInv'
        BY <2>2, <2>4, <2>9, <3>2, <4>1, <4>2, <4>3, <4>4 DEF TickInv, InHand
      <4> QED
        BY <1>1, <2>2, <2>8, <2>9, <4>5, TypedParts, TypedNext DEF Inv
    <3> QED
      BY <3>1, <3>2
  <2> QED
    BY <2>6, <2>8, <2>10, <2>11 DEF Inv
<1> QED
  BY <1>2, <1>3

LEMMA DispatchKeeps == ASSUME Inv, Dispatch PROVE Inv'
<1>1. /\ admission.at = "dispatch" /\ UNCHANGED <<runs, briefings, pending, early, tick>>
      /\ flue' \in {flue, Accepted(admission.b)}
  BY DEF Dispatch, Admitting, storeVars
<1>2. Moved
  BY <1>1, AdmissionOnB, AcceptStep
<1>3. PICK stage \in {"attach", "fail"} : Proceed(stage)
  BY DEF Dispatch
<1> QED
  BY <1>1, <1>2, <1>3, GoesOn DEF Past, Stages

LEMMA FailKeeps == ASSUME Inv, FailBeforeDispatch PROVE Inv'
<1> DEFINE b == admission.b
<1>1. /\ admission.at = "fail" /\ UNCHANGED <<runs, flue, early>> /\ Return("error")
      /\ briefings' = [briefings EXCEPT ![b].status = "failed"]
      /\ pending' \subseteq pending \cup {<<"refuse", b>>}
  BY DEF FailBeforeDispatch, storeVars
<1>2. b \in Briefings /\ briefings[b].status # "none" /\ briefings[b].run = admission.run
  BY <1>1, AdmissionOnB DEF Inv, AdmissionInv, Making
<1>3. admission.run # None => Queued(b) /\ ~Bound(b) /\ Claimed(admission.run)
  BY <1>1 DEF Inv, AdmissionInv, Making, TickInv, InHand
<1>4. /\ briefings' \in [Briefings -> Row]
      /\ briefings'[b].status = "failed" /\ briefings'[b].bound = briefings[b].bound
      /\ briefings'[b].run = briefings[b].run
      /\ briefings[b].status = "failed" => briefings'[b] = briefings[b]
      /\ \A c \in Briefings : c # b => briefings'[c] = briefings[c]
  BY <1>1, <1>2 DEF Inv, Typed, Row
<1>5. Rows'
  BY <1>1, <1>2, <1>3, RefusedRows DEF RowRefused, Inv
<1>6. RowsStay
  BY <1>2, <1>4 DEF RowsStay, Queued, Bound, Unsent
<1>7. RowsTyped'
  BY <1>1, <1>2, <1>4 DEF RowsTyped, Inv, Typed
<1>8. ToldInv'
  BY <1>1, <1>2, ToldStays DEF Inv, Typed
<1>9. admission.run # None => \A c \in Briefings : briefings'[c].run = admission.run => Unsent(c)'
  <2>1. ASSUME admission.run # None, NEW c \in Briefings, briefings'[c].run = admission.run
        PROVE  Unsent(c)'
    <3>1. c = b
      BY <1>1, <1>4, <2>1, Mine DEF Making
    <3> QED
      BY <1>3, <1>4, <2>1, <3>1 DEF Unsent, Bound
  <2> QED
    BY <2>1
<1> QED
  BY <1>1, <1>5, <1>6, <1>7, <1>8, <1>9, Returns

LEMMA AttachNewKeeps == ASSUME Inv, AttachNew PROVE Inv'
<1>1. admission.at = "attach" /\ UNCHANGED <<runs, flue, pending, early>>
  BY DEF AttachNew, storeVars
<1>2. admission.b \in Briefings
  BY <1>1, AdmissionOnB
<1>3. Moved
  BY <1>1, <1>2, AttachStep, RestStep DEF AttachNew
<1>4. admission.run # None => Queued(admission.b)
  BY <1>1 DEF Inv, AdmissionInv, Making
<1>5. CASE Attach(admission.b)
  <2>1. admission.run # None =>
            briefings'[admission.b].status = "queued" /\ briefings'[admission.b].bound
    BY <1>2, <1>4, <1>5, AttachTyped DEF Inv
  <2>2. CASE Proceed("early") /\ UNCHANGED tick
    BY <1>1, <1>3, <2>1, <2>2, GoesOn DEF Stages
  <2>3. CASE Return("activate")
    BY <1>1, <1>3, <2>1, <2>3, ReturnsMade DEF Making
  <2> QED
    BY <1>5, <2>2, <2>3 DEF AttachNew
<1>6. CASE UNCHANGED briefings /\ Return("activate")
  <2>1. admission.run # None => briefings'[admission.b].status = "queued"
    BY <1>4, <1>6 DEF Queued
  <2> QED
    BY <1>1, <1>3, <1>6, <2>1, ReturnsMade DEF Making
<1> QED
  BY <1>5, <1>6 DEF AttachNew

LEMMA UseEarlyKeeps == ASSUME Inv, UseEarly PROVE Inv'
<1>1. /\ admission.at = "early" /\ UNCHANGED <<runs, flue>> /\ Return("activate")
      /\ SettleFromMemory(admission.b)
  BY DEF UseEarly, storeVars
<1>2. admission.b \in Briefings
  BY <1>1, AdmissionOnB
<1>3. Moved
  BY <1>1, <1>2, MemoryStep
<1>4. admission.run # None => briefings'[admission.b].bound
  BY <1>1, <1>2, <1>3 DEF Inv, AdmissionInv, Moved, RowsStay
<1> QED
  BY <1>1, <1>3, <1>4, ReturnsMade

LEMMA AdmissionKeeps == ASSUME Inv, AdmissionStep PROVE Inv'
BY FindKeeps, ResendKeeps, ReattachKeeps, RecallKeeps, ReadHistoryKeeps, CheckKeeps, CreateKeeps,
   DispatchKeeps, FailKeeps, AttachNewKeeps, UseEarlyKeeps DEF AdmissionStep

-----------------------------------------------------------------------------
(* The tick. *)

\* A step of the tick that leaves the admission alone.
LEMMA TickSide ==
    ASSUME Inv, tick.at # "await", UNCHANGED admission, Moved, runs' \in [RunIds -> Run],
           tick' \in Ticks, TickInv'
    PROVE  Inv'
<1>1. admission.run = None
  BY DEF Inv, TickInv
<1>2. Typed'
  BY TypedParts, TypedNext DEF Inv, Moved
<1>3. Making \/ admission.at = "early" => admission.b \in Briefings
  BY AdmissionOnB DEF Making
<1>4. AdmissionInv'
  BY <1>1, <1>3, AdmissionRests DEF Inv, Moved
<1> QED
  BY <1>2, <1>4 DEF Inv, Moved

\* It recovers one row after the other.
Recovering == {"recover", "attach", "history", "early", "link"}

LEMMA Recovers ==
    ASSUME Inv, tick.at \in Recovering \cup {"idle"}, UNCHANGED <<admission, runs>>, Moved,
           tick' \in Ticks, tick'.at \in Recovering, tick'.run = tick.run,
           \A row \in tick'.rows : briefings[row[1]].status # "none",
           tick'.at \in {"attach", "history", "early"} => tick'.b \in Briefings
    PROVE  Inv'
<1>1. tick.run = None /\ admission.run = None /\ tick.at # "await"
  BY DEF Inv, TickInv, InHand, Recovering
<1>2. \A row \in tick'.rows : briefings'[row[1]].status # "none"
  <2>1. \A row \in tick'.rows : row[1] \in Briefings
    BY DEF Ticks
  <2> QED
    BY <2>1 DEF Moved, RowsStay
<1>3. TickInv'
  BY <1>1, <1>2 DEF TickInv, InHand, Recovering
<1>4. runs' \in [RunIds -> Run]
  BY DEF Inv, Typed
<1> QED
  BY <1>1, <1>3, <1>4, TickSide

LEMMA Steps ==
    ASSUME Inv, NEW stage \in Recovering, Step(stage)
    PROVE  /\ tick' \in Ticks /\ tick'.at = stage /\ tick'.run = tick.run
           /\ tick'.rows = tick.rows /\ tick'.todo = tick.todo
           /\ stage # "recover" => tick'.b = tick.b
<1>1. tick \in Ticks
  BY TypedParts DEF Inv
<1>2. CASE stage = "recover"
  <2>1. tick' = [tick EXCEPT !.at = stage, !.b = 0]
    BY <1>2 DEF Step
  <2> QED
    BY <1>1, <1>2, <2>1, Sets DEF Ticks, TickStages
<1>3. CASE stage # "recover"
  <2>1. tick' = [tick EXCEPT !.at = stage, !.b = @]
    BY <1>3 DEF Step
  <2> QED
    BY <1>1, <1>3, <2>1 DEF Ticks, TickStages, Recovering
<1> QED
  BY <1>2, <1>3

LEMMA TickOnB ==
    ASSUME Inv
    PROVE  /\ tick.at \in {"attach", "history", "early"} => tick.b \in Briefings
           /\ \A row \in tick.rows : briefings[row[1]].status # "none"
BY DEF Inv, TickInv

LEMMA ListQueuedKeeps == ASSUME Inv, ListQueued PROVE Inv'
<1>1. /\ tick.at = "idle" /\ UNCHANGED <<runs, briefings, flue, pending, early, admission>>
      /\ tick' = [tick EXCEPT !.at = "recover", !.rows = {<<b, Bound(b)>> : b \in Active}]
  BY DEF ListQueued, Ticking, storeVars
<1>2. tick \in Ticks
  BY TypedParts DEF Inv
<1>3. {<<b, Bound(b)>> : b \in Active} \subseteq Briefings \X BOOLEAN
  BY DEF Active, Bound, Inv, Typed, Row
<1>4. \A row \in {<<b, Bound(b)>> : b \in Active} : briefings[row[1]].status # "none"
  BY DEF Active, Queued
<1>5. /\ tick' \in Ticks /\ tick'.at = "recover" /\ tick'.run = tick.run
      /\ tick'.rows = {<<b, Bound(b)>> : b \in Active}
  BY <1>1, <1>2, <1>3 DEF Ticks, TickStages
<1> QED
  BY <1>1, <1>4, <1>5, RestStep, Recovers DEF Recovering

LEMMA RecoverKeeps == ASSUME Inv, RecoverQueued PROVE Inv'
<1>1. tick.at = "recover" /\ UNCHANGED <<runs, briefings, pending, early, admission>>
  BY DEF RecoverQueued, Ticking, storeVars
<1>2. PICK row \in tick.rows :
          /\ flue' \in {flue, Accepted(row[1])}
          /\ \E stage \in {"history", "attach", "recover"}, b \in {row[1], 0} :
                /\ stage # "recover" => b = row[1]
                /\ tick' = [tick EXCEPT !.at = stage, !.b = b, !.rows = @ \ {row}]
  BY DEF RecoverQueued
<1>3. tick \in Ticks /\ row[1] \in Briefings /\ briefings[row[1]].status # "none"
  BY TypedParts, TickOnB DEF Inv, Ticks
<1>4. Moved
  BY <1>1, <1>2, <1>3, AcceptStep
<1>5. /\ tick' \in Ticks /\ tick'.at \in {"history", "attach", "recover"}
      /\ tick'.at # "recover" => tick'.b = row[1]
      /\ tick'.run = tick.run /\ tick'.rows \subseteq tick.rows
  <2>1. PICK stage \in {"history", "attach", "recover"}, b \in {row[1], 0} :
            /\ stage # "recover" => b = row[1]
            /\ tick' = [tick EXCEPT !.at = stage, !.b = b, !.rows = @ \ {row}]
    BY <1>2
  <2>2. b \in 0..MaxBriefings
    BY <1>3, Sets
  <2> QED
    BY <1>3, <2>1, <2>2 DEF Ticks, TickStages
<1> QED
  BY <1>1, <1>2, <1>3, <1>4, <1>5, TickOnB, Recovers DEF Recovering

LEMMA AttachQueuedKeeps == ASSUME Inv, AttachQueued PROVE Inv'
<1>1. tick.at = "attach" /\ UNCHANGED <<runs, flue, pending, early, admission>>
  BY DEF AttachQueued, Ticking, storeVars
<1>2. Moved
  BY <1>1, TickOnB, AttachStep, RestStep DEF AttachQueued
<1>3. PICK stage \in {"history", "recover"} : Step(stage)
  BY DEF AttachQueued
<1> QED
  BY <1>1, <1>2, <1>3, Steps, TickOnB, Recovers DEF Recovering

LEMMA ReadQueuedKeeps == ASSUME Inv, ReadQueuedHistory PROVE Inv'
<1>1. tick.at = "history" /\ UNCHANGED <<runs, flue, early, admission>>
  BY DEF ReadQueuedHistory, Ticking, storeVars
<1>2. Moved
  BY <1>1, TickOnB, HistoryStep, RestStep DEF ReadQueuedHistory, LearnEnd
<1>3. PICK stage \in {"early", "recover"} : Step(stage)
  BY DEF ReadQueuedHistory
<1> QED
  BY <1>1, <1>2, <1>3, Steps, TickOnB, Recovers DEF Recovering

LEMMA RecallQueuedKeeps == ASSUME Inv, RecallQueued PROVE Inv'
<1>1. /\ tick.at = "early" /\ UNCHANGED <<runs, flue, admission>>
      /\ SettleFromMemory(tick.b) /\ Step("recover")
  BY DEF RecallQueued, Ticking, storeVars
<1>2. Moved
  BY <1>1, TickOnB, MemoryStep
<1> QED
  BY <1>1, <1>2, Steps, TickOnB, Recovers DEF Recovering

LEMMA ListRunsKeeps == ASSUME Inv, ListRuns PROVE Inv'
<1>1. /\ tick.at = "recover" /\ UNCHANGED <<runs, briefings, flue, pending, early, admission>>
      /\ tick' = [tick EXCEPT !.at = "link", !.b = 0, !.todo = {r \in RunIds : Recoverable(r)}]
  BY DEF ListRuns, Ticking, storeVars
<1>2. tick \in Ticks /\ {r \in RunIds : Recoverable(r)} \subseteq RunIds
  BY TypedParts DEF Inv
<1>3. /\ tick' \in Ticks /\ tick'.at = "link" /\ tick'.run = tick.run /\ tick'.rows = tick.rows
  <2> DEFINE all == {r \in RunIds : Recoverable(r)}
  <2>1. all \subseteq RunIds /\ tick' = [tick EXCEPT !.at = "link", !.b = 0, !.todo = all]
    BY <1>1
  <2> HIDE DEF all
  <2> QED
    BY <1>2, <2>1, Sets DEF Ticks, TickStages
<1> QED
  BY <1>1, <1>3, RestStep, TickOnB, Recovers DEF Recovering

\* What follows the rows moves nothing else.
LEMMA RunsMoved ==
    ASSUME Inv, RunsFollow, UNCHANGED <<pending, early>>
    PROVE  Moved
<1>1. Rows' /\ RowsStay
  BY RunsRows, StayRuns DEF Inv
<1>2. ToldInv'
  BY ToldRest DEF RunsFollow
<1>3. RowsTyped'
  BY DEF RowsTyped, Inv, Typed, RunsFollow
<1> QED
  BY <1>1, <1>2, <1>3 DEF Moved

LEMMA LinkFollows ==
    ASSUME Inv, NEW r \in RunIds, Unsettled(r), NEW b \in Briefings, briefings[b].run = r,
           NEW submission,
           runs' = [runs EXCEPT ![r] = [status |-> LinkedRun(r, b), submission |-> submission]],
           submission \in BOOLEAN, UNCHANGED <<briefings, flue>>
    PROVE  RunsFollow
<1>1. RowOK(b) /\ r # None /\ \A c \in Briefings : briefings[c].run = r => c = b
  BY TasksAssumption DEF Inv, Rows, RowOK
<1>2. /\ runs \in [RunIds -> Run] /\ runs[r].status \in {"claimed", "active"}
      /\ briefings[b] \in Row /\ runs[r].status \notin Settled \cup {"absent"}
  BY DEF Inv, Typed, Unsettled, Claimed, Running, Settled
<1>3. IF Unsent(b) THEN LinkedRun(r, b) = "failed" ELSE LinkedRun(r, b) \in Settled => Ended(b) /\ LinkedRun(r, b) = flue[b]
  <2>1. CASE ~Bound(b)
    <3>1. Unsent(b) => Claimed(r)
      BY <1>1, <1>2, <2>1 DEF RowOK, Unsent, Claimed, GivenUp, Queued
    <3> QED
      BY <1>1, <1>2, <2>1, <3>1 DEF LinkedRun, Unsent
  <2>2. CASE Bound(b) /\ Queued(b)
    BY <2>2 DEF LinkedRun, Unsent, Settled
  <2>3. CASE Bound(b) /\ ~Queued(b)
    <3>1. Ended(b) /\ (briefings[b].status = "ready" <=> flue[b] = "completed")
      BY <1>1, <2>3 DEF RowOK, Unsent
    <3>2. briefings[b].status \in {"ready", "failed"}
      BY <1>1, <1>2, <2>3 DEF RowOK, Row, Queued
    <3>3. LinkedRun(r, b) = (IF briefings[b].status = "failed" THEN "failed" ELSE "completed")
      BY <2>3 DEF LinkedRun, OutcomeOf
    <3> QED
      BY <2>3, <3>1, <3>2, <3>3 DEF Unsent, Ended
  <2> QED
    BY <2>1, <2>2, <2>3
<1>4. LinkedRun(r, b) \in {"claimed", "active", "completed", "failed"}
  BY <1>2 DEF LinkedRun, OutcomeOf
<1> HIDE DEF LinkedRun
<1>5. [status |-> LinkedRun(r, b), submission |-> submission] \in Run
  BY <1>4 DEF Run, Settled, Terminal
<1>6. runs' \in [RunIds -> Run] /\ runs'[r].status = LinkedRun(r, b)
      /\ \A s \in RunIds : s # r => runs'[s] = runs[s]
  BY <1>2, <1>5
<1>7. ASSUME NEW s \in RunIds
      PROVE  \/ runs'[s] = runs[s]
             \/ /\ runs'[s].status # "absent"
                /\ \A c \in Briefings : briefings[c].run = s =>
                      IF Unsent(c) THEN runs'[s].status \in {"claimed", "failed", "deleted"} \cup GivenUp
                      ELSE runs'[s].status \in Settled => Ended(c) /\ runs'[s].status = flue[c]
  <2>1. CASE s # r
    BY <1>6, <2>1
  <2>2. CASE s = r
    BY <1>1, <1>3, <1>4, <1>6, <2>2
  <2> QED
    BY <2>1, <2>2
<1> QED
  BY <1>6, <1>7 DEF RunsFollow

LEMMA SameRuns == ASSUME Inv, UNCHANGED <<runs, briefings, flue>> PROVE RunsFollow
BY DEF Inv, Typed, RunsFollow

LEMMA LinkKeeps == ASSUME Inv, Link PROVE Inv'
<1>1. tick.at = "link" /\ UNCHANGED <<briefings, flue, pending, early, admission>>
  BY DEF Link, Ticking
<1>2. PICK r \in tick.todo :
          /\ tick' = [tick EXCEPT !.todo = @ \ {r}]
          /\ IF \E b \in Briefings : briefings[b].run = r
             THEN LET b == CHOOSE b \in Briefings : briefings[b].run = r
                  IN  runs' = [runs EXCEPT ![r] =
                         IF Unsettled(r)
                         THEN [status |-> LinkedRun(r, b), submission |-> @.submission \/ Bound(b)]
                         ELSE @]
             ELSE UNCHANGED runs
  BY DEF Link, storeVars
<1>3. tick \in Ticks /\ r \in RunIds /\ runs \in [RunIds -> Run]
  BY TypedParts DEF Inv, Ticks
<1>4. RunsFollow
  <2>1. CASE ~\E b \in Briefings : briefings[b].run = r
    BY <1>1, <1>2, <2>1, SameRuns
  <2>2. CASE \E b \in Briefings : briefings[b].run = r
    <3> DEFINE b == CHOOSE b \in Briefings : briefings[b].run = r
    <3>1. b \in Briefings /\ briefings[b].run = r
      BY <2>2
    <3>2. runs' = [runs EXCEPT ![r] =
                      IF Unsettled(r)
                      THEN [status |-> LinkedRun(r, b), submission |-> @.submission \/ Bound(b)]
                      ELSE @]
      BY <1>2, <2>2
    <3> HIDE DEF b
    <3>3. CASE Unsettled(r)
      <4>1. (runs[r].submission \/ Bound(b)) \in BOOLEAN
        BY <1>3, <3>1
      <4>2. runs' = [runs EXCEPT ![r] = [status |-> LinkedRun(r, b),
                                         submission |-> runs[r].submission \/ Bound(b)]]
        BY <1>3, <3>2, <3>3
      <4> QED
        BY <1>1, <1>3, <3>1, <3>3, <4>1, <4>2, LinkFollows
    <3>4. CASE ~Unsettled(r)
      <4>1. runs' = [runs EXCEPT ![r] = runs[r]]
        BY <3>2, <3>4
      <4>2. UNCHANGED runs
        BY <1>3, <4>1
      <4> QED
        BY <1>1, <4>2, SameRuns
    <3> QED
      BY <3>3, <3>4
  <2> QED
    BY <2>1, <2>2
<1>5. Moved
  BY <1>1, <1>4, RunsMoved
<1>6. /\ tick' \in Ticks /\ tick'.at = "link" /\ tick'.run = tick.run /\ tick'.rows = tick.rows
  BY <1>1, <1>2, <1>3 DEF Ticks
<1>7. TickInv'
  <2>1. tick.run = None /\ admission.run = None
    BY <1>1 DEF Inv, TickInv, InHand
  <2>2. \A row \in tick.rows : briefings[row[1]].status # "none"
    BY TickOnB
  <2> QED
    BY <1>1, <1>6, <2>1, <2>2 DEF TickInv, InHand
<1> QED
  BY <1>1, <1>4, <1>5, <1>6, <1>7, TickSide DEF RunsFollow

LEMMA ClaimKeeps == ASSUME Inv, ClaimTasks PROVE Inv'
<1>1. /\ tick.at = "link" /\ UNCHANGED <<briefings, flue, pending, early, admission>>
      /\ tick' = [tick EXCEPT !.at = "begin", !.todo = NewRuns]
      /\ runs' = [r \in RunIds |->
                     IF r \in NewRuns THEN [Absent EXCEPT !.status = "claimed"]
                     ELSE IF Claimed(r) /\ taskOf[r] \in Lapsed
                     THEN [runs[r] EXCEPT !.status = "expired"]
                     ELSE runs[r]]
  BY DEF ClaimTasks, Ticking, ClaimDue
<1>2. \A r \in NewRuns : r \in RunIds /\ runs[r].status = "absent"
  BY NewRunFacts
<1> HIDE DEF NewRuns
<1>3. [Absent EXCEPT !.status = "claimed"] \in Run /\ [Absent EXCEPT !.status = "claimed"].status = "claimed"
  BY DEF Absent, Run
<1>4. \A r \in RunIds : LET run == [runs[r] EXCEPT !.status = "expired"]
                        IN  run \in Run /\ run.status = "expired"
  BY DEF Inv, Typed, Run, Terminal, GivenUp
<1>5. runs' \in [RunIds -> Run]
  BY <1>1, <1>3, <1>4 DEF Inv, Typed
<1>6. \A r \in NewRuns : runs'[r].status = "claimed" /\ Unbriefed(r)
  <2>1. \A b \in Briefings : RowOK(b)
    BY DEF Inv, Rows
  <2> QED
    BY <1>1, <1>2, <1>3, <2>1, TasksAssumption DEF RowOK, Unbriefed
<1>7. \A r \in RunIds : \/ runs'[r] = runs[r] \/ r \in NewRuns \/ runs'[r].status = "expired"
  BY <1>1, <1>4
<1>8. RunsFollow
  BY <1>1, <1>5, <1>6, <1>7 DEF RunsFollow, GivenUp, Settled
<1>9. Moved
  BY <1>1, <1>8, RunsMoved
<1>10. tick \in Ticks /\ NewRuns \subseteq RunIds /\ tick.run = None /\ admission.run = None
  BY <1>1, <1>2, TypedParts DEF Inv, TickInv, InHand
<1>11. /\ tick' \in Ticks /\ tick'.at = "begin" /\ tick'.run = tick.run /\ tick'.rows = tick.rows
       /\ tick'.todo = NewRuns
  BY <1>1, <1>10 DEF Ticks, TickStages
<1>12. TickInv'
  <2>1. \A r \in tick'.todo : Claimed(r)' /\ Unbriefed(r)' /\ r # None
    BY <1>1, <1>2, <1>6, <1>11, TasksAssumption DEF Claimed, Unbriefed
  <2>2. \A row \in tick.rows : briefings[row[1]].status # "none"
    BY TickOnB
  <2> QED
    BY <1>1, <1>10, <1>11, <2>1, <2>2 DEF TickInv, InHand
<1> QED
  BY <1>1, <1>5, <1>9, <1>11, <1>12, TickSide

LEMMA BeginKeeps == ASSUME Inv, BeginRun PROVE Inv'
<1>1. tick.at = "begin" /\ UNCHANGED <<runs, briefings, flue, pending, early>>
  BY DEF BeginRun, storeVars
<1>2. PICK r \in tick.todo, stage \in {"await", "defer"} :
          /\ tick' = [tick EXCEPT !.at = stage, !.run = r, !.todo = @ \ {r}]
          /\ IF stage = "await"
             THEN admission.at = "idle" /\ admission' = [at |-> "find", run |-> r, b |-> 0]
             ELSE UNCHANGED admission
  BY DEF BeginRun
<1>3. Moved
  BY <1>1, RestStep
<1>4. /\ tick \in Ticks /\ r \in RunIds /\ admission.run = None /\ tick.run = None
      /\ \A s \in tick.todo : Claimed(s) /\ Unbriefed(s)
      /\ \A row \in tick.rows : briefings[row[1]].status # "none"
  BY <1>1, TypedParts DEF Inv, TickInv, Ticks, InHand
<1>5. /\ tick' \in Ticks /\ tick'.at = stage /\ tick'.run = r /\ tick'.rows = tick.rows
      /\ tick'.todo = tick.todo \ {r}
  BY <1>2, <1>4, Sets DEF Ticks, TickStages
<1>6. \A s \in tick.todo : Claimed(s)' /\ Unbriefed(s)'
  BY <1>1, <1>4 DEF Claimed, Unbriefed
<1>7. CASE stage = "await"
  <2>1. /\ admission' \in Admissions /\ admission'.at = "find" /\ admission'.run = r
    BY <1>2, <1>4, <1>7, Sets DEF Admissions, Stages
  <2>2. TickInv'
    BY <1>1, <1>4, <1>5, <1>6, <1>7, <2>1 DEF TickInv, InHand
  <2>3. AdmissionInv'
    BY <1>6, <2>1 DEF AdmissionInv, Making
  <2>4. Typed'
    BY <1>1, <1>3, <1>5, <2>1, TypedParts, TypedNext DEF Inv, Moved
  <2> QED
    BY <1>3, <2>2, <2>3, <2>4 DEF Inv, Moved
<1>8. CASE stage = "defer"
  <2>1. TickInv'
    BY <1>1, <1>2, <1>4, <1>5, <1>6, <1>8 DEF TickInv, InHand
  <2> QED
    BY <1>1, <1>2, <1>3, <1>5, <1>8, <2>1, TickSide DEF Inv, Typed
<1> QED
  BY <1>7, <1>8

LEMMA ConcludeKeeps == ASSUME Inv, ConcludeRun PROVE Inv'
<1> DEFINE r == tick.run
<1>1. /\ UNCHANGED <<briefings, flue, pending, early, admission>>
      /\ tick' = [tick EXCEPT !.at = "begin", !.run = None]
      /\ tick.at \in {"activate", "defer", "error"}
  BY DEF ConcludeRun
<1>2. /\ r \in RunIds /\ Claimed(r) /\ admission.run = None /\ tick \in Ticks
      /\ runs \in [RunIds -> Run]
      /\ \A s \in tick.todo : Claimed(s) /\ Unbriefed(s) /\ s # r
      /\ \A row \in tick.rows : briefings[row[1]].status # "none"
  BY <1>1, TypedParts DEF Inv, TickInv, InHand
<1>3. /\ runs[r].submission \in BOOLEAN
       /\ \A status : [runs[r] EXCEPT !.status = status] = [status |-> status, submission |-> runs[r].submission]
  <2>1. runs[r] \in Run
    BY <1>2
  <2> QED
    BY <2>1 DEF Run
<1>4. PICK status \in {"active", "deferred", "failed"}, submission \in BOOLEAN :
          /\ runs' = [runs EXCEPT ![r] = [status |-> status, submission |-> submission]]
          /\ status = "active" => tick.at = "activate"
          /\ status = "failed" => tick.at = "error"
  <2>1. CASE tick.at = "activate"
    BY <1>2, <2>1 DEF ConcludeRun
  <2>2. CASE tick.at = "defer"
    <3>1. runs' = [runs EXCEPT ![r].status = "deferred"]
      BY <1>2, <2>2 DEF ConcludeRun, DeferClaim, End, Unsettled
    <3>2. runs' = [runs EXCEPT ![r] = [status |-> "deferred", submission |-> runs[r].submission]]
      BY <1>2, <1>3, <3>1
    <3> QED
      BY <1>3, <2>2, <3>2
  <2>3. CASE tick.at = "error"
    <3>1. runs' = [runs EXCEPT ![r].status = "failed"]
      BY <1>2, <2>3 DEF ConcludeRun, SettleRun, Settles, Unsettled
    <3>2. runs' = [runs EXCEPT ![r] = [status |-> "failed", submission |-> runs[r].submission]]
      BY <1>2, <1>3, <3>1
    <3> QED
      BY <1>3, <2>3, <3>2
  <2> QED
    BY <1>1, <2>1, <2>2, <2>3
<1>5. [status |-> status, submission |-> submission] \in Run
  BY DEF Run, Terminal, Settled, GivenUp
<1>6. /\ runs' \in [RunIds -> Run] /\ runs'[r].status = status
      /\ \A s \in RunIds : s # r => runs'[s] = runs[s]
  BY <1>2, <1>4, <1>5
<1>7. \A b \in Briefings : briefings[b].run = r =>
          /\ status = "failed" => Unsent(b)
          /\ status = "active" => ~Unsent(b)
  BY <1>4 DEF Inv, TickInv, Unsent, Queued
<1>8. RunsFollow
  BY <1>1, <1>6, <1>7 DEF RunsFollow, GivenUp, Settled
<1>9. Moved
  BY <1>1, <1>8, RunsMoved
<1>10. /\ tick' \in Ticks /\ tick'.at = "begin" /\ tick'.run = None /\ tick'.rows = tick.rows
      /\ tick'.todo = tick.todo
  BY <1>1, <1>2, Sets DEF Ticks, TickStages
<1>11. TickInv'
  <2>1. \A s \in tick.todo : s \in RunIds /\ Claimed(s)' /\ Unbriefed(s)' /\ s # None
    BY <1>1, <1>2, <1>6, TasksAssumption DEF Ticks, Claimed, Unbriefed
  <2> QED
    BY <1>1, <1>2, <1>10, <2>1 DEF TickInv, InHand
<1> QED
  BY <1>1, <1>6, <1>9, <1>10, <1>11, TickSide

LEMMA EndTickKeeps == ASSUME Inv, EndTick PROVE Inv'
<1>1. /\ tick.at = "begin" /\ UNCHANGED <<runs, briefings, flue, pending, early, admission>>
      /\ tick' = IdleTick
  BY DEF EndTick, Ticking, storeVars
<1>2. /\ tick' \in Ticks /\ tick'.at = "idle" /\ tick'.run = None /\ tick'.rows = {}
      /\ tick'.todo = {}
  BY <1>1, Sets DEF IdleTick, Ticks
<1>3. TickInv'
  BY <1>1, <1>2 DEF Inv, TickInv, InHand
<1> QED
  BY <1>1, <1>2, <1>3, RestStep, TickSide DEF Inv, Typed

LEMMA TickKeeps == ASSUME Inv, TickStep PROVE Inv'
BY ListQueuedKeeps, RecoverKeeps, AttachQueuedKeeps, ReadQueuedKeeps, RecallQueuedKeeps, ListRunsKeeps,
   LinkKeeps, ClaimKeeps, BeginKeeps, ConcludeKeeps, EndTickKeeps DEF TickStep

-----------------------------------------------------------------------------
(* Flue and its observers. *)

\* A step of neither the admission nor the tick.
LEMMA AsideStep ==
    ASSUME Inv, UNCHANGED <<admission, tick>>, Moved, runs' \in [RunIds -> Run],
           \A r \in RunIds : Claimed(r) => runs'[r] = runs[r],
           \A b \in Briefings : ~Bound(b) => briefings'[b] = briefings[b]
    PROVE  Inv'
<1>1. TickInv'
  BY TickRests DEF Inv, Moved
<1>2. Making \/ admission.at = "early" => admission.b \in Briefings
  BY AdmissionOnB DEF Making
<1>3. admission.run # None /\ Making => briefings'[admission.b] = briefings[admission.b]
  BY <1>2 DEF Inv, AdmissionInv
<1>4. AdmissionInv'
  BY <1>2, <1>3, AdmissionRests DEF Inv, Moved
<1>5. Typed'
  BY TypedParts, TypedNext DEF Inv, Moved
<1> QED
  BY <1>1, <1>4, <1>5 DEF Inv, Moved

LEMMA TurnKeeps == ASSUME Inv, NEW b \in Briefings, Turn(b) PROVE Inv'
<1>1. /\ UNCHANGED <<runs, briefings, early, admission, tick>>
      /\ flue[b] \in {"accepted", "working"}
  BY DEF Turn, StartTurn, EndTurn, storeVars
<1>2. PICK next \in {"working", "completed", "failed"}, more \in SUBSET {<<"observe", b>>, <<"task", b>>} :
          /\ flue' = [flue EXCEPT ![b] = next]
          /\ pending' = pending \cup more
          /\ more # {} => next \in {"completed", "failed"}
  <2>1. Observers(b) \in SUBSET {<<"observe", b>>, <<"task", b>>}
    BY DEF Observers
  <2>2. CASE StartTurn(b) /\ Queued(b)
    <3>1. flue' = [flue EXCEPT ![b] = "working"] /\ pending' = pending \cup {}
      BY <2>2 DEF StartTurn
    <3> QED
      BY <3>1
  <2>3. CASE StartTurn(b) /\ ~Queued(b)
    BY <2>1, <2>3 DEF StartTurn
  <2>4. CASE EndTurn(b)
    BY <2>1, <2>4 DEF EndTurn
  <2> QED
    BY <2>2, <2>3, <2>4 DEF Turn
<1>3. /\ flue' \in [Briefings -> {"none", "accepted", "working", "completed", "failed"}]
      /\ flue'[b] = next /\ \A c \in Briefings : c # b => flue'[c] = flue[c]
  BY <1>2 DEF Inv, Typed
<1>4. briefings[b].status # "none" /\ ~Ended(b)
  BY <1>1 DEF Inv, Rows, RowOK, Ended
<1>5. FlueGoesOn
  BY <1>1, <1>3, <1>4 DEF FlueGoesOn
<1>6. ToldInv'
  <2>1. \A c \in Briefings : Ended(c) => flue'[c] = flue[c]
    BY <1>3, <1>4
  <2>2. \A p \in pending' : p \in pending \/ (p[2] = b /\ Ended(b)')
    BY <1>2, <1>3 DEF Ended
  <2>3. \A c \in early' : c \in Briefings /\ c \in early
    BY <1>1 DEF Inv, Typed
  <2> QED
    BY <2>1, <2>2, <2>3, ToldStays DEF Inv
<1>7. RowsTyped'
  BY <1>1, <1>2, <1>3 DEF RowsTyped, Inv, Typed
<1>8. Moved
  BY <1>5, <1>6, <1>7, FlueRows, StayFlue DEF Inv, Moved
<1> QED
  BY <1>1, <1>8, AsideStep DEF Inv, Typed

LEMMA ObserveKeeps == ASSUME Inv, NEW b \in Briefings, Observe(b) PROVE Inv'
<1>1. UNCHANGED <<runs, flue, admission, tick>> /\ Ended(b)
  BY DEF Observe, Handled, storeVars, Inv, ToldInv
<1>2. CASE Settleable(b)
  <2>1. /\ briefings' = WithEnd(b) /\ UNCHANGED early
        /\ pending' = (pending \ {<<"observe", b>>}) \cup Closing(b)
    BY <1>2 DEF Observe
  <2>2. Rows' /\ RowsStay
    BY <1>1, <1>2, <2>1, SettledRows, StaySettled DEF Inv, RowSettled
  <2>3. /\ briefings' \in [Briefings -> Row] /\ Closing(b) \subseteq {<<"close", b>>}
        /\ \A c \in Briefings : c # b => briefings'[c] = briefings[c]
    BY <2>1, EndTyped DEF Inv
  <2>4. RowsTyped'
    BY <1>1, <2>1, <2>3 DEF RowsTyped, Inv, Typed
  <2>5. ToldInv'
    <3>1. \A p \in pending' : p \in pending \/ (p[2] \in Briefings /\ Ended(p[2])')
      BY <1>1, <2>1, <2>3 DEF Ended
    <3>2. \A c \in early' : c \in Briefings /\ c \in early
      BY <2>1 DEF Inv, Typed
    <3> QED
      BY <1>1, <3>1, <3>2, ToldStays DEF Inv
  <2>6. \A c \in Briefings : ~Bound(c) => briefings'[c] = briefings[c]
    BY <1>2, <2>3 DEF Settleable
  <2> QED
    BY <1>1, <2>2, <2>4, <2>5, <2>6, AsideStep DEF Inv, Typed, Moved
<1>3. CASE ~Settleable(b)
  <2>1. UNCHANGED briefings /\ pending' \subseteq pending /\ early' \subseteq early \cup {b}
    BY <1>3 DEF Observe, Done
  <2>2. Rows' /\ RowsStay
    BY <1>1, <2>1, NothingDone
  <2>3. RowsTyped'
    BY <1>1, <2>1 DEF RowsTyped, Inv, Typed
  <2>4. ToldInv'
    <3>1. \A c \in early' : c \in Briefings /\ (c \in early \/ Ended(c)')
      BY <1>1, <2>1 DEF Inv, Typed, Ended
    <3>2. \A p \in pending' : p \in pending
      BY <2>1
    <3> QED
      BY <1>1, <3>1, <3>2, ToldStays DEF Inv
  <2> QED
    BY <1>1, <2>1, <2>2, <2>3, <2>4, AsideStep DEF Inv, Typed, Moved
<1> QED
  BY <1>2, <1>3

\* A run is settled by the submission of its row, which has ended.
LEMMA SubmissionFollows ==
    ASSUME Inv, NEW b \in Briefings, Ended(b), SettlesRunOf(b), UNCHANGED <<briefings, flue>>
    PROVE  RunsFollow /\ \A r \in RunIds : Claimed(r) => runs'[r] = runs[r]
<1> DEFINE r == briefings[b].run
<1>1. CASE UNCHANGED runs
  BY <1>1, SameRuns
<1>2. CASE r # None /\ Running(r) /\ runs' = [runs EXCEPT ![r].status = flue[b]]
  <2>1. /\ r \in RunIds /\ runs \in [RunIds -> Run] /\ flue[b] \in {"completed", "failed"}
        /\ RowOK(b)
    BY <1>2 DEF Inv, Typed, Row, Rows, Ended
  <2>2. runs' \in [RunIds -> Run] /\ runs'[r].status = flue[b]
        /\ \A s \in RunIds : s # r => runs'[s] = runs[s]
    <3>1. [runs[r] EXCEPT !.status = flue[b]] \in Run /\ [runs[r] EXCEPT !.status = flue[b]].status = flue[b]
      BY <2>1 DEF Run, Terminal, Settled
    <3>2. runs' = [runs EXCEPT ![r] = [runs[r] EXCEPT !.status = flue[b]]]
      BY <1>2
    <3> HIDE DEF r
    <3> QED
      BY <2>1, <3>1, <3>2
  <2>3. ~Unsent(b) /\ \A c \in Briefings : briefings[c].run = r => c = b
    BY <1>2, <2>1 DEF RowOK, Unsent, Running, Queued, GivenUp
  <2>4. \A c \in Briefings : briefings[c].run = r =>
            ~Unsent(c) /\ Ended(c) /\ runs'[r].status = flue[c]
    BY <2>2, <2>3
  <2>5. RunsFollow
    <3>1. runs'[r].status # "absent"
      BY <2>1, <2>2
    <3> HIDE DEF r
    <3> QED
      BY <2>2, <2>4, <3>1 DEF RunsFollow
  <2> QED
    BY <1>2, <2>2, <2>5 DEF Claimed, Running
<1> QED
  BY <1>1, <1>2 DEF SettlesRunOf, SettleSubmission, storeVars

LEMMA RunOfKeeps ==
    ASSUME Inv, NEW b \in Briefings, Ended(b), SettlesRunOf(b), pending' \subseteq pending,
           UNCHANGED <<briefings, flue, early, admission, tick>>
    PROVE  Inv'
<1>1. RunsFollow /\ \A r \in RunIds : Claimed(r) => runs'[r] = runs[r]
  BY SubmissionFollows
<1>2. Rows' /\ RowsStay
  BY <1>1, RunsRows, StayRuns DEF Inv
<1>3. ToldInv'
  BY ToldRest
<1>4. RowsTyped'
  BY DEF RowsTyped, Inv, Typed
<1> QED
  BY <1>1, <1>2, <1>3, <1>4, AsideStep DEF Moved, RunsFollow

LEMMA HandleKeeps == ASSUME Inv, NEW b \in Briefings, Handle(b) PROVE Inv'
<1>1. CASE Observe(b)
  BY <1>1, ObserveKeeps
<1>2. CASE ObserveTask(b) \/ Close(b)
  <2>1. /\ UNCHANGED <<briefings, flue, early, admission, tick>> /\ SettlesRunOf(b)
        /\ pending' \subseteq pending
    BY <1>2 DEF ObserveTask, Close, Handled, Done
  <2>2. Ended(b)
    BY <1>2 DEF ObserveTask, Close, Handled, Inv, ToldInv
  <2> QED
    BY <2>1, <2>2, RunOfKeeps
<1>3. CASE Refuse(b)
  <2>1. /\ UNCHANGED <<runs, briefings, flue, early, admission, tick>> /\ pending' \subseteq pending
    BY <1>3 DEF Refuse, Handled, Done, storeVars
  <2> QED
    BY <2>1, RestStep, AsideStep DEF Inv, Typed
<1> QED
  BY <1>1, <1>2, <1>3 DEF Handle

-----------------------------------------------------------------------------
(* The crash, and the theorems. *)

LEMMA CrashKeeps == ASSUME Inv, Crash PROVE Inv'
<1>1. /\ UNCHANGED <<runs, briefings, flue>> /\ early' = {} /\ pending' = {}
      /\ admission' = NoAdmission /\ tick' = IdleTick
  BY DEF Crash, storeVars
<1>2. Moved
  BY <1>1, RestStep
<1>3. /\ admission' \in Admissions /\ tick' \in Ticks
  BY <1>1, Sets DEF Admissions, Ticks
<1>4. AdmissionInv' /\ TickInv'
  BY <1>1 DEF AdmissionInv, Making, TickInv, InHand, NoAdmission, IdleTick
<1>5. Typed'
  BY <1>1, <1>2, <1>3, TypedNext DEF Inv, Typed, Moved
<1> QED
  BY <1>2, <1>4, <1>5 DEF Inv, Moved

LEMMA Invariance == Inv /\ [BriefingsNext]_briefingVars => Inv'
<1> SUFFICES ASSUME Inv, [BriefingsNext]_briefingVars PROVE Inv'
  OBVIOUS
<1>1. CASE \E t \in Tasks : BecomesDue(t) \/ ClaimLapses(t)
  BY <1>1, Resting DEF BecomesDue, ClaimLapses, Arrive, Lapse
<1>2. CASE UNCHANGED briefingVars
  BY <1>2, Resting DEF briefingVars, storeVars
<1>3. CASE RunNow \/ AdmissionStep \/ TickStep \/ Crash
  BY <1>3, RunNowKeeps, AdmissionKeeps, TickKeeps, CrashKeeps
<1>4. CASE \E b \in Briefings : Turn(b) \/ Handle(b)
  BY <1>4, TurnKeeps, HandleKeeps
<1> QED
  BY <1>1, <1>2, <1>3, <1>4 DEF BriefingsNext

LEMMA Always == BriefingsSpec => []Inv
BY Initially, Invariance, PTL DEF BriefingsSpec

\* A scheduled run ends as its briefing did, whatever crashed or failed between the
\* transactions that settle the two (store.ts and service.ts of the briefings, and
\* settleScheduledTaskSubmission).
THEOREM RunEndsAsBriefing == BriefingsSpec => []RunTellsBriefing
<1>1. Inv => RunTellsBriefing
  <2> SUFFICES ASSUME Inv, NEW b \in Briefings, briefings[b].run # None, ~Queued(b),
                      runs[briefings[b].run].status \in Settled
               PROVE  runs[briefings[b].run].status = "completed" <=> briefings[b].status = "ready"
    BY DEF RunTellsBriefing
  <2>1. RowOK(b)
    BY DEF Inv, Rows
  <2> QED
    BY <2>1 DEF RowOK, Unsent, Settled, GivenUp, Ended
<1> QED
  BY <1>1, Always, PTL

\* What becomes of the rows: only an admission that found nothing active queues one.
NoneQueued == \A b \in Briefings : briefings'[b].status = "queued" => Queued(b)

LEMMA RowsOnly ==
    ASSUME Inv, NEW b \in Briefings,
           \/ UNCHANGED briefings
           \/ Attach(b)
           \/ Settle(b)
           \/ Settleable(b) /\ briefings' = WithEnd(b)
           \/ briefings' = [briefings EXCEPT ![b].status = "failed"]
    PROVE  NoneQueued
<1>1. CASE UNCHANGED briefings
  BY <1>1 DEF NoneQueued, Queued
<1>2. CASE Attach(b)
  BY <1>2, AttachTyped DEF Inv, NoneQueued, Queued
<1>3. CASE Settleable(b) /\ briefings' = WithEnd(b)
  BY <1>3, EndTyped DEF Inv, NoneQueued, Queued
<1>4. CASE briefings' = [briefings EXCEPT ![b].status = "failed"]
  BY <1>4 DEF Inv, Typed, Row, NoneQueued, Queued
<1> QED
  BY <1>1, <1>2, <1>3, <1>4 DEF Settle

LEMMA RowsOfAdmission == ASSUME Inv, AdmissionStep, ~Create PROVE NoneQueued
<1>1. CASE FindActive \/ Resend \/ CheckActive \/ Dispatch
  BY <1>1 DEF FindActive, Resend, CheckActive, Dispatch, NoneQueued, Queued
<1>2. ASSUME admission.b \in Briefings PROVE NoneQueued
  <2> DEFINE b == admission.b
  <2>1. CASE Reattach \/ AttachNew
    BY <1>2, <2>1, RowsOnly DEF Reattach, AttachNew
  <2>2. CASE Recall \/ UseEarly
    BY <1>2, <2>2, RowsOnly DEF Recall, UseEarly, SettleFromMemory
  <2>3. CASE ReadHistory
    BY <1>2, <2>3, RowsOnly DEF ReadHistory, SettleFromHistory
  <2>4. CASE FailBeforeDispatch
    BY <1>2, <2>4, RowsOnly DEF FailBeforeDispatch
  <2> QED
    BY <1>1, <2>1, <2>2, <2>3, <2>4 DEF AdmissionStep
<1>3. Reattach \/ AttachNew \/ Recall \/ UseEarly \/ ReadHistory \/ FailBeforeDispatch =>
          admission.b \in Briefings
  BY AdmissionOnB DEF Reattach, AttachNew, Recall, UseEarly, ReadHistory, FailBeforeDispatch, Admitting
<1> QED
  BY <1>1, <1>2, <1>3 DEF AdmissionStep

LEMMA RowsOfTick == ASSUME Inv, TickStep PROVE NoneQueued
<1>1. CASE AttachQueued \/ ReadQueuedHistory \/ RecallQueued
  <2>1. tick.b \in Briefings
    BY <1>1, TickOnB DEF AttachQueued, ReadQueuedHistory, RecallQueued, Ticking
  <2> QED
    BY <1>1, <2>1, RowsOnly
       DEF AttachQueued, ReadQueuedHistory, RecallQueued, LearnEnd, SettleFromHistory, SettleFromMemory
<1>2. CASE ListQueued \/ RecoverQueued \/ ListRuns \/ Link \/ ClaimTasks \/ BeginRun \/ ConcludeRun \/ EndTick
  BY <1>2 DEF ListQueued, RecoverQueued, ListRuns, Link, ClaimTasks, BeginRun, ConcludeRun, EndTick,
              NoneQueued, Queued
<1> QED
  BY <1>1, <1>2 DEF TickStep

LEMMA RowsOfOthers ==
    ASSUME Inv, [BriefingsNext]_briefingVars, ~AdmissionStep, ~TickStep
    PROVE  NoneQueued
<1>1. CASE \E b \in Briefings : Turn(b) \/ Handle(b)
  <2>1. PICK b \in Briefings : Turn(b) \/ Handle(b)
    BY <1>1
  <2>2. CASE Turn(b) \/ ObserveTask(b) \/ Close(b) \/ Refuse(b)
    BY <2>2 DEF Turn, StartTurn, EndTurn, ObserveTask, Close, Refuse, NoneQueued, Queued
  <2>3. CASE Observe(b)
    BY <2>3, RowsOnly DEF Observe
  <2> QED
    BY <2>1, <2>2, <2>3 DEF Handle
<1>2. CASE UNCHANGED briefings
  BY <1>2 DEF NoneQueued, Queued
<1>3. RunNow \/ Crash \/ (\E t \in Tasks : BecomesDue(t) \/ ClaimLapses(t)) \/ UNCHANGED briefingVars =>
          UNCHANGED briefings
  BY DEF RunNow, Crash, BecomesDue, ClaimLapses, briefingVars
<1> QED
  BY <1>1, <1>2, <1>3 DEF BriefingsNext

LEMMA OneQueued == ASSUME Inv, OneBriefing, [BriefingsNext]_briefingVars PROVE OneBriefing'
<1>1. CASE NoneQueued
  BY <1>1 DEF NoneQueued, OneBriefing, Active, Queued
<1>2. CASE Create
  <2>1. CASE UNCHANGED briefings
    BY <2>1 DEF OneBriefing, Active, Queued
  <2>2. CASE Active = {} /\ Unwritten # {}
    <3> DEFINE b == CHOOSE b \in Unwritten : \A c \in Unwritten : b <= c
    <3>1. briefings' = [briefings EXCEPT ![b] =
                            [status |-> "queued", bound |-> FALSE, run |-> admission.run]]
      BY <1>2, <2>2 DEF Create
    <3> HIDE DEF b
    <3>2. \A c \in Briefings : c # b => briefings'[c] = briefings[c]
      BY <3>1 DEF Inv, Typed
    <3>3. \A c \in Active' : c = b
      BY <2>2, <3>2 DEF Active, Queued
    <3> QED
      BY <3>3 DEF OneBriefing
  <2> QED
    BY <1>2, <2>1, <2>2 DEF Create
<1> QED
  BY <1>1, <1>2, RowsOfAdmission, RowsOfTick, RowsOfOthers

\* A conversation has at most one briefing that is queued, whoever admits or recovers it
\* and wherever they crash (createBriefingRun, which asks once more in its transaction).
THEOREM AtMostOneBriefing == BriefingsSpec => []OneBriefing
<1>1. BriefingsInit => OneBriefing
  BY DEF BriefingsInit, OneBriefing, Active, Queued, NoRow
<1> QED
  BY <1>1, Always, OneQueued, PTL DEF BriefingsSpec

=============================================================================
