---------------------------- MODULE MCBriefings ----------------------------
(* Instances of Briefings: one recurring task, whose runs are numbered. *)
EXTENDS Briefings

CONSTANT MaxRuns

Morning == {"morning"}
Numbers == 1..MaxRuns
MorningRuns == [r \in Numbers |-> "morning"]
=============================================================================
