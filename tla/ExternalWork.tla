---------------------------- MODULE ExternalWork ----------------------------
(***************************************************************************)
(* What a delivery promises the world outside its record, in the words of   *)
(* src/src/modules/factory-delivery/service.ts: "Never retry a possibly     *)
(* accepted POST or launch another check/model process here."  Every piece  *)
(* of external work is started at most once, and never beside another.      *)
(***************************************************************************)
CONSTANT Work

VARIABLES
    started,    \* the work that was ever started
    live        \* the work under way

Init == started = {} /\ live = {}

Start(work) ==
    /\ work \notin started
    /\ live = {}
    /\ started' = started \cup {work}
    /\ live' = {work}

End(work) ==
    /\ work \in live
    /\ live' = live \ {work}
    /\ UNCHANGED started

Next == \E work \in Work : Start(work) \/ End(work)

Spec == Init /\ [][Next]_<<started, live>>

=============================================================================
