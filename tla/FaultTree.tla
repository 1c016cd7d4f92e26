------------------------------ MODULE FaultTree ------------------------------
(***************************************************************************)
(* What a static fault tree promises: its top event is announced exactly   *)
(* when the failed basic events make it fail, and before anything else     *)
(* fails or is repaired.                                                   *)
(***************************************************************************)
CONSTANTS Events,       \* the basic events
          CutSets,      \* the sets of events that fail the top together
          AtStart       \* the events failed by evidence

VARIABLES failed,       \* the events failed now
          announced     \* the top's last announcement was FAIL

vars == <<failed, announced>>

Init == failed = AtStart /\ announced = FALSE

CaughtUp == announced <=> failed \in CutSets

Fail(b) ==
  /\ CaughtUp /\ b \notin failed
  /\ failed' = failed \cup {b}
  /\ UNCHANGED announced

Repair(b) ==
  /\ CaughtUp /\ b \in failed
  /\ failed' = failed \ {b}
  /\ UNCHANGED announced

Announce == /\ failed \in CutSets /\ ~announced
            /\ announced' = TRUE
            /\ UNCHANGED failed

Withdraw == /\ failed \notin CutSets /\ announced
            /\ announced' = FALSE
            /\ UNCHANGED failed

Next == \/ \E b \in Events : Fail(b) \/ Repair(b)
        \/ Announce \/ Withdraw

Spec == Init /\ [][Next]_vars

\* Nothing stays unannounced.
Liveness == WF_vars(Announce) /\ WF_vars(Withdraw)
==============================================================================
