--------------------------------- MODULE FDep ---------------------------------
(***************************************************************************)
(* The functional-dependency automaton (dft2lntc/automata/fdep.{h,cpp}):   *)
(* once its trigger, child 1, has failed it tells the parents of every     *)
(* depender once, in any order, that the depender failed.                  *)
(***************************************************************************)
EXTENDS Signals

CONSTANTS total,                  \* number of dependers
          trigger_always_active   \* the trigger needs no activation

VARIABLE gate

Initial == [act |-> FALSE, failed |-> FALSE, notified |-> {}]

Init == gate = Initial

-----------------------------------------------------------------------------
TriggerFails == {<<FAIL(1), [gate EXCEPT !.failed = TRUE]>>}

Activated == {<<ACTIVATE(0, FALSE), [gate EXCEPT !.act = TRUE]>>}

ActivateTrigger ==
  Offer(gate.act /\ ~trigger_always_active, ACTIVATE(1, TRUE),
        [gate EXCEPT !.act = FALSE])

\* Wrong: only the first depender.
NotifyFirst ==
  Offer(gate.failed /\ gate.notified = {}, FAIL(2),
        [gate EXCEPT !.notified = {1}])

\* Depender i is announced as index i + 1, after the trigger.
NotifyParents ==
  {<<FAIL(i + 1), [gate EXCEPT !.notified = @ \cup {i}]>> :
     i \in {j \in 1..total : gate.failed} \ gate.notified}

\* The outgoing transitions of the current state.
Trans == TriggerFails \cup Activated \cup ActivateTrigger \cup NotifyParents
==============================================================================
