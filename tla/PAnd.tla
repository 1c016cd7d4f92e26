--------------------------------- MODULE PAnd ---------------------------------
(***************************************************************************)
(* The priority-AND automaton (dft2lntc/automata/pand.{h,cpp}): it fails   *)
(* when all children are failed and failed from left to right.  The        *)
(* automaton keeps no order of failures, only in_order_mark, the length of *)
(* the prefix of children that failed in order.                            *)
(***************************************************************************)
EXTENDS Signals, FiniteSets

CONSTANTS total,          \* number of children
          always_active   \* the gate's activation never changes

ASSUME PAndAssumption == total \in Nat \ {0} /\ always_active \in BOOLEAN

VARIABLE gate

Children == 1..total

\* par->repairable is initialised with the number of children.
repairable == total # 0

Initial == [failed |-> {}, nr_failed |-> 0, nr_active |-> 0,
            in_order_mark |-> 0, done |-> FALSE, mode |-> "live"]

Impossible == [gate EXCEPT !.mode = "impossible"]
Terminated == [gate EXCEPT !.mode = "terminated"]

Init == gate = Initial

-----------------------------------------------------------------------------
(* The handlers: inputs from the children and the parents. *)

AfterFail(i) ==
  IF i \in gate.failed THEN gate
  ELSE [gate EXCEPT !.failed = @ \cup {i},
                    !.nr_failed = @ + 1,
                    !.in_order_mark = IF i = @ + 1 THEN i ELSE @]

\* Wrong: the mark survives the repair of the child it points to.
AfterOnlineBelowMark(i) ==
  IF ~repairable \/ i \notin gate.failed THEN Impossible
  ELSE [gate EXCEPT !.failed = @ \ {i}, !.nr_failed = @ - 1,
                    !.in_order_mark = IF i < @ THEN i - 1 ELSE @]

AfterOnline(i) ==
  IF ~repairable \/ i \notin gate.failed THEN Impossible
  ELSE [gate EXCEPT !.failed = @ \ {i},
                    !.nr_failed = @ - 1,
                    !.in_order_mark = IF i <= @ THEN i - 1 ELSE @]

ChildFails  == {<<FAIL(i), AfterFail(i)>> : i \in Children}
ChildOnline == {<<ONLINE(i), AfterOnline(i)>> : i \in Children}

Activated ==
  {<<ACTIVATE(0, FALSE),
     [gate EXCEPT !.nr_active = IF ~always_active /\ @ = 0 THEN 1 ELSE @]>>}

Deactivated == {<<DEACTIVATE(0, FALSE), Impossible>>}

(* The handlers: outputs. *)

\* Wrong: an AND gate.
AnnounceAnyOrder ==
  Offer(gate.nr_failed = total /\ ~gate.done, FAIL(0), [gate EXCEPT !.done = TRUE])

AnnounceFail ==
  Offer(gate.in_order_mark = total /\ ~gate.done, FAIL(0),
        [gate EXCEPT !.done = TRUE])

AnnounceOnline ==
  Offer(gate.in_order_mark < total /\ gate.done, ONLINE(0),
        [gate EXCEPT !.done = FALSE])

\* Wrong: goes on after the last child.
NextActiveTooFar == gate.nr_active + 1

NextActive == IF gate.nr_active < total THEN gate.nr_active + 1 ELSE 0

ActivateChild ==
  Offer(gate.nr_active > 0, ACTIVATE(gate.nr_active, TRUE),
        [gate EXCEPT !.nr_active = NextActive])

Live == gate.mode = "live"

\* The outgoing transitions of the current state.
Trans ==
  CASE gate.mode = "terminated" -> {}
    [] gate.mode = "impossible" -> {<<IMPOSSIBLE, Terminated>>}
    [] OTHER -> ChildFails \cup ChildOnline \cup AnnounceFail
                  \cup AnnounceOnline \cup Activated \cup Deactivated
                  \cup ActivateChild

-----------------------------------------------------------------------------
Take(T) == \E t \in T : gate' = t[2]

RecvFail(i)    == Live /\ gate' = AfterFail(i)
SendFail       == Live /\ Take(AnnounceFail)
RecvOnline(i)  == Live /\ gate' = AfterOnline(i)
SendOnline     == Live /\ Take(AnnounceOnline)
RecvActivate   == Live /\ Take(Activated)
RecvDeactivate == Live /\ Take(Deactivated)
SendActivate   == Live /\ Take(ActivateChild)
ReportError    == gate.mode = "impossible" /\ gate' = Terminated

\* The steps other than a child's failure or recovery.
OwnStep == \/ SendFail \/ SendOnline
           \/ RecvActivate \/ RecvDeactivate \/ SendActivate
           \/ ReportError

Next == \/ \E i \in Children : RecvFail(i) \/ RecvOnline(i)
        \/ OwnStep

Spec == Init /\ [][Next]_gate

-----------------------------------------------------------------------------
(* The types of the state's fields (pand.h). *)
TypeOK ==
  gate \in [failed : SUBSET Children, nr_failed : Nat,
            nr_active : 0..total, in_order_mark : 0..total,
            done : BOOLEAN, mode : {"live", "impossible", "terminated"}]
==============================================================================
