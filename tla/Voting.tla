-------------------------------- MODULE Voting --------------------------------
(***************************************************************************)
(* The voting automaton (dft2lntc/automata/voting.{h,cpp}), which the      *)
(* translator generates for OR (threshold 1), AND (threshold = total) and  *)
(* k-of-n voting gates.  Each handler of initialize_outgoing is the set of *)
(* <<label, target>> pairs that it adds in the current state; the actions  *)
(* of Next take one of them.  The environment offers any input signal in   *)
(* any order, as the generated automaton does.                             *)
(***************************************************************************)
EXTENDS Signals, FiniteSets

CONSTANTS total,          \* number of children
          threshold,      \* number of failed children at which the gate fails
          always_active   \* the gate's activation never changes

ASSUME VotingAssumption ==
  /\ total \in Nat \ {0}
  /\ threshold \in Nat \ {0}
  /\ always_active \in BOOLEAN

VARIABLE gate

vars == <<gate>>

Children == 1..total

Initial == [nr_failed |-> 0, emit_fail |-> FALSE, done |-> FALSE,
            running |-> FALSE, received |-> {}, activated |-> {},
            mode |-> "live"]

\* The impossible and terminated flags; the other fields no longer matter.
Impossible == [gate EXCEPT !.mode = "impossible"]
Terminated == [gate EXCEPT !.mode = "terminated"]

Init == gate = Initial

-----------------------------------------------------------------------------
(* The handlers: inputs from the children and the parents. *)

\* Wrong: counts a repeated FAIL again.
AfterAnyFail(i) ==
  [gate EXCEPT !.received = @ \cup {i}, !.nr_failed = @ + 1,
               !.emit_fail = @ \/ (gate.nr_failed + 1 = threshold /\ ~gate.done)]

\* Wrong: a further failure cancels the announcement still to be made.
AfterLastFail(i) ==
  IF i \in gate.received THEN gate
  ELSE [gate EXCEPT !.received = @ \cup {i}, !.nr_failed = @ + 1,
                    !.emit_fail = gate.nr_failed + 1 = threshold /\ ~gate.done]

\* Wrong: does not look at done.
AfterFailEvenIfDone(i) ==
  IF i \in gate.received THEN gate
  ELSE [gate EXCEPT !.received = @ \cup {i}, !.nr_failed = @ + 1,
                    !.emit_fail = @ \/ gate.nr_failed + 1 = threshold]

AfterFail(i) ==
  IF i \in gate.received THEN gate
  ELSE [gate EXCEPT !.received = @ \cup {i},
                    !.nr_failed = @ + 1,
                    !.emit_fail = @ \/ (gate.nr_failed + 1 = threshold /\ ~gate.done)]

\* Wrong: accepts an ONLINE without a FAIL before it.
AfterAnyOnline(i) ==
  [gate EXCEPT !.received = @ \ {i}, !.nr_failed = @ - 1]

AfterOnline(i) ==
  IF i \in gate.received
  THEN [gate EXCEPT !.received = @ \ {i}, !.nr_failed = @ - 1]
  ELSE Impossible

ChildFails  == {<<FAIL(i), AfterFail(i)>> : i \in Children}
ChildOnline == {<<ONLINE(i), AfterOnline(i)>> : i \in Children}

Activated ==
  Offer(~always_active, ACTIVATE(0, FALSE), [gate EXCEPT !.running = TRUE])

\* Wrong: goes on running.
DeactivatedInVain == {<<DEACTIVATE(0, FALSE), gate>>}

Deactivated ==
  {<<DEACTIVATE(0, FALSE),
     IF always_active THEN Impossible ELSE [gate EXCEPT !.running = FALSE]>>}

(* The handlers: outputs. *)

AnnounceFail ==
  Offer(gate.emit_fail /\ ~gate.done, FAIL(0),
        [gate EXCEPT !.done = TRUE, !.emit_fail = FALSE])

\* Wrong: waits for every child.
AnnounceOnlineLate ==
  Offer(gate.done /\ gate.nr_failed = 0, ONLINE(0), [gate EXCEPT !.done = FALSE])

AnnounceOnline ==
  Offer(gate.done /\ gate.nr_failed < threshold, ONLINE(0),
        [gate EXCEPT !.done = FALSE])

\* Wrong: the scan for nr_act stops one child early.
ToActivateButLast == {i \in 1..total - 1 \ gate.activated :
                        \A j \in Children : j < i => j \in gate.activated}

\* Wrong: deactivates from the left.
ToDeactivateFirst == {i \in gate.activated : \A j \in gate.activated : i <= j}

\* nr_act: the first child not yet activated, or the last one still active.
ToActivate   == {i \in Children \ gate.activated :
                   \A j \in Children : j < i => j \in gate.activated}
ToDeactivate == {i \in gate.activated : \A j \in gate.activated : j <= i}

ActivateChild ==
  {<<ACTIVATE(i, TRUE), [gate EXCEPT !.activated = @ \cup {i}]>> :
     i \in {j \in ToActivate : gate.running}}

DeactivateChild ==
  {<<DEACTIVATE(i, TRUE), [gate EXCEPT !.activated = @ \ {i}]>> :
     i \in {j \in ToDeactivate : ~gate.running}}

Live == gate.mode = "live"

\* The outgoing transitions of the current state.
Trans ==
  CASE gate.mode = "terminated" -> {}
    [] gate.mode = "impossible" -> {<<IMPOSSIBLE, Terminated>>}
    [] OTHER -> ChildFails \cup AnnounceFail \cup ChildOnline
                  \cup AnnounceOnline \cup Activated \cup Deactivated
                  \cup ActivateChild \cup DeactivateChild

-----------------------------------------------------------------------------
Take(T) == \E t \in T : gate' = t[2]

RecvFail       == Live /\ Take(ChildFails)
SendFail       == Live /\ Take(AnnounceFail)
RecvOnline     == Live /\ Take(ChildOnline)
SendOnline     == Live /\ Take(AnnounceOnline)
RecvActivate   == Live /\ Take(Activated)
RecvDeactivate == Live /\ Take(Deactivated)
SendActivate   == Live /\ Take(ActivateChild)
SendDeactivate == Live /\ Take(DeactivateChild)
ReportError    == gate.mode = "impossible" /\ gate' = Terminated

Next == \/ RecvFail \/ SendFail
        \/ RecvOnline \/ SendOnline
        \/ RecvActivate \/ RecvDeactivate
        \/ SendActivate \/ SendDeactivate
        \/ ReportError

\* Outputs are immediate (maximal progress); inputs come when they come.
Fairness == /\ WF_vars(SendFail) /\ WF_vars(SendOnline)
            /\ WF_vars(SendActivate) /\ WF_vars(SendDeactivate)

Spec == Init /\ [][Next]_vars
FairSpec == Spec /\ Fairness

-----------------------------------------------------------------------------
(* The types of the state's fields (voting.h). *)
TypeOK ==
  gate \in [nr_failed : Nat, emit_fail : BOOLEAN, done : BOOLEAN,
            running : BOOLEAN, received : SUBSET Children,
            activated : SUBSET Children,
            mode : {"live", "impossible", "terminated"}]

\* nr_failed is maintained by increments and decrements apart from the
\* received vector, and the two never drift apart: however often a child
\* repeats FAIL, the counter is the number of children now failed.
CountIsExact == gate.nr_failed = Cardinality(gate.received)

\* No failure is lost: once the threshold is reached the gate has announced
\* its failure or still will.  The test in the FAIL handler is an equality
\* against the threshold, made only when the gate is not done.
NoLostFailure ==
  gate.nr_failed >= threshold => gate.emit_fail \/ gate.done

\* The gate never holds a second announcement back while it is done: a FAIL
\* left over from before would be sent right after the ONLINE of a repair.
NoStaleAlarm == ~(gate.done /\ gate.emit_fail)

\* The children are activated from left to right and deactivated from right
\* to left, whatever the parent's commands in between: the activated ones
\* always form a prefix, which is what the scan for nr_act relies on.
ActivatedIsPrefix ==
  \A i \in gate.activated : \A j \in Children : j < i => j \in gate.activated

\* The inductive invariant.
IInv == TypeOK /\ CountIsExact /\ NoLostFailure /\ NoStaleAlarm
          /\ ActivatedIsPrefix

\* A gate that stays running ends with every child activated, one that stays
\* stopped with none, unless the composition breaks down.
ActivationCompletes ==
  /\ gate.running ~> (gate.activated = Children \/ ~gate.running \/ ~Live)
  /\ (~gate.running) ~> (gate.activated = {} \/ gate.running \/ ~Live)
==============================================================================
