-------------------------------- MODULE Spare --------------------------------
(***************************************************************************)
(* The spare automaton (dft2lntc/automata/spare.{h,cpp}), used for warm,   *)
(* cold and hot spare gates.  It uses the first child that is neither      *)
(* failed nor claimed by another spare gate, claims it by activating it,   *)
(* and listens to the (de)activations of the children it shares.           *)
(***************************************************************************)
EXTENDS Signals

CONSTANTS total,          \* number of children, the first is the primary
          repairable,
          always_active

\* The constructor leaves repairable uninitialised when no child is
\* repairable: either value is possible then.
ASSUME SpareAssumption ==
  total \in Nat \ {0} /\ {repairable, always_active} \subseteq BOOLEAN

VARIABLE gate

Children == 1..total

\* cur_using, prev_using and repairing_deactivate are 0 for "none".
Initial ==
  [unfailed |-> Children, unclaimed |-> Children,
   repairing_deactivate |-> 0, cur_using |-> IF always_active THEN 1 ELSE 0,
   prev_using |-> 0, done |-> FALSE, activated |-> always_active,
   mode |-> "live"]

Init == gate = Initial

Impossible == [gate EXCEPT !.mode = "impossible"]
Terminated == [gate EXCEPT !.mode = "terminated"]

Available(g) == g.unfailed \cap g.unclaimed
avail == Available(gate)
\* Wrong: off by one.
FirstPlusOne(S) == 1 + CHOOSE i \in S : \A j \in S : i <= j

First(S) == CHOOSE i \in S : \A j \in S : i <= j

-----------------------------------------------------------------------------
\* Wrong: an always-active spare is treated as any other.
Unchanged(g) == g

\* Wrong: without the test that the primary is in use already.
ReturnAgain(g) ==
  IF 1 \notin Available(g) THEN g
  ELSE [g EXCEPT !.prev_using = g.cur_using, !.cur_using = 1]

\* add_transition: an always-active spare returns to its primary as soon as
\* it is available, and never deactivates it.
ReturnToPrimary(g) ==
  IF g.cur_using = 1 \/ 1 \notin Available(g) THEN g
  ELSE [g EXCEPT !.prev_using = g.cur_using, !.cur_using = 1,
                 !.repairing_deactivate = IF @ = 1 THEN 0 ELSE @]

KeepPrimary(g) ==
  IF g.prev_using = 1 THEN [g EXCEPT !.prev_using = 0, !.cur_using = 0] ELSE g

Settle(target) ==
  IF always_active THEN KeepPrimary(ReturnToPrimary(target)) ELSE target

Step(label, target) == <<label, Settle(target)>>
When(guard, label, target) == Offer(guard, label, Settle(target))

(* Inputs. *)

AfterFail(i) ==
  [gate EXCEPT !.unfailed = @ \ {i},
               !.prev_using = IF i = gate.cur_using THEN i ELSE @]

ChildFails == {Step(FAIL(i), AfterFail(i)) : i \in Children}

ChildOnline ==
  {Step(ONLINE(i), IF repairable THEN [gate EXCEPT !.unfailed = @ \cup {i}]
                   ELSE Impossible) : i \in Children}

Activated ==
  {Step(ACTIVATE(0, FALSE), [gate EXCEPT !.activated = TRUE])}

\* Wrong: keeps what it used.
DeactivatedInPlace ==
  {Step(DEACTIVATE(0, FALSE),
        IF always_active THEN Impossible ELSE [gate EXCEPT !.activated = FALSE])}

Deactivated ==
  {Step(DEACTIVATE(0, FALSE),
        IF always_active THEN Impossible
        ELSE [gate EXCEPT !.activated = FALSE,
                          !.prev_using = gate.cur_using])}

\* Wrong: gives up nothing when another gate claims what is used here.
ChildClaimedAny ==
  {Step(ACTIVATE(i, FALSE),
        IF i = 1 /\ always_active THEN Impossible
        ELSE [gate EXCEPT !.unclaimed = @ \ {i}]) : i \in Children}

\* Another spare gate claims a shared child, never the one in use here.
ChildClaimed ==
  {Step(ACTIVATE(i, FALSE),
        IF i = 1 /\ always_active THEN Impossible
        ELSE [gate EXCEPT !.unclaimed = @ \ {i}]) :
     i \in Children \ {gate.cur_using}}

ChildReleased ==
  {Step(DEACTIVATE(i, FALSE),
        IF \/ i = 1 /\ always_active
           \/ i \in {gate.prev_using, gate.repairing_deactivate}
        THEN Impossible
        ELSE [gate EXCEPT !.unclaimed = @ \cup {i}]) : i \in Children}

(* Outputs. *)

\* Wrong: forgets to forget what it released.
ReleaseAgain ==
  When(gate.prev_using # 0, DEACTIVATE(gate.prev_using, TRUE),
       [gate EXCEPT !.cur_using = 0])

ReleaseFailed ==
  When(gate.prev_using # 0, DEACTIVATE(gate.prev_using, TRUE),
       [gate EXCEPT !.prev_using = 0, !.cur_using = 0])

ReleaseWorse ==
  When(gate.prev_using = 0 /\ gate.repairing_deactivate # 0,
       DEACTIVATE(gate.repairing_deactivate, TRUE),
       [gate EXCEPT !.repairing_deactivate = 0])

AnnounceFail ==
  When(/\ gate.prev_using = 0 /\ gate.repairing_deactivate = 0
       /\ ~gate.done /\ avail = {},
       FAIL(0), [gate EXCEPT !.done = TRUE])

\* Wrong: only a dormant gate comes back.
AnnounceOnlineDormant ==
  When(gate.done /\ avail # {} /\ ~gate.activated,
       ONLINE(0), [gate EXCEPT !.done = FALSE])

AnnounceOnline ==
  When(/\ gate.done
       /\ gate.cur_using \in avail \/ (avail # {} /\ ~gate.activated),
       ONLINE(0), [gate EXCEPT !.done = FALSE])

ClaimFirst ==
  When(gate.cur_using = 0 /\ avail # {} /\ gate.activated,
       ACTIVATE(First(avail), TRUE),
       [gate EXCEPT !.cur_using = First(avail),
                    !.repairing_deactivate =
                       IF @ = First(avail) THEN 0 ELSE @])

\* The target left by the loop over DEACTIVATE uses no child here either.
ForgetRelease ==
  When(/\ gate.cur_using = 0 /\ avail # {} /\ ~gate.activated
       /\ gate.repairing_deactivate = 0,
       TAU, gate)

ClaimLabel ==
  IF First(avail) > 1 \/ ~always_active
  THEN ACTIVATE(First(avail), TRUE) ELSE TAU

\* Wrong: the child used before is never released.
TakeBetterAlso == [gate EXCEPT !.cur_using = First(avail)]

TakeBetter == [gate EXCEPT !.repairing_deactivate = gate.cur_using,
                           !.cur_using = First(avail)]

\* A better child than the one in use became available: take it and release
\* the other.  The always-active primary needs no activation.
ClaimBetter ==
  When(/\ gate.activated /\ avail # {}
       /\ gate.prev_using = 0 /\ gate.repairing_deactivate = 0
       /\ First(avail) # gate.cur_using,
       ClaimLabel, TakeBetter)

\* A repair unit's message to a spare is ignored.
ReportRepaired == {Step(REPAIRED(0), gate)}

Live == gate.mode = "live"

\* The outgoing transitions of the current state.
Trans ==
  CASE gate.mode = "terminated" -> {}
    [] gate.mode = "impossible" -> {<<IMPOSSIBLE, Terminated>>}
    [] OTHER -> ChildFails \cup ReleaseFailed \cup ReleaseWorse
                  \cup AnnounceFail \cup ChildOnline \cup AnnounceOnline
                  \cup Activated \cup Deactivated
                  \cup ChildClaimed \cup ChildReleased
                  \cup ClaimFirst \cup ForgetRelease \cup ReportRepaired
                  \cup ClaimBetter

-----------------------------------------------------------------------------
\* A state never changes once it is stored: the handler of REPAIRED passes the
\* state itself, a key of the table of states, to add_transition, which writes
\* to its argument.
KeyIsStable == Live => Settle(gate) = gate

\* tau_collapse may drop the silent transitions: they change nothing.
SilentChangesNothing ==
  \A t \in Trans : t[1] = TAU => t[2] = gate
==============================================================================
