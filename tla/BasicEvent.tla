------------------------------ MODULE BasicEvent ------------------------------
(***************************************************************************)
(* The basic-event automaton (dft2lntc/automata/be.{h,cpp}): degradation   *)
(* through Erlang phases, failure, restoration to the first phase,         *)
(* failsafe, dormancy, and the repair handshake with a repair unit.        *)
(***************************************************************************)
EXTENDS Signals

CONSTANTS
  phases,               \* Erlang phases until failure
  threshold,            \* phase from which an inspection notices degradation
  cold,                 \* the failure rate is zero while dormant
  repairable,
  self_repair,          \* no inspection module: failure asks for repair
  independent_repair,   \* no repair unit: repair needs no permission
  always_active,
  initially_failed      \* marked as failed by evidence

ASSUME BasicEventAssumption ==
  /\ phases \in Nat \ {0} /\ threshold \in Nat
  /\ {cold, repairable, self_repair, independent_repair,
      always_active, initially_failed} \subseteq BOOLEAN

VARIABLE gate

\* The constructor's "status = UP" assigns its parameter, not the field: an
\* initially failed event stays FAILING.
Initial ==
  [status |-> IF initially_failed THEN "FAILING" ELSE "UP",
   repair_status |-> "NONE", phase |-> 1, isactive |-> always_active,
   emit_fail |-> initially_failed, emit_online |-> FALSE,
   emit_inspect |-> initially_failed, can_definitely_fail |-> FALSE]

Init == gate = Initial

Impossible == [gate EXCEPT !.status = "IMPOSSIBLE"]
Terminated == [gate EXCEPT !.status = "TERMINATED"]

-----------------------------------------------------------------------------
\* The end of a repair is news for the repair unit, if there is one.
Told == IF independent_repair THEN "NONE" ELSE "DONE"

\* add_transition: a repair that is asked for or busy in the first phase is
\* over at once.
Settle(target) ==
  LET early == target.phase = 1 /\ target.repair_status \in {"NEEDED", "BUSY"}
      over  == early \/ target.repair_status = "DONE"
  IN  [target EXCEPT
         !.status = IF early /\ (target.emit_inspect \/ ~repairable)
                    THEN "IMPOSSIBLE" ELSE @,
         !.repair_status = IF over THEN Told ELSE @]

When(guard, labels, target) ==
  {<<l, Settle(target)>> : l \in {m \in labels : guard}}

\* Wrong: only an event without a repair unit asks for repair.
AskIndependentOnly == IF independent_repair THEN "BUSY" ELSE "NONE"

AskRepair == IF independent_repair THEN "BUSY" ELSE "NEEDED"

(* Rates.  Kinds 1 and 3 are those of a dormant event, 2 and 4 of an active
   one.  The phase-0 rate is that of failing safely, and of failing once that
   is no longer possible. *)

can_failsig == gate.status = "UP" /\ (gate.isactive \/ ~cold)

Rates(dormant, active) ==
  LET kind == IF gate.isactive THEN active ELSE dormant
  IN  {RATE_FAIL(gate.phase, kind)} \cup
      (IF gate.can_definitely_fail /\ gate.phase = 1
       THEN {RATE_FAIL(0, kind)} ELSE {})

\* Wrong: off by one.
FailingLate == gate.phase > phases

Failing == gate.phase = phases

Degrade ==
  When(can_failsig, Rates(1, 2),
    [gate EXCEPT
       !.can_definitely_fail = TRUE,
       !.emit_fail = @ \/ Failing,
       !.status = IF Failing THEN "DOWN" ELSE @,
       !.repair_status = IF /\ Failing /\ repairable /\ self_repair
                            /\ @ = "NONE"
                         THEN AskRepair ELSE @,
       !.emit_inspect = @ \/ gate.phase = threshold,
       !.phase = @ + 1])

Restore ==
  When(can_failsig, Rates(3, 4),
       [gate EXCEPT !.can_definitely_fail = TRUE, !.phase = 1])

FailSafe ==
  When(can_failsig /\ gate.phase = 1 /\ ~gate.can_definitely_fail,
       {RATE_FAIL(0, k) : k \in IF gate.isactive THEN {2, 4} ELSE {1, 3}},
       [gate EXCEPT !.status = "FAILSAFE"])

\* Wrong: the status is reset before it is tested, so nobody is told.
RepairedSilently ==
  When(gate.repair_status = "BUSY", {RATE_REPAIR},
       [gate EXCEPT !.phase = 1, !.repair_status = "DONE", !.status = "UP"])

\* Wrong: the status is not reset.
RepairedInVain ==
  When(gate.repair_status = "BUSY", {RATE_REPAIR},
       [gate EXCEPT !.phase = 1, !.repair_status = "DONE",
                    !.emit_online = @ \/ gate.status = "DOWN"])

Repaired ==
  When(gate.repair_status = "BUSY", {RATE_REPAIR},
    [gate EXCEPT
       !.phase = 1,
       !.repair_status = "DONE",
       !.emit_online = @ \/ gate.status = "DOWN",
       !.status = IF gate.emit_inspect THEN "IMPOSSIBLE"
                  ELSE IF @ = "FAILSAFE" THEN @ ELSE "UP"])

(* Outputs. *)

AnnounceInspect ==
  When(gate.emit_inspect, {INSPECT(0)}, [gate EXCEPT !.emit_inspect = FALSE])

AnnounceFail ==
  When(gate.emit_fail, {FAIL(0)}, [gate EXCEPT !.emit_fail = FALSE])

AnnounceOnline ==
  When(~gate.emit_fail /\ gate.emit_online, {ONLINE(0)},
       [gate EXCEPT !.emit_online = FALSE])

RequestRepair ==
  When(gate.repair_status = "NEEDED", {REPAIR_CMD(TRUE)},
       [gate EXCEPT !.repair_status = "WAITING"])

ReportRepaired ==
  When(gate.repair_status = "DONE", {REPAIRED(0)},
       [gate EXCEPT !.repair_status = "NONE"])

(* Inputs. *)

Activated ==
  When(TRUE, {ACTIVATE(0, FALSE)}, [gate EXCEPT !.isactive = TRUE])

Deactivated ==
  When(TRUE, {DEACTIVATE(0, FALSE)},
       IF always_active THEN Impossible
       ELSE [gate EXCEPT !.isactive = FALSE])

RepairCommand ==
  When(TRUE, {REPAIR_CMD(FALSE)},
       [gate EXCEPT
          !.status = IF repairable THEN @ ELSE "IMPOSSIBLE",
          !.repair_status = IF @ = "NONE" THEN AskRepair ELSE @])

RepairStarts ==
  When(TRUE, {REPAIRING(0)},
       IF gate.repair_status = "WAITING"
       THEN [gate EXCEPT !.repair_status = "BUSY"]
       ELSE Impossible)

Live == gate.status \notin {"IMPOSSIBLE", "TERMINATED"}

\* The outgoing transitions of the current state.
Trans ==
  CASE gate.status = "TERMINATED" -> {}
    [] gate.status = "IMPOSSIBLE" -> {<<IMPOSSIBLE, Terminated>>}
    [] OTHER -> Degrade \cup Restore \cup FailSafe \cup Repaired
                  \cup AnnounceInspect \cup AnnounceFail \cup AnnounceOnline
                  \cup RequestRepair \cup ReportRepaired
                  \cup Activated \cup Deactivated
                  \cup RepairCommand \cup RepairStarts
==============================================================================
