---------------------------- MODULE BasicEventEnv ----------------------------
(***************************************************************************)
(* A basic event among parents, repair units and inspections that send it  *)
(* any command at any time and accept everything it sends.  Rates elapse   *)
(* only when it has nothing to send (maximal progress).                    *)
(***************************************************************************)
EXTENDS BasicEvent

VARIABLE heard    \* the parents last heard FAIL rather than ONLINE

vars == <<gate, heard>>

Take(T) == \E t \in T : gate' = t[2]

EnvInit == Init /\ heard = FALSE

Outputs == AnnounceInspect \cup AnnounceFail \cup AnnounceOnline
             \cup RequestRepair \cup ReportRepaired
Quiet == ~Live \/ Outputs = {}

SendFail   == Live /\ Take(AnnounceFail) /\ heard' = TRUE
SendOnline == Live /\ Take(AnnounceOnline) /\ heard' = FALSE
SendOther  == /\ Live
              /\ Take(AnnounceInspect \cup RequestRepair \cup ReportRepaired)
              /\ UNCHANGED heard
Elapse     == /\ Live /\ Quiet
              /\ Take(Degrade \cup Restore \cup FailSafe) /\ UNCHANGED heard
FinishRepair == Live /\ Quiet /\ Take(Repaired) /\ UNCHANGED heard
StartRepair  == Live /\ Take(RepairStarts) /\ UNCHANGED heard
Receive    == /\ Live
              /\ Take(Activated \cup Deactivated \cup RepairCommand)
              /\ UNCHANGED heard
ReportError == /\ gate.status = "IMPOSSIBLE"
               /\ gate' = Terminated /\ UNCHANGED heard

EnvNext == \/ SendFail \/ SendOnline \/ SendOther
           \/ Elapse \/ FinishRepair \/ StartRepair
           \/ Receive \/ ReportError

EnvSpec == EnvInit /\ [][EnvNext]_vars

\* Outputs are immediate, and a repair that started ends with probability 1.
FairSpec == /\ EnvSpec
            /\ WF_vars(SendFail) /\ WF_vars(SendOnline) /\ WF_vars(SendOther)
            /\ WF_vars(FinishRepair)

-----------------------------------------------------------------------------
(* The types of the state's fields (be.h). *)
Gates ==
  [status : {"UP", "FAILING", "DOWN", "FAILSAFE", "IMPOSSIBLE", "TERMINATED"},
   repair_status : {"NONE", "BUSY", "NEEDED", "WAITING", "DONE"},
   phase : 1..phases + 1, isactive : BOOLEAN,
   emit_fail : BOOLEAN, emit_online : BOOLEAN,
   emit_inspect : BOOLEAN, can_definitely_fail : BOOLEAN]
TypeOK == gate \in Gates /\ heard \in BOOLEAN

\* What the parents believe is the state of the event, or the message that
\* corrects it is pending; and never both messages, whose order is fixed.
ParentsInformed ==
  Live => /\ gate.status \in {"DOWN", "FAILING"} =>
               (heard \/ gate.emit_fail) /\ ~gate.emit_online
          /\ gate.status \in {"UP", "FAILSAFE"} =>
               (~heard \/ gate.emit_online) /\ ~gate.emit_fail

\* A failure of an event that repairs itself is never left without a repair
\* under way, whatever repairs were commanded before it.
NoForgottenRepair ==
  gate.status = "DOWN" /\ repairable /\ self_repair =>
    gate.repair_status # "NONE"

\* What these rest on: an event that works has a phase left, one that has failed
\* is past its phases or was failed by evidence in the first, and a repair under
\* way is of an event that has degraded.
PhaseFits ==
  /\ gate.status \in {"UP", "FAILSAFE"} => gate.phase <= phases
  /\ gate.status = "FAILING" => gate.phase = 1
  /\ gate.status = "DOWN" => gate.phase > 1 /\ gate.repair_status # "DONE"
  /\ Live /\ gate.repair_status \in {"NEEDED", "BUSY"} => gate.phase > 1

\* The inductive invariant.
IInv == TypeOK /\ ParentsInformed /\ NoForgottenRepair /\ PhaseFits

\* A failed event that needs nobody's permission comes back, unless the
\* composition breaks down.
ComesBack ==
  gate.status = "DOWN" /\ gate.repair_status = "BUSY" ~> gate.status # "DOWN"
==============================================================================
