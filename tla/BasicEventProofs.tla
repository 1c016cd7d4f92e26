--------------------------- MODULE BasicEventProofs ---------------------------
(***************************************************************************)
(* The basic event, for any number of phases, with or without repair, with *)
(* and without a repair unit, failed by evidence or not: its parents are   *)
(* told the truth and no failure is left without its repair.  The          *)
(* inductive invariant is IInv of BasicEventEnv.  Every handler hands a    *)
(* target to add_transition, which settles it; so a target only has to be  *)
(* Ready, and SettledIInv says what becomes of it.                         *)
(***************************************************************************)
EXTENDS BasicEventEnv, TLAPS

\* What a handler must ensure of its target t, with h what the parents heard.
Ready(t, h) ==
  /\ t \in Gates /\ h \in BOOLEAN
  /\ t.status \in {"DOWN", "FAILING"} => (h \/ t.emit_fail) /\ ~t.emit_online
  /\ t.status \in {"UP", "FAILSAFE"} =>
       (~h \/ t.emit_online) /\ ~t.emit_fail /\ t.phase <= phases
  /\ t.status = "FAILING" => t.phase = 1
  /\ t.status = "DOWN" =>
       /\ t.phase > 1 /\ t.repair_status # "DONE"
       /\ repairable /\ self_repair => t.repair_status # "NONE"

\* Taking an offered transition needs its condition and settles its target.
LEMMA TakeWhen ==
  ASSUME NEW guard, NEW labels, NEW target, Take(When(guard, labels, target))
  PROVE  guard /\ gate' = Settle(target)
  BY DEF Take, When

\* add_transition ends a repair in the first phase, and leaves the rest alone.
LEMMA SettleEffect ==
  ASSUME NEW t \in Gates
  PROVE  /\ Settle(t) \in Gates
         /\ Settle(t).phase = t.phase
         /\ Settle(t).emit_fail = t.emit_fail
         /\ Settle(t).emit_online = t.emit_online
         /\ Settle(t).status \in {t.status, "IMPOSSIBLE"}
         /\ t.phase # 1 /\ t.repair_status # "DONE" =>
              Settle(t).repair_status = t.repair_status
         /\ Settle(t).repair_status \in {"NEEDED", "BUSY"} => t.phase # 1
<1> DEFINE early == t.phase = 1 /\ t.repair_status \in {"NEEDED", "BUSY"}
           over  == early \/ t.repair_status = "DONE"
           s     == IF early /\ (t.emit_inspect \/ ~repairable)
                    THEN "IMPOSSIBLE" ELSE t.status
           r     == IF over THEN Told ELSE t.repair_status
<1>1. Settle(t) = [t EXCEPT !.status = s, !.repair_status = r]
  BY Zenon DEF Settle
<1>2. s \in {t.status, "IMPOSSIBLE"}
  OBVIOUS
<1>3. Told \in {"NONE", "DONE"}
  BY DEF Told
<1>4. /\ r \in {"NONE", "DONE", t.repair_status}
      /\ ~over => r = t.repair_status
      /\ over => r \in {"NONE", "DONE"}
  BY <1>3
<1> HIDE DEF s, r
<1>5. /\ s \in {"UP", "FAILING", "DOWN", "FAILSAFE", "IMPOSSIBLE",
               "TERMINATED"}
      /\ r \in {"NONE", "BUSY", "NEEDED", "WAITING", "DONE"}
  BY <1>2, <1>4 DEF Gates
<1>6. /\ Settle(t).status = s /\ Settle(t).repair_status = r
      /\ Settle(t).phase = t.phase /\ Settle(t).emit_fail = t.emit_fail
      /\ Settle(t).emit_online = t.emit_online
  BY <1>1, Zenon DEF Gates
<1>7. Settle(t) \in Gates
  BY <1>1, <1>5, Zenon DEF Gates
<1>8. QED  BY <1>2, <1>4, <1>6, <1>7

\* A target that is ready is a good state once it is settled.
LEMMA SettledIInv ==
  ASSUME NEW t, Ready(t, heard'), gate' = Settle(t)
  PROVE  IInv'
<1>1. t \in Gates /\ t.phase \in 1..phases + 1
  BY DEF Ready, Gates
<1>2. TypeOK'
  BY <1>1, SettleEffect DEF TypeOK, Ready
<1>3. ParentsInformed'
  BY <1>1, SettleEffect DEF ParentsInformed, Ready, Live
<1>4. NoForgottenRepair'
  BY <1>1, SettleEffect, BasicEventAssumption DEF NoForgottenRepair, Ready
<1>5. PhaseFits'
  BY <1>1, SettleEffect, BasicEventAssumption DEF PhaseFits, Ready, Live
<1>6. QED  BY <1>2, <1>3, <1>4, <1>5 DEF IInv

\* A live state of the invariant is ready itself.
LEMMA StateIsReady ==
  ASSUME IInv, Live  PROVE  Ready(gate, heard)
  BY DEF IInv, TypeOK, ParentsInformed, NoForgottenRepair, PhaseFits, Ready,
         Live

-----------------------------------------------------------------------------
(* One lemma per handler: what it settles is ready. *)

Lands(h) == \E t : Ready(t, h) /\ gate' = Settle(t)

LEMMA LandsIInv ==
  ASSUME Lands(heard')  PROVE  IInv'
  BY SettledIInv DEF Lands

\* No handler offers a transition under a false condition.
LEMMA WhenEmpty ==
  ASSUME NEW guard, NEW label, NEW target, When(guard, {label}, target) = {}
  PROVE  ~guard
  BY DEF When

\* With nothing to send, nothing is pending.
LEMMA QuietMeans ==
  ASSUME IInv, Live, Quiet
  PROVE  /\ ~gate.emit_fail /\ ~gate.emit_online /\ ~gate.emit_inspect
         /\ gate.repair_status \notin {"NEEDED", "DONE"}
<1>1. /\ AnnounceInspect = {} /\ AnnounceFail = {} /\ AnnounceOnline = {}
      /\ RequestRepair = {} /\ ReportRepaired = {}
  BY DEF Quiet, Outputs
<1>2. ~gate.emit_inspect
  BY <1>1, WhenEmpty, Zenon DEF AnnounceInspect
<1>3. ~gate.emit_fail
  BY <1>1, WhenEmpty, Zenon DEF AnnounceFail
<1>4. ~(~gate.emit_fail /\ gate.emit_online)
  BY <1>1, WhenEmpty, Zenon DEF AnnounceOnline
<1>5. ~(gate.repair_status = "NEEDED")
  BY <1>1, WhenEmpty, Zenon DEF RequestRepair
<1>6. ~(gate.repair_status = "DONE")
  BY <1>1, WhenEmpty, Zenon DEF ReportRepaired
<1>7. QED  BY <1>2, <1>3, <1>4, <1>5, <1>6

\* The next phase: on the last one the event fails and asks for its repair.
LEMMA DegradeLands ==
  ASSUME IInv, Live, Quiet, Take(Degrade)
  PROVE  Lands(heard)
<1> DEFINE f == gate.emit_fail \/ Failing
           s == IF Failing THEN "DOWN" ELSE gate.status
           r == IF /\ Failing /\ repairable /\ self_repair
                   /\ gate.repair_status = "NONE"
                THEN AskRepair ELSE gate.repair_status
           i == gate.emit_inspect \/ gate.phase = threshold
           n == gate.phase + 1
           t == [gate EXCEPT !.can_definitely_fail = TRUE, !.emit_fail = f,
                             !.status = s, !.repair_status = r,
                             !.emit_inspect = i, !.phase = n]
<1>1. can_failsig /\ gate' = Settle(t)
  BY TakeWhen, Zenon DEF Degrade
<1>2. gate \in Gates /\ gate.status = "UP" /\ gate.phase \in 1..phases
      /\ heard \in BOOLEAN /\ ~heard
  BY <1>1, QuietMeans, BasicEventAssumption
     DEF IInv, TypeOK, Gates, PhaseFits, ParentsInformed, can_failsig, Live
<1>3. AskRepair \in {"BUSY", "NEEDED"}
  BY DEF AskRepair
<1>4. /\ f \in BOOLEAN /\ i \in BOOLEAN /\ n \in 1..phases + 1
      /\ s \in {"UP", "DOWN"}
      /\ r \in {"NONE", "BUSY", "NEEDED", "WAITING", "DONE"}
  BY <1>2, <1>3, BasicEventAssumption DEF Gates
<1>5. /\ s = "DOWN" => f /\ n > 1
      /\ s = "UP" => ~f /\ n <= phases
      /\ r # "DONE"
      /\ s = "DOWN" /\ repairable /\ self_repair => r # "NONE"
  BY <1>2, <1>3, QuietMeans, BasicEventAssumption DEF Failing
<1> HIDE DEF f, s, r, i, n
<1>6. t \in Gates
  BY <1>2, <1>4, Zenon DEF Gates
<1>7. /\ t.status = s /\ t.repair_status = r /\ t.phase = n
      /\ t.emit_fail = f /\ t.emit_online = gate.emit_online
  BY <1>2, Zenon DEF Gates
<1> HIDE DEF t
<1>8. Ready(t, heard)
  BY <1>2, <1>4, <1>5, <1>6, <1>7, QuietMeans DEF Ready
<1>9. QED  BY <1>1, <1>8 DEF Lands

\* Restoring a working event takes it back to the first phase.
LEMMA RestoreLands ==
  ASSUME IInv, Live, Take(Restore)
  PROVE  Lands(heard)
<1> DEFINE t == [gate EXCEPT !.can_definitely_fail = TRUE, !.phase = 1]
<1>1. can_failsig /\ gate' = Settle(t)
  BY TakeWhen, Zenon DEF Restore
<1>2. gate \in Gates /\ gate.status = "UP" /\ Ready(gate, heard)
  BY <1>1, StateIsReady DEF can_failsig, IInv, TypeOK
<1>3. 1 \in 1..phases + 1
  BY BasicEventAssumption
<1>4. t \in Gates
  BY <1>2, <1>3, Zenon DEF Gates
<1>5. /\ t.status = gate.status /\ t.repair_status = gate.repair_status
      /\ t.phase = 1 /\ t.emit_fail = gate.emit_fail
      /\ t.emit_online = gate.emit_online
  BY <1>2, Zenon DEF Gates
<1> HIDE DEF t
<1>6. Ready(t, heard)
  BY <1>2, <1>4, <1>5, BasicEventAssumption DEF Ready
<1>7. QED  BY <1>1, <1>6 DEF Lands

\* Failing safely changes nothing that the parents could see.
LEMMA FailSafeLands ==
  ASSUME IInv, Live, Take(FailSafe)
  PROVE  Lands(heard)
<1> DEFINE t == [gate EXCEPT !.status = "FAILSAFE"]
<1>1. can_failsig /\ gate' = Settle(t)
  BY TakeWhen, Zenon DEF FailSafe
<1>2. gate \in Gates /\ gate.status = "UP" /\ Ready(gate, heard)
  BY <1>1, StateIsReady DEF can_failsig, IInv, TypeOK
<1>3. Ready(t, heard)
  BY <1>2 DEF Ready, Gates
<1>4. QED  BY <1>1, <1>3 DEF Lands

\* The end of a repair brings the event back to its first phase, and the
\* parents will hear of it if they knew of the failure.
LEMMA RepairedLands ==
  ASSUME IInv, Live, Quiet, Take(Repaired)
  PROVE  Lands(heard)
<1> DEFINE o == gate.emit_online \/ gate.status = "DOWN"
           s == IF gate.emit_inspect THEN "IMPOSSIBLE"
                ELSE IF gate.status = "FAILSAFE" THEN gate.status ELSE "UP"
           t == [gate EXCEPT !.phase = 1, !.repair_status = "DONE",
                             !.emit_online = o, !.status = s]
<1>1. gate.repair_status = "BUSY" /\ gate' = Settle(t)
  <2>1. Repaired = When(gate.repair_status = "BUSY", {RATE_REPAIR}, t)
    BY Zenon DEF Repaired
  <2> HIDE DEF t
  <2>2. QED  BY <2>1, TakeWhen, Zenon
<1>2. gate \in Gates /\ Ready(gate, heard) /\ heard \in BOOLEAN
  BY StateIsReady DEF IInv, TypeOK
<1>3. gate.phase > 1 /\ gate.phase \in Nat /\ gate.status # "FAILING"
  BY <1>1, BasicEventAssumption DEF IInv, TypeOK, Gates, PhaseFits
<1>4. /\ o \in BOOLEAN /\ s \in {"UP", "FAILSAFE"} /\ 1 \in 1..phases + 1
      /\ ~heard \/ o
  BY <1>2, <1>3, QuietMeans, BasicEventAssumption
     DEF Gates, Ready, Live, IInv, TypeOK, ParentsInformed
<1> HIDE DEF o, s
<1>5. t \in Gates
  BY <1>2, <1>4, Zenon DEF Gates
<1>6. /\ t.status = s /\ t.phase = 1 /\ t.emit_online = o
      /\ t.emit_fail = gate.emit_fail
  BY <1>2, Zenon DEF Gates
<1> HIDE DEF t
<1>7. Ready(t, heard)
  BY <1>2, <1>4, <1>5, <1>6, QuietMeans, BasicEventAssumption DEF Ready
<1>8. QED  BY <1>1, <1>7 DEF Lands

\* The outputs: what is announced is what the parents then believe.
LEMMA AnnounceFailLands ==
  ASSUME IInv, Live, Take(AnnounceFail)
  PROVE  Lands(TRUE)
<1> DEFINE t == [gate EXCEPT !.emit_fail = FALSE]
<1>1. gate.emit_fail /\ gate' = Settle(t)
  BY TakeWhen, Zenon DEF AnnounceFail
<1>2. Ready(gate, heard)
  BY StateIsReady
<1>3. Ready(t, TRUE)
  BY <1>1, <1>2 DEF Ready, Gates
<1>4. QED  BY <1>1, <1>3 DEF Lands

LEMMA AnnounceOnlineLands ==
  ASSUME IInv, Live, Take(AnnounceOnline)
  PROVE  Lands(FALSE)
<1> DEFINE t == [gate EXCEPT !.emit_online = FALSE]
<1>1. gate.emit_online /\ gate' = Settle(t)
  BY TakeWhen, Zenon DEF AnnounceOnline
<1>2. Ready(gate, heard)
  BY StateIsReady
<1>3. Ready(t, FALSE)
  BY <1>1, <1>2 DEF Ready, Gates
<1>4. QED  BY <1>1, <1>3 DEF Lands

LEMMA OtherOutputsLand ==
  ASSUME IInv, Live,
         Take(AnnounceInspect \cup RequestRepair \cup ReportRepaired)
  PROVE  Lands(heard)
<1>1. Ready(gate, heard)
  BY StateIsReady
<1>2. CASE Take(AnnounceInspect)
  <2> DEFINE t == [gate EXCEPT !.emit_inspect = FALSE]
  <2>1. gate' = Settle(t)
    BY <1>2, TakeWhen, Zenon DEF AnnounceInspect
  <2>2. Ready(t, heard)
    BY <1>1 DEF Ready, Gates
  <2>3. QED  BY <2>1, <2>2 DEF Lands
<1>3. CASE Take(RequestRepair)
  <2> DEFINE t == [gate EXCEPT !.repair_status = "WAITING"]
  <2>1. gate' = Settle(t)
    <3>1. RequestRepair = When(gate.repair_status = "NEEDED", {REPAIR_CMD(TRUE)}, t)
      BY Zenon DEF RequestRepair
    <3> HIDE DEF t
    <3>2. QED  BY <1>3, <3>1, TakeWhen, Zenon
  <2>2. Ready(t, heard)
    BY <1>1 DEF Ready, Gates
  <2>3. QED  BY <2>1, <2>2 DEF Lands
<1>4. CASE Take(ReportRepaired)
  <2> DEFINE t == [gate EXCEPT !.repair_status = "NONE"]
  <2>1. gate.repair_status = "DONE" /\ gate' = Settle(t)
    BY <1>4, TakeWhen, Zenon DEF ReportRepaired
  <2>2. Ready(t, heard)
    <3>1. gate \in Gates /\ gate.status # "DOWN"
      BY <1>1, <2>1 DEF Ready
    <3>2. /\ t \in Gates /\ t.status = gate.status /\ t.phase = gate.phase
          /\ t.emit_fail = gate.emit_fail /\ t.emit_online = gate.emit_online
      BY <3>1 DEF Gates
    <3> HIDE DEF t
    <3>3. QED  BY <1>1, <3>1, <3>2 DEF Ready
  <2>3. QED  BY <2>1, <2>2 DEF Lands
<1>5. QED  BY <1>2, <1>3, <1>4 DEF Take

\* The inputs.  One that is impossible ends the model, the others leave what
\* the parents see alone.
LEMMA InputsLand ==
  ASSUME IInv, Live, Take(Activated \cup Deactivated \cup RepairCommand)
  PROVE  Lands(heard)
<1>1. Ready(gate, heard) /\ Ready(Impossible, heard)
  BY StateIsReady DEF Ready, Impossible, Gates
<1>2. CASE Take(Activated)
  <2> DEFINE t == [gate EXCEPT !.isactive = TRUE]
  <2>1. gate' = Settle(t)
    BY <1>2, TakeWhen, Zenon DEF Activated
  <2>2. Ready(t, heard)
    BY <1>1 DEF Ready, Gates
  <2>3. QED  BY <2>1, <2>2 DEF Lands
<1>3. CASE Take(Deactivated)
  <2> DEFINE t == IF always_active THEN Impossible
                  ELSE [gate EXCEPT !.isactive = FALSE]
  <2>1. gate' = Settle(t)
    <3>1. Deactivated = When(TRUE, {DEACTIVATE(0, FALSE)}, t)
      BY Zenon DEF Deactivated
    <3> HIDE DEF t
    <3>2. QED  BY <1>3, <3>1, TakeWhen, Zenon
  <2>2. CASE always_active
    BY <1>1, <2>1, <2>2 DEF Lands
  <2>3. CASE ~always_active
    <3> DEFINE r == [gate EXCEPT !.isactive = FALSE]
    <3>1. Ready(r, heard)
      <4>1. gate \in Gates
        BY <1>1 DEF Ready
      <4>2. /\ r \in Gates /\ r.status = gate.status /\ r.phase = gate.phase
            /\ r.emit_fail = gate.emit_fail /\ r.emit_online = gate.emit_online
            /\ r.repair_status = gate.repair_status
        BY <4>1 DEF Gates
      <4> HIDE DEF r
      <4>3. QED  BY <1>1, <4>2 DEF Ready
    <3>2. QED  BY <2>1, <2>3, <3>1 DEF Lands
  <2>4. QED  BY <2>2, <2>3
<1>4. CASE Take(RepairCommand)
  <2> DEFINE s == IF repairable THEN gate.status ELSE "IMPOSSIBLE"
             r == IF gate.repair_status = "NONE" THEN AskRepair
                  ELSE gate.repair_status
             t == [gate EXCEPT !.status = s, !.repair_status = r]
  <2>1. gate' = Settle(t)
    <3>1. RepairCommand = When(TRUE, {REPAIR_CMD(FALSE)}, t)
      BY Zenon DEF RepairCommand
    <3> HIDE DEF t
    <3>2. QED  BY <1>4, <3>1, TakeWhen, Zenon
  <2>2. /\ s \in {gate.status, "IMPOSSIBLE"}
        /\ r \in {"BUSY", "NEEDED", gate.repair_status} /\ r # "NONE"
    BY DEF AskRepair
  <2>3. gate \in Gates
    BY <1>1 DEF Ready
  <2> HIDE DEF s, r
  <2>4. /\ s \in {"UP", "FAILING", "DOWN", "FAILSAFE", "IMPOSSIBLE",
                 "TERMINATED"}
        /\ r \in {"NONE", "BUSY", "NEEDED", "WAITING", "DONE"}
    BY <2>2, <2>3 DEF Gates
  <2>5. t \in Gates
    BY <2>3, <2>4, Zenon DEF Gates
  <2>6. /\ t.status = s /\ t.repair_status = r /\ t.phase = gate.phase
        /\ t.emit_fail = gate.emit_fail /\ t.emit_online = gate.emit_online
    BY <2>3, Zenon DEF Gates
  <2> HIDE DEF t
  <2>7. Ready(t, heard)
    BY <1>1, <2>2, <2>5, <2>6 DEF Ready
  <2>8. QED  BY <2>1, <2>7 DEF Lands
<1>5. QED  BY <1>2, <1>3, <1>4 DEF Take

\* The repair unit starts the repair that was asked for, and no other.
LEMMA RepairStartsLands ==
  ASSUME IInv, Live, Take(RepairStarts)
  PROVE  Lands(heard)
<1> DEFINE t == IF gate.repair_status = "WAITING"
                THEN [gate EXCEPT !.repair_status = "BUSY"]
                ELSE Impossible
<1>1. gate' = Settle(t)
  <2>1. RepairStarts = When(TRUE, {REPAIRING(0)}, t)
    BY Zenon DEF RepairStarts
  <2> HIDE DEF t
  <2>2. QED  BY <2>1, TakeWhen, Zenon
<1>2. Ready(gate, heard)
  BY StateIsReady
<1>3. Ready([gate EXCEPT !.repair_status = "BUSY"], heard)
  BY <1>2 DEF Ready, Gates
<1>4. Ready(Impossible, heard)
  BY <1>2 DEF Ready, Gates, Impossible
<1>5. QED  BY <1>1, <1>3, <1>4 DEF Lands

-----------------------------------------------------------------------------
\* The inductive invariant holds in every state, whatever the parameters.
THEOREM BasicEventInvariant == EnvSpec => []IInv
<1>1. EnvInit => IInv
  <2> SUFFICES ASSUME EnvInit  PROVE IInv
    OBVIOUS
  <2>1. gate = Initial /\ heard = FALSE
    BY DEF EnvInit, Init
  <2>2. /\ phases \in Nat /\ 1 <= phases
        /\ initially_failed \in BOOLEAN /\ always_active \in BOOLEAN
    BY BasicEventAssumption
  <2>3. /\ gate.status = IF initially_failed THEN "FAILING" ELSE "UP"
        /\ gate.repair_status = "NONE" /\ gate.phase = 1
        /\ gate.emit_fail = initially_failed /\ gate.emit_online = FALSE
    BY <2>1 DEF Initial
  <2>4. TypeOK
    <3> DEFINE st == IF initially_failed THEN "FAILING" ELSE "UP"
    <3>1. st \in {"FAILING", "UP"} /\ 1 \in 1..phases + 1
      BY <2>2
    <3>2. Initial = [status |-> st, repair_status |-> "NONE", phase |-> 1,
                     isactive |-> always_active,
                     emit_fail |-> initially_failed, emit_online |-> FALSE,
                     emit_inspect |-> initially_failed,
                     can_definitely_fail |-> FALSE]
      BY DEF Initial
    <3> HIDE DEF st
    <3>3. Initial \in Gates
      BY <2>2, <3>1, <3>2, Zenon DEF Gates
    <3>4. QED  BY <2>1, <3>3 DEF TypeOK
  <2>5. ParentsInformed /\ NoForgottenRepair /\ PhaseFits
    <3>1. CASE initially_failed
      BY <2>1, <2>2, <2>3, <3>1
         DEF ParentsInformed, NoForgottenRepair, PhaseFits
    <3>2. CASE ~initially_failed
      BY <2>1, <2>2, <2>3, <3>2
         DEF ParentsInformed, NoForgottenRepair, PhaseFits
    <3>3. QED  BY <3>1, <3>2
  <2>6. QED  BY <2>4, <2>5 DEF IInv
<1>2. IInv /\ [EnvNext]_vars => IInv'
  <2> SUFFICES ASSUME IInv, [EnvNext]_vars  PROVE IInv'
    OBVIOUS
  <2>1. CASE SendFail
    BY <2>1, AnnounceFailLands, LandsIInv DEF SendFail
  <2>2. CASE SendOnline
    BY <2>2, AnnounceOnlineLands, LandsIInv DEF SendOnline
  <2>3. CASE SendOther
    BY <2>3, OtherOutputsLand, LandsIInv DEF SendOther
  <2>4. CASE Elapse
    <3>1. Take(Degrade) \/ Take(Restore) \/ Take(FailSafe)
      BY <2>4 DEF Elapse, Take
    <3>2. Lands(heard)
      BY <2>4, <3>1, DegradeLands, RestoreLands, FailSafeLands DEF Elapse
    <3>3. QED  BY <2>4, <3>2, LandsIInv DEF Elapse
  <2>5. CASE FinishRepair
    BY <2>5, RepairedLands, LandsIInv DEF FinishRepair
  <2>6. CASE StartRepair
    BY <2>6, RepairStartsLands, LandsIInv DEF StartRepair
  <2>7. CASE Receive
    BY <2>7, InputsLand, LandsIInv DEF Receive
  <2>8. CASE ReportError
    BY <2>8 DEF ReportError, Terminated, IInv, TypeOK, Gates, Live,
                ParentsInformed, NoForgottenRepair, PhaseFits
  <2>9. CASE UNCHANGED vars
    BY <2>9 DEF vars, IInv, TypeOK, Live, ParentsInformed,
                NoForgottenRepair, PhaseFits
  <2>10. QED
    BY <2>1, <2>2, <2>3, <2>4, <2>5, <2>6, <2>7, <2>8, <2>9 DEF EnvNext
<1>3. QED  BY <1>1, <1>2, PTL DEF EnvSpec

\* The state of a basic event is always one that be.h declares, with a phase
\* between the first and the one after the last.
THEOREM BasicEventTypes == EnvSpec => []TypeOK
<1>1. IInv => TypeOK  BY DEF IInv
<1>2. QED  BY <1>1, BasicEventInvariant, PTL

\* What the parents believe of an event is true or about to be corrected, for
\* any number of phases, rates that interleave with any commands, and events
\* failed by evidence.
THEOREM BasicEventInforms == EnvSpec => []ParentsInformed
<1>1. IInv => ParentsInformed  BY DEF IInv
<1>2. QED  BY <1>1, BasicEventInvariant, PTL

\* A failure of an event that repairs itself always has a repair under way.
THEOREM BasicEventRepairs == EnvSpec => []NoForgottenRepair
<1>1. IInv => NoForgottenRepair  BY DEF IInv
<1>2. QED  BY <1>1, BasicEventInvariant, PTL
==============================================================================
