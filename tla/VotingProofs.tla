----------------------------- MODULE VotingProofs -----------------------------
(***************************************************************************)
(* The voting automaton, for every number of children and threshold: its   *)
(* counter is exact, no failure is lost or announced late, and the         *)
(* activated children form a prefix.  The inductive invariant is IInv of   *)
(* Voting, the conjunction of all of them: that no failure is lost needs   *)
(* the counter, and each part needs the types.                             *)
(***************************************************************************)
EXTENDS Voting, FiniteSetTheorems, TLAPS

\* Setting the flag of a child raises the number of children set by one, and
\* clearing it lowers it; the code moves a counter along with the flags.
LEMMA FlagCounts ==
  ASSUME NEW S \in SUBSET Children, NEW i \in Children
  PROVE  /\ Cardinality(S) \in Nat
         /\ i \notin S => Cardinality(S \cup {i}) = Cardinality(S) + 1
         /\ i \in S => /\ Cardinality(S \ {i}) = Cardinality(S) - 1
                      /\ Cardinality(S) - 1 \in Nat
<1>1. IsFiniteSet(Children)
  BY VotingAssumption, FS_Interval, 1 \in Int, total \in Int DEF Children
<1>2. IsFiniteSet(S) /\ Cardinality(S) \in Nat
  BY <1>1, FS_Subset, FS_CardinalityType
<1>3. ASSUME i \notin S  PROVE  Cardinality(S \cup {i}) = Cardinality(S) + 1
  BY <1>2, <1>3, FS_AddElement
<1>4. ASSUME i \in S
      PROVE  Cardinality(S \ {i}) = Cardinality(S) - 1 /\ Cardinality(S) # 0
  BY <1>2, <1>4, FS_RemoveElement, FS_EmptySet
<1>5. QED  BY <1>2, <1>3, <1>4

\* Taking an offered transition needs its condition and leads to its target.
LEMMA TakeOffer ==
  \A guard, label, target :
    Take(Offer(guard, label, target)) => guard /\ gate' = target
  BY DEF Take, Offer

\* The constructor (voting.h) establishes the invariant.
LEMMA InitIInv == Init => IInv
  BY VotingAssumption, FS_EmptySet
     DEF Init, Initial, IInv, TypeOK, CountIsExact, NoLostFailure,
         NoStaleAlarm, ActivatedIsPrefix, Children

\* FAIL from a child: the counter passes the threshold only by reaching it.
LEMMA RecvFailIInv == IInv /\ RecvFail => IInv'
<1> SUFFICES ASSUME IInv, RecvFail PROVE IInv'
  OBVIOUS
<1> USE VotingAssumption DEF IInv, Children
<1>1. PICK i \in Children : gate' = AfterFail(i)
  BY DEF RecvFail, Take, ChildFails
<1>2. CASE i \in gate.received
  BY <1>1, <1>2 DEF AfterFail, TypeOK, CountIsExact, NoLostFailure,
                    NoStaleAlarm, ActivatedIsPrefix
<1>3. CASE i \notin gate.received
  <2> DEFINE emit == gate.emit_fail \/ (gate.nr_failed + 1 = threshold /\ ~gate.done)
  <2>1. gate' = [gate EXCEPT !.received = gate.received \cup {i},
                             !.nr_failed = gate.nr_failed + 1,
                             !.emit_fail = emit]
    BY <1>1, <1>3 DEF AfterFail, TypeOK
  <2>2. /\ gate'.received = gate.received \cup {i}
        /\ gate'.nr_failed = gate.nr_failed + 1
        /\ gate'.emit_fail = emit
        /\ gate'.done = gate.done
        /\ gate'.activated = gate.activated
    BY <2>1 DEF TypeOK
  <2>3. TypeOK'
    <3>1. emit \in BOOLEAN  BY DEF TypeOK
    <3>2. gate.received \cup {i} \in SUBSET Children  BY DEF TypeOK
    <3>3. gate.nr_failed + 1 \in Nat  BY DEF TypeOK
    <3> HIDE DEF emit
    <3>4. QED  BY <2>1, <3>1, <3>2, <3>3 DEF TypeOK
  <2>4. CountIsExact'
    BY <1>3, <2>2, FlagCounts DEF CountIsExact, TypeOK
  <2>5. NoLostFailure' /\ NoStaleAlarm'
    <3>1. gate'.emit_fail <=> emit
      BY <2>2
    <3>2. NoStaleAlarm'
      BY <2>2, <3>1 DEF NoStaleAlarm
    <3>3. gate.nr_failed + 1 >= threshold => emit \/ gate.done
      BY DEF NoLostFailure, TypeOK
    <3> HIDE DEF emit
    <3>4. NoLostFailure'
      BY <2>2, <3>1, <3>3 DEF NoLostFailure
    <3>5. QED  BY <3>2, <3>4
  <2>6. ActivatedIsPrefix'
    BY <2>2 DEF ActivatedIsPrefix
  <2>7. QED  BY <2>3, <2>4, <2>5, <2>6
<1>4. QED  BY <1>2, <1>3

\* ONLINE from a child lowers the counter, which was not zero.
LEMMA RecvOnlineIInv == IInv /\ RecvOnline => IInv'
<1> SUFFICES ASSUME IInv, RecvOnline PROVE IInv'
  OBVIOUS
<1> USE VotingAssumption DEF IInv, Children
<1>1. PICK i \in Children : gate' = AfterOnline(i)
  BY DEF RecvOnline, Take, ChildOnline
<1>2. CASE i \notin gate.received
  BY <1>1, <1>2 DEF AfterOnline, Impossible, TypeOK, CountIsExact,
                    NoLostFailure, NoStaleAlarm, ActivatedIsPrefix
<1>3. CASE i \in gate.received
  <2>1. gate' = [gate EXCEPT !.received = gate.received \ {i},
                             !.nr_failed = gate.nr_failed - 1]
    BY <1>1, <1>3 DEF AfterOnline, TypeOK
  <2>2. /\ Cardinality(gate.received \ {i}) = Cardinality(gate.received) - 1
        /\ gate.nr_failed - 1 \in Nat
    BY <1>3, FlagCounts DEF TypeOK, CountIsExact
  <2>3. /\ TypeOK'
        /\ gate'.received = gate.received \ {i}
        /\ gate'.nr_failed = gate.nr_failed - 1
        /\ gate'.emit_fail = gate.emit_fail
        /\ gate'.done = gate.done
        /\ gate'.activated = gate.activated
    <3>1. gate.received \ {i} \in SUBSET Children  BY DEF TypeOK
    <3>2. QED  BY <2>1, <2>2, <3>1 DEF TypeOK
  <2>4. CountIsExact'
    BY <2>2, <2>3 DEF CountIsExact
  <2>5. NoLostFailure'
    <3>1. gate.nr_failed - 1 >= threshold => gate.nr_failed >= threshold
      BY DEF TypeOK
    <3>2. QED  BY <2>3, <3>1 DEF NoLostFailure
  <2>6. NoStaleAlarm' /\ ActivatedIsPrefix'
    BY <2>3 DEF NoStaleAlarm, ActivatedIsPrefix
  <2>7. QED  BY <2>3, <2>4, <2>5, <2>6
<1>4. QED  BY <1>2, <1>3

\* The activated children grow at the first gap and shrink at the last one.
LEMMA SendActivationIInv ==
  IInv /\ (SendActivate \/ SendDeactivate) => IInv'
<1> SUFFICES ASSUME IInv, SendActivate \/ SendDeactivate PROVE IInv'
  OBVIOUS
<1> USE VotingAssumption DEF IInv, Children
<1>1. CASE SendActivate
  <2>1. PICK i \in ToActivate :
          gate' = [gate EXCEPT !.activated = gate.activated \cup {i}]
    <3>1. PICK t \in ActivateChild : gate' = t[2]
      BY <1>1 DEF SendActivate, Take
    <3>2. PICK i \in ToActivate :
            t = <<ACTIVATE(i, TRUE),
                  [gate EXCEPT !.activated = gate.activated \cup {i}]>>
      BY <3>1 DEF ActivateChild
    <3>3. QED  BY <3>1, <3>2
  <2>2. /\ i \in Children
        /\ \A j \in Children : j < i => j \in gate.activated
    BY DEF ToActivate
  <2>3. QED
    BY <2>1, <2>2 DEF TypeOK, CountIsExact, NoLostFailure, NoStaleAlarm,
                      ActivatedIsPrefix
<1>2. CASE SendDeactivate
  <2>1. PICK i \in ToDeactivate :
          gate' = [gate EXCEPT !.activated = gate.activated \ {i}]
    <3>1. PICK t \in DeactivateChild : gate' = t[2]
      BY <1>2 DEF SendDeactivate, Take
    <3>2. PICK i \in ToDeactivate :
            t = <<DEACTIVATE(i, TRUE),
                  [gate EXCEPT !.activated = gate.activated \ {i}]>>
      BY <3>1 DEF DeactivateChild
    <3>3. QED  BY <3>1, <3>2
  <2>2. \A j \in gate.activated : j <= i
    BY DEF ToDeactivate
  <2>3. QED
    BY <2>1, <2>2 DEF TypeOK, CountIsExact, NoLostFailure, NoStaleAlarm,
                      ActivatedIsPrefix, ToDeactivate
<1>3. QED  BY <1>1, <1>2

\* The remaining steps change only the announcement or the activation.
LEMMA OtherStepsIInv ==
  /\ IInv
  /\ \/ SendFail \/ SendOnline \/ RecvActivate \/ RecvDeactivate
     \/ ReportError
  => IInv'
<1> SUFFICES ASSUME IInv,
                    \/ SendFail \/ SendOnline \/ RecvActivate
                    \/ RecvDeactivate \/ ReportError
             PROVE  IInv'
  OBVIOUS
<1> USE VotingAssumption DEF IInv
<1>1. CASE SendFail
  <2>1. gate' = [gate EXCEPT !.done = TRUE, !.emit_fail = FALSE]
    BY <1>1, TakeOffer DEF SendFail, AnnounceFail
  <2>2. /\ TypeOK'
        /\ gate'.done
        /\ ~gate'.emit_fail
        /\ gate'.nr_failed = gate.nr_failed
        /\ gate'.received = gate.received
        /\ gate'.activated = gate.activated
    BY <2>1 DEF TypeOK
  <2>3. CountIsExact' /\ ActivatedIsPrefix'
    BY <2>2 DEF CountIsExact, ActivatedIsPrefix
  <2>4. NoLostFailure' /\ NoStaleAlarm'
    BY <2>2 DEF NoLostFailure, NoStaleAlarm
  <2>5. QED  BY <2>2, <2>3, <2>4
<1>2. CASE SendOnline
  <2>1. /\ gate.nr_failed < threshold
        /\ gate' = [gate EXCEPT !.done = FALSE]
    BY <1>2, TakeOffer DEF SendOnline, AnnounceOnline
  <2>2. /\ TypeOK'
        /\ ~gate'.done
        /\ gate'.nr_failed = gate.nr_failed
        /\ gate'.received = gate.received
        /\ gate'.activated = gate.activated
    BY <2>1 DEF TypeOK
  <2>3. CountIsExact' /\ ActivatedIsPrefix'
    BY <2>2 DEF CountIsExact, ActivatedIsPrefix
  <2>4. ~(gate'.nr_failed >= threshold)
    BY <2>1, <2>2 DEF TypeOK
  <2>5. NoLostFailure' /\ NoStaleAlarm'
    BY <2>2, <2>4 DEF NoLostFailure, NoStaleAlarm
  <2>6. QED  BY <2>2, <2>3, <2>5
<1>3. CASE RecvActivate
  <2>1. gate' = [gate EXCEPT !.running = TRUE]
    BY <1>3, TakeOffer DEF RecvActivate, Activated
  <2>2. QED
    BY <2>1 DEF TypeOK, CountIsExact, NoLostFailure, NoStaleAlarm,
                ActivatedIsPrefix
<1>4. CASE RecvDeactivate
  <2>1. gate' = IF always_active THEN Impossible
                ELSE [gate EXCEPT !.running = FALSE]
    BY <1>4 DEF RecvDeactivate, Deactivated, Take
  <2>2. CASE always_active
    BY <2>1, <2>2 DEF Impossible, TypeOK, CountIsExact, NoLostFailure,
                      NoStaleAlarm, ActivatedIsPrefix
  <2>3. CASE ~always_active
    BY <2>1, <2>3 DEF TypeOK, CountIsExact, NoLostFailure, NoStaleAlarm,
                      ActivatedIsPrefix
  <2>4. QED  BY <2>2, <2>3
<1>5. CASE ReportError
  BY <1>5 DEF ReportError, Terminated, TypeOK, CountIsExact, NoLostFailure,
              NoStaleAlarm, ActivatedIsPrefix
<1>6. QED  BY <1>1, <1>2, <1>3, <1>4, <1>5

\* In every reachable state of a voting gate the parts of IInv hold.
THEOREM VotingInvariant == Spec => []IInv
<1>1. Init => IInv  BY InitIInv
<1>2. IInv /\ [Next]_vars => IInv'
  <2>1. IInv /\ UNCHANGED vars => IInv'
    BY DEF vars, IInv, TypeOK, CountIsExact, NoLostFailure, NoStaleAlarm,
           ActivatedIsPrefix
  <2>2. QED
    BY <2>1, RecvFailIInv, RecvOnlineIInv, SendActivationIInv,
       OtherStepsIInv DEF Next
<1>3. QED  BY <1>1, <1>2, PTL DEF Spec

\* However FAIL, ONLINE and the gate's own announcements interleave, a gate
\* whose threshold is reached has announced it or is about to.
THEOREM FailureIsNeverLost == Spec => []NoLostFailure
<1>1. IInv => NoLostFailure  BY DEF IInv
<1>2. QED  BY <1>1, VotingInvariant, PTL

\* The state of a voting gate is of its types, for any number of children.
THEOREM VotingTypes == Spec => []TypeOK
<1>1. IInv => TypeOK  BY DEF IInv
<1>2. QED  BY <1>1, VotingInvariant, PTL

\* The counter of failed children never drifts from the received vector,
\* however often a child repeats FAIL.
THEOREM VotingCounts == Spec => []CountIsExact
<1>1. IInv => CountIsExact  BY DEF IInv
<1>2. QED  BY <1>1, VotingInvariant, PTL

\* A gate that has announced its failure holds no second FAIL back.
THEOREM AlarmIsNeverStale == Spec => []NoStaleAlarm
<1>1. IInv => NoStaleAlarm  BY DEF IInv
<1>2. QED  BY <1>1, VotingInvariant, PTL

\* The activated children are always the first ones.
THEOREM ActivationIsPrefix == Spec => []ActivatedIsPrefix
<1>1. IInv => ActivatedIsPrefix  BY DEF IInv
<1>2. QED  BY <1>1, VotingInvariant, PTL
==============================================================================
