------------------------------ MODULE PAndProofs ------------------------------
(***************************************************************************)
(* The priority-AND automaton, for every number of children: its type      *)
(* invariant, the meaning of in_order_mark, and that it implements         *)
(* OrderedAnd.  The inductive invariant is IInv of PAndOrder.              *)
(***************************************************************************)
EXTENDS PAndOrder, FiniteSetTheorems, TLAPS

\* Setting the flag of a child raises the number of children set by one, and
\* clearing it lowers it; the code moves a counter along with the flags.
LEMMA FlagCounts ==
  ASSUME NEW S \in SUBSET Children, NEW i \in Children
  PROVE  /\ Cardinality(S) \in Nat
         /\ i \notin S => Cardinality(S \cup {i}) = Cardinality(S) + 1
         /\ i \in S => /\ Cardinality(S \ {i}) = Cardinality(S) - 1
                      /\ Cardinality(S) - 1 \in Nat
<1>1. IsFiniteSet(Children)
  BY PAndAssumption, FS_Interval, 1 \in Int, total \in Int DEF Children
<1>2. IsFiniteSet(S) /\ Cardinality(S) \in Nat
  BY <1>1, FS_Subset, FS_CardinalityType
<1>3. ASSUME i \notin S  PROVE  Cardinality(S \cup {i}) = Cardinality(S) + 1
  BY <1>2, <1>3, FS_AddElement
<1>4. ASSUME i \in S
      PROVE  Cardinality(S \ {i}) = Cardinality(S) - 1 /\ Cardinality(S) # 0
  BY <1>2, <1>4, FS_RemoveElement, FS_EmptySet
<1>5. QED  BY <1>2, <1>3, <1>4

\* Taking an offered transition needs its condition and leads to its target.
LEMMA TakeOffer ==
  \A guard, label, target :
    Take(Offer(guard, label, target)) => guard /\ gate' = target
  BY DEF Take, Offer

\* The constructor (pand.h) establishes the inductive invariant.
LEMMA InitIInv == HInit => IInv
  BY PAndAssumption, FS_EmptySet
     DEF HInit, Init, Initial, IInv, TypeOK, CountIsExact, HistoryOK,
         MarkIsOrderedPrefix, Children

\* A child's FAIL preserves the inductive invariant: the mark moves only
\* over the child that fails, whose left neighbours all failed before it.
LEMMA RecvFailIInv ==
  ASSUME IInv, NEW i \in Children, HRecvFail(i)
  PROVE  IInv'
<1> USE PAndAssumption DEF IInv, Children
<1>1. CASE i \in gate.failed
  BY <1>1 DEF HRecvFail, RecvFail, AfterFail, TypeOK, CountIsExact,
              HistoryOK, MarkIsOrderedPrefix
<1>2. CASE i \notin gate.failed
  <2> DEFINE mark == gate.in_order_mark
             new  == IF i = mark + 1 THEN i ELSE mark
  <2>1. /\ gate' = [gate EXCEPT !.failed = gate.failed \cup {i},
                                !.nr_failed = gate.nr_failed + 1,
                                !.in_order_mark = new]
        /\ before' = before \cup (gate.failed \X {i})
    BY <1>2 DEF HRecvFail, RecvFail, AfterFail, TypeOK
  <2>2. /\ gate'.failed = gate.failed \cup {i}
        /\ gate'.nr_failed = gate.nr_failed + 1
        /\ gate'.in_order_mark = new
    BY <2>1 DEF TypeOK
  <2>3. TypeOK'
    <3>1. new \in 0..total  BY DEF TypeOK
    <3>2. gate.failed \cup {i} \in SUBSET Children  BY DEF TypeOK
    <3>3. gate.nr_failed + 1 \in Nat  BY DEF TypeOK
    <3> HIDE DEF new, mark
    <3>4. QED  BY <2>1, <3>1, <3>2, <3>3 DEF TypeOK
  <2>4. CountIsExact'
    BY <1>2, <2>2, FlagCounts DEF CountIsExact, TypeOK
  <2>5. HistoryOK'
    BY <1>2, <2>1, <2>2 DEF HistoryOK, TypeOK
  <2>6. MarkIsOrderedPrefix'
    <3>1. CASE i = mark + 1
      BY <1>2, <2>1, <2>2, <3>1 DEF MarkIsOrderedPrefix, HistoryOK, TypeOK
    <3>2. CASE i # mark + 1
      BY <1>2, <2>1, <2>2, <3>2 DEF MarkIsOrderedPrefix, HistoryOK, TypeOK
    <3>3. QED  BY <3>1, <3>2
  <2>7. QED  BY <2>3, <2>4, <2>5, <2>6
<1>3. QED  BY <1>1, <1>2

\* A child's ONLINE preserves the inductive invariant: the mark falls back
\* to the left of the recovered child, and failures to its right stay later
\* ones.
LEMMA RecvOnlineIInv ==
  ASSUME IInv, NEW i \in Children, HRecvOnline(i)
  PROVE  IInv'
<1> USE PAndAssumption DEF IInv, Children
<1>1. CASE i \notin gate.failed
  BY <1>1 DEF HRecvOnline, RecvOnline, AfterOnline, Impossible, TypeOK,
              CountIsExact, HistoryOK, MarkIsOrderedPrefix
<1>2. CASE i \in gate.failed
  <2> DEFINE mark == gate.in_order_mark
             new  == IF i <= mark THEN i - 1 ELSE mark
  <2>1. /\ gate' = [gate EXCEPT !.failed = gate.failed \ {i},
                                !.nr_failed = gate.nr_failed - 1,
                                !.in_order_mark = new]
        /\ before' = {p \in before : p[1] # i /\ p[2] # i}
    BY <1>2 DEF HRecvOnline, RecvOnline, AfterOnline, TypeOK, repairable
  <2>2. /\ gate'.failed = gate.failed \ {i}
        /\ gate'.nr_failed = gate.nr_failed - 1
        /\ gate'.in_order_mark = new
    BY <2>1 DEF TypeOK
  <2>3. TypeOK'
    <3>1. new \in 0..total  BY DEF TypeOK
    <3>2. gate.failed \ {i} \in SUBSET Children  BY DEF TypeOK
    <3>3. gate.nr_failed - 1 \in Nat
      BY <1>2, FlagCounts DEF TypeOK, CountIsExact
    <3> HIDE DEF new, mark
    <3>4. QED  BY <2>1, <3>1, <3>2, <3>3 DEF TypeOK
  <2>4. CountIsExact'
    BY <1>2, <2>2, FlagCounts DEF CountIsExact, TypeOK
  <2>5. HistoryOK'
    BY <1>2, <2>1, <2>2 DEF HistoryOK, TypeOK
  <2>6. MarkIsOrderedPrefix'
    BY <1>2, <2>1, <2>2 DEF MarkIsOrderedPrefix, HistoryOK, TypeOK
  <2>7. QED  BY <2>3, <2>4, <2>5, <2>6
<1>3. QED  BY <1>1, <1>2

\* The gate's own steps leave the failed children and the mark alone.
LEMMA OwnStepIInv == IInv /\ HOwnStep => IInv'
<1> SUFFICES ASSUME IInv, HOwnStep PROVE IInv'
  OBVIOUS
<1> USE PAndAssumption DEF HOwnStep, OwnStep, IInv, TypeOK
<1>1. /\ TypeOK'
      /\ gate'.failed = gate.failed
      /\ gate'.nr_failed = gate.nr_failed
      /\ gate'.in_order_mark = gate.in_order_mark
      /\ before' = before
  <2>1. CASE SendFail
    <3>1. gate' = [gate EXCEPT !.done = TRUE]
      BY <2>1, TakeOffer DEF SendFail, AnnounceFail
    <3>2. QED  BY <3>1
  <2>2. CASE SendOnline
    <3>1. gate' = [gate EXCEPT !.done = FALSE]
      BY <2>2, TakeOffer DEF SendOnline, AnnounceOnline
    <3>2. QED  BY <3>1
  <2>3. CASE RecvActivate
    BY <2>3 DEF RecvActivate, Activated, Take
  <2>4. CASE RecvDeactivate
    BY <2>4 DEF RecvDeactivate, Deactivated, Impossible, Take
  <2>5. CASE SendActivate
    <3>1. gate' = [gate EXCEPT !.nr_active = NextActive]
      BY <2>5, TakeOffer DEF SendActivate, ActivateChild
    <3>2. NextActive \in 0..total
      BY DEF NextActive
    <3>3. QED  BY <3>1, <3>2
  <2>6. CASE ReportError
    BY <2>6 DEF ReportError, Terminated
  <2>7. QED  BY <2>1, <2>2, <2>3, <2>4, <2>5, <2>6
<1>2. QED
  BY <1>1 DEF IInv, CountIsExact, HistoryOK, MarkIsOrderedPrefix

\* The mark, the counter and the failed vector agree in every reachable
\* state of a priority-AND with any number of children.
THEOREM MarkCorrect == HSpec => []IInv
<1>1. HInit => IInv  BY InitIInv
<1>2. IInv /\ [HNext]_vars => IInv'
  <2> SUFFICES ASSUME IInv, [HNext]_vars PROVE IInv'
    OBVIOUS
  <2>1. ASSUME NEW i \in Children, HRecvFail(i) PROVE IInv'
    BY <2>1, RecvFailIInv
  <2>2. ASSUME NEW i \in Children, HRecvOnline(i) PROVE IInv'
    BY <2>2, RecvOnlineIInv
  <2>3. CASE HOwnStep  BY <2>3, OwnStepIInv
  <2>4. CASE UNCHANGED vars
    BY <2>4 DEF vars, IInv, TypeOK, CountIsExact, HistoryOK, MarkIsOrderedPrefix
  <2>5. QED  BY <2>1, <2>2, <2>3, <2>4 DEF HNext
<1>3. QED  BY <1>1, <1>2, PTL DEF HSpec

\* In particular the mark is always the length of the longest prefix of
\* children that failed from left to right.
THEOREM MarkIsOrdered == HSpec => []MarkIsOrderedPrefix
<1>1. IInv => MarkIsOrderedPrefix  BY DEF IInv
<1>2. QED  BY <1>1, MarkCorrect, PTL

\* And the state is of its types.
THEOREM PAndTypes == HSpec => []TypeOK
<1>1. IInv => TypeOK  BY DEF IInv
<1>2. QED  BY <1>1, MarkCorrect, PTL

\* The mark reaches the end exactly when all children failed in order.
LEMMA MarkMeansInOrder ==
  IInv => (gate.in_order_mark = total <=> Promise!InOrder)
<1> SUFFICES ASSUME IInv PROVE gate.in_order_mark = total <=> Promise!InOrder
  OBVIOUS
<1> USE PAndAssumption
        DEF IInv, TypeOK, HistoryOK, MarkIsOrderedPrefix, Children,
            Promise!InOrder, Promise!Children
<1>1. ASSUME gate.in_order_mark = total PROVE Promise!InOrder
  BY <1>1
<1>2. ASSUME Promise!InOrder PROVE gate.in_order_mark = total
  <2> SUFFICES ASSUME gate.in_order_mark # total PROVE FALSE
    OBVIOUS
  <2> DEFINE next == gate.in_order_mark + 1
  <2>1. next \in 1..total /\ next \in gate.failed
    BY <1>2
  <2>2. PICK i \in 1..gate.in_order_mark : <<next, i>> \in before
    BY <2>1
  <2>3. <<i, next>> \in before
    BY <1>2, <2>1, <2>2
  <2>4. QED  BY <2>1, <2>2, <2>3
<1>3. QED  BY <1>1, <1>2

\* Every step of the automaton is a step of OrderedAnd or leaves its state
\* unchanged.
LEMMA StepImplements ==
  ASSUME IInv, [HNext]_vars
  PROVE  [Promise!Next]_(Promise!vars)
<1> USE DEF Promise!vars
<1>1. ASSUME NEW i \in Children, HRecvFail(i)
      PROVE  Promise!Fail(i) \/ UNCHANGED Promise!vars
  <2>1. CASE i \in gate.failed
    BY <1>1, <2>1 DEF HRecvFail, RecvFail, AfterFail
  <2>2. CASE i \notin gate.failed
    BY <1>1, <2>2
       DEF HRecvFail, RecvFail, AfterFail, Promise!Fail, IInv, TypeOK
  <2>3. QED  BY <2>1, <2>2
<1>2. ASSUME NEW i \in Children, HRecvOnline(i)
      PROVE  Promise!Recover(i) \/ UNCHANGED Promise!vars
  <2>1. CASE i \notin gate.failed
    BY <1>2, <2>1
       DEF HRecvOnline, RecvOnline, AfterOnline, Impossible, IInv, TypeOK
  <2>2. CASE i \in gate.failed
    BY <1>2, <2>2, PAndAssumption
       DEF HRecvOnline, RecvOnline, AfterOnline, repairable,
           Promise!Recover, IInv, TypeOK
  <2>3. QED  BY <2>1, <2>2
<1>3. ASSUME HOwnStep
      PROVE  \/ Promise!Announce \/ Promise!Withdraw
             \/ UNCHANGED Promise!vars
  <2> USE <1>3 DEF HOwnStep, OwnStep
  <2>1. CASE SendFail
    <3>1. /\ gate.in_order_mark = total /\ ~gate.done
          /\ gate' = [gate EXCEPT !.done = TRUE]
      BY <2>1, TakeOffer DEF SendFail, AnnounceFail
    <3>2. Promise!Announce
      BY <3>1, MarkMeansInOrder DEF Promise!Announce, IInv, TypeOK
    <3>3. QED  BY <3>2
  <2>2. CASE SendOnline
    <3>1. /\ gate.in_order_mark < total /\ gate.done
          /\ gate' = [gate EXCEPT !.done = FALSE]
      BY <2>2, TakeOffer DEF SendOnline, AnnounceOnline
    <3>2. gate.in_order_mark # total
      BY <3>1, PAndAssumption DEF IInv, TypeOK
    <3>3. Promise!Withdraw
      BY <3>1, <3>2, MarkMeansInOrder DEF Promise!Withdraw, IInv, TypeOK
    <3>4. QED  BY <3>3
  <2>3. CASE RecvActivate
    BY <2>3 DEF RecvActivate, Activated, Take, IInv, TypeOK
  <2>4. CASE RecvDeactivate
    BY <2>4 DEF RecvDeactivate, Deactivated, Impossible, Take, IInv, TypeOK
  <2>5. CASE SendActivate
    <3>1. gate' = [gate EXCEPT !.nr_active = NextActive]
      BY <2>5, TakeOffer DEF SendActivate, ActivateChild
    <3>2. QED  BY <3>1 DEF IInv, TypeOK
  <2>6. CASE ReportError
    BY <2>6 DEF ReportError, Terminated, IInv, TypeOK
  <2>7. QED  BY <2>1, <2>2, <2>3, <2>4, <2>5, <2>6
<1>4. CASE UNCHANGED vars
  BY <1>4 DEF vars
<1>5. QED
  BY <1>1, <1>2, <1>3, <1>4 DEF HNext, Promise!Next, Children, Promise!Children

\* The automaton announces FAIL only when all its children have failed in
\* order, and ONLINE only when they no longer have.
THEOREM PAndImplementsOrderedAnd == HSpec => ImplementsOrderedAnd
<1>1. HInit => Promise!Init
  BY DEF HInit, Init, Initial, Promise!Init
<1>2. IInv /\ [HNext]_vars => [Promise!Next]_(Promise!vars)
  BY StepImplements
<1>3. QED
  BY <1>1, <1>2, MarkCorrect, PTL DEF HSpec, ImplementsOrderedAnd, Promise!Spec
==============================================================================
