------------------------------ MODULE PAndOrder ------------------------------
(***************************************************************************)
(* The priority-AND automaton with a history of the order in which its     *)
(* children failed, and the proof obligation that it implements            *)
(* OrderedAnd.  The history is not part of the automaton: no guard reads   *)
(* it.                                                                     *)
(***************************************************************************)
EXTENDS PAnd

VARIABLE before    \* <<i, j>>: both are failed, i since earlier than j

vars == <<gate, before>>

HInit == Init /\ before = {}

HRecvFail(i) ==
  /\ RecvFail(i)
  /\ before' = IF i \in gate.failed THEN before
               ELSE before \cup (gate.failed \X {i})

HRecvOnline(i) ==
  /\ RecvOnline(i)
  /\ before' = IF i \notin gate.failed THEN before
               ELSE {p \in before : p[1] # i /\ p[2] # i}

HOwnStep == OwnStep /\ UNCHANGED before

HNext == \/ \E i \in Children : HRecvFail(i) \/ HRecvOnline(i)
         \/ HOwnStep

HSpec == HInit /\ [][HNext]_vars

-----------------------------------------------------------------------------
(* The history relates distinct failed children, each pair one way. *)
HistoryOK ==
  /\ before \subseteq gate.failed \X gate.failed
  /\ \A i, j \in Children : <<i, j>> \in before => <<j, i>> \notin before

\* in_order_mark counts exactly the longest prefix of children that are
\* failed and failed from left to right, across any sequence of failures,
\* repeated failures and repairs.  The automaton never re-reads the failed
\* vector when it moves the mark, so this is where an order could be lost.
MarkIsOrderedPrefix ==
  LET mark == gate.in_order_mark
  IN  /\ 1..mark \subseteq gate.failed
      /\ \A i, j \in 1..mark : i < j => <<i, j>> \in before
      /\ mark < total =>
           \/ mark + 1 \notin gate.failed
           \/ \E i \in 1..mark : <<mark + 1, i>> \in before

\* nr_failed, kept apart from the failed vector, counts it.
CountIsExact == gate.nr_failed = Cardinality(gate.failed)

IInv == TypeOK /\ CountIsExact /\ HistoryOK /\ MarkIsOrderedPrefix

\* What the gate promises: it announces FAIL only when all children failed in
\* order, and ONLINE only when they no longer are.
Promise == INSTANCE OrderedAnd
             WITH failed <- gate.failed, announced <- gate.done
ImplementsOrderedAnd == Promise!Spec
==============================================================================
