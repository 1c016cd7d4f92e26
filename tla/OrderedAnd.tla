------------------------------ MODULE OrderedAnd ------------------------------
(***************************************************************************)
(* What a priority-AND gate promises, stated with the order of the         *)
(* failures that are in effect: it announces its failure only while every  *)
(* child is failed and each failed after its left neighbours, and takes    *)
(* the announcement back only when that is no longer so.                   *)
(***************************************************************************)
EXTENDS Naturals

CONSTANT total

VARIABLES failed,      \* the children that are failed now
          before,      \* <<i, j>>: both are failed, i since earlier than j
          announced    \* the gate's last announcement was FAIL

vars == <<failed, before, announced>>

Children == 1..total

InOrder == /\ failed = Children
           /\ \A i, j \in Children : i < j => <<i, j>> \in before

Init == failed = {} /\ before = {} /\ announced = FALSE

Fail(i) == /\ i \notin failed
           /\ failed' = failed \cup {i}
           /\ before' = before \cup (failed \X {i})
           /\ UNCHANGED announced

Recover(i) == /\ i \in failed
              /\ failed' = failed \ {i}
              /\ before' = {p \in before : p[1] # i /\ p[2] # i}
              /\ UNCHANGED announced

Announce == /\ InOrder /\ ~announced
            /\ announced' = TRUE
            /\ UNCHANGED <<failed, before>>

Withdraw == /\ ~InOrder /\ announced
            /\ announced' = FALSE
            /\ UNCHANGED <<failed, before>>

Next == \/ \E i \in Children : Fail(i) \/ Recover(i)
        \/ Announce \/ Withdraw

Spec == Init /\ [][Next]_vars
==============================================================================
