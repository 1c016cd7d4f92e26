-------------------------------- MODULE DFTree --------------------------------
(***************************************************************************)
(* The dynamic fault tree the translator works on (dft2lnt/DFTree.h), and  *)
(* what it computes about the nodes before generating automata: which are  *)
(* always active and which are repairable.                                 *)
(*                                                                         *)
(* tree[n] is the n-th node, a record with field                           *)
(*   type      "be", "voting", "pand", "wsp" or "fdep"                     *)
(*   children  the sequence of its children, <<>> for a basic event        *)
(* and, by type: threshold (voting), dependers (fdep, a sequence), or, for *)
(* a basic event, phases, interval, warm (dormancy factor not 0),          *)
(* uncertain (probability below 1), restores (restoration factor not 0),   *)
(* repair (a positive repair rate) and failed (evidence).  Every basic      *)
(* event has a failure rate or probability, which is not 0.                *)
(***************************************************************************)
EXTENDS Naturals, Sequences, FiniteSets, Functions

CONSTANTS tree, top

Nodes == DOMAIN tree
OfType(t) == {n \in Nodes : tree[n].type = t}
BasicEvents == OfType("be")
Gates == Nodes \ BasicEvents

Children(n)   == tree[n].children
ChildrenOf(n) == Range(tree[n].children)
Parents(n)    == {p \in Nodes : n \in ChildrenOf(p)}
Dependers(f)  == tree[f].dependers

\* The children of a node are distinct.  Nothing in the code refuses a child that
\* is named twice, or a cycle; the rules find a child by its first place only.
ASSUME TreeAssumption ==
  /\ tree \in Seq(Range(tree)) /\ top \in Nodes
  /\ \A n \in Nodes : /\ Children(n) \in Seq(Nodes)
                      /\ Cardinality(ChildrenOf(n)) = Len(Children(n))
                      /\ tree[n].type = "be" <=> Children(n) = <<>>

\* A voting gate fails at one failed child or more; a dependency gate has its
\* trigger as its only child.
ASSUME NodeAssumption ==
  \A n \in Nodes :
    /\ tree[n].type \in {"be", "voting", "pand", "wsp", "fdep"}
    /\ tree[n].type = "be" => tree[n].failed \in BOOLEAN
    /\ tree[n].type = "voting" => tree[n].threshold \in Nat \ {0}
    /\ tree[n].type = "fdep" => Len(Children(n)) = 1 /\ Dependers(n) \in Seq(Nodes)

\* All nodes reached from S by following the step, in any number of steps.
Closure(S, step(_)) ==
  LET Reached[k \in 0..Cardinality(Nodes)] ==
        IF k = 0 THEN S
        ELSE LET R == Reached[k-1] IN R \cup UNION {step(n) : n \in R}
  IN  Reached[Cardinality(Nodes)]

-----------------------------------------------------------------------------
\* Only the first child of a spare or dependency gate is always active with
\* its parent; the dependers are no children of their gate.
ActiveWith(n) ==
  IF tree[n].type \in {"wsp", "fdep"} THEN {Children(n)[1]} ELSE ChildrenOf(n)

AlwaysActive == Closure({n \in Nodes : Parents(n) = {}}, ActiveWith)

\* The gates reachable from the top with a repairable event as a child, and
\* all their ancestors, dependency gates included.
IsRepairableBE(b) == tree[b].repair \/ tree[b].interval > 0

Repairable ==
  {b \in BasicEvents : IsRepairableBE(b)} \cup
  Closure({g \in Closure({top}, ChildrenOf) \cap Gates :
             \E b \in ChildrenOf(g) \cap BasicEvents : IsRepairableBE(b)},
          Parents)
==============================================================================
