------------------------------ MODULE SyncRules ------------------------------
(***************************************************************************)
(* The synchronisation rules of the expansion file                         *)
(* (dft2lntc/DFTreeEXPBuilder.cpp), which compose the automata of the      *)
(* nodes.  A rule is a function from node identifiers to labels: it fires  *)
(* when every node it names offers its label, and moves them all.  Node 0  *)
(* is the top-level automaton that activates the top node.  A node that a  *)
(* rule names twice keeps the first label, as in insertLabel.              *)
(* Repair units, inspections and replacements are not in these trees.      *)
(***************************************************************************)
EXTENDS DFTree, Signals

toplevel == 0

\* getLocalIDOfNode: the position of a child, here from 1.
LocalID(p, c) == CHOOSE i \in DOMAIN Children(p) : Children(p)[i] = c

\* Node c sends a label, and its parents in S hear it of that child.
Broadcast(c, S, label(_)) ==
  [n \in {c} \cup S |-> IF n = c THEN label(0) ELSE label(LocalID(n, c))]

-----------------------------------------------------------------------------
\* createSyncRuleTop.  Node identifiers start at 1 but the loop over the
\* nodes counts from 0: the label meant for a dependency gate goes to the
\* node before it.
TopActivate ==
  [n \in {top, toplevel} \cup {f - 1 : f \in OfType("fdep")} |->
     ACTIVATE(0, n = toplevel)]

TopOnline == {[n \in {t} |-> ONLINE(0)] : t \in {top} \cap Repairable}

\* Wrong: they do not.
NoListeners(p, c) == {}

\* Spares listen to each other's commands to a shared child.
Listeners(p, c) ==
  {q \in Parents(c) \ {p} : tree[p].type = "wsp" /\ tree[q].type = "wsp"}

ActivationRule(p, c, command(_, _)) ==
  [n \in {p, c} \cup Listeners(p, c) |->
     IF n = p THEN command(LocalID(p, c), TRUE)
     ELSE IF n = c THEN command(0, FALSE) ELSE command(LocalID(n, c), FALSE)]

ActivationRules ==
  UNION {UNION {{ActivationRule(p, c, ACTIVATE), ActivationRule(p, c, DEACTIVATE)} :
                  c \in ChildrenOf(p)} : p \in Nodes}

FirstParent(c) == CHOOSE p \in Parents(c) : \A q \in Parents(c) : p <= q

\* addBroadcastRule: one rule per child, joined by all its parents.
FailRules ==
  {Broadcast(c, Parents(c), FAIL) : c \in {n \in Nodes : n = top \/ Parents(n) # {}}}

\* Wrong: only one parent of a shared child joins.
OnlineRulesOneParent ==
  {Broadcast(c, {FirstParent(c)}, ONLINE) :
     c \in {n \in Nodes : Parents(n) \cap Repairable # {}}}

\* Parents that are not repairable do not hear of it.
OnlineRules ==
  {Broadcast(c, Parents(c) \cap Repairable, ONLINE) :
     c \in {n \in Nodes : Parents(n) \cap Repairable # {}}}

\* Wrong: the parents of the gate instead of those of the depender.
FdepRuleToGate(f, i) ==
  [n \in {f} \cup Parents(f) |->
     IF n = f THEN FAIL(i + 1) ELSE FAIL(LocalID(n, Dependers(f)[i]))]

\* createSyncRuleGateFDEP: the parents of depender i hear FAIL from it, the
\* depender itself does not.
FdepRule(f, i) ==
  LET d == Dependers(f)[i]
  IN  [n \in {f} \cup Parents(d) |->
         IF n = f THEN FAIL(i + 1) ELSE FAIL(LocalID(n, d))]

FdepRules == UNION {{FdepRule(f, i) : i \in DOMAIN Dependers(f)} :
                      f \in OfType("fdep")}

\* parseDFT: without an inspection module nobody listens to INSPECT.
InspectRules    == {[n \in {b} |-> INSPECT(0)] : b \in BasicEvents}
ImpossibleRules == {[n \in {m} |-> IMPOSSIBLE] : m \in Nodes}

Rules == {TopActivate} \cup TopOnline \cup ActivationRules \cup FailRules
           \cup OnlineRules \cup FdepRules \cup InspectRules
           \cup ImpossibleRules

\* getBEProc: the labels of a basic event that are renamed to a rate that is
\* not zero.  The other RATE labels are in no rule, so nothing takes them.
\* A failsafe rate of a dormant event is never given.
Rated(b) ==
  LET be == tree[b]
      failures == {2} \cup {4 : r \in {TRUE} \cap {be.restores}}
      dormant  == {1} \cup {3 : r \in {TRUE} \cap {be.restores}}
  IN  {RATE_FAIL(i, k) : i \in 1..be.phases,
                         k \in failures \cup (IF be.warm THEN dormant ELSE {})}
      \cup {RATE_FAIL(0, k) : k \in IF be.uncertain THEN failures ELSE {}}
      \cup {RATE_REPAIR : r \in {TRUE} \cap {be.repair}}
==============================================================================
