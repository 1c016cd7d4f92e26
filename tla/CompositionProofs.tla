-------------------------- MODULE CompositionProofs --------------------------
(***************************************************************************)
(* Theorems about every tree: the spare gates never use the same child,    *)
(* parents know which of their children have failed, no automaton gets a   *)
(* signal that it takes for impossible, spare gates use the first child    *)
(* that they can, exactly what is called for is active, and a static tree  *)
(* announces what its structure function says.                             *)
(*                                                                         *)
(* SparesClean keeps the tables of states right: every state of a spare    *)
(* gate is one that add_transition would leave alone.  ExclusiveUse alone  *)
(* is not inductive: add_transition returns an always-active gate to its   *)
(* primary as soon as that is free, and no rule tells the other gates over *)
(* it.  PrimariesFree says that this does no harm.  Every other use of a   *)
(* child starts with the rule that activates it (ClaimRule), in which the  *)
(* other spare gates over it take part: one that uses it blocks the rule.  *)
(*                                                                         *)
(* Agreement is the invariant on failures and Peace the one on commands:   *)
(* what a spare gate holds, the others neither hold nor take for unclaimed *)
(* (ClaimsApart), so nobody's release surprises them.                      *)
(*                                                                         *)
(* Waves is the invariant behind the promise of FaultTree: between two     *)
(* rates of a static tree either failures spread or repairs do.            *)
(* SpareWaves says as much of the primaries to which spare gates return;   *)
(* with FailedForGood it is the invariant behind SparesUsed.  AtWork says  *)
(* that a node runs exactly if a parent keeps it active, and is the one    *)
(* behind ActiveExactlyWhenUsed.                                           *)
(***************************************************************************)
EXTENDS NodeProofs

-----------------------------------------------------------------------------
(* The spare gates of a tree. *)

\* Every spare gate has a state of its type that add_transition leaves alone.
SparesClean == DOMAIN node = {toplevel} \cup Nodes /\ \A g \in Spares : SpareOK(g)

\* Nobody takes the primary of a gate that is always active.
PrimariesFree ==
  \A g \in Spares \cap AlwaysActive : node[g].mode = "live" =>
    \A h \in Spares \ {g} : Children(g)[1] \notin UsedBy(h)

\* The child that gate g uses in state y, or none.
Uses(g, y) == {Children(g)[i] : i \in {y.cur_using} \ {0}}

\* A spare gate uses one of its own children, at the place cur_using.
LEMMA UsesChildren ==
  ASSUME NEW g \in Spares, NEW y \in SpareStates(g)
  PROVE  /\ Uses(g, y) \subseteq ChildrenOf(g)
         /\ \A c \in Uses(g, y) : y.cur_using = LocalID(g, c)
         /\ Children(g)[1] \in ChildrenOf(g)
<1>1. y.cur_using # 0 => y.cur_using \in Kids(g)
  BY SpareIsNode DEF SpareStates, Places, Kids
<1>2. 1 \in Kids(g)
  BY SpareIsNode
<1>3. QED  BY <1>1, <1>2, SpareIsNode, ChildHasOnePlace DEF Uses

\* Of the spare gates, one claims child c and all others know.
Claimed(g, c) ==
  /\ UsedBy(g)' = {c}
  /\ \A h \in Spares \ {g} :
       /\ Calm(h, node'[h]) /\ c \notin UsedBy(h)'
       /\ h \in AlwaysActive /\ Children(h)[1] = c => node'[h].mode # "live"

\* Every spare gate is calm, or claims a child while the others hear of it.
Moved ==
  \A g \in Spares :
    /\ SpareOK(g)' /\ (node'[g].mode = "live" => node[g].mode = "live")
    /\ Calm(g, node'[g]) \/ \E c : Claimed(g, c)

\* A calm gate uses at most what it used, or its primary if it is always active.
LEMMA CalmUses ==
  ASSUME NEW g \in Spares, Calm(g, node'[g])
  PROVE  \A c \in UsedBy(g)' : \/ c \in UsedBy(g)
                               \/ /\ g \in AlwaysActive /\ node[g].mode = "live"
                                  /\ c = Children(g)[1]
  BY DEF Calm, UsedBy

\* If every spare gate is calm or claims openly, no two come to use one child.
LEMMA MovedKeeps ==
  ASSUME SparesApart, ExclusiveUse, PrimariesFree, Moved
  PROVE  ExclusiveUse' /\ PrimariesFree'
<1>1. ASSUME NEW g \in Spares, NEW h \in Spares, g # h,
             Calm(g, node'[g]), Calm(h, node'[h])
      PROVE  /\ UsedBy(g)' \cap UsedBy(h)' = {}
             /\ g \in AlwaysActive /\ node'[g].mode = "live" => Children(g)[1] \notin UsedBy(h)'
  <2>1. UsedBy(g) \cap UsedBy(h) = {}
    BY <1>1 DEF ExclusiveUse, Spares
  <2>2. /\ g \in AlwaysActive /\ node[g].mode = "live" => Children(g)[1] \notin UsedBy(h)
        /\ h \in AlwaysActive /\ node[h].mode = "live" => Children(h)[1] \notin UsedBy(g)
    BY <1>1 DEF PrimariesFree
  <2>3. g \in AlwaysActive /\ h \in AlwaysActive => Children(g)[1] # Children(h)[1]
    BY <1>1 DEF SparesApart, Spares
  <2>4. node'[g].mode = "live" => node[g].mode = "live"
    BY <1>1 DEF Calm
  <2>5. /\ \A c \in UsedBy(g)' : \/ c \in UsedBy(g)
                                \/ /\ g \in AlwaysActive /\ node[g].mode = "live"
                                   /\ c = Children(g)[1]
        /\ \A c \in UsedBy(h)' : \/ c \in UsedBy(h)
                                \/ /\ h \in AlwaysActive /\ node[h].mode = "live"
                                   /\ c = Children(h)[1]
    BY <1>1, CalmUses
  <2>6. QED  BY <2>1, <2>2, <2>3, <2>4, <2>5
<1>2. ASSUME NEW g \in Spares, NEW c, Claimed(g, c), NEW h \in Spares, g # h
      PROVE  /\ UsedBy(g)' \cap UsedBy(h)' = {}
             /\ g \in AlwaysActive /\ node'[g].mode = "live" => Children(g)[1] \notin UsedBy(h)'
             /\ h \in AlwaysActive /\ node'[h].mode = "live" => Children(h)[1] \notin UsedBy(g)'
  <2>1. /\ UsedBy(g)' = {c} /\ c \notin UsedBy(h)' /\ Calm(h, node'[h])
        /\ h \in AlwaysActive /\ Children(h)[1] = c => node'[h].mode # "live"
    BY <1>2 DEF Claimed
  <2>2. \A d \in UsedBy(h)' : \/ d \in UsedBy(h)
                              \/ /\ h \in AlwaysActive /\ d = Children(h)[1]
    BY <1>2, <2>1, CalmUses
  <2>3. node'[g].mode = "live" => node[g].mode = "live"
    BY <1>2 DEF Moved
  <2>4. g \in AlwaysActive /\ node[g].mode = "live" => Children(g)[1] \notin UsedBy(h)
    BY <1>2 DEF PrimariesFree
  <2>5. g \in AlwaysActive /\ h \in AlwaysActive => Children(g)[1] # Children(h)[1]
    BY <1>2 DEF SparesApart, Spares
  <2>6. QED  BY <2>1, <2>2, <2>3, <2>4, <2>5
<1>3. ASSUME NEW g \in Spares, NEW h \in Spares, g # h
      PROVE  /\ UsedBy(g)' \cap UsedBy(h)' = {}
             /\ g \in AlwaysActive /\ node'[g].mode = "live" => Children(g)[1] \notin UsedBy(h)'
  <2>1. CASE Calm(g, node'[g]) /\ Calm(h, node'[h])
    BY <1>1, <1>3, <2>1
  <2>2. CASE \E c : Claimed(g, c)
    BY <1>2, <1>3, <2>2
  <2>3. CASE \E c : Claimed(h, c)
    BY <1>2, <1>3, <2>3
  <2>4. QED  BY <1>3, <2>1, <2>2, <2>3 DEF Moved
<1>4. QED  BY <1>3, Zenon DEF ExclusiveUse, PrimariesFree, Spares

\* The only rules in which a spare gate claims a child are those that activate
\* it: the child is told, and so are the other spare gates over it.
LEMMA ClaimRule ==
  ASSUME NEW rule \in Rules, NEW g \in Spares, g \in DOMAIN rule,
         NEW i \in Kids(g), rule[g] = ACTIVATE(i, TRUE)
  PROVE  \E c \in ChildrenOf(g) :
           /\ i = LocalID(g, c) /\ DOMAIN rule = {g, c} \cup Listeners(g, c)
           /\ \A n \in DOMAIN rule \ {g} :
                rule[n] = IF n = c THEN ACTIVATE(0, FALSE) ELSE ACTIVATE(LocalID(n, c), FALSE)
<1>1. g # toplevel /\ i # 0
  BY SpareIsNode DEF Kids
<1>2. rule \in ActivationRules
  <2>1. rule[g][1] = "ACTIVATE" /\ rule[g][2] # 0
    BY <1>1 DEF ACTIVATE
  <2>2. CASE rule = TopActivate
    <3>1. rule[g] = ACTIVATE(0, g = toplevel)
      BY <2>2, Zenon DEF TopActivate
    <3>2. QED  BY <2>1, <3>1 DEF ACTIVATE
  <2>3. CASE rule \in TopOnline \cup InspectRules \cup ImpossibleRules
    <3>1. rule[g] \in {ONLINE(0), INSPECT(0), IMPOSSIBLE}
      BY <2>3 DEF TopOnline, InspectRules, ImpossibleRules
    <3>2. QED  BY <2>1, <3>1, Heads
  <2>4. CASE rule \in FailRules \cup OnlineRules
    <3>1. \E j : rule[g] \in {FAIL(j), ONLINE(j)}
      BY <2>4 DEF FailRules, OnlineRules, Broadcast
    <3>2. QED  BY <2>1, <3>1, Heads
  <2>5. CASE rule \in FdepRules
    <3>1. \E j : rule[g] = FAIL(j)
      BY <2>5 DEF FdepRules, FdepRule
    <3>2. QED  BY <2>1, <3>1, Heads
  <2>6. QED  BY <2>2, <2>3, <2>4, <2>5 DEF Rules
<1> DEFINE A(p, c) == ActivationRule(p, c, ACTIVATE)
           D(p, c) == ActivationRule(p, c, DEACTIVATE)
<1>3. PICK p \in Nodes : \E c \in ChildrenOf(p) : rule \in {A(p, c), D(p, c)}
  <2>1. ActivationRules =
          UNION {UNION {{A(q, d), D(q, d)} : d \in ChildrenOf(q)} : q \in Nodes}
    BY DEF ActivationRules
  <2> HIDE DEF A, D
  <2>2. QED  BY <1>2, <2>1
<1>4. PICK c \in ChildrenOf(p) : rule \in {A(p, c), D(p, c)}
  BY <1>3, Zenon
<1>5. rule = [n \in {p, c} \cup Listeners(p, c) |->
                IF n = p THEN ACTIVATE(LocalID(p, c), TRUE)
                ELSE IF n = c THEN ACTIVATE(0, FALSE) ELSE ACTIVATE(LocalID(n, c), FALSE)]
  <2>1. rule # D(p, c)
    <3>1. \A n \in DOMAIN D(p, c) :
            \E j : D(p, c)[n] \in {DEACTIVATE(j, TRUE), DEACTIVATE(j, FALSE)}
      BY DEF ActivationRule
    <3>2. \A n \in DOMAIN D(p, c) : D(p, c)[n][1] = "DEACTIVATE"
      <4> HIDE DEF D
      <4>1. \A j : /\ DEACTIVATE(j, TRUE)[1] = "DEACTIVATE"
                   /\ DEACTIVATE(j, FALSE)[1] = "DEACTIVATE"
        BY Heads
      <4>2. QED  BY <3>1, <4>1, Zenon
    <3>3. rule[g][1] = "ACTIVATE"
      BY DEF ACTIVATE
    <3> HIDE DEF D
    <3>4. QED  BY <3>2, <3>3
  <2>2. rule = A(p, c)
    BY <1>4, <2>1, Zenon
  <2>3. QED  BY <2>2, Zenon DEF ActivationRule
<1> HIDE DEF A, D
<1>6. g = p /\ i = LocalID(p, c)
  BY <1>5 DEF ACTIVATE
<1>7. QED  BY <1>5, <1>6, Zenon

\* A spare gate has the transitions of the spare automaton.
LEMMA SpareTrans ==
  ASSUME NEW g \in Spares
  PROVE  Trans(g) = SpareAt(g)!Trans
  BY SpareIsNode DEF Trans

\* A rule moves the spare gates that it names by their own steps, and no others.
LEMMA FireSteps ==
  ASSUME SparesClean, NEW rule \in Rules, Fire(rule), NEW g \in Spares
  PROVE  /\ DOMAIN node' = DOMAIN node
         /\ g \in DOMAIN rule => SpareMoves(g, rule[g], node'[g])
         /\ g \notin DOMAIN rule => node'[g] = node[g]
<1>1. PICK next \in [DOMAIN rule -> UNION {Targets(n, rule[n]) : n \in DOMAIN rule}] :
        /\ \A n \in DOMAIN rule : next[n] \in Targets(n, rule[n])
        /\ node' = [n \in DOMAIN node |-> IF n \in DOMAIN rule THEN next[n] ELSE node[n]]
  BY DEF Fire
<1>2. DOMAIN node' = DOMAIN node
  BY <1>1
<1>3. g \in DOMAIN node /\ SpareOK(g)
  BY SpareIsNode DEF SparesClean
<1>4. g \notin DOMAIN rule => node'[g] = node[g]
  BY <1>1, <1>3
<1>5. CASE g \in DOMAIN rule
  <2>1. node'[g] \in Targets(g, rule[g])
    BY <1>1, <1>3, <1>5
  <2>2. PICK t \in Trans(g) : t[1] = rule[g] /\ t[2] = node'[g]
    BY <2>1 DEF Targets
  <2>3. SpareMoves(g, t[1], t[2])
    BY <1>3, <2>2, SpareTrans, SpareStep
  <2>4. QED  BY <1>2, <1>5, <2>2, <2>3
<1>6. QED  BY <1>2, <1>4, <1>5

\* A spare gate stays clean, and is calm unless the rule makes it claim a child.
LEMMA FireClean ==
  ASSUME SparesClean, NEW rule \in Rules, Fire(rule), NEW g \in Spares
  PROVE  /\ SpareOK(g)' /\ (node'[g].mode = "live" => node[g].mode = "live")
         /\ \/ Calm(g, node'[g])
            \/ /\ g \in DOMAIN rule
               /\ \E i \in Kids(g) : rule[g] = ACTIVATE(i, TRUE) /\ node'[g].cur_using = i
<1>1. SpareOK(g)
  BY DEF SparesClean
<1>2. CASE g \in DOMAIN rule
  <2>1. SpareMoves(g, rule[g], node'[g])
    BY <1>2, FireSteps
  <2>2. QED  BY <1>2, <2>1 DEF SpareMoves, SpareOK, Clean
<1>3. CASE g \notin DOMAIN rule
  <2>1. node'[g] = node[g]
    BY <1>3, FireSteps
  <2>2. QED  BY <1>1, <2>1 DEF Calm, SpareOK, Clean
<1>4. QED  BY <1>2, <1>3

\* When a rule makes one of them claim a child, the others know.
LEMMA FireMoves ==
  ASSUME SparesClean, SparesApart, NEW rule \in Rules, Fire(rule)
  PROVE  Moved
<1>1. ASSUME NEW g \in Spares, g \in DOMAIN rule,
             NEW i \in Kids(g), rule[g] = ACTIVATE(i, TRUE), node'[g].cur_using = i
      PROVE  \E c : Claimed(g, c)
  <2>1. PICK c \in ChildrenOf(g) :
          /\ i = LocalID(g, c) /\ DOMAIN rule = {g, c} \cup Listeners(g, c)
          /\ \A n \in DOMAIN rule \ {g} :
               rule[n] = IF n = c THEN ACTIVATE(0, FALSE) ELSE ACTIVATE(LocalID(n, c), FALSE)
    BY <1>1, ClaimRule
  <2>2. UsedBy(g)' = {c}
    <3>1. Children(g)[i] = c /\ i # 0
      BY <2>1, SpareIsNode, ChildHasOnePlace DEF Kids
    <3>2. QED  BY <1>1, <3>1 DEF UsedBy
  <2>3. ASSUME NEW h \in Spares \ {g}
        PROVE  /\ Calm(h, node'[h]) /\ c \notin UsedBy(h)'
               /\ h \in AlwaysActive /\ Children(h)[1] = c => node'[h].mode # "live"
    <3>1. Calm(h, node'[h])
      <4>1. h \in DOMAIN rule => \A j \in Kids(h) : rule[h] # ACTIVATE(j, TRUE)
        <5>1. h \in DOMAIN rule => \E k : rule[h] = ACTIVATE(k, FALSE)
          BY <2>1
        <5>2. \A j, k : ACTIVATE(k, FALSE) # ACTIVATE(j, TRUE)
          BY DEF ACTIVATE
        <5>3. QED  BY <5>1, <5>2, Zenon
      <4>2. QED  BY <4>1, FireClean
    <3>2. node'[h] \in SpareStates(h)
      BY <3>1 DEF Calm
    <3>3. UsedBy(h)' = Uses(h, node'[h])
      BY DEF UsedBy, Uses
    <3>4. /\ UsedBy(h)' \subseteq ChildrenOf(h) /\ Children(h)[1] \in ChildrenOf(h)
          /\ c \in UsedBy(h)' => node'[h].cur_using = LocalID(h, c)
      BY <3>2, <3>3, UsesChildren
    <3>5. CASE c \notin ChildrenOf(h)
      BY <3>1, <3>4, <3>5
    <3>6. CASE c \in ChildrenOf(h)
      <4> DEFINE j == LocalID(h, c)
      <4>1. h \in Listeners(g, c) /\ h # c
        BY <3>6, SpareIsNode DEF Listeners, Parents, SparesApart, Spares
      <4>2. rule[h] = ACTIVATE(j, FALSE) /\ h \in DOMAIN rule
        BY <2>1, <4>1
      <4>3. j \in Kids(h) /\ (Children(h)[1] = c => j = 1)
        <5>1. PICK k \in Kids(h) : Children(h)[k] = c
          BY <3>6, SpareIsNode DEF ChildrenOf, Range, Children, Kids
        <5>2. 1 \in Kids(h)
          BY SpareIsNode
        <5>3. QED  BY <5>1, <5>2, SpareIsNode, ChildHasOnePlace
      <4> HIDE DEF j
      <4>4. SpareMoves(h, ACTIVATE(j, FALSE), node'[h])
        BY <4>2, FireSteps
      <4>5. /\ node[h].cur_using # j /\ node'[h].cur_using = node[h].cur_using
            /\ h \in AlwaysActive /\ j = 1 => node'[h].mode # "live"
        BY <4>3, <4>4, Zenon DEF SpareMoves
      <4>6. QED  BY <3>1, <3>4, <4>3, <4>5 DEF j
    <3>7. QED  BY <3>5, <3>6
  <2>4. QED  BY <2>2, <2>3 DEF Claimed
<1>2. QED  BY <1>1, FireClean, Zenon DEF Moved

-----------------------------------------------------------------------------
(* The composition. *)

\* In the initial state only the always-active gates use a child, their primary.
LEMMA InitOK ==
  ASSUME Init
  PROVE  SparesClean /\ (SparesApart => ExclusiveUse /\ PrimariesFree)
<1>1. DOMAIN node = {toplevel} \cup Nodes
  BY DEF Init
<1>2. ASSUME NEW g \in Spares
      PROVE  /\ SpareOK(g)
             /\ node[g].cur_using = IF g \in AlwaysActive THEN 1 ELSE 0
  <2>1. node[g] = SpareAt(g)!Initial
    BY SpareIsNode DEF Init, InitialState
  <2>2. /\ node[g].unfailed = Kids(g) /\ node[g].unclaimed = Kids(g)
        /\ node[g].cur_using = IF g \in AlwaysActive THEN 1 ELSE 0
        /\ node[g].prev_using = 0
    BY <2>1 DEF SpareAt!Initial, SpareAt!Children, Kids
  <2>3. node[g] \in SpareStates(g)
    BY <2>1, SpareIsNode DEF SpareAt!Initial, SpareAt!Children, Kids, SpareStates, Places
  <2>4. QED  BY <2>2, <2>3 DEF SpareOK, Clean
<1>3. \A g \in Spares : UsedBy(g) = IF g \in AlwaysActive THEN {Children(g)[1]} ELSE {}
  BY <1>2 DEF UsedBy
<1>4. SparesApart => ExclusiveUse /\ PrimariesFree
  BY <1>3 DEF SparesApart, ExclusiveUse, PrimariesFree, Spares
<1>5. QED  BY <1>1, <1>2, <1>4 DEF SparesClean

\* The rates are those of basic events: no spare gate moves.
LEMMA ElapseKeeps ==
  ASSUME SparesClean, Elapse
  PROVE  DOMAIN node' = DOMAIN node /\ \A g \in Spares : node'[g] = node[g]
<1>1. PICK b \in BasicEvents : \E t \in Trans(b) : node' = [node EXCEPT ![b] = t[2]]
  BY DEF Elapse
<1>2. \A g \in Spares : g # b /\ g \in DOMAIN node
  BY SpareIsNode DEF BasicEvents, OfType, SparesClean
<1>3. QED  BY <1>1, <1>2

\* A step that moves no spare gate keeps everything.
LEMMA StillOK ==
  ASSUME SparesClean, DOMAIN node' = DOMAIN node, \A g \in Spares : node'[g] = node[g]
  PROVE  /\ SparesClean'
         /\ ExclusiveUse /\ PrimariesFree => ExclusiveUse' /\ PrimariesFree'
<1>1. SparesClean'
  BY DEF SparesClean, SpareOK, Clean
<1>2. \A g \in Spares : UsedBy(g)' = UsedBy(g)
  BY DEF UsedBy
<1>3. QED  BY <1>1, <1>2 DEF ExclusiveUse, PrimariesFree, Spares

\* The states of the spare gates have their types and are left alone by
\* add_transition, in every tree.
THEOREM SparesStayClean == Spec => []SparesClean
<1>1. Init => SparesClean
  BY InitOK
<1>2. SparesClean /\ [Next]_node => SparesClean'
  <2> SUFFICES ASSUME SparesClean, [Next]_node  PROVE  SparesClean'
    OBVIOUS
  <2>1. ASSUME NEW rule \in Rules, Fire(rule)  PROVE  SparesClean'
    <3>1. DOMAIN node' = DOMAIN node
      BY <2>1 DEF Fire
    <3>2. \A g \in Spares : SpareOK(g)'
      BY <2>1, FireClean
    <3>3. QED  BY <3>1, <3>2 DEF SparesClean
  <2>2. CASE Elapse
    BY <2>2, ElapseKeeps, StillOK
  <2>3. CASE UNCHANGED node
    BY <2>3, StillOK
  <2>4. QED  BY <2>1, <2>2, <2>3 DEF Next, Interact
<1>3. QED  BY <1>1, <1>2, PTL DEF Spec

\* No state of a spare gate is changed after it was stored in the table of states
\* (the handler of REPAIRED hands a key of the table to add_transition, which
\* writes to it), and its silent steps can be dropped, in every tree.
THEOREM SpareTablesAreStable == Spec => []SpareStatesAreClean
<1>1. SparesClean => SpareStatesAreClean
  <2> SUFFICES ASSUME SparesClean, NEW g \in Spares
               PROVE  SpareAt(g)!KeyIsStable /\ SpareAt(g)!SilentChangesNothing
    BY DEF SpareStatesAreClean, Spares
  <2>1. SpareOK(g)
    BY DEF SparesClean
  <2>2. SpareAt(g)!KeyIsStable
    BY <2>1, CleanSettles DEF SpareOK, SpareAt!KeyIsStable
  <2>3. SpareAt(g)!SilentChangesNothing
    <3> SUFFICES ASSUME NEW t \in SpareAt(g)!Trans, t[1] = SpareAt(g)!TAU
                 PROVE  t[2] = node[g]
      BY DEF SpareAt!SilentChangesNothing
    <3>1. SpareMoves(g, t[1], t[2]) /\ t[1] = TAU
      BY <2>1, SpareStep DEF TAU, SpareAt!TAU
    <3>2. QED  BY <3>1, Zenon DEF SpareMoves
  <2>4. QED  BY <2>2, <2>3
<1>2. QED  BY <1>1, SparesStayClean, PTL

\* No two spare gates ever use the same child, in any tree whose always-active
\* spare gates have primaries of their own.
THEOREM SparesAreExclusive ==
  ASSUME SparesApart
  PROVE  Spec => []ExclusiveUse
<1> DEFINE Inv == ExclusiveUse /\ PrimariesFree
<1>1. Init => Inv
  BY InitOK
<1>2. SparesClean /\ Inv /\ [Next]_node => Inv'
  <2> SUFFICES ASSUME SparesClean, Inv, [Next]_node  PROVE  Inv'
    OBVIOUS
  <2>1. ASSUME NEW rule \in Rules, Fire(rule)  PROVE  Inv'
    <3>1. Moved
      BY <2>1, FireMoves
    <3>2. QED  BY <3>1, MovedKeeps
  <2>2. CASE Elapse
    BY <2>2, ElapseKeeps, StillOK
  <2>3. CASE UNCHANGED node
    BY <2>3, StillOK
  <2>4. QED  BY <2>1, <2>2, <2>3 DEF Next, Interact
<1>3. Inv => ExclusiveUse
  OBVIOUS
<1> HIDE DEF Inv
<1>4. QED  BY <1>1, <1>2, <1>3, SparesStayClean, PTL DEF Spec

-----------------------------------------------------------------------------
(* The rules that carry news of failures. *)

\* Node c tells all its parents that it failed,
IsFailRule(rule, c) ==
  /\ DOMAIN rule = {c} \cup Parents(c)
  /\ rule[c] = FAIL(0) /\ \A p \in Parents(c) \ {c} : rule[p] = FAIL(LocalID(p, c))

\* or its repairable parents that it recovered.
IsOnlineRule(rule, c) ==
  /\ Parents(c) \cap Repairable # {}
  /\ DOMAIN rule = {c} \cup (Parents(c) \cap Repairable)
  /\ rule[c] = ONLINE(0)
  /\ \A p \in (Parents(c) \cap Repairable) \ {c} : rule[p] = ONLINE(LocalID(p, c))

\* The top recovers and nobody listens.
IsTopOnline(rule) ==
  top \in Repairable /\ DOMAIN rule = {top} /\ rule[top] = ONLINE(0)

\* Dependency gate f tells the parents of its i-th depender that that failed.
IsFdepRule(rule, f, i) ==
  LET d == Dependers(f)[i]
  IN  /\ DOMAIN rule = {f} \cup Parents(d) /\ rule[f] = FAIL(i + 1)
      /\ \A p \in Parents(d) \ {f} : rule[p] = FAIL(LocalID(p, d))

\* The other rules carry no news.
IsQuietRule(rule) ==
  \A n \in DOMAIN rule : rule[n][1] \in {"ACTIVATE", "DEACTIVATE", "INSPECT", "IMPOSSIBLE"}

\* Every rule is one of these.
LEMMA RuleKinds ==
  ASSUME NEW rule \in Rules
  PROVE  \/ \E c \in Nodes : IsFailRule(rule, c) \/ IsOnlineRule(rule, c)
         \/ IsTopOnline(rule)
         \/ \E f \in FDeps : \E i \in DOMAIN Dependers(f) : IsFdepRule(rule, f, i)
         \/ IsQuietRule(rule)
<1>1. CASE rule = TopActivate
  <2>1. \A n \in DOMAIN rule : rule[n] = ACTIVATE(0, n = toplevel)
    BY <1>1, Zenon DEF TopActivate
  <2>2. \A d : ACTIVATE(0, d)[1] = "ACTIVATE"
    BY DEF ACTIVATE
  <2>3. QED  BY <2>1, <2>2, Zenon DEF IsQuietRule
<1>2. CASE rule \in TopOnline
  <2>1. top \in Repairable /\ rule = [n \in {top} |-> ONLINE(0)]
    BY <1>2 DEF TopOnline
  <2>2. QED  BY <2>1 DEF IsTopOnline
<1>3. CASE rule \in ActivationRules
  <2> DEFINE A(p, c) == ActivationRule(p, c, ACTIVATE)
             D(p, c) == ActivationRule(p, c, DEACTIVATE)
  <2>1. ActivationRules =
          UNION {UNION {{A(q, d), D(q, d)} : d \in ChildrenOf(q)} : q \in Nodes}
    BY DEF ActivationRules
  <2>2. \E p \in Nodes : \E c \in ChildrenOf(p) : rule = A(p, c) \/ rule = D(p, c)
    <3> HIDE DEF A, D
    <3>1. QED  BY <1>3, <2>1
  <2>3. PICK p \in Nodes : \E c \in ChildrenOf(p) : rule = A(p, c) \/ rule = D(p, c)
    BY <2>2, Zenon
  <2>0. PICK c \in ChildrenOf(p) : rule = A(p, c) \/ rule = D(p, c)
    BY <2>3, Zenon
  <2>4. ASSUME rule = A(p, c), NEW n \in DOMAIN rule
        PROVE  \E j : rule[n] \in {ACTIVATE(j, TRUE), ACTIVATE(j, FALSE)}
    BY <2>4 DEF ActivationRule
  <2>5. ASSUME rule = D(p, c), NEW n \in DOMAIN rule
        PROVE  \E j : rule[n] \in {DEACTIVATE(j, TRUE), DEACTIVATE(j, FALSE)}
    BY <2>5 DEF ActivationRule
  <2> HIDE DEF A, D
  <2>6. CASE rule = A(p, c)
    <3>1. \A j : ACTIVATE(j, TRUE)[1] = "ACTIVATE" /\ ACTIVATE(j, FALSE)[1] = "ACTIVATE"
      BY Heads
    <3>2. \A n \in DOMAIN rule : \E j : rule[n] \in {ACTIVATE(j, TRUE), ACTIVATE(j, FALSE)}
      BY <2>4, <2>6
    <3>3. \A n \in DOMAIN rule : rule[n][1] = "ACTIVATE"
      BY <3>1, <3>2, Zenon
    <3>4. QED  BY <3>3 DEF IsQuietRule
  <2>7. CASE rule = D(p, c)
    <3>1. \A j : DEACTIVATE(j, TRUE)[1] = "DEACTIVATE" /\ DEACTIVATE(j, FALSE)[1] = "DEACTIVATE"
      BY Heads
    <3>2. \A n \in DOMAIN rule : \E j : rule[n] \in {DEACTIVATE(j, TRUE), DEACTIVATE(j, FALSE)}
      BY <2>5, <2>7
    <3>3. \A n \in DOMAIN rule : rule[n][1] = "DEACTIVATE"
      BY <3>1, <3>2, Zenon
    <3>4. QED  BY <3>3 DEF IsQuietRule
  <2>8. QED  BY <2>0, <2>6, <2>7
<1>4. CASE rule \in FailRules
  <2>1. PICK c \in Nodes : rule = Broadcast(c, Parents(c), FAIL)
    BY <1>4 DEF FailRules
  <2>2. IsFailRule(rule, c)
    BY <2>1 DEF Broadcast, IsFailRule
  <2>3. QED  BY <2>2
<1>5. CASE rule \in OnlineRules
  <2>1. PICK c \in Nodes : /\ rule = Broadcast(c, Parents(c) \cap Repairable, ONLINE)
                           /\ Parents(c) \cap Repairable # {}
    BY <1>5 DEF OnlineRules
  <2>2. IsOnlineRule(rule, c)
    BY <2>1 DEF Broadcast, IsOnlineRule
  <2>3. QED  BY <2>2
<1>6. CASE rule \in FdepRules
  <2>0. PICK f \in FDeps : \E i \in DOMAIN Dependers(f) : rule = FdepRule(f, i)
    BY <1>6 DEF FdepRules, FDeps
  <2>1. PICK i \in DOMAIN Dependers(f) : rule = FdepRule(f, i)
    BY <2>0, Zenon
  <2>2. IsFdepRule(rule, f, i)
    BY <2>1 DEF FdepRule, IsFdepRule
  <2>3. QED  BY <2>2
<1>7. CASE rule \in InspectRules \cup ImpossibleRules
  <2>1. \A n \in DOMAIN rule : rule[n] \in {INSPECT(0), IMPOSSIBLE}
    BY <1>7 DEF InspectRules, ImpossibleRules
  <2>2. INSPECT(0)[1] = "INSPECT" /\ IMPOSSIBLE[1] = "IMPOSSIBLE"
    BY Heads, Zenon
  <2>3. \A n \in DOMAIN rule : rule[n][1] \in {"INSPECT", "IMPOSSIBLE"}
    BY <2>1, <2>2
  <2>4. IsQuietRule(rule)
    BY <2>3 DEF IsQuietRule
  <2>5. QED  BY <2>4
<1>8. QED  BY <1>1, <1>2, <1>3, <1>4, <1>5, <1>6, <1>7 DEF Rules

\* And these rules exist.
LEMMA RulesExist ==
  /\ \A c \in Nodes : c = top \/ Parents(c) # {} => \E rule \in Rules : IsFailRule(rule, c)
  /\ \A c \in Nodes : Parents(c) \cap Repairable # {} => \E rule \in Rules : IsOnlineRule(rule, c)
  /\ top \in Repairable => \E rule \in Rules : IsTopOnline(rule)
  /\ \A f \in FDeps : \A i \in DOMAIN Dependers(f) : \E rule \in Rules : IsFdepRule(rule, f, i)
<1>1. ASSUME NEW c \in Nodes, c = top \/ Parents(c) # {}
      PROVE  \E rule \in Rules : IsFailRule(rule, c)
  <2>1. Broadcast(c, Parents(c), FAIL) \in Rules
    BY <1>1 DEF Rules, FailRules
  <2>2. IsFailRule(Broadcast(c, Parents(c), FAIL), c)
    BY DEF IsFailRule, Broadcast
  <2>3. QED  BY <2>1, <2>2
<1>2. ASSUME NEW c \in Nodes, Parents(c) \cap Repairable # {}
      PROVE  \E rule \in Rules : IsOnlineRule(rule, c)
  <2>1. Broadcast(c, Parents(c) \cap Repairable, ONLINE) \in Rules
    BY <1>2 DEF Rules, OnlineRules
  <2>2. IsOnlineRule(Broadcast(c, Parents(c) \cap Repairable, ONLINE), c)
    BY <1>2 DEF IsOnlineRule, Broadcast
  <2>3. QED  BY <2>1, <2>2
<1>3. ASSUME top \in Repairable  PROVE  \E rule \in Rules : IsTopOnline(rule)
  <2> DEFINE r == [n \in {top} |-> ONLINE(0)]
  <2>1. r \in Rules
    BY <1>3 DEF Rules, TopOnline
  <2>2. IsTopOnline(r)
    BY <1>3 DEF IsTopOnline
  <2> HIDE DEF r
  <2>3. QED  BY <2>1, <2>2
<1>4. ASSUME NEW f \in FDeps, NEW i \in DOMAIN Dependers(f)
      PROVE  \E rule \in Rules : IsFdepRule(rule, f, i)
  <2>1. FdepRule(f, i) \in Rules
    BY DEF Rules, FdepRules, FDeps
  <2>2. IsFdepRule(FdepRule(f, i), f, i)
    BY DEF IsFdepRule, FdepRule
  <2>3. QED  BY <2>1, <2>2
<1>5. QED  BY <1>1, <1>2, <1>3, <1>4

-----------------------------------------------------------------------------
(* Parents and children. *)

\* Only gates have children.
LEMMA ParentIsGate ==
  ASSUME NEW c, NEW p \in Parents(c)
  PROVE  p \in Gates /\ c \in ChildrenOf(p) /\ c \in Nodes
<1>1. p \in Nodes /\ c \in ChildrenOf(p)
  BY DEF Parents
<1>2. Children(p) \in Seq(Nodes) /\ (tree[p].type = "be" => Children(p) = <<>>)
  BY <1>1, TreeAssumption
<1>3. \E i \in DOMAIN Children(p) : c = Children(p)[i]
  BY <1>1 DEF ChildrenOf, Range, Children
<1>4. tree[p].type # "be" /\ c \in Nodes
  BY <1>2, <1>3
<1>5. QED  BY <1>1, <1>4 DEF Gates, BasicEvents, OfType

\* A child is at one place among the children of a gate.
LEMMA ChildPlace ==
  ASSUME NEW g \in Gates, NEW c \in ChildrenOf(g)
  PROVE  /\ LocalID(g, c) \in Kids(g) /\ LocalID(g, c) # 0
         /\ Children(g)[LocalID(g, c)] = c
         /\ g \in Parents(c) /\ c \in Nodes
<1>1. Children(g) \in Seq(Nodes) /\ g \in Nodes
  BY GateIsNode
<1>2. \E i \in DOMAIN Children(g) : Children(g)[i] = c
  BY DEF ChildrenOf, Range, Children
<1>3. LocalID(g, c) \in DOMAIN Children(g) /\ Children(g)[LocalID(g, c)] = c
  BY <1>2 DEF LocalID
<1>4. DOMAIN Children(g) = Kids(g)
  BY <1>1 DEF Kids
<1>5. c \in Nodes
  BY <1>1, <1>2
<1>6. QED  BY <1>1, <1>3, <1>4, <1>5 DEF Parents, Kids

-----------------------------------------------------------------------------
(* The invariant. *)

\* The parents of node c were told of it by a dependency gate.
Notified(c) ==
  \E f \in FDeps : \E k \in DOMAIN Dependers(f) :
    Dependers(f)[k] = c /\ Tells(f, node[f], k)

\* What every gate has heard is what its children have said and what the
\* dependency gates have told of them.
Agrees ==
  \A p \in Gates : \A c \in ChildrenOf(p) :
    Hears(p, node[p], LocalID(p, c)) <=> Says(c, node[c]) \/ Notified(c)

\* No node is in an error state.
AllGood == \A n \in Nodes : Good(n)

\* Some node is broken for good, or all work and agree.
Broken == \E n \in Nodes : Typed(n) /\ ~Working(n)
Agreement == /\ DOMAIN node = {toplevel} \cup Nodes
             /\ Broken \/ (AllGood /\ Agrees)

\* A node in an error state is a model error.
LEMMA BrokenIsError ==
  Broken => ~NoModelError
<1> SUFFICES ASSUME NEW n \in Nodes, ~Working(n)  PROVE  ~NoModelError
  BY DEF Broken
<1>1. CASE n \in BasicEvents
  BY <1>1, EventIs DEF NoModelError, Working, Works
<1>2. CASE n \in Gates
  <2>1. tree[n].type # "be" /\ tree[n].type # "fdep" /\ node[n].mode # "live"
    BY <1>2, GateIsNode DEF Working, Works
  <2>2. n \in Gates \ OfType("fdep")
    BY <1>2, <2>1 DEF OfType
  <2>3. QED  BY <2>1, <2>2 DEF NoModelError
<1>3. QED  BY <1>1, <1>2, KindsOfNodes

\* A rule moves the nodes that it names by their own transitions.
LEMMA FireMovesNodes ==
  ASSUME NEW rule, Fire(rule), NEW n \in Nodes, DOMAIN node = {toplevel} \cup Nodes
  PROVE  /\ DOMAIN node' = DOMAIN node
         /\ n \notin DOMAIN rule => node'[n] = node[n]
         /\ n \in DOMAIN rule => \E t \in Trans(n) : t[1] = rule[n] /\ t[2] = node'[n]
<1>1. PICK next \in [DOMAIN rule -> UNION {Targets(m, rule[m]) : m \in DOMAIN rule}] :
        /\ \A m \in DOMAIN rule : next[m] \in Targets(m, rule[m])
        /\ node' = [m \in DOMAIN node |-> IF m \in DOMAIN rule THEN next[m] ELSE node[m]]
  BY DEF Fire
<1>2. n \in DOMAIN rule => node'[n] \in Targets(n, rule[n])
  BY <1>1
<1>3. QED  BY <1>1, <1>2 DEF Targets

\* A rate moves one basic event.
LEMMA ElapseMovesEvent ==
  ASSUME Elapse, DOMAIN node = {toplevel} \cup Nodes
  PROVE  \E b \in BasicEvents : \E t \in Trans(b) :
           /\ t[1] \in Rated(b) /\ node'[b] = t[2]
           /\ DOMAIN node' = DOMAIN node
           /\ \A n \in Nodes \ {b} : node'[n] = node[n]
<1>1. PICK b \in BasicEvents : \E t \in Trans(b) :
        t[1] \in Rated(b) /\ node' = [node EXCEPT ![b] = t[2]]
  BY DEF Elapse
<1>2. b \in DOMAIN node
  BY EventIs
<1>3. QED  BY <1>1, <1>2

\* A model error is for good.
LEMMA BrokenStays ==
  ASSUME Broken, Next, DOMAIN node = {toplevel} \cup Nodes
  PROVE  Broken'
<1>1. PICK n \in Nodes : Typed(n) /\ ~Working(n)
  BY DEF Broken
<1>2. node'[n] = node[n] \/ \E t \in Trans(n) : node'[n] = t[2]
  <2>1. ASSUME NEW rule \in Rules, Fire(rule)
        PROVE  node'[n] = node[n] \/ \E t \in Trans(n) : node'[n] = t[2]
    BY <2>1, FireMovesNodes
  <2>2. ASSUME Elapse  PROVE  node'[n] = node[n] \/ \E t \in Trans(n) : node'[n] = t[2]
    BY <2>2, ElapseMovesEvent
  <2>3. QED  BY <2>1, <2>2 DEF Next, Interact
<1>3. node'[n] \in StatesOf(n) /\ ~Works(n, node'[n])
  BY <1>1, <1>2, NodeStaysBroken DEF Typed, Working
<1>4. QED  BY <1>3 DEF Broken, Typed, Working

-----------------------------------------------------------------------------
(* What the rules carry. *)

\* Every rule gives the nodes of the tree labels that they can follow.
LEMMA LabelsOfRules ==
  ASSUME NEW rule \in Rules, NEW n \in DOMAIN rule, n \in Nodes
  PROVE  RuleLabel(n, rule[n])
<1>1. \A j : /\ FAIL(j)[1] = "FAIL" /\ ONLINE(j)[1] = "ONLINE"
             /\ \A i : FAIL(j) # ONLINE(i) /\ (ONLINE(i) = ONLINE(j) <=> i = j)
  BY NewsDiffer DEF FAIL, ONLINE
<1>2. 0 \notin Kids(n)
  BY DEF Kids
<1>3. ASSUME NEW i, rule[n] = FAIL(i)  PROVE  RuleLabel(n, rule[n])
  BY <1>1, <1>3 DEF RuleLabel
<1>4. ASSUME rule[n] = ONLINE(0)  PROVE  RuleLabel(n, rule[n])
  BY <1>1, <1>2, <1>4 DEF RuleLabel
<1>5. ASSUME NEW i, rule[n] = ONLINE(i), n \in Repairable  PROVE  RuleLabel(n, rule[n])
  BY <1>1, <1>5 DEF RuleLabel
<1>6. ASSUME NEW c \in Nodes, IsFailRule(rule, c)  PROVE  RuleLabel(n, rule[n])
  BY <1>3, <1>6 DEF IsFailRule
<1>7. ASSUME NEW c \in Nodes, IsOnlineRule(rule, c)  PROVE  RuleLabel(n, rule[n])
  BY <1>4, <1>5, <1>7 DEF IsOnlineRule
<1>8. CASE IsTopOnline(rule)
  BY <1>4, <1>8 DEF IsTopOnline
<1>9. ASSUME NEW f \in FDeps, NEW i \in DOMAIN Dependers(f), IsFdepRule(rule, f, i)
      PROVE  RuleLabel(n, rule[n])
  BY <1>3, <1>9 DEF IsFdepRule
<1>10. CASE IsQuietRule(rule)
  <2>1. rule[n][1] \in {"ACTIVATE", "DEACTIVATE", "INSPECT", "IMPOSSIBLE"}
    BY <1>10 DEF IsQuietRule
  <2>2. \A j : rule[n] # ONLINE(j)
    BY <1>1, <2>1
  <2>3. QED  BY <2>1, <2>2 DEF RuleLabel
<1>11. QED  BY <1>6, <1>7, <1>8, <1>9, <1>10, RuleKinds

\* Two children of a gate are at two places.
LEMMA PlacesDiffer ==
  ASSUME NEW g \in Gates, NEW c \in ChildrenOf(g), NEW d \in ChildrenOf(g)
  PROVE  LocalID(g, c) = LocalID(g, d) <=> c = d
  BY ChildPlace

\* The trees have no depender of a dependency gate at place 0.
LEMMA DependerPlaces ==
  ASSUME NEW f \in FDeps, NEW i \in DOMAIN Dependers(f)
  PROVE  /\ i \in Nat \ {0} /\ i + 1 # 0 /\ i + 1 # 1
         /\ \A k \in DOMAIN Dependers(f) : i + 1 = k + 1 <=> i = k
         /\ Dependers(f)[i] \in Nodes /\ Dependers(f)[i] \in Dependents
<1>1. Dependers(f) \in Seq(Nodes)
  BY NodeAssumption DEF FDeps, OfType
<1>2. Dependers(f)[i] \in Range(Dependers(f))
  BY DEF Range
<1>3. QED  BY <1>1, <1>2 DEF Dependents, FDeps

-----------------------------------------------------------------------------
(* A rule that breaks nobody passes on its news. *)

\* The same, of the present state.
Hears1(p, c) == Hears(p, node[p], LocalID(p, c))
Says1(c)     == Says(c, node[c])
Told(f, k)   == Tells(f, node[f], k)

\* A node takes part in a rule with a label.
Gets(rule, n, l) == n \in DOMAIN rule /\ rule[n] = l

\* What a rule changes of it.
News(rule) ==
  /\ \A p \in Gates : \A c \in ChildrenOf(p) :
       LET i == LocalID(p, c)
       IN  /\ Hears1(p, c)' <=> Gets(rule, p, FAIL(i)) \/ (~Gets(rule, p, ONLINE(i)) /\ Hears1(p, c))
           /\ Says1(c)' <=> Gets(rule, c, FAIL(0)) \/ (~Gets(rule, c, ONLINE(0)) /\ Says1(c))
           /\ Gets(rule, c, ONLINE(0)) => tree[c].type = "wsp" \/ c \in Repairable
  /\ \A f \in FDeps : \A k \in DOMAIN Dependers(f) :
       Told(f, k)' <=> Told(f, k) \/ Gets(rule, f, FAIL(k + 1))

\* A rule without an error brings its news and nothing else.
LEMMA FireEffect ==
  ASSUME DOMAIN node = {toplevel} \cup Nodes, AllGood, NEW rule \in Rules, Fire(rule)
  PROVE  Broken' \/ (AllGood' /\ News(rule))
<1> DEFINE Moves(n) == Effect(n, rule[n], node'[n])
           Stays(n) == node'[n] = node[n]
<1>1. \A n \in Nodes : (n \in DOMAIN rule => Moves(n)) /\ (n \notin DOMAIN rule => Stays(n))
  <2>1. SUFFICES ASSUME NEW n \in Nodes
                 PROVE  (n \in DOMAIN rule => Moves(n)) /\ (n \notin DOMAIN rule => Stays(n))
    OBVIOUS
  <2>2. CASE n \in DOMAIN rule
    <3>1. PICK t \in Trans(n) : t[1] = rule[n] /\ t[2] = node'[n]
      BY <2>2, FireMovesNodes
    <3>2. Good(n) /\ RuleLabel(n, t[1])
      BY <2>2, <3>1, LabelsOfRules DEF AllGood
    <3>3. Effect(n, t[1], t[2])
      BY <3>2, NodeStep
    <3>4. QED  BY <2>2, <3>1, <3>3
  <2>3. CASE n \notin DOMAIN rule
    BY <2>3, FireMovesNodes
  <2>4. QED  BY <2>2, <2>3
<1> HIDE DEF Moves, Stays
<1>2. CASE \E n \in Nodes : n \in DOMAIN rule /\ ~Works(n, node'[n])
  <2>1. PICK n \in Nodes : n \in DOMAIN rule /\ ~Works(n, node'[n])
    BY <1>2
  <2>2. node'[n] \in StatesOf(n)
    BY <1>1, <2>1 DEF Moves, Effect
  <2>3. Broken'
    BY <2>1, <2>2 DEF Broken, Typed, Working
  <2>4. QED  BY <2>3
<1>3. CASE \A n \in Nodes : n \in DOMAIN rule => Works(n, node'[n])
  <2>1. \A n \in Nodes : n \in DOMAIN rule =>
          /\ node'[n] \in StatesOf(n) /\ Works(n, node'[n]) /\ Sound(n, node'[n])
          /\ Follows(n, rule[n], node'[n])
    BY <1>1, <1>3 DEF Moves, Effect
  <2>2. AllGood'
    <3> SUFFICES ASSUME NEW n \in Nodes  PROVE  Good(n)'
      BY DEF AllGood
    <3>1. CASE n \in DOMAIN rule
      BY <2>1, <3>1 DEF Good, Typed, Working
    <3>2. CASE n \notin DOMAIN rule
      BY <1>1, <3>2 DEF Stays, Good, Typed, Working, AllGood
    <3>3. QED  BY <3>1, <3>2
  <2>3. ASSUME NEW p \in Gates, NEW c \in ChildrenOf(p)
        PROVE  LET i == LocalID(p, c)
               IN  /\ Hears1(p, c)' <=> Gets(rule, p, FAIL(i)) \/ (~Gets(rule, p, ONLINE(i)) /\ Hears1(p, c))
                   /\ Says1(c)' <=> Gets(rule, c, FAIL(0)) \/ (~Gets(rule, c, ONLINE(0)) /\ Says1(c))
                   /\ Gets(rule, c, ONLINE(0)) => tree[c].type = "wsp" \/ c \in Repairable
    <3> DEFINE i == LocalID(p, c)
    <3>1. i \in Kids(p) /\ c \in Nodes /\ p \in Nodes /\ Parents(c) # {}
      BY ChildPlace, GateIsNode
    <3> HIDE DEF i
    <3>2. Hears(p, node'[p], i) <=> Gets(rule, p, FAIL(i)) \/ (~Gets(rule, p, ONLINE(i)) /\ Hears(p, node[p], i))
      <4>1. CASE p \in DOMAIN rule
        <5>1. Follows(p, rule[p], node'[p])
          BY <2>1, <3>1, <4>1
        <5>2. Hears(p, node'[p], i) <=> rule[p] = FAIL(i) \/ (rule[p] # ONLINE(i) /\ Hears(p, node[p], i))
          BY <3>1, <5>1, Zenon DEF Follows
        <5>3. QED  BY <4>1, <5>2, Zenon DEF Gets
      <4>2. CASE p \notin DOMAIN rule
        BY <1>1, <3>1, <4>2, Zenon DEF Stays, Gets
      <4>3. QED  BY <4>1, <4>2
    <3>3. /\ Says(c, node'[c]) <=> Gets(rule, c, FAIL(0)) \/ (~Gets(rule, c, ONLINE(0)) /\ Says(c, node[c]))
          /\ Gets(rule, c, ONLINE(0)) => tree[c].type = "wsp" \/ c \in Repairable
      <4>1. CASE c \in DOMAIN rule
        <5>1. Follows(c, rule[c], node'[c])
          BY <2>1, <3>1, <4>1
        <5>2. /\ Says(c, node'[c]) <=> rule[c] = FAIL(0) \/ (rule[c] # ONLINE(0) /\ Says(c, node[c]))
              /\ rule[c] = ONLINE(0) => tree[c].type = "wsp" \/ c \in Repairable
          BY <3>1, <5>1, Zenon DEF Follows
        <5>3. QED  BY <4>1, <5>2, Zenon DEF Gets
      <4>2. CASE c \notin DOMAIN rule
        BY <1>1, <3>1, <4>2, Zenon DEF Stays, Gets
      <4>3. QED  BY <4>1, <4>2
    <3>4. QED  BY <3>2, <3>3, Zenon DEF Hears1, Says1, i
  <2>4. ASSUME NEW f \in FDeps, NEW k \in DOMAIN Dependers(f)
        PROVE  Told(f, k)' <=> Told(f, k) \/ Gets(rule, f, FAIL(k + 1))
    <3>1. f \in Nodes /\ tree[f].type = "fdep" /\ k \in Nat \ {0}
      BY FDepIs, GateIsNode, DependerPlaces
    <3>2. CASE f \in DOMAIN rule
      <4>1. Follows(f, rule[f], node'[f])
        BY <2>1, <3>1, <3>2
      <4>2. Tells(f, node'[f], k) <=> Tells(f, node[f], k) \/ (tree[f].type = "fdep" /\ rule[f] = FAIL(k + 1))
        BY <3>1, <4>1, Zenon DEF Follows
      <4>3. QED  BY <3>1, <3>2, <4>2, Zenon DEF Gets, Told
    <3>3. CASE f \notin DOMAIN rule
      BY <1>1, <3>1, <3>3, Zenon DEF Stays, Gets, Told
    <3>4. QED  BY <3>2, <3>3
  <2>5. News(rule)
    BY <2>3, <2>4, Zenon DEF News
  <2>6. QED  BY <2>2, <2>5
<1>4. QED  BY <1>2, <1>3

\* Agreement outlives a failure: it reaches all parents.
LEMMA FailAgrees ==
  ASSUME RecoveriesReach, Agrees, NEW rule, NEW d \in Nodes, IsFailRule(rule, d), News(rule)
  PROVE  Agrees'
<1>1. ASSUME NEW p \in Gates, NEW c \in ChildrenOf(p)
      PROVE  /\ Gets(rule, p, FAIL(LocalID(p, c))) <=> c = d
             /\ ~Gets(rule, p, ONLINE(LocalID(p, c)))
             /\ Gets(rule, c, FAIL(0)) <=> c = d
             /\ ~Gets(rule, c, ONLINE(0))
  <2>1. /\ LocalID(p, c) # 0 /\ p \in Parents(c) /\ c \in Nodes /\ c \notin Parents(c)
        /\ p \in Parents(d) => d \in ChildrenOf(p) /\ LocalID(p, d) # 0
                                 /\ (LocalID(p, d) = LocalID(p, c) <=> c = d)
    <3>1. p \in Parents(d) => d \in ChildrenOf(p)
      BY DEF Parents
    <3>2. c \notin Parents(c)
      BY ChildPlace DEF RecoveriesReach, Parents
    <3>3. QED  BY <3>1, <3>2, ChildPlace, PlacesDiffer
  <2>2. c \in Parents(d) => LocalID(c, d) # 0
    <3>1. c \in Parents(d) => c \in Gates /\ d \in ChildrenOf(c)
      BY ParentIsGate
    <3>2. QED  BY <3>1, ChildPlace
  <2>3. \A n \in DOMAIN rule : n = d \/ n \in Parents(d)
    BY DEF IsFailRule
  <2>4. QED  BY <2>1, <2>2, <2>3, NewsDiffer DEF IsFailRule, Gets
<1>2. ASSUME NEW f \in FDeps, NEW k \in DOMAIN Dependers(f)
      PROVE  ~Gets(rule, f, FAIL(k + 1))
  <2>1. k + 1 # 0 /\ k + 1 # 1
    BY DependerPlaces
  <2>2. ASSUME f \in Parents(d)  PROVE  LocalID(f, d) = 1
    BY <2>2, ParentIsGate, ChildPlace, FDepIs
  <2>3. QED  BY <2>1, <2>2, NewsDiffer DEF IsFailRule, Gets
<1>3. \A c : Notified(c)' <=> Notified(c)
  BY <1>2 DEF News, Notified, Told
<1>4. QED  BY <1>1, <1>3, Zenon DEF News, Agrees, Hears1, Says1

\* Agreement outlives a recovery: all parents who heard of the failure are told,
LEMMA OnlineAgrees ==
  ASSUME RecoveriesReach, Agrees, NEW rule, NEW d \in Nodes, IsOnlineRule(rule, d), News(rule)
  PROVE  Agrees'
<1>1. Gets(rule, d, ONLINE(0))
  BY DEF IsOnlineRule, Gets
<1>2. PICK q \in Parents(d) \cap Repairable : TRUE
  BY DEF IsOnlineRule
<1>3. tree[d].type = "wsp" \/ d \in Repairable
  BY <1>1, <1>2, ParentIsGate DEF News
<1>4. Parents(d) \subseteq Repairable /\ d \notin Dependents
  BY <1>2, <1>3 DEF RecoveriesReach, FDeps
<1>5. ASSUME NEW p \in Gates, NEW c \in ChildrenOf(p)
      PROVE  /\ Gets(rule, p, ONLINE(LocalID(p, c))) <=> c = d
             /\ ~Gets(rule, p, FAIL(LocalID(p, c)))
             /\ Gets(rule, c, ONLINE(0)) <=> c = d
             /\ ~Gets(rule, c, FAIL(0))
  <2>1. /\ LocalID(p, c) # 0 /\ p \in Parents(c) /\ c \in Nodes /\ c \notin Parents(c)
        /\ p \in Parents(d) => d \in ChildrenOf(p) /\ LocalID(p, d) # 0
                                 /\ (LocalID(p, d) = LocalID(p, c) <=> c = d)
    <3>1. p \in Parents(d) => d \in ChildrenOf(p)
      BY DEF Parents
    <3>2. c \notin Parents(c)
      BY ChildPlace DEF RecoveriesReach, Parents
    <3>3. QED  BY <3>1, <3>2, ChildPlace, PlacesDiffer
  <2>2. c \in Parents(d) => LocalID(c, d) # 0
    <3>1. c \in Parents(d) => c \in Gates /\ d \in ChildrenOf(c)
      BY ParentIsGate
    <3>2. QED  BY <3>1, ChildPlace
  <2>3. DOMAIN rule = {d} \cup Parents(d)
    BY <1>4 DEF IsOnlineRule
  <2>4. rule[d] = ONLINE(0) /\ \A n \in Parents(d) : n # d => rule[n] = ONLINE(LocalID(n, d))
    BY <1>4 DEF IsOnlineRule
  <2>5. QED  BY <2>1, <2>2, <2>3, <2>4, NewsDiffer DEF Gets
<1>6. ASSUME NEW f \in FDeps, NEW k \in DOMAIN Dependers(f)
      PROVE  ~Gets(rule, f, FAIL(k + 1))
  <2>1. \A n \in DOMAIN rule : rule[n] = ONLINE(0) \/ rule[n] = ONLINE(LocalID(n, d))
    BY DEF IsOnlineRule
  <2>2. QED  BY <2>1, NewsDiffer DEF Gets
<1>7. \A c : Notified(c)' <=> Notified(c)
  BY <1>6 DEF News, Notified, Told
<1>8. ~Notified(d)
  <2>1. \A f \in FDeps : \A k \in DOMAIN Dependers(f) : Dependers(f)[k] # d
    BY <1>4, DependerPlaces
  <2>2. QED  BY <2>1 DEF Notified
<1>9. QED  BY <1>5, <1>7, <1>8, Zenon DEF News, Agrees, Hears1, Says1

\* a dependency,
LEMMA DependencyAgrees ==
  ASSUME RecoveriesReach, Agrees, AllGood', NEW rule, News(rule),
         NEW f \in FDeps, NEW i \in DOMAIN Dependers(f), IsFdepRule(rule, f, i)
  PROVE  Agrees'
<1> DEFINE d == Dependers(f)[i]
<1>0. /\ DOMAIN rule = {f} \cup Parents(d) /\ rule[f] = FAIL(i + 1)
      /\ \A p \in Parents(d) : p # f => rule[p] = FAIL(LocalID(p, d))
      /\ d \in Nodes /\ i \in Nat \ {0} /\ i + 1 # 0 /\ i + 1 # 1 /\ d = Dependers(f)[i]
  BY DependerPlaces DEF IsFdepRule
<1> HIDE DEF d
<1>1. ASSUME NEW p \in Gates, NEW c \in ChildrenOf(p)
      PROVE  /\ p # f => (Gets(rule, p, FAIL(LocalID(p, c))) <=> c = d)
             /\ p = f => ~Gets(rule, p, FAIL(LocalID(p, c)))
             /\ ~Gets(rule, p, ONLINE(LocalID(p, c)))
             /\ ~Gets(rule, c, FAIL(0)) /\ ~Gets(rule, c, ONLINE(0))
  <2>1. /\ LocalID(p, c) # 0 /\ p \in Parents(c) /\ c \in Nodes
        /\ p \in Parents(d) => d \in ChildrenOf(p) /\ LocalID(p, d) # 0
                                 /\ (LocalID(p, d) = LocalID(p, c) <=> c = d)
        /\ p = f => LocalID(p, c) = 1
    <3>1. p \in Parents(d) => d \in ChildrenOf(p)
      BY DEF Parents
    <3>2. QED  BY <3>1, ChildPlace, PlacesDiffer, FDepIs
  <2>2. c \in Parents(d) => LocalID(c, d) # 0
    <3>1. c \in Parents(d) => c \in Gates /\ d \in ChildrenOf(c)
      BY ParentIsGate
    <3>2. QED  BY <3>1, ChildPlace
  <2>3. QED  BY <1>0, <2>1, <2>2, NewsDiffer DEF Gets
<1>2. ASSUME NEW g \in FDeps, NEW k \in DOMAIN Dependers(g)
      PROVE  Gets(rule, g, FAIL(k + 1)) <=> g = f /\ k = i
  <2>1. k + 1 # 1 /\ k \in Nat
    BY DependerPlaces
  <2>2. ASSUME g \in Parents(d)  PROVE  LocalID(g, d) = 1
    BY <2>2, ParentIsGate, ChildPlace, FDepIs
  <2>3. k + 1 = i + 1 <=> k = i
    BY <1>0, <2>1
  <2>4. QED  BY <1>0, <2>1, <2>2, <2>3, NewsDiffer DEF Gets
<1>3. \A c : Notified(c)' <=> Notified(c) \/ c = d
  BY <1>0, <1>2, Zenon DEF News, Notified, Told
<1>4. \A j : Hears(f, node[f], j)'
  <2>1. Told(f, i)'
    BY <1>2, Zenon DEF News
  <2>2. tree[f].type = "fdep" /\ f \in Nodes
    BY FDepIs, GateIsNode
  <2>3. Sound(f, node[f])'
    BY <2>2 DEF AllGood, Good
  <2>4. node[f].failed'
    BY <2>1, <2>2, <2>3 DEF Told, Tells, Sound
  <2>5. QED  BY <2>2, <2>4 DEF Hears
<1>5. ASSUME NEW p \in Gates, NEW c \in ChildrenOf(p)
      PROVE  Hears(p, node[p], LocalID(p, c))' <=> (Says(c, node[c]) \/ Notified(c))'
  <2>1. Says1(c)' <=> Says1(c)
    BY <1>1, Zenon DEF News
  <2>2. CASE p # f
    <3>1. Hears1(p, c)' <=> Hears1(p, c) \/ c = d
      BY <1>1, <2>2, Zenon DEF News
    <3>2. QED  BY <1>3, <2>1, <3>1, Zenon DEF Agrees, Hears1, Says1
  <2>3. CASE p = f
    <3>1. Hears1(p, c)' <=> Hears1(p, c)
      BY <1>1, <2>3, Zenon DEF News
    <3>2. Hears1(p, c)'
      BY <1>4, <2>3 DEF Hears1
    <3>3. QED  BY <1>3, <2>1, <3>1, <3>2, Zenon DEF Agrees, Hears1, Says1
  <2>4. QED  BY <2>2, <2>3
<1>6. QED  BY <1>5, Zenon DEF Agrees

\* the other rules,
LEMMA OtherAgrees ==
  ASSUME RecoveriesReach, Agrees, NEW rule, News(rule), IsQuietRule(rule) \/ IsTopOnline(rule)
  PROVE  Agrees'
<1>1. ASSUME NEW n, NEW i, Parents(n) # {} \/ n \in Gates \/ i # 0
      PROVE  /\ ~Gets(rule, n, FAIL(i))
             /\ Gets(rule, n, ONLINE(i)) => i = 0 /\ Parents(n) = {}
  <2>1. FAIL(i)[1] = "FAIL" /\ ONLINE(i)[1] = "ONLINE" /\ (ONLINE(i) = ONLINE(0) <=> i = 0)
        /\ FAIL(i) # ONLINE(0)
    BY NewsDiffer DEF FAIL, ONLINE
  <2>2. CASE IsQuietRule(rule)
    BY <2>1, <2>2 DEF IsQuietRule, Gets
  <2>3. CASE IsTopOnline(rule)
    BY <2>1, <2>3 DEF IsTopOnline, Gets, RecoveriesReach
  <2>4. QED  BY <2>2, <2>3
<1>2. ASSUME NEW p \in Gates, NEW c \in ChildrenOf(p)
      PROVE  (Hears1(p, c)' <=> Hears1(p, c)) /\ (Says1(c)' <=> Says1(c))
  <2>1. LocalID(p, c) # 0 /\ Parents(c) # {}
    BY ChildPlace
  <2>2. /\ ~Gets(rule, p, FAIL(LocalID(p, c))) /\ ~Gets(rule, p, ONLINE(LocalID(p, c)))
        /\ ~Gets(rule, c, FAIL(0)) /\ ~Gets(rule, c, ONLINE(0))
    BY <1>1, <2>1
  <2>3. QED  BY <2>2 DEF News
<1>3. \A c : Notified(c)' <=> Notified(c)
  <2>1. ASSUME NEW f \in FDeps, NEW k \in DOMAIN Dependers(f)  PROVE  ~Gets(rule, f, FAIL(k + 1))
    BY <1>1, FDepIs
  <2>2. QED  BY <2>1 DEF News, Notified, Told
<1>4. QED  BY <1>2, <1>3, Zenon DEF Agrees, Hears1, Says1

\* and so every rule.
LEMMA FireAgrees ==
  ASSUME RecoveriesReach, DOMAIN node = {toplevel} \cup Nodes, AllGood, Agrees,
         NEW rule \in Rules, Fire(rule)
  PROVE  Broken' \/ (AllGood' /\ Agrees')
<1>1. CASE AllGood' /\ News(rule)
  <2>1. Agrees'
    BY <1>1, RuleKinds, FailAgrees, OnlineAgrees, DependencyAgrees, OtherAgrees, Zenon
  <2>2. QED  BY <1>1, <2>1
<1>2. QED  BY <1>1, FireEffect

-----------------------------------------------------------------------------
(* When no rule can fire. *)

\* Then nobody has a failure to announce,
LEMMA FailuresAreOut ==
  ASSUME AllGood, Settled, NEW c \in Nodes, c = top \/ Parents(c) # {}
  PROVE  Targets(c, FAIL(0)) = {}
<1>1. PICK rule \in Rules : IsFailRule(rule, c)
  BY RulesExist
<1>2. \A p \in Parents(c) \ {c} : Targets(p, rule[p]) # {}
  <2>1. SUFFICES ASSUME NEW p \in Parents(c) \ {c}  PROVE  Targets(p, rule[p]) # {}
    OBVIOUS
  <2>2. p \in Gates /\ c \in ChildrenOf(p) /\ p \in Nodes
    BY ParentIsGate, GateIsNode
  <2>3. rule[p] = FAIL(LocalID(p, c)) /\ LocalID(p, c) \in Kids(p) /\ Good(p)
    BY <1>1, <2>2, ChildPlace DEF IsFailRule, AllGood
  <2>4. QED  BY <2>2, <2>3, GatesListen
<1>3. ~Enabled(rule)
  BY DEF Settled
<1>4. QED  BY <1>1, <1>2, <1>3 DEF Enabled, IsFailRule

\* or a recovery,
LEMMA RecoveriesAreOut ==
  ASSUME RecoveriesReach, AllGood, Settled, NEW c \in Nodes,
         (c = top /\ top \in Repairable) \/ Parents(c) \cap Repairable # {}
  PROVE  Targets(c, ONLINE(0)) = {}
<1>1. CASE c = top /\ top \in Repairable
  <2>1. PICK rule \in Rules : IsTopOnline(rule)
    BY <1>1, RulesExist
  <2>2. QED  BY <1>1, <2>1 DEF Settled, Enabled, IsTopOnline
<1>2. CASE Parents(c) \cap Repairable # {}
  <2>1. PICK rule \in Rules : IsOnlineRule(rule, c)
    BY <1>2, RulesExist
  <2>2. \A p \in (Parents(c) \cap Repairable) \ {c} : Targets(p, rule[p]) # {}
    <3>1. SUFFICES ASSUME NEW p \in (Parents(c) \cap Repairable) \ {c}
                   PROVE  Targets(p, rule[p]) # {}
      OBVIOUS
    <3>2. p \in Gates /\ c \in ChildrenOf(p) /\ p \in Nodes /\ p \notin FDeps
      BY ParentIsGate, GateIsNode DEF RecoveriesReach, FDeps
    <3>3. rule[p] = ONLINE(LocalID(p, c)) /\ LocalID(p, c) \in Kids(p) /\ Good(p)
      BY <2>1, <3>2, ChildPlace DEF IsOnlineRule, AllGood
    <3>4. QED  BY <3>2, <3>3, GatesListen
  <2>3. ~Enabled(rule)
    BY DEF Settled
  <2>4. QED  BY <2>1, <2>2, <2>3 DEF Enabled, IsOnlineRule
<1>3. QED  BY <1>1, <1>2

\* and no dependency gate has anyone to tell.
LEMMA DependersAreTold ==
  ASSUME AllGood, Settled, NEW f \in FDeps, NEW i \in DOMAIN Dependers(f)
  PROVE  Told(f, i) <=> node[f].failed
<1> DEFINE d == Dependers(f)[i]
<1>1. PICK rule \in Rules : IsFdepRule(rule, f, i)
  BY RulesExist
<1>2. /\ DOMAIN rule = {f} \cup Parents(d) /\ rule[f] = FAIL(i + 1)
      /\ \A p \in Parents(d) : p # f => rule[p] = FAIL(LocalID(p, d))
  BY <1>1 DEF IsFdepRule
<1> HIDE DEF d
<1>3. \A p \in Parents(d) : p # f => Targets(p, rule[p]) # {}
  <2>1. SUFFICES ASSUME NEW p \in Parents(d), p # f  PROVE  Targets(p, rule[p]) # {}
    OBVIOUS
  <2>2. p \in Gates /\ d \in ChildrenOf(p) /\ p \in Nodes
    BY ParentIsGate, GateIsNode
  <2>3. rule[p] = FAIL(LocalID(p, d)) /\ LocalID(p, d) \in Kids(p) /\ Good(p)
    BY <1>2, <2>1, <2>2, ChildPlace DEF AllGood
  <2>4. QED  BY <2>2, <2>3, GatesListen
<1>4. Targets(f, FAIL(i + 1)) = {}
  <2>1. ~Enabled(rule)
    BY DEF Settled
  <2>2. QED  BY <1>2, <1>3, <2>1 DEF Enabled
<1>5. tree[f].type = "fdep" /\ f \in Nodes /\ i \in 1..Len(Dependers(f)) /\ Sound(f, node[f])
  BY FDepIs, GateIsNode DEF AllGood, Good
<1>6. ASSUME node[f].failed, i \notin node[f].notified  PROVE  FALSE
  <2> DEFINE y == [node[f] EXCEPT !.notified = @ \cup {i}]
  <2>1. <<FAIL(i + 1), y>> \in FDepAt(f)!NotifyParents
    BY <1>5, <1>6, Zenon DEF FDepAt!NotifyParents, FAIL, FDepAt!FAIL
  <2> HIDE DEF y
  <2>2. <<FAIL(i + 1), y>> \in Trans(f)
    BY <2>1, TransOf DEF FDepAt!Trans
  <2>3. QED  BY <1>4, <2>2 DEF Targets
<1>7. QED  BY <1>5, <1>6 DEF Told, Tells, Sound

\* A basic event has said what it is.
LEMMA EventsHaveSaid ==
  ASSUME RecoveriesReach, AllGood, Settled, NEW b \in BasicEvents, Parents(b) # {}
  PROVE  /\ ~node[b].emit_fail /\ ~node[b].emit_online
         /\ Says(b, node[b]) <=> b \in DownEvents
<1>1. b \in Nodes /\ tree[b].type = "be" /\ node[b] \in EventStates /\ Sound(b, node[b])
      /\ node[b].status \notin {"IMPOSSIBLE", "TERMINATED"}
  BY EventIs DEF AllGood, Good, Typed, Working, Works
<1>2. ~node[b].emit_fail
  <2>1. SUFFICES ASSUME node[b].emit_fail  PROVE  FALSE
    OBVIOUS
  <2>2. \E y : <<FAIL(0), y>> \in EventAt(b)!AnnounceFail
    BY <2>1, Zenon DEF EventAt!AnnounceFail, EventAt!When, FAIL, EventAt!FAIL
  <2>3. EventAt(b)!AnnounceFail \subseteq Trans(b)
    BY <1>1, TransOf DEF EventAt!Trans
  <2>4. Targets(b, FAIL(0)) # {}
    BY <2>2, <2>3 DEF Targets
  <2>5. QED  BY <1>1, <2>4, FailuresAreOut
<1>3. ~node[b].emit_online
  <2>1. SUFFICES ASSUME node[b].emit_online  PROVE  FALSE
    OBVIOUS
  <2>2. \E y : <<ONLINE(0), y>> \in EventAt(b)!AnnounceOnline
    BY <1>2, <2>1, Zenon DEF EventAt!AnnounceOnline, EventAt!When, ONLINE, EventAt!ONLINE
  <2>3. EventAt(b)!AnnounceOnline \subseteq Trans(b)
    BY <1>1, TransOf DEF EventAt!Trans
  <2>4. Targets(b, ONLINE(0)) # {}
    BY <2>2, <2>3 DEF Targets
  <2>5. tree[b].repair
    BY <1>1, <2>1 DEF Sound
  <2>6. Parents(b) \subseteq Repairable
    BY <2>5 DEF RecoveriesReach, FDeps
  <2>7. Parents(b) \cap Repairable # {}
    BY <2>6
  <2>8. QED  BY <1>1, <2>4, <2>7, RecoveriesAreOut
<1>4. QED  BY <1>1, <1>2, <1>3 DEF Says, IsDown, DownEvents

\* A rate is no news for the gates.
LEMMA ElapseAgrees ==
  ASSUME RecoveriesReach, DOMAIN node = {toplevel} \cup Nodes, AllGood, Agrees, Elapse
  PROVE  Broken' \/ (AllGood' /\ Agrees')
<1>1. PICK b \in BasicEvents : \E t \in Trans(b) :
           /\ t[1] \in Rated(b) /\ node'[b] = t[2]
           /\ DOMAIN node' = DOMAIN node
           /\ \A n \in Nodes \ {b} : node'[n] = node[n]
  BY ElapseMovesEvent
<1>2. PICK t \in Trans(b) : /\ t[1] \in Rated(b) /\ node'[b] = t[2]
                            /\ \A n \in Nodes \ {b} : node'[n] = node[n]
  BY <1>1, Zenon
<1>3. b \in Nodes /\ Good(b) /\ StatesOf(b) = EventStates /\ t \in EventAt(b)!Trans
  BY <1>2, EventIs, TransOf DEF AllGood
<1>4. Settled
  BY DEF Elapse
<1>5. Parents(b) # {} => ~node[b].emit_fail /\ ~node[b].emit_online
  BY <1>4, EventsHaveSaid
<1>6. /\ node'[b] \in EventStates
      /\ Works(b, node'[b]) => /\ Sound(b, node'[b])
                               /\ Parents(b) # {} => (Says(b, node'[b]) <=> Says(b, node[b]))
  BY <1>2, <1>3, <1>5, EventRate
<1>7. CASE ~Works(b, node'[b])
  BY <1>3, <1>6, <1>7 DEF Broken, Typed, Working
<1>8. CASE Works(b, node'[b])
  <2>1. AllGood'
    <3> SUFFICES ASSUME NEW n \in Nodes  PROVE  Good(n)'
      BY DEF AllGood
    <3>1. CASE n = b
      BY <1>3, <1>6, <1>8, <3>1 DEF Good, Typed, Working
    <3>2. CASE n # b
      BY <1>2, <3>2 DEF Good, Typed, Working, AllGood
    <3>3. QED  BY <3>1, <3>2
  <2>2. ASSUME NEW p \in Gates, NEW c \in ChildrenOf(p)
        PROVE  node'[p] = node[p] /\ (Says(c, node[c])' <=> Says(c, node[c]))
    <3>1. p # b /\ p \in Nodes /\ c \in Nodes /\ Parents(c) # {}
      BY ChildPlace, GateIsNode, KindsOfNodes
    <3>2. CASE c = b
      BY <1>2, <1>6, <1>8, <3>1, <3>2
    <3>3. CASE c # b
      BY <1>2, <3>1, <3>3
    <3>4. QED  BY <3>1, <3>2, <3>3, <1>2
  <2>3. \A f \in FDeps : node'[f] = node[f]
    BY <1>2, FDepIs, GateIsNode, KindsOfNodes
  <2>4. \A c : Notified(c)' <=> Notified(c)
    BY <2>3 DEF Notified
  <2>5. Agrees'
    BY <2>2, <2>4 DEF Agrees
  <2>6. QED  BY <2>1, <2>5
<1>9. QED  BY <1>7, <1>8

\* Agreement holds at first,
LEMMA InitAgrees ==
  ASSUME Init
  PROVE  Agreement /\ AllGood
<1>1. DOMAIN node = {toplevel} \cup Nodes /\ \A n \in Nodes : node[n] = InitialState(n)
  BY DEF Init
<1>2. AllGood
  BY <1>1, NodeStarts DEF AllGood
<1>3. Agrees
  <2> SUFFICES ASSUME NEW p \in Gates, NEW c \in ChildrenOf(p)
               PROVE  /\ ~Hears(p, node[p], LocalID(p, c))
                      /\ ~Says(c, node[c]) /\ ~Notified(c)
    BY DEF Agrees
  <2>1. p \in Nodes /\ c \in Nodes /\ LocalID(p, c) \in Kids(p)
    BY GateIsNode, ChildPlace
  <2>2. ~Hears(p, node[p], LocalID(p, c)) /\ ~Says(c, node[c])
    BY <1>1, <2>1, NodeStarts
  <2>3. ASSUME NEW f \in FDeps, NEW k  PROVE  ~Tells(f, node[f], k)
    <3>1. f \in Nodes
      BY FDepIs, GateIsNode
    <3>2. QED  BY <1>1, <3>1, NodeStarts
  <2>4. QED  BY <2>2, <2>3 DEF Notified
<1>4. QED  BY <1>1, <1>2, <1>3 DEF Agreement

\* and in every state after that.
THEOREM NodesAgree ==
  ASSUME RecoveriesReach
  PROVE  Spec => []Agreement
<1>1. Init => Agreement
  BY InitAgrees
<1>2. Agreement /\ [Next]_node => Agreement'
  <2> SUFFICES ASSUME Agreement, [Next]_node  PROVE  Agreement'
    OBVIOUS
  <2>1. CASE UNCHANGED node
    <3>1. Broken' <=> Broken
      BY <2>1 DEF Broken, Typed, Working
    <3>2. AllGood' <=> AllGood
      BY <2>1 DEF AllGood, Good, Typed, Working
    <3>3. Agrees' <=> Agrees
      BY <2>1 DEF Agrees, Notified
    <3>4. QED  BY <2>1, <3>1, <3>2, <3>3 DEF Agreement
  <2>2. CASE Next
    <3>1. DOMAIN node' = DOMAIN node
      <4>1. ASSUME NEW rule, Fire(rule)  PROVE  DOMAIN node' = DOMAIN node
        BY <4>1 DEF Fire
      <4>2. ASSUME Elapse  PROVE  DOMAIN node' = DOMAIN node
        BY <4>2 DEF Elapse
      <4>3. QED  BY <2>2, <4>1, <4>2 DEF Next, Interact
    <3>2. CASE Broken
      BY <2>2, <3>1, <3>2, BrokenStays DEF Agreement
    <3>3. CASE AllGood /\ Agrees
      <4>1. ASSUME NEW rule \in Rules, Fire(rule)  PROVE  Broken' \/ (AllGood' /\ Agrees')
        BY <3>3, <4>1, FireAgrees DEF Agreement
      <4>2. ASSUME Elapse  PROVE  Broken' \/ (AllGood' /\ Agrees')
        BY <3>3, <4>2, ElapseAgrees DEF Agreement
      <4>3. Broken' \/ (AllGood' /\ Agrees')
        BY <2>2, <4>1, <4>2, Zenon DEF Next, Interact
      <4>4. QED  BY <3>1, <4>3 DEF Agreement
    <3>4. QED  BY <3>2, <3>3 DEF Agreement
  <2>3. QED  BY <2>1, <2>2
<1>3. QED  BY <1>1, <1>2, PTL DEF Spec

-----------------------------------------------------------------------------
(* What the parents know between two rates. *)

\* A node that has been dragged along has been announced.
LEMMA DraggedIsNotified ==
  ASSUME AllGood, Settled, NEW c
  PROVE  Dragged(c) <=> Notified(c)
<1>1. Dragged(c) <=> \E f \in FDeps : node[f].failed /\ \E k \in DOMAIN Dependers(f) : Dependers(f)[k] = c
  BY DEF Dragged, FDeps, Range
<1>2. Notified(c) <=> \E f \in FDeps : \E k \in DOMAIN Dependers(f) : Dependers(f)[k] = c /\ Told(f, k)
  BY DEF Notified, Told
<1>3. \A f \in FDeps : \A k \in DOMAIN Dependers(f) : Told(f, k) <=> node[f].failed
  BY DependersAreTold
<1>4. QED  BY <1>1, <1>2, <1>3, Zenon

\* What a gate has heard of a child is what it knows of it.
LEMMA HeardIsHears ==
  ASSUME AllGood, NEW p \in Gates, NEW c
  PROVE  HeardFailed(p, c) <=> Hears(p, node[p], LocalID(p, c))
<1>1. p \in Votings \/ p \in PAnds \/ p \in Spares \/ p \in FDeps
  BY KindsOfNodes DEF Votings, PAnds, FDeps
<1>2. QED  BY <1>1, VotingIs, PAndIs, SpareIs, FDepIs DEF HeardFailed, Hears

\* With agreement, and no rule left to fire, what a gate has heard is what happened.
LEMMA AgreementSettled ==
  ASSUME RecoveriesReach, Agreement, NoModelError, Settled
  PROVE  \A p \in Gates : \A c \in ChildrenOf(p) : HeardFailed(p, c) <=> Failed(c)
<1>1. AllGood /\ Agrees
  BY BrokenIsError DEF Agreement
<1>2. SUFFICES ASSUME NEW p \in Gates, NEW c \in ChildrenOf(p)
               PROVE  HeardFailed(p, c) <=> Failed(c)
  OBVIOUS
<1>3. Hears(p, node[p], LocalID(p, c)) <=> Says(c, node[c]) \/ Dragged(c)
  BY <1>1, DraggedIsNotified, Zenon DEF Agrees
<1>4. c \in Nodes /\ Parents(c) # {}
  BY ChildPlace
<1>5. Says(c, node[c]) <=> IF c \in BasicEvents THEN c \in DownEvents ELSE node[c].done
  <2>1. CASE c \in BasicEvents
    BY <1>1, <1>4, <2>1, EventsHaveSaid
  <2>2. CASE c \notin BasicEvents
    <3>1. c \notin FDeps
      BY <1>4 DEF RecoveriesReach, FDeps
    <3>2. tree[c].type # "be" /\ tree[c].type # "fdep"
      BY <1>4, <2>2, <3>1 DEF BasicEvents, FDeps, OfType
    <3>3. QED  BY <2>2, <3>2 DEF Says
  <2>3. QED  BY <2>1, <2>2
<1>6. QED  BY <1>1, <1>3, <1>5, HeardIsHears, Zenon DEF Failed

\* Between two rates every parent knows which of its children have failed, in
\* every such tree: no FAIL or ONLINE is lost, late or told to the wrong place
\* (createSyncRule, createSyncRuleGateFDEP and the automata), unless an automaton
\* has already reported that it got an impossible signal.
THEOREM ParentsAlwaysAgree ==
  ASSUME RecoveriesReach
  PROVE  Spec => [](NoModelError => ParentsAgree)
<1>1. Agreement => (NoModelError => ParentsAgree)
  BY AgreementSettled DEF ParentsAgree
<1>2. QED  BY <1>1, NodesAgree, PTL

\* A gate has carried out its plans by the time that a rate elapses.
LEMMA PlansAreOut ==
  ASSUME AllGood, Settled, NEW g \in Votings, VotesAreHeard, node[g].emit_fail
  PROVE  node[g].done
<1>1. SUFFICES ASSUME ~node[g].done  PROVE  FALSE
  OBVIOUS
<1>2. g \in Nodes /\ node[g].mode = "live" /\ Trans(g) = VotingAt(g)!Trans
  BY VotingIs, GateIsNode, TransOf DEF AllGood, Good, Working, Works
<1>3. \E y : <<FAIL(0), y>> \in VotingAt(g)!AnnounceFail
  BY <1>1, Zenon DEF VotingAt!AnnounceFail, VotingAt!Offer, FAIL, VotingAt!FAIL
<1>4. VotingAt(g)!AnnounceFail \subseteq Trans(g)
  BY <1>2 DEF VotingAt!Trans
<1>5. Targets(g, FAIL(0)) # {}
  BY <1>3, <1>4 DEF Targets
<1>6. QED  BY <1>2, <1>5, FailuresAreOut DEF VotesAreHeard, Votings

\* Between two rates a voting gate has announced what it has counted.
LEMMA VotesMatch ==
  ASSUME RecoveriesReach, AllGood, Settled, NEW g \in Votings, VotesAreHeard
  PROVE  node[g].done <=> Cardinality(node[g].received) >= tree[g].threshold
<1> DEFINE x == node[g]
           t == tree[g].threshold
<1>1. /\ g \in Nodes /\ x \in VotingStates(g) /\ x.mode = "live" /\ t \in Nat
      /\ x.nr_failed = Cardinality(x.received)
      /\ x.nr_failed >= t => x.emit_fail \/ x.done
      /\ g \notin Repairable /\ (x.emit_fail \/ x.done) => x.nr_failed >= t
  BY VotingIs, GateIsNode DEF AllGood, Good, Typed, Working, Works, Sound
<1>2. x.nr_failed \in Int /\ x.done \in BOOLEAN /\ x.emit_fail \in BOOLEAN
  BY <1>1 DEF VotingStates
<1>3. Trans(g) = VotingAt(g)!Trans
  BY TransOf
<1>4. ASSUME x.emit_fail, ~x.done  PROVE  FALSE
  BY <1>4, PlansAreOut
<1>5. ASSUME g \in Repairable, x.done, x.nr_failed < t  PROVE  FALSE
  <2>1. \E y : <<ONLINE(0), y>> \in VotingAt(g)!AnnounceOnline
    BY <1>5, Zenon DEF VotingAt!AnnounceOnline, VotingAt!Offer, ONLINE, VotingAt!ONLINE
  <2>2. VotingAt(g)!AnnounceOnline \subseteq Trans(g)
    BY <1>1, <1>3 DEF VotingAt!Trans
  <2>3. Targets(g, ONLINE(0)) # {}
    BY <2>1, <2>2 DEF Targets
  <2>4. QED  BY <1>1, <1>5, <2>3, RecoveriesAreOut DEF VotesAreHeard, Votings
<1> HIDE DEF x, t
<1>6. x.done <=> x.nr_failed >= t
  BY <1>1, <1>2, <1>4, <1>5
<1>7. QED  BY <1>1, <1>6 DEF x, t

\* A gate has as many failed children as it has counted.
LEMMA CountOfChildren ==
  ASSUME NEW g \in Gates, NEW S \in SUBSET Kids(g), NEW D \in SUBSET ChildrenOf(g),
         \A c \in ChildrenOf(g) : LocalID(g, c) \in S <=> c \in D
  PROVE  Cardinality(D) = Cardinality(S)
<1> DEFINE h == [i \in S |-> Children(g)[i]]
<1>1. \A i \in Kids(g) : Children(g)[i] \in ChildrenOf(g) /\ LocalID(g, Children(g)[i]) = i
  BY GateIsNode, ChildHasOnePlace
<1>2. \A c \in ChildrenOf(g) : Children(g)[LocalID(g, c)] = c
  BY ChildPlace
<1>3. \A i \in S : i \in Kids(g) /\ h[i] = Children(g)[i]
  OBVIOUS
<1>4. DOMAIN h = S /\ h = [i \in S |-> h[i]]
  OBVIOUS
<1> HIDE DEF h
<1>5. \A i \in S : h[i] \in D
  BY <1>1, <1>3
<1>6. h \in [S -> D]
  BY <1>4, <1>5
<1>7. \A c \in D : \E i \in S : h[i] = c
  BY <1>2, <1>3
<1>8. h \in Surjection(S, D)
  BY <1>6, <1>7 DEF Surjection
<1>9. \A i, j \in S : h[i] = h[j] => i = j
  BY <1>1, <1>3
<1>10. h \in Injection(S, D)
  BY <1>6, <1>9 DEF Injection, IsInjective
<1>11. IsFiniteSet(S)
  BY GateIsNode, FS_Interval, FS_Subset DEF Kids
<1>12. QED  BY <1>8, <1>10, <1>11, FS_Surjection

\* Between two rates a voting gate has announced its failure exactly if enough of
\* its children have failed, in every such tree (voting.h, under its rules).
THEOREM VotesAreAlwaysCounted ==
  ASSUME RecoveriesReach, VotesAreHeard
  PROVE  Spec => [](NoModelError => VotesCounted)
<1>1. Agreement => (NoModelError => VotesCounted)
  <2> SUFFICES ASSUME Agreement, NoModelError, Settled, NEW g \in Votings
               PROVE  node[g].done <=>
                        Cardinality({c \in ChildrenOf(g) : Failed(c)}) >= tree[g].threshold
    BY DEF VotesCounted, Votings
  <2> DEFINE D == {c \in ChildrenOf(g) : Failed(c)}
  <2>1. AllGood
    BY BrokenIsError DEF Agreement
  <2>2. g \in Gates /\ tree[g].type = "voting" /\ node[g].received \in SUBSET Kids(g)
    <3>1. g \in Gates /\ tree[g].type = "voting" /\ g \in Nodes /\ StatesOf(g) = VotingStates(g)
      BY VotingIs, GateIsNode
    <3>2. node[g] \in VotingStates(g)
      BY <2>1, <3>1 DEF AllGood, Good, Typed
    <3>3. QED  BY <3>1, <3>2 DEF VotingStates
  <2>3. \A c \in ChildrenOf(g) : LocalID(g, c) \in node[g].received <=> c \in D
    <3>1. \A c \in ChildrenOf(g) : HeardFailed(g, c) <=> Failed(c)
      BY <2>2, AgreementSettled
    <3>2. \A c : HeardFailed(g, c) <=> LocalID(g, c) \in node[g].received
      BY <2>1, <2>2, HeardIsHears DEF Hears
    <3>3. QED  BY <3>1, <3>2, Zenon
  <2>4. Cardinality(D) = Cardinality(node[g].received)
    <3>1. D \in SUBSET ChildrenOf(g)
      OBVIOUS
    <3> HIDE DEF D
    <3>2. QED  BY <2>2, <2>3, <3>1, CountOfChildren
  <2> HIDE DEF D
  <2>5. node[g].done <=> Cardinality(D) >= tree[g].threshold
    BY <2>1, <2>4, VotesMatch
  <2>6. QED  BY <2>5 DEF D
<1>2. QED  BY <1>1, NodesAgree, PTL

-----------------------------------------------------------------------------
(* No automaton meets an impossible signal. *)

\* Node p takes its child c into use, and the other spare gates over c hear of it,
IsClaimRule(rule, p, c) ==
  /\ DOMAIN rule = {p, c} \cup Listeners(p, c) /\ rule[p] = ACTIVATE(LocalID(p, c), TRUE)
  /\ \A n \in DOMAIN rule \ {p} :
       rule[n] = IF n = c THEN ACTIVATE(0, FALSE) ELSE ACTIVATE(LocalID(n, c), FALSE)

\* or it lets it go.
IsReleaseRule(rule, p, c) ==
  /\ DOMAIN rule = {p, c} \cup Listeners(p, c) /\ rule[p] = DEACTIVATE(LocalID(p, c), TRUE)
  /\ \A n \in DOMAIN rule \ {p} :
       rule[n] = IF n = c THEN DEACTIVATE(0, FALSE) ELSE DEACTIVATE(LocalID(n, c), FALSE)

\* The other rules command no node to do anything, but for the first activation.
IsNoCommand(rule) ==
  \A n \in DOMAIN rule \cap Nodes :
    \/ rule[n] = ACTIVATE(0, FALSE) /\ n \in DOMAIN TopActivate
    \/ rule[n][1] \notin {"ACTIVATE", "DEACTIVATE"}

\* Every rule is one of these.
LEMMA CommandKinds ==
  ASSUME NEW rule \in Rules
  PROVE  \/ \E p \in Nodes : \E c \in ChildrenOf(p) :
              IsClaimRule(rule, p, c) \/ IsReleaseRule(rule, p, c)
         \/ IsNoCommand(rule)
<1>1. CASE rule = TopActivate
  <2>1. \A n \in DOMAIN rule : rule[n] = ACTIVATE(0, n = toplevel)
    BY <1>1, Zenon DEF TopActivate
  <2>2. \A n \in Nodes : n # toplevel
    BY KindsOfNodes DEF toplevel
  <2>3. \A n \in DOMAIN rule \cap Nodes : rule[n] = ACTIVATE(0, FALSE)
    BY <2>1, <2>2
  <2>4. QED  BY <1>1, <2>3 DEF IsNoCommand
<1>2. CASE rule \in TopOnline \cup InspectRules \cup ImpossibleRules
  <2>1. \A n \in DOMAIN rule : rule[n] \in {ONLINE(0), INSPECT(0), IMPOSSIBLE}
    BY <1>2 DEF TopOnline, InspectRules, ImpossibleRules
  <2>2. QED  BY <2>1, Heads DEF IsNoCommand
<1>3. CASE rule \in FailRules \cup OnlineRules
  <2>1. \A n \in DOMAIN rule : \E j : rule[n] \in {FAIL(j), ONLINE(j)}
    BY <1>3 DEF FailRules, OnlineRules, Broadcast
  <2>2. QED  BY <2>1, Heads DEF IsNoCommand
<1>4. CASE rule \in FdepRules
  <2>1. \A n \in DOMAIN rule : \E j : rule[n] = FAIL(j)
    BY <1>4 DEF FdepRules, FdepRule
  <2>2. QED  BY <2>1, Heads DEF IsNoCommand
<1>5. CASE rule \in ActivationRules
  <2> DEFINE A(p, c) == ActivationRule(p, c, ACTIVATE)
             D(p, c) == ActivationRule(p, c, DEACTIVATE)
  <2>1. ActivationRules =
          UNION {UNION {{A(q, d), D(q, d)} : d \in ChildrenOf(q)} : q \in Nodes}
    BY DEF ActivationRules
  <2>2. \E p \in Nodes : \E c \in ChildrenOf(p) : rule = A(p, c) \/ rule = D(p, c)
    <3> HIDE DEF A, D
    <3>1. QED  BY <1>5, <2>1
  <2>3. PICK p \in Nodes : \E c \in ChildrenOf(p) : rule = A(p, c) \/ rule = D(p, c)
    BY <2>2, Zenon
  <2>4. PICK c \in ChildrenOf(p) : rule = A(p, c) \/ rule = D(p, c)
    BY <2>3, Zenon
  <2>5. rule = A(p, c) => IsClaimRule(rule, p, c)
    BY DEF ActivationRule, IsClaimRule
  <2>6. rule = D(p, c) => IsReleaseRule(rule, p, c)
    BY DEF ActivationRule, IsReleaseRule
  <2> HIDE DEF A, D
  <2>7. QED  BY <2>4, <2>5, <2>6
<1>6. QED  BY <1>1, <1>2, <1>3, <1>4, <1>5 DEF Rules

\* Spare gate h holds child c.
Holds(h, c) == c \in ChildrenOf(h) /\ LocalID(h, c) \in Held(h, node[h])

\* What one spare gate holds, the others do not hold and do not take for unclaimed.
ClaimsApart ==
  \A h \in Spares : \A g \in Spares \ {h} : \A c \in ChildrenOf(g) :
    Holds(h, c) => ~Holds(g, c) /\ LocalID(g, c) \notin node[g].unclaimed

\* Every node commands and repairs only what it should.
AllFit == \A n \in Nodes : Fit(n, node[n])

\* No node is in an error state, and all that keeps them from one.
Peace == /\ DOMAIN node = {toplevel} \cup Nodes
         /\ AllGood /\ Agrees /\ AllFit /\ ClaimsApart

\* What a commanding rule gives to the spare gates: one of them may claim,
LEMMA ClaimGives ==
  ASSUME RecoveriesReach, NEW rule, NEW p \in Nodes, NEW c \in ChildrenOf(p),
         IsClaimRule(rule, p, c)
  PROVE  /\ \A g \in Spares : \A i \in Kids(g) :
              /\ Gets(rule, g, ACTIVATE(i, TRUE)) => g = p /\ i = LocalID(p, c)
              /\ ~Gets(rule, g, DEACTIVATE(i, FALSE))
         /\ p \in Spares => \A g \in Spares \ {p} : c \in ChildrenOf(g) =>
                              Gets(rule, g, ACTIVATE(LocalID(g, c), FALSE))
<1>1. \A n \in DOMAIN rule : /\ n = p => rule[n] = ACTIVATE(LocalID(p, c), TRUE)
                             /\ n # p => \E j : rule[n] = ACTIVATE(j, FALSE)
  BY DEF IsClaimRule
<1>2. ASSUME NEW g, NEW i, Gets(rule, g, ACTIVATE(i, TRUE))  PROVE  g = p /\ i = LocalID(p, c)
  BY <1>1, <1>2, CommandsDiffer DEF Gets
<1>3. ASSUME NEW g, NEW i  PROVE  ~Gets(rule, g, DEACTIVATE(i, FALSE))
  <2>1. \A j : ACTIVATE(j, TRUE) # DEACTIVATE(i, FALSE) /\ ACTIVATE(j, FALSE) # DEACTIVATE(i, FALSE)
    BY DEF ACTIVATE, DEACTIVATE
  <2>2. QED  BY <1>1, <2>1, Zenon DEF Gets
<1>4. ASSUME p \in Spares, NEW g \in Spares \ {p}, c \in ChildrenOf(g)
      PROVE  Gets(rule, g, ACTIVATE(LocalID(g, c), FALSE))
  <2>1. g \in Listeners(p, c) /\ g # c
    BY <1>4, SpareIsNode DEF Listeners, Parents, RecoveriesReach
  <2>2. QED  BY <1>4, <2>1 DEF IsClaimRule, Gets
<1>5. QED  BY <1>2, <1>3, <1>4, Zenon

\* or release.
LEMMA ReleaseGives ==
  ASSUME RecoveriesReach, NEW rule, NEW p \in Nodes, NEW c \in ChildrenOf(p),
         IsReleaseRule(rule, p, c)
  PROVE  /\ \A g \in Spares : \A i \in Kids(g) :
              /\ ~Gets(rule, g, ACTIVATE(i, TRUE))
              /\ Gets(rule, g, DEACTIVATE(i, FALSE)) =>
                   p \in Spares /\ g # p /\ c \in ChildrenOf(g) /\ i = LocalID(g, c)
         /\ Gets(rule, p, DEACTIVATE(LocalID(p, c), TRUE))
<1>1. \A n \in DOMAIN rule : /\ n = p => rule[n] = DEACTIVATE(LocalID(p, c), TRUE)
                             /\ n # p => \E j : rule[n] = DEACTIVATE(j, FALSE)
  BY DEF IsReleaseRule
<1>2. ASSUME NEW g, NEW i  PROVE  ~Gets(rule, g, ACTIVATE(i, TRUE))
  <2>1. \A j : DEACTIVATE(j, TRUE) # ACTIVATE(i, TRUE) /\ DEACTIVATE(j, FALSE) # ACTIVATE(i, TRUE)
    BY DEF ACTIVATE, DEACTIVATE
  <2>2. QED  BY <1>1, <2>1, Zenon DEF Gets
<1>3. ASSUME NEW g \in Spares, NEW i \in Kids(g), Gets(rule, g, DEACTIVATE(i, FALSE))
      PROVE  p \in Spares /\ g # p /\ c \in ChildrenOf(g) /\ i = LocalID(g, c)
  <2>0. i # 0
    BY DEF Kids
  <2>1. g # p
    <3>1. DEACTIVATE(LocalID(p, c), TRUE) # DEACTIVATE(i, FALSE)
      BY DEF DEACTIVATE
    <3>2. QED  BY <1>1, <1>3, <3>1, Zenon DEF Gets
  <2>2. g # c
    <3>1. g = c => rule[g] = DEACTIVATE(0, FALSE)
      BY <1>3, <2>1 DEF IsReleaseRule, Gets
    <3>2. QED  BY <1>3, <2>0, <3>1, CommandsDiffer DEF Gets
  <2>3. g \in Listeners(p, c) /\ rule[g] = DEACTIVATE(LocalID(g, c), FALSE)
    BY <1>3, <2>1, <2>2 DEF IsReleaseRule, Gets
  <2>4. i = LocalID(g, c)
    BY <1>3, <2>3, CommandsDiffer DEF Gets
  <2>5. p \in Spares /\ c \in ChildrenOf(g)
    <3>1. tree[p].type = "wsp" /\ g \in Parents(c)
      BY <2>3 DEF Listeners
    <3>2. QED  BY <3>1 DEF Spares, OfType, Nodes, Parents
  <2>6. QED  BY <2>1, <2>4, <2>5
<1>4. Gets(rule, p, DEACTIVATE(LocalID(p, c), TRUE))
  BY DEF IsReleaseRule, Gets
<1>5. QED  BY <1>2, <1>3, <1>4, Zenon

\* The other rules do neither.
LEMMA NoCommandGives ==
  ASSUME NEW rule, IsNoCommand(rule), NEW g \in Spares, NEW i \in Kids(g)
  PROVE  ~Gets(rule, g, ACTIVATE(i, TRUE)) /\ ~Gets(rule, g, DEACTIVATE(i, FALSE))
<1>1. g \in Nodes
  BY SpareIsNode
<1>2. g \in DOMAIN rule => rule[g] = ACTIVATE(0, FALSE) \/ rule[g][1] \notin {"ACTIVATE", "DEACTIVATE"}
  BY <1>1 DEF IsNoCommand
<1>3. ACTIVATE(0, FALSE)[1] = "ACTIVATE" /\ ACTIVATE(i, TRUE)[1] = "ACTIVATE"
      /\ DEACTIVATE(i, FALSE)[1] = "DEACTIVATE" /\ ACTIVATE(i, TRUE) # ACTIVATE(0, FALSE)
  BY DEF ACTIVATE, DEACTIVATE
<1>4. QED  BY <1>2, <1>3, Zenon DEF Gets

\* A rule that the spare gates follow keeps their claims apart.
LEMMA RuleKeepsClaims ==
  ASSUME RecoveriesReach, ClaimsApart, NEW rule \in Rules,
         \A g \in Spares : /\ g \in DOMAIN rule => SpareClaims(g, rule[g], node'[g])
                           /\ g \notin DOMAIN rule => node'[g] = node[g]
  PROVE  ClaimsApart'
<1>1. ASSUME NEW g \in Spares, NEW i \in Kids(g)
      PROVE  /\ i \in Held(g, node'[g]) => i \in Held(g, node[g]) \/ Gets(rule, g, ACTIVATE(i, TRUE))
             /\ Gets(rule, g, ACTIVATE(i, TRUE)) => i \in node[g].unclaimed
             /\ Gets(rule, g, DEACTIVATE(i, TRUE)) => i \in Held(g, node[g]) /\ i \notin Held(g, node'[g])
             /\ Gets(rule, g, ACTIVATE(i, FALSE)) => i \notin node'[g].unclaimed
             /\ i \in node'[g].unclaimed => i \in node[g].unclaimed \/ Gets(rule, g, DEACTIVATE(i, FALSE))
  <2>1. CASE g \in DOMAIN rule
    <3>1. SpareClaims(g, rule[g], node'[g])
      BY <2>1
    <3>2. QED  BY <2>1, <3>1, Zenon DEF SpareClaims, Gets
  <2>2. CASE g \notin DOMAIN rule
    BY <2>2, Zenon DEF Gets
  <2>3. QED  BY <2>1, <2>2
<1>2. ASSUME NEW g \in Spares, NEW c \in ChildrenOf(g)  PROVE  LocalID(g, c) \in Kids(g)
  BY SpareIs, ChildPlace
<1>3. SUFFICES ASSUME NEW h \in Spares, NEW g \in Spares \ {h}, NEW d \in ChildrenOf(g), Holds(h, d)'
               PROVE  ~Holds(g, d)' /\ LocalID(g, d) \notin node'[g].unclaimed
  BY DEF ClaimsApart
<1> DEFINE k == LocalID(g, d)  j == LocalID(h, d)
<1>4. /\ d \in ChildrenOf(h) /\ k \in Kids(g) /\ j \in Kids(h)
      /\ j \in Held(h, node'[h]) /\ (Holds(g, d)' <=> k \in Held(g, node'[g]))
      /\ Holds(g, d) <=> k \in Held(g, node[g])
      /\ Holds(h, d) <=> j \in Held(h, node[h])
  BY <1>2, <1>3 DEF Holds
<1>5. /\ Holds(h, d) => ~Holds(g, d) /\ k \notin node[g].unclaimed
      /\ Holds(g, d) => ~Holds(h, d) /\ j \notin node[h].unclaimed
  BY <1>4 DEF ClaimsApart
<1>6. CASE IsNoCommand(rule)
  <2>1. /\ ~Gets(rule, g, ACTIVATE(k, TRUE)) /\ ~Gets(rule, g, DEACTIVATE(k, FALSE))
        /\ ~Gets(rule, h, ACTIVATE(j, TRUE))
    BY <1>4, <1>6, NoCommandGives
  <2> HIDE DEF k, j
  <2>2. QED  BY <1>1, <1>4, <1>5, <2>1 DEF k
<1>7. ASSUME NEW p \in Nodes, NEW c \in ChildrenOf(p), IsClaimRule(rule, p, c)
      PROVE  ~Holds(g, d)' /\ LocalID(g, d) \notin node'[g].unclaimed
  <2>1. /\ Gets(rule, g, ACTIVATE(k, TRUE)) => g = p /\ k = LocalID(p, c)
        /\ ~Gets(rule, g, DEACTIVATE(k, FALSE))
        /\ Gets(rule, h, ACTIVATE(j, TRUE)) => h = p /\ j = LocalID(p, c)
        /\ p \in Spares => \A q \in Spares \ {p} : c \in ChildrenOf(q) =>
                             Gets(rule, q, ACTIVATE(LocalID(q, c), FALSE))
    <3>1. /\ \A q \in Spares : \A i \in Kids(q) :
               /\ Gets(rule, q, ACTIVATE(i, TRUE)) => q = p /\ i = LocalID(p, c)
               /\ ~Gets(rule, q, DEACTIVATE(i, FALSE))
          /\ p \in Spares => \A q \in Spares \ {p} : c \in ChildrenOf(q) =>
                               Gets(rule, q, ACTIVATE(LocalID(q, c), FALSE))
      BY <1>7, ClaimGives, Zenon
    <3> HIDE DEF k, j
    <3>2. QED  BY <1>4, <3>1
  <2>2. g = p /\ k = LocalID(p, c) => d = c
    BY <1>7, SpareIs, PlacesDiffer
  <2>3. h = p /\ j = LocalID(p, c) => d = c
    BY <1>4, <1>7, SpareIs, PlacesDiffer
  <2>4. h = p /\ d = c => Gets(rule, g, ACTIVATE(k, FALSE))
    BY <2>1
  <2> HIDE DEF k, j
  <2>5. CASE Holds(h, d)
    <3>1. ~Holds(g, d) /\ k \notin node[g].unclaimed
      BY <1>5, <2>5
    <3>2. k \notin node'[g].unclaimed
      BY <1>1, <1>4, <2>1, <3>1
    <3>3. ~Gets(rule, g, ACTIVATE(k, TRUE))
      BY <1>1, <1>4, <3>1
    <3>4. QED  BY <1>1, <1>4, <3>1, <3>2, <3>3 DEF k
  <2>6. CASE ~Holds(h, d)
    <3>1. Gets(rule, h, ACTIVATE(j, TRUE))
      BY <1>1, <1>4, <2>6
    <3>2. h = p /\ d = c /\ j \in node[h].unclaimed
      BY <1>1, <1>4, <2>1, <2>3, <3>1
    <3>3. ~Holds(g, d)
      BY <1>5, <3>2
    <3>4. ~Gets(rule, g, ACTIVATE(k, TRUE))
      BY <1>3, <2>1, <3>2
    <3>5. k \notin node'[g].unclaimed
      BY <1>1, <1>4, <2>4, <3>2
    <3>6. QED  BY <1>1, <1>4, <3>3, <3>4, <3>5 DEF k
  <2>7. QED  BY <2>5, <2>6
<1>8. ASSUME NEW p \in Nodes, NEW c \in ChildrenOf(p), IsReleaseRule(rule, p, c)
      PROVE  ~Holds(g, d)' /\ LocalID(g, d) \notin node'[g].unclaimed
  <2>1. /\ ~Gets(rule, g, ACTIVATE(k, TRUE)) /\ ~Gets(rule, h, ACTIVATE(j, TRUE))
        /\ Gets(rule, g, DEACTIVATE(k, FALSE)) =>
             p \in Spares /\ g # p /\ c \in ChildrenOf(g) /\ k = LocalID(g, c)
        /\ Gets(rule, p, DEACTIVATE(LocalID(p, c), TRUE))
    <3>1. /\ \A q \in Spares : \A i \in Kids(q) :
               /\ ~Gets(rule, q, ACTIVATE(i, TRUE))
               /\ Gets(rule, q, DEACTIVATE(i, FALSE)) =>
                    p \in Spares /\ q # p /\ c \in ChildrenOf(q) /\ i = LocalID(q, c)
          /\ Gets(rule, p, DEACTIVATE(LocalID(p, c), TRUE))
      BY <1>8, ReleaseGives, Zenon
    <3> HIDE DEF k, j
    <3>2. QED  BY <1>4, <3>1
  <2>2. c \in ChildrenOf(g) /\ k = LocalID(g, c) => d = c
    BY SpareIs, PlacesDiffer
  <2>3. p \in Spares => LocalID(p, c) \in Kids(p)
    BY <1>2
  <2> HIDE DEF k
  <2>4. Holds(h, d) /\ ~Holds(g, d) /\ k \notin node[g].unclaimed
    BY <1>1, <1>4, <1>5, <2>1
  <2>5. ~Gets(rule, g, DEACTIVATE(k, FALSE))
    <3>1. SUFFICES ASSUME Gets(rule, g, DEACTIVATE(k, FALSE))  PROVE  FALSE
      OBVIOUS
    <3>2. p \in Spares /\ g # p /\ d = c
      BY <2>1, <2>2, <3>1
    <3>3. LocalID(p, c) \in Held(p, node[p]) /\ LocalID(p, c) \notin Held(p, node'[p])
      BY <1>1, <2>1, <2>3, <3>2
    <3>4. p # h
      BY <1>4, <3>2, <3>3
    <3>5. Holds(p, d)
      BY <3>2, <3>3 DEF Holds
    <3>6. QED  BY <1>4, <2>4, <3>2, <3>4, <3>5 DEF ClaimsApart
  <2>6. QED  BY <1>1, <1>4, <2>1, <2>4, <2>5 DEF k
<1>9. QED  BY <1>6, <1>7, <1>8, CommandKinds

\* When a node welcomes a recovery or a command of another.
LEMMA WhenWelcome ==
  ASSUME NEW n, NEW i \in Kids(n)
  PROVE  /\ Hears(n, node[n], i) /\ (tree[n].type = "wsp" => ChildrenOf(n) \cap Repairable # {})
              => Welcome(n, ONLINE(i))
         /\ n \notin AlwaysActive /\ tree[n].type # "pand" => Welcome(n, DEACTIVATE(0, FALSE))
         /\ ~(n \in AlwaysActive /\ i = 1) => Welcome(n, ACTIVATE(i, FALSE))
         /\ i \notin Held(n, node[n]) => Welcome(n, DEACTIVATE(i, FALSE))
<1>1. \A j \in Kids(n) : /\ ONLINE(i) # ACTIVATE(j, FALSE) /\ ONLINE(i) # DEACTIVATE(j, FALSE)
                         /\ ACTIVATE(i, FALSE) # ONLINE(j) /\ ACTIVATE(i, FALSE) # DEACTIVATE(j, FALSE)
                         /\ DEACTIVATE(i, FALSE) # ONLINE(j) /\ DEACTIVATE(i, FALSE) # ACTIVATE(j, FALSE)
                         /\ DEACTIVATE(0, FALSE) # ONLINE(j) /\ DEACTIVATE(0, FALSE) # ACTIVATE(j, FALSE)
  BY DEF ONLINE, ACTIVATE, DEACTIVATE
<1>2. ONLINE(i) # DEACTIVATE(0, FALSE) /\ ACTIVATE(i, FALSE) # DEACTIVATE(0, FALSE)
  BY DEF ONLINE, ACTIVATE, DEACTIVATE
<1>3. \A j \in Kids(n) : DEACTIVATE(j, FALSE) # DEACTIVATE(0, FALSE)
  BY DEF DEACTIVATE, Kids
<1>4. \A j \in Kids(n) : ONLINE(i) = ONLINE(j) => i = j
  BY NewsDiffer
<1>5. \A j \in Kids(n) : /\ ACTIVATE(i, FALSE) = ACTIVATE(j, FALSE) => i = j
                         /\ DEACTIVATE(i, FALSE) = DEACTIVATE(j, FALSE) => i = j
  BY CommandsDiffer
<1>6. Hears(n, node[n], i) /\ (tree[n].type = "wsp" => ChildrenOf(n) \cap Repairable # {})
              => Welcome(n, ONLINE(i))
  BY <1>1, <1>2, <1>4, Zenon DEF Welcome
<1>7. n \notin AlwaysActive /\ tree[n].type # "pand" => Welcome(n, DEACTIVATE(0, FALSE))
  BY <1>1, <1>3, Zenon DEF Welcome
<1>8. ~(n \in AlwaysActive /\ i = 1) => Welcome(n, ACTIVATE(i, FALSE))
  BY <1>1, <1>2, <1>5, Zenon DEF Welcome
<1>9. i \notin Held(n, node[n]) => Welcome(n, DEACTIVATE(i, FALSE))
  BY <1>1, <1>3, <1>5, Zenon DEF Welcome
<1>10. QED  BY <1>6, <1>7, <1>8, <1>9

\* A node that welcomes the label of a rule stays as it should be.
LEMMA RuleStaysFit ==
  ASSUME Peace, NEW rule \in Rules, Fire(rule), NEW n \in DOMAIN rule \cap Nodes, Welcome(n, rule[n])
  PROVE  /\ Fine(n, rule[n], node'[n])
         /\ n \in Spares => SpareClaims(n, rule[n], node'[n])
<1>1. PICK t \in Trans(n) : t[1] = rule[n] /\ t[2] = node'[n]
  BY FireMovesNodes DEF Peace
<1>2. Good(n) /\ Fit(n, node[n]) /\ RuleLabel(n, t[1])
  BY <1>1, LabelsOfRules DEF Peace, AllGood, AllFit
<1>3. QED  BY <1>1, <1>2, StaysFit

\* In a rule that fires, nobody gets an impossible signal: a recovery,
LEMMA OnlineIsWelcome ==
  ASSUME Peace, NEW rule \in Rules, Fire(rule), NEW c \in Nodes, IsOnlineRule(rule, c),
         NEW n \in DOMAIN rule \cap Nodes
  PROVE  Welcome(n, rule[n])
<1>1. CASE n = c
  BY <1>1, OutputsWelcome DEF IsOnlineRule
<1>2. CASE n # c
  <2>1. n \in Parents(c) \cap Repairable /\ rule[n] = ONLINE(LocalID(n, c))
    BY <1>2 DEF IsOnlineRule
  <2>2. n \in Gates /\ c \in ChildrenOf(n) /\ LocalID(n, c) \in Kids(n)
    BY <2>1, ParentIsGate, ChildPlace
  <2>3. Hears(n, node[n], LocalID(n, c))
    <3>1. c \in DOMAIN rule \cap Nodes /\ rule[c] = ONLINE(0)
      BY DEF IsOnlineRule
    <3>2. Fine(c, rule[c], node'[c])
      BY <3>1, OutputsWelcome, RuleStaysFit
    <3>3. Says(c, node[c])
      BY <3>1, <3>2 DEF Fine, Orderly
    <3>4. QED  BY <2>2, <3>3 DEF Peace, Agrees
  <2>4. tree[n].type = "wsp" => ChildrenOf(n) \cap Repairable # {}
    BY <2>1, <2>2, RepairableAreKnown
  <2>5. QED  BY <2>1, <2>2, <2>3, <2>4, WhenWelcome
<1>3. QED  BY <1>1, <1>2

\* a claim,
LEMMA ClaimIsWelcome ==
  ASSUME PrimariesApart, NEW rule, NEW p \in Nodes, NEW c \in ChildrenOf(p), IsClaimRule(rule, p, c),
         NEW n \in DOMAIN rule \cap Nodes
  PROVE  Welcome(n, rule[n])
<1>1. CASE n = p
  BY <1>1, OutputsWelcome DEF IsClaimRule
<1>2. CASE n # p /\ n = c
  BY <1>2, OutputsWelcome DEF IsClaimRule
<1>3. CASE n # p /\ n # c
  <2>1. n \in Listeners(p, c) /\ rule[n] = ACTIVATE(LocalID(n, c), FALSE)
    BY <1>3 DEF IsClaimRule
  <2>2. n \in Spares /\ p \in Spares /\ n \in Parents(c)
    BY <2>1 DEF Listeners, Spares, OfType, Nodes
  <2>3. c \in ChildrenOf(n) /\ LocalID(n, c) \in Kids(n) /\ Children(n)[LocalID(n, c)] = c
    BY <2>2, ParentIsGate, ChildPlace
  <2>4. ~(n \in AlwaysActive /\ LocalID(n, c) = 1)
    BY <1>3, <2>2, <2>3 DEF PrimariesApart, Spares
  <2>5. QED  BY <2>1, <2>3, <2>4, WhenWelcome
<1>4. QED  BY <1>1, <1>2, <1>3

\* a release,
LEMMA ReleaseIsWelcome ==
  ASSUME CommandsFit, Peace, NEW rule \in Rules, Fire(rule),
         NEW p \in Nodes, NEW c \in ChildrenOf(p), IsReleaseRule(rule, p, c),
         NEW n \in DOMAIN rule \cap Nodes
  PROVE  Welcome(n, rule[n])
<1> DEFINE i == LocalID(p, c)
<1>1. /\ p \in DOMAIN rule \cap Nodes /\ rule[p] = DEACTIVATE(i, TRUE)
      /\ i \in Kids(p) /\ Children(p)[i] = c
  <2>1. p \in Parents(c)
    BY DEF Parents
  <2>2. QED  BY <2>1, ParentIsGate, ChildPlace DEF IsReleaseRule
<1> HIDE DEF i
<1>2. Welcome(p, rule[p])
  BY <1>1, OutputsWelcome
<1>3. /\ Fine(p, rule[p], node'[p])
      /\ p \in Spares => SpareClaims(p, rule[p], node'[p])
  BY <1>1, <1>2, RuleStaysFit
<1>4. CASE n = p
  BY <1>2, <1>4
<1>5. CASE n # p /\ n = c
  <2>1. c \in MayDeactivate(p)
    BY <1>1, <1>3 DEF Fine, Orderly
  <2>2. c \notin AlwaysActive /\ tree[c].type # "pand"
    BY <2>1 DEF CommandsFit
  <2>3. rule[n] = DEACTIVATE(0, FALSE)
    BY <1>5 DEF IsReleaseRule
  <2>4. \A j \in Kids(n) : rule[n] # ONLINE(j) /\ rule[n] # ACTIVATE(j, FALSE) /\ rule[n] # DEACTIVATE(j, FALSE)
    BY <2>3 DEF ONLINE, ACTIVATE, DEACTIVATE, Kids
  <2>5. QED  BY <1>5, <2>2, <2>4, Zenon DEF Welcome
<1>6. CASE n # p /\ n # c
  <2>1. n \in Listeners(p, c) /\ rule[n] = DEACTIVATE(LocalID(n, c), FALSE)
    BY <1>6 DEF IsReleaseRule
  <2>2. n \in Spares /\ p \in Spares /\ n \in Parents(c)
    BY <2>1 DEF Listeners, Spares, OfType, Nodes
  <2>3. c \in ChildrenOf(n) /\ LocalID(n, c) \in Kids(n)
    BY <2>2, ParentIsGate, ChildPlace
  <2>4. Holds(p, c)
    BY <1>1, <1>3, <2>2 DEF SpareClaims, Holds, i
  <2>5. LocalID(n, c) \notin Held(n, node[n])
    BY <1>6, <2>2, <2>3, <2>4 DEF Peace, ClaimsApart, Holds
  <2>6. QED  BY <2>1, <2>3, <2>5, WhenWelcome
<1>7. QED  BY <1>4, <1>5, <1>6

\* or anything else.
LEMMA RulesAreWelcome ==
  ASSUME PrimariesApart, CommandsFit, Peace,
         NEW rule \in Rules, Fire(rule), NEW n \in DOMAIN rule \cap Nodes
  PROVE  Welcome(n, rule[n])
<1>1. ASSUME NEW p \in Nodes, NEW c \in ChildrenOf(p), IsClaimRule(rule, p, c) \/ IsReleaseRule(rule, p, c)
      PROVE  Welcome(n, rule[n])
  BY <1>1, ClaimIsWelcome, ReleaseIsWelcome
<1>2. CASE IsNoCommand(rule)
  <2>1. CASE rule[n] = ACTIVATE(0, FALSE)
    BY <2>1, OutputsWelcome
  <2>2. CASE rule[n][1] \notin {"ONLINE", "ACTIVATE", "DEACTIVATE"}
    BY <2>2, OutputsWelcome
  <2>3. CASE rule[n][1] = "ONLINE"
    <3>1. ASSUME NEW c \in Nodes  PROVE  ~IsFailRule(rule, c)
      <4>1. \A j : FAIL(j)[1] = "FAIL"
        BY Heads
      <4>2. QED  BY <2>3, <4>1 DEF IsFailRule
    <3>2. ASSUME NEW f \in FDeps, NEW i \in DOMAIN Dependers(f)  PROVE  ~IsFdepRule(rule, f, i)
      <4>1. \A j : FAIL(j)[1] = "FAIL"
        BY Heads
      <4>2. QED  BY <2>3, <4>1 DEF IsFdepRule
    <3>3. ~IsQuietRule(rule)
      BY <2>3 DEF IsQuietRule
    <3>4. CASE IsTopOnline(rule)
      BY <3>4, OutputsWelcome DEF IsTopOnline
    <3>5. ASSUME NEW c \in Nodes, IsOnlineRule(rule, c)  PROVE  Welcome(n, rule[n])
      BY <3>5, OnlineIsWelcome
    <3>6. QED  BY <3>1, <3>2, <3>3, <3>4, <3>5, RuleKinds
  <2>4. rule[n] = ACTIVATE(0, FALSE) \/ rule[n][1] \notin {"ACTIVATE", "DEACTIVATE"}
    BY <1>2 DEF IsNoCommand
  <2>5. QED  BY <2>1, <2>2, <2>3, <2>4
<1>3. QED  BY <1>1, <1>2, CommandKinds

\* So a rule leaves everything as it should be,
LEMMA FirePeace ==
  ASSUME RecoveriesReach, PrimariesApart, CommandsFit, Peace,
         NEW rule \in Rules, Fire(rule)
  PROVE  Peace'
<1>1. \A n \in Nodes : /\ DOMAIN node' = DOMAIN node
                       /\ n \notin DOMAIN rule => node'[n] = node[n]
  BY FireMovesNodes DEF Peace
<1>2. \A n \in DOMAIN rule \cap Nodes : /\ Fine(n, rule[n], node'[n])
                                        /\ n \in Spares => SpareClaims(n, rule[n], node'[n])
  BY RulesAreWelcome, RuleStaysFit
<1>3. DOMAIN node' = {toplevel} \cup Nodes
  <2>1. top \in Nodes
    BY TreeAssumption
  <2>2. QED  BY <1>1, <2>1 DEF Peace
<1>4. AllFit'
  <2> SUFFICES ASSUME NEW n \in Nodes  PROVE  Fit(n, node'[n])
    BY DEF AllFit
  <2>1. CASE n \in DOMAIN rule
    BY <1>2, <2>1 DEF Fine
  <2>2. CASE n \notin DOMAIN rule
    BY <1>1, <2>2 DEF Peace, AllFit
  <2>3. QED  BY <2>1, <2>2
<1>5. ~Broken'
  <2>1. ASSUME NEW n \in Nodes  PROVE  Works(n, node'[n])
    <3>1. CASE n \in DOMAIN rule
      BY <1>2, <3>1 DEF Fine
    <3>2. CASE n \notin DOMAIN rule
      BY <1>1, <3>2 DEF Peace, AllGood, Good, Working
    <3>3. QED  BY <3>1, <3>2
  <2>2. QED  BY <2>1 DEF Broken, Working
<1>6. AllGood' /\ Agrees'
  BY <1>5, FireAgrees DEF Peace
<1>7. ClaimsApart'
  <2>1. \A g \in Spares : /\ g \in DOMAIN rule => SpareClaims(g, rule[g], node'[g])
                          /\ g \notin DOMAIN rule => node'[g] = node[g]
    BY <1>1, <1>2, SpareIsNode
  <2>2. QED  BY <2>1, RuleKeepsClaims DEF Peace
<1>8. QED  BY <1>3, <1>4, <1>6, <1>7 DEF Peace

\* An event has asked for its inspection by the time that a rate elapses.
LEMMA InspectionsAreOut ==
  ASSUME AllGood, Settled, NEW b \in BasicEvents
  PROVE  ~node[b].emit_inspect
<1>1. SUFFICES ASSUME node[b].emit_inspect  PROVE  FALSE
  OBVIOUS
<1> DEFINE r == [n \in {b} |-> INSPECT(0)]
<1>2. r \in Rules
  BY DEF Rules, InspectRules
<1>3. \E y : <<INSPECT(0), y>> \in EventAt(b)!AnnounceInspect
  BY <1>1, Zenon DEF EventAt!AnnounceInspect, EventAt!When, INSPECT, EventAt!INSPECT
<1>4. EventAt(b)!AnnounceInspect \subseteq Trans(b)
  <2>1. node[b].status \notin {"IMPOSSIBLE", "TERMINATED"}
    BY EventIs DEF AllGood, Good, Typed, Working, Works
  <2>2. QED  BY <2>1, EventIs, TransOf DEF EventAt!Trans
<1>5. Targets(b, INSPECT(0)) # {}
  BY <1>3, <1>4 DEF Targets
<1>6. DOMAIN r = {b} /\ r[b] = INSPECT(0)
  OBVIOUS
<1> HIDE DEF r
<1>7. QED  BY <1>2, <1>5, <1>6 DEF Settled, Enabled

\* and so does a rate.
LEMMA ElapsePeace ==
  ASSUME RecoveriesReach, Peace, Elapse
  PROVE  Peace'
<1>1. PICK b \in BasicEvents : \E t \in Trans(b) :
           /\ t[1] \in Rated(b) /\ node'[b] = t[2]
           /\ DOMAIN node' = DOMAIN node
           /\ \A n \in Nodes \ {b} : node'[n] = node[n]
  BY ElapseMovesEvent DEF Peace
<1>2. PICK t \in Trans(b) : /\ t[1] \in Rated(b) /\ node'[b] = t[2]
                            /\ DOMAIN node' = DOMAIN node
                            /\ \A n \in Nodes \ {b} : node'[n] = node[n]
  BY <1>1, Zenon
<1>3. b \in Nodes /\ Good(b) /\ Fit(b, node[b]) /\ t \in EventAt(b)!Trans
  BY <1>2, EventIs, TransOf DEF Peace, AllGood, AllFit
<1>4. ~node[b].emit_inspect
  BY InspectionsAreOut DEF Elapse, Peace
<1>5. Works(b, node'[b]) /\ Fit(b, node'[b])
  BY <1>2, <1>3, <1>4, EventRateFits
<1>6. \A n \in Nodes : Works(n, node'[n]) /\ Fit(n, node'[n])
  BY <1>2, <1>5 DEF Peace, AllFit, AllGood, Good, Working
<1>7. ~Broken' /\ AllFit'
  BY <1>6 DEF Broken, Working, AllFit
<1>8. AllGood' /\ Agrees'
  BY <1>7, ElapseAgrees DEF Peace
<1>9. ClaimsApart'
  <2>1. \A g \in Spares : node'[g] = node[g]
    BY <1>2, SpareIs, SpareIsNode, KindsOfNodes
  <2>2. QED  BY <2>1 DEF Peace, ClaimsApart, Holds
<1>10. QED  BY <1>2, <1>7, <1>8, <1>9 DEF Peace

\* At first only the always-active spare gates hold a child, each its own.
LEMMA InitPeace ==
  ASSUME PrimariesApart, Init
  PROVE  AllFit /\ ClaimsApart
<1>1. \A n \in Nodes : node[n] = InitialState(n)
  BY DEF Init
<1>2. AllFit
  BY <1>1, FitStarts DEF AllFit
<1>3. ClaimsApart
  <2> SUFFICES ASSUME NEW h \in Spares, NEW g \in Spares \ {h}, NEW c \in ChildrenOf(g), Holds(h, c)
               PROVE  FALSE
    BY DEF ClaimsApart
  <2>1. Held(h, node[h]) = {i \in {1} : h \in AlwaysActive}
    BY <1>1, SpareIsNode, FitStarts
  <2>2. h \in AlwaysActive /\ LocalID(h, c) = 1 /\ c \in ChildrenOf(h)
    BY <2>1 DEF Holds
  <2>3. Children(h)[1] = c
    BY <2>2, SpareIs, ChildPlace
  <2>4. QED  BY <2>2, <2>3 DEF PrimariesApart, Spares
<1>4. QED  BY <1>2, <1>3

\* Peace lasts.
THEOREM NodesArePeaceful ==
  ASSUME RecoveriesReach, PrimariesApart, CommandsFit
  PROVE  Spec => []Peace
<1>1. Init => Peace
  <2> SUFFICES ASSUME Init  PROVE  Peace
    OBVIOUS
  <2>1. Agreement /\ AllGood
    BY InitAgrees
  <2>2. ~Broken
    BY <2>1 DEF AllGood, Good, Broken
  <2>3. QED  BY <2>1, <2>2, InitPeace DEF Agreement, Peace
<1>2. Peace /\ [Next]_node => Peace'
  <2> SUFFICES ASSUME Peace, [Next]_node  PROVE  Peace'
    OBVIOUS
  <2>1. ASSUME NEW rule \in Rules, Fire(rule)  PROVE  Peace'
    BY <2>1, FirePeace
  <2>2. CASE Elapse
    BY <2>2, ElapsePeace
  <2>3. CASE UNCHANGED node
    <3>1. AllGood' <=> AllGood
      BY <2>3 DEF AllGood, Good, Typed, Working
    <3>2. Agrees' <=> Agrees
      BY <2>3 DEF Agrees, Notified
    <3>3. (AllFit' <=> AllFit) /\ (ClaimsApart' <=> ClaimsApart)
      BY <2>3 DEF AllFit, ClaimsApart, Holds
    <3>4. QED  BY <2>3, <3>1, <3>2, <3>3 DEF Peace
  <2>4. QED  BY <2>1, <2>2, <2>3, Zenon DEF Next, Interact
<1>3. QED  BY <1>1, <1>2, PTL DEF Spec

\* No automaton ever receives a signal that its author took for impossible, in
\* every tree in which nothing that may be deactivated takes that for impossible,
\* no always-active spare gate shares its primary with another, and recoveries
\* reach all that heard of the failure.
THEOREM NoModelErrors ==
  ASSUME RecoveriesReach, PrimariesApart, CommandsFit
  PROVE  Spec => []NoModelError
<1>1. Peace => NoModelError
  <2> SUFFICES ASSUME Peace  PROVE  NoModelError
    OBVIOUS
  <2>1. \A n \in Nodes : Works(n, node[n])
    BY DEF Peace, AllGood, Good, Working
  <2>2. ASSUME NEW g \in Gates \ OfType("fdep")  PROVE  node[g].mode = "live"
    BY <2>1, GateIsNode DEF Works, OfType, Gates, BasicEvents
  <2>3. ASSUME NEW b \in BasicEvents
        PROVE  node[b].status \notin {"IMPOSSIBLE", "TERMINATED"}
    BY <2>1, EventIs DEF Works
  <2>4. QED  BY <2>2, <2>3 DEF NoModelError
<1>2. QED  BY <1>1, NodesArePeaceful, PTL

\* In those trees the parents of a node always know whether it has failed,
\* between two rates (createSyncRule, createSyncRuleGateFDEP and the automata).
THEOREM ParentsAgreeThroughout ==
  ASSUME RecoveriesReach, PrimariesApart, CommandsFit
  PROVE  Spec => []ParentsAgree
<1>1. NoModelError /\ (NoModelError => ParentsAgree) => ParentsAgree
  OBVIOUS
<1>2. QED  BY <1>1, NoModelErrors, ParentsAlwaysAgree, PTL

\* And every voting gate has announced what it has counted (voting.h).
THEOREM VotesCountedThroughout ==
  ASSUME RecoveriesReach, VotesAreHeard, PrimariesApart, CommandsFit
  PROVE  Spec => []VotesCounted
<1>1. NoModelError /\ (NoModelError => VotesCounted) => VotesCounted
  OBVIOUS
<1>2. QED  BY <1>1, NoModelErrors, VotesAreAlwaysCounted, PTL

-----------------------------------------------------------------------------
(* The nodes that a set of events brings down. *)

\* More failed nodes make more nodes fail.
LEMMA MadeFailGrows ==
  ASSUME NEW S, NEW T, S \subseteq T
  PROVE  MadeFail(S) \subseteq MadeFail(T) /\ MadeFail(S) \subseteq Nodes
<1>1. ASSUME NEW g \in OfType("voting"), Cardinality(ChildrenOf(g) \cap S) >= tree[g].threshold
      PROVE  Cardinality(ChildrenOf(g) \cap T) >= tree[g].threshold /\ g \in Nodes
  <2>1. g \in Nodes /\ tree[g].threshold \in Nat
    BY NodeAssumption DEF OfType
  <2>2. IsFiniteSet(ChildrenOf(g) \cap T)
    BY <2>1, NodesAreFinite, FS_Subset
  <2>3. /\ IsFiniteSet(ChildrenOf(g) \cap S)
        /\ Cardinality(ChildrenOf(g) \cap S) <= Cardinality(ChildrenOf(g) \cap T)
    BY <2>2, FS_Subset
  <2>4. Cardinality(ChildrenOf(g) \cap S) \in Nat /\ Cardinality(ChildrenOf(g) \cap T) \in Nat
    BY <2>2, <2>3, FS_CardinalityType
  <2>5. QED  BY <1>1, <2>1, <2>3, <2>4
<1>2. ASSUME NEW f \in OfType("fdep"), NEW d \in Range(Dependers(f))
      PROVE  d \in Nodes
  <2>1. f \in FDeps /\ \E i \in DOMAIN Dependers(f) : Dependers(f)[i] = d
    BY DEF FDeps, Range
  <2>2. QED  BY <2>1, DependerPlaces
<1>3. QED  BY <1>1, <1>2 DEF MadeFail

\* One step of Down.
Spread == [X \in SUBSET Nodes |-> X \cup MadeFail(X)]

\* It only adds nodes.
LEMMA SpreadIs ==
  /\ Spread \in [SUBSET Nodes -> SUBSET Nodes]
  /\ \A X \in SUBSET Nodes : X \subseteq Spread[X] /\ Spread[X] = X \cup MadeFail(X)
<1>1. \A X \in SUBSET Nodes : MadeFail(X) \in SUBSET Nodes
  BY MadeFailGrows
<1>2. QED  BY <1>1 DEF Spread

\* F is what Down collects in m steps.
Spreads(F, S, m) ==
  F = [k \in 0..m |-> IF k = 0 THEN S ELSE F[k-1] \cup MadeFail(F[k-1])]

\* Down is the end of a chain with as many steps as there are nodes.
LEMMA DownEndsChain ==
  ASSUME NEW S \in SUBSET Nodes
  PROVE  \E F : IsChain(F, Spread, S, Cardinality(Nodes)) /\ Down(S) = F[Cardinality(Nodes)]
<1> DEFINE N == Cardinality(Nodes)
           R == CHOOSE F : Spreads(F, S, N)
<1>1. N \in Nat
  BY NodesAreFinite
<1>2. Down(S) = R[N]
  BY Zenon DEF Down, Spreads
<1> HIDE DEF N
<1>3. PICK F : IsChain(F, Spread, S, N)
  BY <1>1, SpreadIs, ChainExists
<1>4. /\ F \in [0..N -> SUBSET Nodes]
      /\ F[0] = S /\ \A k \in 1..N : F[k] = F[k-1] \cup MadeFail(F[k-1])
  <2>1. /\ F \in [0..N -> SUBSET Nodes]
        /\ F[0] = S /\ \A k \in 1..N : F[k] = Spread[F[k-1]]
    BY <1>3 DEF IsChain
  <2>2. \A k \in 1..N : F[k-1] \in SUBSET Nodes
    BY <1>1, <2>1
  <2>3. QED  BY <2>1, <2>2, SpreadIs
<1>5. Spreads(F, S, N)
  <2>1. F = [k \in 0..N |-> F[k]]
    BY <1>4
  <2>2. \A k \in 0..N : F[k] = IF k = 0 THEN S ELSE F[k-1] \cup MadeFail(F[k-1])
    BY <1>1, <1>4
  <2>3. QED  BY <2>1, <2>2 DEF Spreads
<1>6. Spreads(R, S, N)
  BY <1>5, Zenon
<1> HIDE DEF R
<1>7. \A k \in 0..N : R[k] = IF k = 0 THEN S ELSE R[k-1] \cup MadeFail(R[k-1])
  BY <1>1, <1>6 DEF Spreads
<1> DEFINE Bad == {k \in 0..N : R[k] # F[k]}
<1>8. Bad = {}
  <2>1. SUFFICES ASSUME Bad # {}  PROVE  FALSE
    OBVIOUS
  <2>2. PICK k \in Bad : \A j \in Bad : k <= j
    <3>1. Bad \in SUBSET Nat
      OBVIOUS
    <3> HIDE DEF Bad
    <3>2. QED  BY <2>1, <3>1, LeastNumber
  <2>3. k \in 0..N /\ R[k] # F[k] /\ k # 0
    BY <1>1, <1>4, <1>7, <2>2
  <2>4. k - 1 \in 0..N /\ k \in 1..N /\ ~(k <= k - 1)
    BY <1>1, <2>3
  <2>5. R[k-1] = F[k-1]
    BY <2>2, <2>4
  <2>6. QED  BY <1>4, <1>7, <2>3, <2>4, <2>5
<1>9. R[N] = F[N]
  BY <1>1, <1>8
<1>10. QED  BY <1>2, <1>3, <1>9 DEF N

\* It is closed,
LEMMA DownIsClosed ==
  ASSUME NEW S \in SUBSET Nodes
  PROVE  /\ Down(S) \in SUBSET Nodes
         /\ S \subseteq Down(S) /\ MadeFail(Down(S)) \subseteq Down(S)
<1> DEFINE N == Cardinality(Nodes)
<1>1. PICK F : IsChain(F, Spread, S, N) /\ Down(S) = F[N]
  BY DownEndsChain
<1>2. N \in Nat /\ N \in 0..N
  BY NodesAreFinite
<1>3. F[N] \in SUBSET Nodes /\ F[0] = S /\ 0 \in 0..N
  BY <1>1, <1>2 DEF IsChain
<1>4. Spread[F[N]] = F[N]
  BY <1>1, ChainStops, SpreadIs
<1>5. S \subseteq F[N]
  <2> DEFINE Q == {X \in SUBSET Nodes : S \subseteq X}
  <2>1. \A k \in 1..N : F[k-1] \in Q => F[k] \in Q
    <3>1. \A k \in 1..N : F[k] = Spread[F[k-1]]
      BY <1>1 DEF IsChain
    <3>2. \A X \in Q : Spread[X] \in Q
      BY SpreadIs
    <3>3. QED  BY <3>1, <3>2
  <2>2. F[0] \in Q
    BY <1>3
  <2> HIDE DEF Q
  <2>3. \A k \in 0..N : F[k] \in Q
    BY <1>1, <1>2, <1>3, <2>1, <2>2, ChainKeeps
  <2>4. F[N] \in Q
    BY <1>2, <2>3
  <2>5. QED  BY <2>4 DEF Q
<1>6. QED  BY <1>1, <1>3, <1>4, <1>5, SpreadIs

\* the least closed set,
LEMMA DownIsLeast ==
  ASSUME NEW S \in SUBSET Nodes, NEW X, S \subseteq X, MadeFail(X) \subseteq X
  PROVE  Down(S) \subseteq X
<1> DEFINE N == Cardinality(Nodes)
           Q == {Y \in SUBSET Nodes : Y \subseteq X}
<1>1. PICK F : IsChain(F, Spread, S, N) /\ Down(S) = F[N]
  BY DownEndsChain
<1>2. N \in Nat /\ N \in 0..N /\ 0 \in 0..N
  BY NodesAreFinite
<1>3. \A k \in 1..N : F[k-1] \in Q => F[k] \in Q
  <2>1. \A k \in 1..N : F[k] = Spread[F[k-1]]
    BY <1>1 DEF IsChain
  <2>2. \A Y \in Q : Spread[Y] \in Q
    BY SpreadIs, MadeFailGrows
  <2>3. QED  BY <2>1, <2>2
<1>4. F[0] \in Q
  BY <1>1 DEF IsChain
<1> HIDE DEF Q
<1>5. \A k \in 0..N : F[k] \in Q
  BY <1>1, <1>2, <1>3, <1>4, ChainKeeps
<1>6. F[N] \in Q
  BY <1>2, <1>5
<1>7. QED  BY <1>1, <1>6 DEF Q

\* and grows with the events.
LEMMA DownGrows ==
  ASSUME NEW S \in SUBSET Nodes, NEW T \in SUBSET Nodes, S \subseteq T
  PROVE  Down(S) \subseteq Down(T)
<1>1. S \subseteq Down(T) /\ MadeFail(Down(T)) \subseteq Down(T)
  BY DownIsClosed
<1>2. QED  BY <1>1, DownIsLeast

-----------------------------------------------------------------------------
(* Static trees. *)

\* The nodes of a static tree.
LEMMA StaticKinds ==
  ASSUME IsStatic
  PROVE  /\ Nodes = Votings \cup FDeps \cup BasicEvents
         /\ Votings \subseteq Gates /\ FDeps \subseteq Gates
         /\ Votings \cap BasicEvents = {} /\ Votings \cap FDeps = {}
         /\ FDeps \cap BasicEvents = {} /\ Spares = {}
         /\ top \in Votings /\ top \in Nodes /\ top \notin Dependents
  BY TreeAssumption DEF IsStatic, Votings, FDeps, BasicEvents, Spares, Gates, OfType

\* The nodes whose parents were told that they failed.
Known == {n \in Nodes : Parents(n) # {} /\ (Says1(n) \/ Notified(n))}

\* With agreement, a voting gate has counted its known children,
LEMMA CountIsKnown ==
  ASSUME AllGood, Agrees, NEW g \in Votings
  PROVE  /\ node[g].nr_failed = Cardinality(ChildrenOf(g) \cap Known)
         /\ node[g].nr_failed \in Nat /\ tree[g].threshold \in Nat \ {0}
<1> DEFINE D == ChildrenOf(g) \cap Known
           R == node[g].received
<1>1. /\ g \in Gates /\ g \in Nodes /\ tree[g].type = "voting"
      /\ tree[g].threshold \in Nat \ {0} /\ node[g] \in VotingStates(g)
      /\ node[g].nr_failed = Cardinality(R)
  BY VotingIs, GateIsNode DEF AllGood, Good, Typed, Sound
<1>2. R \in SUBSET Kids(g)
  BY <1>1 DEF VotingStates
<1>3. \A c \in ChildrenOf(g) : LocalID(g, c) \in R <=> c \in D
  <2>1. SUFFICES ASSUME NEW c \in ChildrenOf(g)  PROVE  LocalID(g, c) \in R <=> c \in D
    OBVIOUS
  <2>2. c \in Nodes /\ Parents(c) # {}
    BY <1>1, ChildPlace
  <2>3. c \in D <=> Says1(c) \/ Notified(c)
    BY <2>2 DEF Known
  <2>4. Hears(g, node[g], LocalID(g, c)) <=> Says1(c) \/ Notified(c)
    BY <1>1, Zenon DEF Agrees, Says1
  <2>5. Hears(g, node[g], LocalID(g, c)) <=> LocalID(g, c) \in R
    BY <1>1, Zenon DEF Hears
  <2>6. QED  BY <2>3, <2>4, <2>5, Zenon
<1>4. D \in SUBSET ChildrenOf(g)
  OBVIOUS
<1> HIDE DEF D, R
<1>5. Cardinality(D) = Cardinality(R)
  BY <1>1, <1>2, <1>3, <1>4, CountOfChildren
<1>6. IsFiniteSet(R)
  <2>1. Len(Children(g)) \in Nat
    BY <1>1, GateIsNode
  <2>2. IsFiniteSet(Kids(g))
    BY <2>1, FS_Interval DEF Kids
  <2>3. QED  BY <1>2, <2>2, FS_Subset
<1>7. QED  BY <1>1, <1>5, <1>6, FS_CardinalityType DEF D, R

\* and a dependency gate has failed exactly if its trigger is known.
LEMMA TriggerIsKnown ==
  ASSUME Agrees, NEW f \in FDeps
  PROVE  /\ node[f].failed <=> Children(f)[1] \in Known
         /\ f \in Parents(Children(f)[1]) /\ Children(f)[1] \in Nodes
<1> DEFINE c == Children(f)[1]
<1>1. f \in Gates /\ f \in Nodes /\ tree[f].type = "fdep"
  BY FDepIs, GateIsNode
<1>2. c \in ChildrenOf(f)
  BY <1>1, GateIsNode, ChildHasOnePlace
<1> HIDE DEF c
<1>3. c \in Nodes /\ f \in Parents(c)
  BY <1>1, <1>2, ChildPlace
<1>4. Hears(f, node[f], LocalID(f, c)) <=> Says1(c) \/ Notified(c)
  BY <1>1, <1>2, Zenon DEF Agrees, Says1
<1>5. Hears(f, node[f], LocalID(f, c)) <=> node[f].failed
  BY <1>1, Zenon DEF Hears
<1>6. c \in Known <=> Says1(c) \/ Notified(c)
  BY <1>3 DEF Known
<1>7. QED  BY <1>3, <1>4, <1>5, <1>6, Zenon DEF c

\* Who is made to fail.
LEMMA MadeFailOf ==
  ASSUME NEW X, NEW n \in MadeFail(X)
  PROVE  \/ n \in Votings /\ Cardinality(ChildrenOf(n) \cap X) >= tree[n].threshold
         \/ \E f \in FDeps : \E k \in DOMAIN Dependers(f) :
              n = Dependers(f)[k] /\ Children(f)[1] \in X
  BY DEF MadeFail, Votings, FDeps, Range

\* What the known failures make fail: a gate that counted enough, and everyone that
\* a dependency gate with a known trigger drags along.
LEMMA KnownMakesFail ==
  ASSUME AllGood, Agrees
  PROVE  /\ \A g \in Votings :
              node[g].nr_failed >= tree[g].threshold => g \in MadeFail(Known)
         /\ \A f \in FDeps : \A k \in DOMAIN Dependers(f) :
              node[f].failed => Dependers(f)[k] \in MadeFail(Known)
<1>1. \A f \in FDeps : \A k \in DOMAIN Dependers(f) :
              node[f].failed => Dependers(f)[k] \in MadeFail(Known)
  <2>1. SUFFICES ASSUME NEW f \in FDeps, NEW k \in DOMAIN Dependers(f), node[f].failed
                 PROVE  Dependers(f)[k] \in MadeFail(Known)
    OBVIOUS
  <2>2. f \in {d \in OfType("fdep") : Children(d)[1] \in Known}
    BY <2>1, TriggerIsKnown DEF FDeps
  <2>3. Dependers(f)[k] \in Range(Dependers(f))
    BY DEF Range
  <2>4. QED  BY <2>2, <2>3 DEF MadeFail
<1>2. QED  BY <1>1, CountIsKnown DEF MadeFail, Votings

-----------------------------------------------------------------------------
(* Failures spread and recoveries spread, but never both. *)

\* No gate still plans an announcement that it has made.
Fresh == \A g \in Votings : ~(node[g].done /\ node[g].emit_fail)

\* Whoever was dragged along has failed for good.
DraggedForGood ==
  \A c \in Nodes : Parents(c) # {} /\ Notified(c) => c \in Down(DownEvents)

\* After a failure nobody recovers, and only those fail whom it brings down.
Rising ==
  /\ \A g \in Votings : node[g].done \/ node[g].emit_fail =>
                          node[g].nr_failed >= tree[g].threshold
  /\ \A b \in BasicEvents : Parents(b) # {} => ~node[b].emit_online
  /\ Known \subseteq Down(DownEvents)

\* After a repair nobody fails.
Falling ==
  /\ \A g \in Votings : ~node[g].emit_fail
  /\ \A b \in BasicEvents : Parents(b) # {} => ~node[b].emit_fail
  /\ \A f \in FDeps : node[f].failed => \A k \in DOMAIN Dependers(f) : Told(f, k)

\* The turns that the nodes take when a rule fires.
Turns(rule) ==
  /\ \A g \in Votings : /\ g \in DOMAIN rule => VotingTurn(g, rule[g], node'[g])
                        /\ g \notin DOMAIN rule => node'[g] = node[g]
  /\ \A f \in FDeps : /\ f \in DOMAIN rule => FDepTurn(f, rule[f], node'[f])
                      /\ f \notin DOMAIN rule => node'[f] = node[f]
  /\ \A b \in BasicEvents : /\ b \in DOMAIN rule => EventTurn(b, rule[b], node'[b])
                            /\ b \notin DOMAIN rule => node'[b] = node[b]

\* Every rule that fires is such a turn.
LEMMA FireTurns ==
  ASSUME DOMAIN node = {toplevel} \cup Nodes, AllGood, AllGood', NEW rule \in Rules, Fire(rule)
  PROVE  Turns(rule)
<1>1. \A n \in Nodes :
        /\ n \notin DOMAIN rule => node'[n] = node[n]
        /\ n \in DOMAIN rule => /\ Good(n) /\ Works(n, node'[n]) /\ RuleLabel(n, rule[n])
                                /\ \E t \in Trans(n) : t[1] = rule[n] /\ t[2] = node'[n]
  <2>1. SUFFICES ASSUME NEW n \in Nodes
        PROVE  /\ n \notin DOMAIN rule => node'[n] = node[n]
               /\ n \in DOMAIN rule => /\ Good(n) /\ Works(n, node'[n]) /\ RuleLabel(n, rule[n])
                                       /\ \E t \in Trans(n) : t[1] = rule[n] /\ t[2] = node'[n]
    OBVIOUS
  <2>2. Good(n) /\ Works(n, node'[n])
    BY DEF AllGood, Good, Working
  <2>3. QED  BY <2>2, FireMovesNodes, LabelsOfRules
<1>2. ASSUME NEW g \in Votings, g \in DOMAIN rule  PROVE  VotingTurn(g, rule[g], node'[g])
  <2>1. g \in Nodes /\ Trans(g) = VotingAt(g)!Trans
    BY VotingIs, GateIsNode, TransOf
  <2>2. PICK t \in VotingAt(g)!Trans : t[1] = rule[g] /\ t[2] = node'[g]
    BY <1>1, <1>2, <2>1
  <2>3. VotingTurn(g, t[1], t[2])
    BY <1>1, <1>2, <2>1, <2>2, VotingTurns
  <2>4. QED  BY <2>2, <2>3
<1>3. ASSUME NEW f \in FDeps, f \in DOMAIN rule  PROVE  FDepTurn(f, rule[f], node'[f])
  <2>1. f \in Nodes /\ Trans(f) = FDepAt(f)!Trans
    BY FDepIs, GateIsNode, TransOf
  <2>2. PICK t \in FDepAt(f)!Trans : t[1] = rule[f] /\ t[2] = node'[f]
    BY <1>1, <1>3, <2>1
  <2>3. FDepTurn(f, t[1], t[2])
    BY <1>1, <1>3, <2>1, <2>2, FDepTurns
  <2>4. QED  BY <2>2, <2>3
<1>4. ASSUME NEW b \in BasicEvents, b \in DOMAIN rule  PROVE  EventTurn(b, rule[b], node'[b])
  <2>1. b \in Nodes /\ Trans(b) = EventAt(b)!Trans
    BY EventIs, TransOf
  <2>2. PICK t \in EventAt(b)!Trans : t[1] = rule[b] /\ t[2] = node'[b]
    BY <1>1, <1>4, <2>1
  <2>3. EventTurn(b, t[1], t[2])
    BY <1>1, <1>4, <2>1, <2>2, EventTurns
  <2>4. QED  BY <2>2, <2>3
<1>5. \A n \in Votings \cup FDeps \cup BasicEvents : n \in Nodes
  BY VotingIs, FDepIs, EventIs, GateIsNode
<1>6. QED  BY <1>1, <1>2, <1>3, <1>4, <1>5, Zenon DEF Turns

\* No gate hears of a recovery while failures spread,
LEMMA NobodyRecovers ==
  ASSUME IsStatic, AllGood, Agrees, Rising, NEW rule \in Rules, Turns(rule), NEW g \in Votings,
         g \in DOMAIN rule
  PROVE  \A j : rule[g] # ONLINE(j)
<1>1. \A i, j : FAIL(i) # ONLINE(j)
  BY NewsDiffer
<1>2. ASSUME NEW c \in Nodes, c \in DOMAIN rule, rule[c] = ONLINE(0),
             c \in BasicEvents => Parents(c) # {}
      PROVE  FALSE
  <2>1. CASE c \in Votings
    <3>1. VotingTurn(c, ONLINE(0), node'[c])
      BY <1>2, <2>1 DEF Turns
    <3>2. node[c].done /\ node[c].nr_failed < tree[c].threshold
      BY <3>1, Zenon DEF VotingTurn
    <3>3. node[c].nr_failed >= tree[c].threshold
      BY <2>1, <3>2 DEF Rising
    <3>4. node[c].nr_failed \in Nat /\ tree[c].threshold \in Nat
      BY <2>1, CountIsKnown
    <3>5. QED  BY <3>2, <3>3, <3>4
  <2>2. CASE c \in FDeps
    <3>1. FDepTurn(c, ONLINE(0), node'[c])
      BY <1>2, <2>2 DEF Turns
    <3>2. QED  BY <3>1, Zenon DEF FDepTurn
  <2>3. CASE c \in BasicEvents
    <3>1. EventTurn(c, ONLINE(0), node'[c])
      BY <1>2, <2>3 DEF Turns
    <3>2. QED  BY <1>2, <2>3, <3>1 DEF EventTurn, Rising
  <2>4. QED  BY <2>1, <2>2, <2>3, StaticKinds
<1>3. ASSUME NEW c \in Nodes, IsFailRule(rule, c)  PROVE  \A j : rule[g] # ONLINE(j)
  BY <1>1, <1>3 DEF IsFailRule
<1>4. ASSUME NEW c \in Nodes, IsOnlineRule(rule, c)  PROVE  FALSE
  BY <1>2, <1>4 DEF IsOnlineRule
<1>5. CASE IsTopOnline(rule)
  <2>1. top \in Nodes /\ top \notin BasicEvents
    BY StaticKinds
  <2>2. QED  BY <1>2, <1>5, <2>1 DEF IsTopOnline
<1>6. ASSUME NEW f \in FDeps, NEW i \in DOMAIN Dependers(f), IsFdepRule(rule, f, i)
      PROVE  \A j : rule[g] # ONLINE(j)
  BY <1>1, <1>6 DEF IsFdepRule
<1>7. CASE IsQuietRule(rule)
  <2>1. NoNews(rule[g])
    BY <1>7 DEF IsQuietRule, NoNews
  <2>2. QED  BY <2>1, NewsDiffer
<1>8. QED  BY <1>3, <1>4, <1>5, <1>6, <1>7, RuleKinds

\* and none of a failure while recoveries do.
LEMMA NobodyFails ==
  ASSUME IsStatic, Falling, NEW rule \in Rules, Turns(rule), NEW g \in Gates, g \in DOMAIN rule
  PROVE  \A j : rule[g] # FAIL(j)
<1>1. \A i, j : FAIL(i) # ONLINE(j)
  BY NewsDiffer
<1>2. ASSUME NEW c \in Nodes, c \in DOMAIN rule, rule[c] = FAIL(0),
             c \in BasicEvents => Parents(c) # {}
      PROVE  FALSE
  <2>1. CASE c \in Votings
    <3>1. VotingTurn(c, FAIL(0), node'[c])
      BY <1>2, <2>1 DEF Turns
    <3>2. node[c].emit_fail
      BY <3>1, Zenon DEF VotingTurn
    <3>3. QED  BY <2>1, <3>2 DEF Falling
  <2>2. CASE c \in FDeps
    <3>1. FDepTurn(c, FAIL(0), node'[c])
      BY <1>2, <2>2 DEF Turns
    <3>2. QED  BY <3>1, Zenon DEF FDepTurn
  <2>3. CASE c \in BasicEvents
    <3>1. EventTurn(c, FAIL(0), node'[c])
      BY <1>2, <2>3 DEF Turns
    <3>2. QED  BY <1>2, <2>3, <3>1 DEF EventTurn, Falling
  <2>4. QED  BY <2>1, <2>2, <2>3, StaticKinds
<1>3. ASSUME NEW c \in Nodes, IsFailRule(rule, c)  PROVE  FALSE
  <2>1. c \in DOMAIN rule /\ rule[c] = FAIL(0) /\ g \in {c} \cup Parents(c)
    BY <1>3 DEF IsFailRule
  <2>2. c \in BasicEvents => Parents(c) # {}
    BY <2>1, KindsOfNodes
  <2>3. QED  BY <1>2, <2>1, <2>2
<1>4. ASSUME NEW c \in Nodes, IsOnlineRule(rule, c)  PROVE  \A j : rule[g] # FAIL(j)
  BY <1>1, <1>4 DEF IsOnlineRule
<1>5. CASE IsTopOnline(rule)
  BY <1>1, <1>5 DEF IsTopOnline
<1>6. ASSUME NEW f \in FDeps, NEW i \in DOMAIN Dependers(f), IsFdepRule(rule, f, i)
      PROVE  FALSE
  <2>1. FDepTurn(f, FAIL(i + 1), node'[f])
    BY <1>6 DEF IsFdepRule, Turns
  <2>2. node[f].failed /\ i \notin node[f].notified
    BY <2>1, DependerPlaces, Zenon DEF FDepTurn
  <2>3. Told(f, i)
    BY <2>2 DEF Falling
  <2>4. QED  BY <2>2, <2>3, FDepIs DEF Told, Tells
<1>7. CASE IsQuietRule(rule)
  <2>1. NoNews(rule[g])
    BY <1>7 DEF IsQuietRule, NoNews
  <2>2. QED  BY <2>1, NewsDiffer
<1>8. QED  BY <1>3, <1>4, <1>5, <1>6, <1>7, RuleKinds

\* A rule fails and repairs no event.
LEMMA EventsStay ==
  ASSUME NEW rule, Turns(rule)
  PROVE  DownEvents' = DownEvents
<1>1. \A b \in BasicEvents : node'[b].status = node[b].status
  BY DEF Turns, EventTurn
<1>2. QED  BY <1>1 DEF DownEvents

\* What the events bring down is closed.
LEMMA DownOfEvents ==
  /\ DownEvents \in SUBSET Nodes /\ DownEvents \subseteq Down(DownEvents)
  /\ MadeFail(Down(DownEvents)) \subseteq Down(DownEvents)
<1>1. DownEvents \in SUBSET Nodes
  BY DEF DownEvents, BasicEvents, OfType
<1>2. QED  BY <1>1, DownIsClosed

\* What a rule makes known it announces itself.
LEMMA NewlyKnown ==
  ASSUME NEW rule, News(rule), NEW n \in Nodes, Parents(n) # {}
  PROVE  /\ Notified(n)' => \/ Notified(n)
                            \/ \E f \in FDeps : \E k \in DOMAIN Dependers(f) :
                                 n = Dependers(f)[k] /\ Gets(rule, f, FAIL(k + 1))
         /\ Says1(n)' => Says1(n) \/ Gets(rule, n, FAIL(0))
<1>1. ASSUME Notified(n)'
      PROVE  \/ Notified(n)
             \/ \E f \in FDeps : \E k \in DOMAIN Dependers(f) :
                  n = Dependers(f)[k] /\ Gets(rule, f, FAIL(k + 1))
  <2>1. PICK f \in FDeps : \E k \in DOMAIN Dependers(f) :
          Dependers(f)[k] = n /\ Told(f, k)'
    BY <1>1 DEF Notified, Told
  <2>2. PICK k \in DOMAIN Dependers(f) : Dependers(f)[k] = n /\ Told(f, k)'
    BY <2>1
  <2>3. Told(f, k) \/ Gets(rule, f, FAIL(k + 1))
    BY <2>2, Zenon DEF News
  <2>4. Told(f, k) => Notified(n)
    BY <2>2 DEF Notified, Told
  <2>5. QED  BY <2>2, <2>3, <2>4, Zenon
<1>2. Says1(n)' => Says1(n) \/ Gets(rule, n, FAIL(0))
  <2>1. PICK p \in Gates : n \in ChildrenOf(p)
    BY ParentIsGate
  <2>2. QED  BY <2>1, Zenon DEF News
<1>3. QED  BY <1>1, <1>2

\* A dependency gate only tells of what its trigger brings down.
LEMMA ToldIsDown ==
  ASSUME AllGood, Agrees, Rising \/ Falling, NEW rule, Turns(rule),
         NEW f \in FDeps, NEW k \in DOMAIN Dependers(f), Gets(rule, f, FAIL(k + 1))
  PROVE  Dependers(f)[k] \in Down(DownEvents)
<1>1. FDepTurn(f, FAIL(k + 1), node'[f])
  BY DEF Gets, Turns
<1>2. node[f].failed /\ k \notin node[f].notified
  BY <1>1, DependerPlaces, Zenon DEF FDepTurn
<1>3. CASE Rising
  <2>1. Dependers(f)[k] \in MadeFail(Known)
    BY <1>2, KnownMakesFail
  <2>2. Known \subseteq Down(DownEvents)
    BY <1>3 DEF Rising
  <2>3. QED  BY <2>1, <2>2, MadeFailGrows, DownOfEvents
<1>4. CASE Falling
  <2>1. Told(f, k)
    BY <1>2, <1>4 DEF Falling
  <2>2. QED  BY <1>2, <2>1, FDepIs DEF Told, Tells
<1>5. QED  BY <1>3, <1>4

\* What was dragged along stays brought down when a rule fires.
LEMMA DraggedStays ==
  ASSUME AllGood, Agrees, Rising \/ Falling, DraggedForGood, NEW rule, Turns(rule), News(rule)
  PROVE  DraggedForGood'
<1>1. SUFFICES ASSUME NEW c \in Nodes, Parents(c) # {}, Notified(c)'
               PROVE  c \in Down(DownEvents)'
  BY DEF DraggedForGood
<1>2. CASE Notified(c)
  BY <1>1, <1>2, EventsStay DEF DraggedForGood
<1>3. CASE ~Notified(c)
  <2>1. PICK f \in FDeps : \E k \in DOMAIN Dependers(f) :
          c = Dependers(f)[k] /\ Gets(rule, f, FAIL(k + 1))
    BY <1>1, <1>3, NewlyKnown
  <2>2. c \in Down(DownEvents)
    BY <2>1, ToldIsDown
  <2>3. QED  BY <2>2, EventsStay
<1>4. QED  BY <1>2, <1>3

\* A gate keeps its plans in line with its announcements.
LEMMA FreshStays ==
  ASSUME AllGood, Fresh, NEW rule, Turns(rule)
  PROVE  Fresh'
<1>1. SUFFICES ASSUME NEW g \in Votings  PROVE  ~(node'[g].done /\ node'[g].emit_fail)
  BY DEF Fresh
<1>2. CASE g \in DOMAIN rule
  <2>1. VotingTurn(g, rule[g], node'[g]) /\ ~(node[g].done /\ node[g].emit_fail)
    BY <1>2 DEF Turns, Fresh
  <2>2. QED  BY <2>1, Zenon DEF VotingTurn
<1>3. CASE g \notin DOMAIN rule
  BY <1>3 DEF Turns, Fresh
<1>4. QED  BY <1>2, <1>3

\* Failures spread on until they are all known.
LEMMA RisingStays ==
  ASSUME IsStatic, AllGood, Agrees, AllGood', Agrees', Rising, NEW rule \in Rules,
         Turns(rule), News(rule)
  PROVE  Rising'
<1>1. ASSUME NEW g \in Votings, node'[g].done \/ node'[g].emit_fail
      PROVE  node'[g].nr_failed >= tree[g].threshold
  <2>1. /\ node[g].nr_failed \in Nat /\ node'[g].nr_failed \in Nat
        /\ tree[g].threshold \in Nat
    <3>1. node'[g].nr_failed \in Nat
      <4>1. node'[g] \in VotingStates(g) /\ node'[g].nr_failed = Cardinality(node'[g].received)
        BY VotingIs, GateIsNode DEF AllGood, Good, Typed, Sound
      <4>2. node'[g].received \in SUBSET Kids(g)
        BY <4>1 DEF VotingStates
      <4>3. IsFiniteSet(Kids(g))
        <5>1. Len(Children(g)) \in Nat
          BY VotingIs, GateIsNode
        <5>2. QED  BY <5>1, FS_Interval DEF Kids
      <4>4. QED  BY <4>1, <4>2, <4>3, FS_Subset, FS_CardinalityType
    <3>2. QED  BY <3>1, CountIsKnown
  <2>2. CASE g \in DOMAIN rule
    <3>1. VotingTurn(g, rule[g], node'[g]) /\ \A j : rule[g] # ONLINE(j)
      BY <2>2, NobodyRecovers DEF Turns
    <3>2. ~(node'[g].nr_failed < node[g].nr_failed)
      BY <3>1, Zenon DEF VotingTurn
    <3>3. \/ node[g].done \/ node[g].emit_fail
          \/ node'[g].nr_failed >= tree[g].threshold
      BY <1>1, <3>1, Zenon DEF VotingTurn
    <3>4. node[g].done \/ node[g].emit_fail => node[g].nr_failed >= tree[g].threshold
      BY DEF Rising
    <3>5. QED  BY <2>1, <3>2, <3>3, <3>4
  <2>3. CASE g \notin DOMAIN rule
    BY <1>1, <2>3 DEF Turns, Rising
  <2>4. QED  BY <2>2, <2>3
<1>2. ASSUME NEW b \in BasicEvents, Parents(b) # {}  PROVE  ~node'[b].emit_online
  BY <1>2, Zenon DEF Turns, EventTurn, Rising
<1>3. ASSUME NEW n \in Nodes, Parents(n) # {}, Says1(n)' \/ Notified(n)'
      PROVE  n \in Down(DownEvents)
  <2> DEFINE D == Down(DownEvents)
  <2>1. Known \subseteq D /\ MadeFail(Known) \subseteq D
    <3>1. Known \subseteq D
      BY DEF Rising
    <3>2. QED  BY <3>1, MadeFailGrows, DownOfEvents
  <2>2. CASE Says1(n) \/ Notified(n)
    BY <1>3, <2>1, <2>2 DEF Known
  <2>3. CASE Gets(rule, n, FAIL(0))
    <3>1. CASE n \in Votings
      <4>1. VotingTurn(n, FAIL(0), node'[n])
        BY <2>3, <3>1 DEF Gets, Turns
      <4>2. node[n].emit_fail
        BY <4>1, Zenon DEF VotingTurn
      <4>3. n \in MadeFail(Known)
        BY <3>1, <4>2, KnownMakesFail DEF Rising
      <4>4. QED  BY <2>1, <4>3
    <3>2. CASE n \in FDeps
      <4>1. FDepTurn(n, FAIL(0), node'[n])
        BY <2>3, <3>2 DEF Gets, Turns
      <4>2. QED  BY <4>1, Zenon DEF FDepTurn
    <3>3. CASE n \in BasicEvents
      <4>1. EventTurn(n, FAIL(0), node'[n])
        BY <2>3, <3>3 DEF Gets, Turns
      <4>2. node[n].emit_fail
        BY <4>1, Zenon DEF EventTurn
      <4>3. tree[n].type = "be" /\ Sound(n, node[n])
        BY <3>3, EventIs DEF AllGood, Good
      <4>4. IsDown(node[n])
        BY <1>3, <4>2, <4>3 DEF Sound
      <4>5. QED  BY <3>3, <4>4, DownOfEvents DEF IsDown, DownEvents
    <3>4. QED  BY <3>1, <3>2, <3>3, StaticKinds
  <2>4. ASSUME NEW f \in FDeps, NEW k \in DOMAIN Dependers(f), n = Dependers(f)[k],
               Gets(rule, f, FAIL(k + 1))
        PROVE  n \in D
    BY <2>4, ToldIsDown
  <2>5. QED  BY <1>3, <2>2, <2>3, <2>4, NewlyKnown
<1>4. Known' \subseteq Down(DownEvents)'
  BY <1>3, EventsStay DEF Known
<1>5. QED  BY <1>1, <1>2, <1>4 DEF Rising

\* Recoveries spread on until they are all known.
LEMMA FallingStays ==
  ASSUME IsStatic, AllGood, Falling, NEW rule \in Rules, Turns(rule), News(rule)
  PROVE  Falling'
<1>1. ASSUME NEW g \in Votings  PROVE  ~node'[g].emit_fail
  <2>1. ~node[g].emit_fail
    BY DEF Falling
  <2>2. CASE g \in DOMAIN rule
    <3>1. g \in Gates
      BY VotingIs
    <3>2. VotingTurn(g, rule[g], node'[g]) /\ \A j : rule[g] # FAIL(j)
      BY <2>2, <3>1, NobodyFails DEF Turns
    <3>3. QED  BY <2>1, <3>2, Zenon DEF VotingTurn
  <2>3. CASE g \notin DOMAIN rule
    BY <2>1, <2>3 DEF Turns
  <2>4. QED  BY <2>2, <2>3
<1>2. ASSUME NEW b \in BasicEvents, Parents(b) # {}  PROVE  ~node'[b].emit_fail
  BY <1>2, Zenon DEF Turns, EventTurn, Falling
<1>3. ASSUME NEW f \in FDeps, node'[f].failed, NEW k \in DOMAIN Dependers(f)
      PROVE  Told(f, k)'
  <2>1. node[f].failed
    <3>1. CASE f \in DOMAIN rule
      <4>1. f \in Gates
        BY FDepIs
      <4>2. FDepTurn(f, rule[f], node'[f]) /\ \A j : rule[f] # FAIL(j)
        BY <3>1, <4>1, NobodyFails DEF Turns
      <4>3. QED  BY <1>3, <4>2, Zenon DEF FDepTurn
    <3>2. CASE f \notin DOMAIN rule
      BY <1>3, <3>2 DEF Turns
    <3>3. QED  BY <3>1, <3>2
  <2>2. Told(f, k)
    BY <2>1 DEF Falling
  <2>3. QED  BY <2>2, Zenon DEF News
<1>4. QED  BY <1>1, <1>2, <1>3 DEF Falling

\* What is announced while failures spread has happened.
LEMMA AnnouncedIsDown ==
  ASSUME AllGood, Agrees, Rising, NEW g \in Votings, node[g].done \/ node[g].emit_fail
  PROVE  g \in Down(DownEvents)
<1>1. g \in MadeFail(Known)
  BY KnownMakesFail DEF Rising
<1>2. Known \subseteq Down(DownEvents)
  BY DEF Rising
<1>3. QED  BY <1>1, <1>2, MadeFailGrows, DownOfEvents

\* While recoveries spread every failure with somebody to tell is known, so a top
\* that has not counted enough is not brought down.
LEMMA UncountedIsUp ==
  ASSUME IsStatic, AllGood, Agrees, Falling, node[top].nr_failed < tree[top].threshold
  PROVE  top \notin Down(DownEvents)
<1> DEFINE X == Known \cup {n \in Nodes : Parents(n) = {}}
           Y == X \ {top}
<1>1. DownEvents \subseteq Y
  <2>1. SUFFICES ASSUME NEW b \in DownEvents  PROVE  b \in Y
    OBVIOUS
  <2>2. b \in Nodes /\ b \in BasicEvents /\ tree[b].type = "be" /\ b # top
    BY EventIs, StaticKinds DEF DownEvents
  <2>3. IsDown(node[b])
    BY DEF DownEvents, IsDown
  <2>4. Parents(b) # {} => Says1(b)
    BY <2>2, <2>3 DEF Says1, Says, Falling
  <2>5. QED  BY <2>2, <2>4 DEF Known
<1>2. \A n \in Nodes : \A c \in ChildrenOf(n) : c \in X => c \in Known
  BY NodesAreFinite DEF Parents
<1>3. MadeFail(Y) \subseteq Y
  <2>1. SUFFICES ASSUME NEW n \in MadeFail(Y)  PROVE  n \in Y
    OBVIOUS
  <2>2. n \in Nodes
    BY MadeFailGrows
  <2>3. ASSUME n \in Votings, Cardinality(ChildrenOf(n) \cap Y) >= tree[n].threshold
        PROVE  n \in Y
    <3>1. /\ node[n].nr_failed = Cardinality(ChildrenOf(n) \cap Known)
          /\ node[n].nr_failed \in Nat /\ tree[n].threshold \in Nat
      BY <2>3, CountIsKnown
    <3>2. node[n].nr_failed >= tree[n].threshold
      <4>1. ChildrenOf(n) \cap Y \subseteq ChildrenOf(n) \cap Known
        BY <1>2, <2>2
      <4>2. IsFiniteSet(ChildrenOf(n) \cap Known)
        BY <2>2, NodesAreFinite, FS_Subset
      <4>3. /\ IsFiniteSet(ChildrenOf(n) \cap Y)
            /\ Cardinality(ChildrenOf(n) \cap Y) <= Cardinality(ChildrenOf(n) \cap Known)
        BY <4>1, <4>2, FS_Subset
      <4>4. Cardinality(ChildrenOf(n) \cap Y) \in Nat
        BY <4>3, FS_CardinalityType
      <4> HIDE DEF Y
      <4>5. QED  BY <2>3, <3>1, <4>3, <4>4
    <3>3. n # top
      BY <3>1, <3>2
    <3>4. node[n].done
      BY <2>3, <3>2, VotingIs, GateIsNode DEF AllGood, Good, Sound, Falling
    <3>5. Says1(n)
      BY <2>3, <3>4, VotingIs DEF Says1, Says
    <3>6. QED  BY <2>2, <3>3, <3>5 DEF Known
  <2>4. ASSUME NEW f \in FDeps, NEW k \in DOMAIN Dependers(f), n = Dependers(f)[k],
               Children(f)[1] \in Y
        PROVE  n \in Y
    <3>1. Children(f)[1] \in Known
      BY <2>4, TriggerIsKnown
    <3>2. Told(f, k)
      BY <3>1, TriggerIsKnown DEF Falling
    <3>3. Notified(n)
      BY <2>4, <3>2 DEF Notified, Told
    <3>4. n # top
      BY <2>4, DependerPlaces, StaticKinds
    <3>5. QED  BY <2>2, <3>3, <3>4 DEF Known
  <2> HIDE DEF Y
  <2>5. QED  BY <2>3, <2>4, MadeFailOf
<1>4. top \notin Y
  OBVIOUS
<1> HIDE DEF Y
<1>5. QED  BY <1>1, <1>3, <1>4, DownOfEvents, DownIsLeast

\* Then all recoveries have spread,
LEMMA FallenWhenSettled ==
  ASSUME RecoveriesReach, VotesAreHeard, AllGood, Fresh, Settled
  PROVE  Falling
<1>1. \A g \in Votings : ~node[g].emit_fail
  BY PlansAreOut DEF Fresh
<1>2. QED  BY <1>1, EventsHaveSaid, DependersAreTold DEF Falling

\* and all failures: what is known has happened, from the leaves upwards.
LEMMA RisenWhenSettled ==
  ASSUME IsStatic, Acyclic, RecoveriesReach, VotesAreHeard, AllGood, Agrees, Fresh, DraggedForGood,
         Settled
  PROVE  /\ Rising
         /\ \A g \in Votings : node[g].done <=> node[g].nr_failed >= tree[g].threshold
<1> DEFINE D == Down(DownEvents)
<1>1. \A g \in Votings : node[g].done <=> node[g].nr_failed >= tree[g].threshold
  <2>1. SUFFICES ASSUME NEW g \in Votings
                 PROVE  node[g].done <=> node[g].nr_failed >= tree[g].threshold
    OBVIOUS
  <2>2. node[g].nr_failed = Cardinality(node[g].received)
    BY VotingIs, GateIsNode DEF AllGood, Good, Sound
  <2>3. QED  BY <2>2, VotesMatch
<1>2. \A g \in Votings : node[g].done \/ node[g].emit_fail =>
                           node[g].nr_failed >= tree[g].threshold
  BY <1>1, PlansAreOut
<1>3. Known \subseteq D
  <2> DEFINE T == Known \ D
  <2>1. SUFFICES ASSUME T # {}  PROVE  FALSE
    OBVIOUS
  <2>2. T \in SUBSET Nodes
    BY DEF Known
  <2>3. PICK n \in T : ChildrenOf(n) \cap T = {}
    BY <2>1, <2>2 DEF Acyclic
  <2>4. n \in Nodes /\ Parents(n) # {} /\ n \notin D /\ Says1(n)
    BY <2>3 DEF Known, DraggedForGood
  <2>5. CASE n \in Votings
    <3>1. node[n].done
      BY <2>4, <2>5, VotingIs DEF Says1, Says
    <3>2. Cardinality(ChildrenOf(n) \cap Known) >= tree[n].threshold
      BY <1>1, <2>5, <3>1, CountIsKnown
    <3> DEFINE K == Known \cap D
    <3>3. ChildrenOf(n) \cap Known = ChildrenOf(n) \cap K
      BY <2>3
    <3>4. K \subseteq D
      OBVIOUS
    <3> HIDE DEF K, D
    <3>5. Cardinality(ChildrenOf(n) \cap K) >= tree[n].threshold
      BY <3>2, <3>3
    <3>6. n \in MadeFail(K)
      BY <2>5, <3>5 DEF MadeFail, Votings
    <3>7. n \in MadeFail(D)
      BY <3>4, <3>6, MadeFailGrows
    <3>8. QED  BY <2>4, <3>7, DownOfEvents DEF D
  <2>6. CASE n \in FDeps
    BY <2>4, <2>6, FDepIs DEF Says1, Says
  <2>7. CASE n \in BasicEvents
    BY <2>4, <2>7, EventsHaveSaid, DownOfEvents DEF Says1
  <2>8. QED  BY <2>4, <2>5, <2>6, <2>7, StaticKinds
<1>4. QED  BY <1>1, <1>2, <1>3, EventsHaveSaid DEF Rising

\* So the top's announcement is up to date between two rates.
LEMMA CaughtUpWhenSettled ==
  ASSUME IsStatic, Acyclic, RecoveriesReach, VotesAreHeard, AllGood, Agrees, Fresh, DraggedForGood,
         Settled
  PROVE  node[top].done <=> top \in Down(DownEvents)
<1>1. top \in Votings
  BY StaticKinds
<1>2. /\ Rising /\ Falling
      /\ node[top].done <=> node[top].nr_failed >= tree[top].threshold
  BY <1>1, RisenWhenSettled, FallenWhenSettled
<1>3. node[top].nr_failed \in Nat /\ tree[top].threshold \in Nat
  BY <1>1, CountIsKnown
<1>4. CASE node[top].done
  BY <1>1, <1>2, <1>4, AnnouncedIsDown
<1>5. CASE ~node[top].done
  BY <1>2, <1>3, <1>5, UncountedIsUp
<1>6. QED  BY <1>4, <1>5

\* The nodes that may recover.
Restorable == {n \in Nodes : IF n \in BasicEvents THEN tree[n].repair ELSE n \in Repairable}

\* They are above each other, and nothing drags them along.
LEMMA RestorablesApart ==
  ASSUME IsStatic, RecoveriesReach, VotesAreHeard
  PROVE  /\ \A p \in Nodes \ Repairable : ChildrenOf(p) \cap Restorable = {}
         /\ \A c \in Restorable \cap Dependents : Parents(c) = {}
         /\ FDeps \cap Repairable = {}
<1>1. ASSUME NEW c \in Restorable, Parents(c) # {}
      PROVE  Parents(c) \subseteq Repairable /\ c \notin Dependents
  <2>1. CASE c \in BasicEvents
    <3>1. tree[c].repair /\ c \in Nodes
      BY <2>1 DEF Restorable
    <3>2. Parents(c) \subseteq Repairable
      BY <2>1, <3>1 DEF RecoveriesReach
    <3>3. c \in Repairable
      BY <2>1, <3>1 DEF Repairable, IsRepairableBE
    <3>4. Parents(c) \cap Repairable # {}
      BY <1>1, <3>2
    <3>5. QED  BY <3>1, <3>2, <3>3, <3>4 DEF RecoveriesReach
  <2>2. CASE c \notin BasicEvents
    <3>1. c \in Repairable /\ c \in Nodes
      BY <2>2 DEF Restorable
    <3>2. c \notin FDeps
      BY <3>1 DEF RecoveriesReach, FDeps
    <3>3. c \in OfType("voting")
      BY <2>2, <3>1, <3>2, StaticKinds DEF Votings
    <3>4. Parents(c) \cap Repairable # {}
      BY <1>1, <3>1, <3>3 DEF VotesAreHeard, RecoveriesReach
    <3>5. QED  BY <3>1, <3>4 DEF RecoveriesReach
  <2>3. QED  BY <2>1, <2>2
<1>2. \A p \in Nodes \ Repairable : ChildrenOf(p) \cap Restorable = {}
  <2>1. SUFFICES ASSUME NEW p \in Nodes \ Repairable, NEW c \in ChildrenOf(p), c \in Restorable
                 PROVE  FALSE
    OBVIOUS
  <2>2. p \in Parents(c)
    BY DEF Parents
  <2>3. QED  BY <1>1, <2>1, <2>2
<1>3. FDeps \cap Repairable = {}
  BY DEF RecoveriesReach, FDeps
<1>4. QED  BY <1>1, <1>2, <1>3

\* The repair of an event brings nobody back that cannot recover.
LEMMA RepairSpares ==
  ASSUME IsStatic, RecoveriesReach, VotesAreHeard, NEW S \in SUBSET Nodes, NEW b \in Restorable
  PROVE  Down(S) \subseteq Down(S \ {b}) \cup Restorable
<1> DEFINE E == S \ {b}
           X == Down(E) \cup Restorable
<1>1. Down(E) \in SUBSET Nodes /\ E \subseteq Down(E) /\ MadeFail(Down(E)) \subseteq Down(E)
  <2>1. E \in SUBSET Nodes
    OBVIOUS
  <2> HIDE DEF E
  <2>2. QED  BY <2>1, DownIsClosed
<1>2. S \subseteq X
  BY <1>1
<1>3. \A p \in Nodes \ Repairable : ChildrenOf(p) \cap X = ChildrenOf(p) \cap Down(E)
  BY RestorablesApart
<1>4. MadeFail(X) \subseteq X
  <2>1. SUFFICES ASSUME NEW n \in MadeFail(X), n \notin X  PROVE  FALSE
    OBVIOUS
  <2>2. n \in Nodes
    BY MadeFailGrows
  <2>3. ASSUME n \in Votings, Cardinality(ChildrenOf(n) \cap X) >= tree[n].threshold
        PROVE  FALSE
    <3>1. n \notin Repairable
      BY <2>1, <2>2, <2>3, StaticKinds DEF Restorable
    <3>2. ChildrenOf(n) \cap X = ChildrenOf(n) \cap Down(E)
      BY <1>3, <2>2, <3>1
    <3> HIDE DEF X, E
    <3>3. Cardinality(ChildrenOf(n) \cap Down(E)) >= tree[n].threshold
      BY <2>3, <3>2
    <3>4. n \in MadeFail(Down(E))
      BY <2>3, <3>3 DEF MadeFail, Votings
    <3>5. QED  BY <1>1, <2>1, <3>4 DEF X
  <2>4. ASSUME NEW f \in FDeps, NEW k \in DOMAIN Dependers(f), n = Dependers(f)[k],
               Children(f)[1] \in X
        PROVE  FALSE
    <3>1. f \in Nodes \ Repairable /\ Children(f)[1] \in ChildrenOf(f)
      BY RestorablesApart, FDepIs, GateIsNode, ChildHasOnePlace
    <3>2. Children(f)[1] \in Down(E)
      BY <1>3, <2>4, <3>1
    <3>3. f \in {d \in OfType("fdep") : Children(d)[1] \in Down(E)}
      BY <3>2 DEF FDeps
    <3>4. n \in MadeFail(Down(E))
      BY <2>4, <3>3 DEF MadeFail, Range
    <3>5. QED  BY <1>1, <2>1, <3>4
  <2> HIDE DEF X
  <2>5. QED  BY <2>1, <2>3, <2>4, MadeFailOf
<1> HIDE DEF X
<1>5. Down(S) \subseteq X
  BY <1>2, <1>4, DownIsLeast
<1>6. QED  BY <1>5 DEF X

\* A rate fails or repairs one event.
LEMMA RateEffect ==
  ASSUME RecoveriesReach, Peace, Elapse
  PROVE  \E b \in BasicEvents :
           /\ \A n \in Nodes \ {b} : node'[n] = node[n]
           /\ Parents(b) # {} => (Says1(b)' <=> Says1(b))
           /\ b \in DownEvents' <=> IsDown(node'[b])
           /\ b \in DownEvents /\ b \notin DownEvents' => tree[b].repair
           /\ DownEvents' \in {DownEvents, DownEvents \cup {b}, DownEvents \ {b}}
<1>1. PICK b \in BasicEvents : \E t \in Trans(b) :
           /\ t[1] \in Rated(b) /\ node'[b] = t[2]
           /\ DOMAIN node' = DOMAIN node
           /\ \A n \in Nodes \ {b} : node'[n] = node[n]
  BY ElapseMovesEvent DEF Peace
<1>2. PICK t \in Trans(b) : /\ t[1] \in Rated(b) /\ node'[b] = t[2]
                            /\ \A n \in Nodes \ {b} : node'[n] = node[n]
  BY <1>1, Zenon
<1>3. b \in Nodes /\ Good(b) /\ t \in EventAt(b)!Trans
  BY <1>2, EventIs, TransOf DEF Peace, AllGood
<1>4. Works(b, node'[b])
  <2>1. Peace'
    BY ElapsePeace
  <2>2. QED  BY <1>3, <2>1 DEF Peace, AllGood, Good, Working
<1>5. Parents(b) # {} => ~node[b].emit_fail /\ ~node[b].emit_online
  BY EventsHaveSaid DEF Elapse, Peace
<1>6. Parents(b) # {} => (Says(b, node'[b]) <=> Says(b, node[b]))
  BY <1>2, <1>3, <1>4, <1>5, EventRate
<1>7. IsDown(node[b]) /\ ~IsDown(node'[b]) => tree[b].repair
  BY <1>2, <1>3, OnlyRepairsRestore
<1>8. \A c \in BasicEvents : /\ c \in DownEvents <=> IsDown(node[c])
                             /\ c \in DownEvents' <=> IsDown(node'[c])
  BY DEF DownEvents, IsDown
<1>9. \A c \in BasicEvents \ {b} : c \in DownEvents <=> c \in DownEvents'
  BY <1>2, <1>8, EventIs
<1>10. DownEvents \subseteq BasicEvents /\ DownEvents' \subseteq BasicEvents
  BY DEF DownEvents
<1>11. DownEvents' \in {DownEvents, DownEvents \cup {b}, DownEvents \ {b}}
  BY <1>9, <1>10
<1>12. Parents(b) # {} => (Says1(b)' <=> Says1(b))
  BY <1>6 DEF Says1
<1>13. QED  BY <1>2, <1>7, <1>8, <1>11, <1>12

\* The nodes that are known stay the same.
LEMMA RateIsNoNews ==
  ASSUME NEW b \in BasicEvents, \A n \in Nodes \ {b} : node'[n] = node[n],
         Parents(b) # {} => (Says1(b)' <=> Says1(b))
  PROVE  Known' = Known /\ \A c : Notified(c)' <=> Notified(c)
<1>1. \A f \in FDeps : node'[f] = node[f]
  BY FDepIs, GateIsNode, KindsOfNodes
<1>2. \A c : Notified(c)' <=> Notified(c)
  BY <1>1 DEF Notified
<1>3. \A n \in Nodes : Parents(n) # {} => (Says1(n)' <=> Says1(n))
  BY DEF Says1
<1>4. QED  BY <1>2, <1>3 DEF Known

\* A failure starts to spread, or a repair.
LEMMA RateStartsWave ==
  ASSUME IsStatic, Acyclic, RecoveriesReach, VotesAreHeard, Peace, Fresh, DraggedForGood,
         Peace', Elapse
  PROVE  Fresh' /\ DraggedForGood' /\ (Rising' \/ Falling')
<1>1. PICK b \in BasicEvents :
           /\ \A n \in Nodes \ {b} : node'[n] = node[n]
           /\ Parents(b) # {} => (Says1(b)' <=> Says1(b))
           /\ b \in DownEvents' <=> IsDown(node'[b])
           /\ b \in DownEvents /\ b \notin DownEvents' => tree[b].repair
           /\ DownEvents' \in {DownEvents, DownEvents \cup {b}, DownEvents \ {b}}
  BY RateEffect
<1>2. Known' = Known /\ \A c : Notified(c)' <=> Notified(c)
  BY <1>1, RateIsNoNews
<1>3. /\ \A g \in Votings : node'[g] = node[g]
      /\ \A f \in FDeps : node'[f] = node[f]
      /\ \A c \in BasicEvents \ {b} : node'[c] = node[c]
  BY <1>1, StaticKinds
<1>4. Rising /\ Falling
  BY RisenWhenSettled, FallenWhenSettled DEF Peace, Elapse
<1>5. DownEvents \in SUBSET Nodes /\ DownEvents' \in SUBSET Nodes
  BY DEF DownEvents, BasicEvents, OfType
<1>6. Fresh'
  BY <1>3 DEF Fresh
<1>7. DraggedForGood'
  <2>1. SUFFICES ASSUME NEW c \in Nodes, Parents(c) # {}, Notified(c)
                 PROVE  c \in Down(DownEvents')
    BY <1>2 DEF DraggedForGood
  <2>2. c \in Down(DownEvents)
    BY <2>1 DEF DraggedForGood
  <2>3. CASE DownEvents \subseteq DownEvents'
    BY <1>5, <2>2, <2>3, DownGrows
  <2>4. CASE ~(DownEvents \subseteq DownEvents')
    <3>1. DownEvents' = DownEvents \ {b} /\ b \in DownEvents /\ b \notin DownEvents'
      BY <1>1, <2>4
    <3>2. b \in Restorable
      BY <1>1, <3>1, EventIs DEF Restorable
    <3>3. c \in Down(DownEvents') \cup Restorable
      BY <1>5, <2>2, <3>1, <3>2, RepairSpares
    <3>4. c \in Dependents
      BY <2>1, DependerPlaces DEF Notified
    <3>5. QED  BY <2>1, <3>3, <3>4, RestorablesApart
  <2>5. QED  BY <2>3, <2>4
<1>8. CASE Parents(b) # {} /\ node'[b].emit_fail
  <2>1. /\ tree[b].type = "be" /\ Sound(b, node'[b])
    BY EventIs DEF Peace, AllGood, Good
  <2>2. IsDown(node'[b]) /\ ~node'[b].emit_online
    BY <1>8, <2>1 DEF Sound
  <2>3. DownEvents \subseteq DownEvents'
    BY <1>1, <2>2
  <2>4. Known \subseteq Down(DownEvents')
    BY <1>4, <1>5, <2>3, DownGrows DEF Rising
  <2>5. Rising'
    BY <1>2, <1>3, <1>4, <2>2, <2>4 DEF Rising
  <2>6. QED  BY <1>6, <1>7, <2>5
<1>9. CASE Parents(b) = {} \/ ~node'[b].emit_fail
  <2>1. Falling'
    BY <1>3, <1>4, <1>9 DEF Falling, Told
  <2>2. QED  BY <1>6, <1>7, <2>1
<1>10. QED  BY <1>8, <1>9

\* At first nothing is known.
LEMMA NothingIsKnown ==
  ASSUME IsStatic, Init
  PROVE  /\ Fresh /\ DraggedForGood /\ Rising
         /\ DownEvents = {b \in BasicEvents : tree[b].failed} /\ ~node[top].done
<1>1. \A n \in Nodes : node[n] = InitialState(n)
  BY DEF Init
<1>2. ASSUME NEW n \in Nodes, Parents(n) # {}  PROVE  ~Says1(n) /\ ~Notified(n)
  <2>1. PICK p \in Gates : n \in ChildrenOf(p)
    BY <1>2, ParentIsGate
  <2>2. ~Says1(n)
    BY <1>1, <2>1, <1>2, NodeStarts DEF Says1
  <2>3. \A f \in FDeps : \A k : ~Tells(f, node[f], k)
    BY <1>1, FDepIs, GateIsNode, NodeStarts
  <2>4. QED  BY <2>2, <2>3 DEF Notified
<1>3. Known = {} /\ DraggedForGood
  BY <1>2 DEF Known, DraggedForGood
<1>4. \A g \in Votings : ~node[g].done /\ ~node[g].emit_fail
  BY <1>1, StaticStarts, StaticKinds
<1>5. \A b \in BasicEvents : ~node[b].emit_online /\ (IsDown(node[b]) <=> tree[b].failed)
  BY <1>1, StaticStarts, StaticKinds
<1>6. DownEvents = {b \in BasicEvents : tree[b].failed}
  BY <1>5 DEF DownEvents, IsDown
<1>7. QED  BY <1>3, <1>4, <1>5, <1>6, StaticKinds DEF Fresh, Rising

-----------------------------------------------------------------------------
(* A static tree keeps its promise. *)

\* Between two rates either failures spread, or repairs do.
Waves == Peace /\ Fresh /\ DraggedForGood /\ (Rising \/ Falling)

\* A static tree has no spare gates.
LEMMA StaticIsPeaceful ==
  ASSUME IsStatic
  PROVE  PrimariesApart
  BY StaticKinds DEF PrimariesApart, Spares

\* No rule turns a wave into the other kind.
LEMMA FireKeepsWave ==
  ASSUME IsStatic, RecoveriesReach, CommandsFit, Waves, NEW rule \in Rules, Fire(rule)
  PROVE  Waves' /\ Turns(rule) /\ News(rule)
<1>1. Peace'
  BY FirePeace, StaticIsPeaceful DEF Waves
<1>2. ~Broken'
  BY <1>1 DEF Peace, AllGood, Good, Broken
<1>3. Turns(rule) /\ News(rule)
  BY <1>1, <1>2, FireTurns, FireEffect DEF Waves, Peace
<1>4. Fresh' /\ DraggedForGood'
  BY <1>3, FreshStays, DraggedStays DEF Waves, Peace
<1>5. Rising' \/ Falling'
  BY <1>1, <1>3, RisingStays, FallingStays DEF Waves, Peace
<1>6. QED  BY <1>1, <1>3, <1>4, <1>5 DEF Waves

\* In a static tree the waves do not mix: interactions take no time (maxprog.cpp),
\* so the news of one rate has gone everywhere before the next one elapses.
THEOREM StaticTreesInWaves ==
  ASSUME IsStatic, Acyclic, RecoveriesReach, VotesAreHeard, CommandsFit
  PROVE  Spec => []Waves
<1>1. Init => Waves
  <2> SUFFICES ASSUME Init  PROVE  Waves
    OBVIOUS
  <2>1. Agreement /\ AllGood
    BY InitAgrees
  <2>2. ~Broken
    BY <2>1 DEF AllGood, Good, Broken
  <2>3. Peace
    BY <2>1, <2>2, InitPeace, StaticIsPeaceful DEF Agreement, Peace
  <2>4. QED  BY <2>3, NothingIsKnown DEF Waves
<1>2. Waves /\ [Next]_node => Waves'
  <2> SUFFICES ASSUME Waves, [Next]_node  PROVE  Waves'
    OBVIOUS
  <2>1. ASSUME NEW rule \in Rules, Fire(rule)  PROVE  Waves'
    BY <2>1, FireKeepsWave
  <2>2. CASE Elapse
    <3>1. Peace'
      BY <2>2, ElapsePeace DEF Waves
    <3>2. QED  BY <2>2, <3>1, RateStartsWave DEF Waves
  <2>3. CASE UNCHANGED node
    <3>1. Peace' <=> Peace
      BY <2>3 DEF Peace, AllGood, Good, Typed, Working, Agrees, Notified, AllFit, ClaimsApart, Holds
    <3>2. Known' = Known /\ DownEvents' = DownEvents /\ (DraggedForGood' <=> DraggedForGood)
      BY <2>3 DEF Known, Says1, Notified, DownEvents, DraggedForGood
    <3>3. /\ Fresh' <=> Fresh
          /\ Rising' <=> Rising
          /\ Falling' <=> Falling
      BY <2>3, <3>2 DEF Fresh, Rising, Falling, Told
    <3>4. QED  BY <3>1, <3>2, <3>3 DEF Waves
  <2>4. QED  BY <2>1, <2>2, <2>3, Zenon DEF Next, Interact
<1>3. QED  BY <1>1, <1>2, PTL DEF Spec

\* The sets of events that fail the top, in the present state.
LEMMA CutsTheTop ==
  DownEvents \in CutSets <=> top \in Down(DownEvents)
  BY DEF CutSets, DownEvents

\* A rule that moves the top announces what is due, and other rules say nothing
\* of it.
LEMMA FireKeepsPromise ==
  ASSUME IsStatic, RecoveriesReach, CommandsFit, Waves, NEW rule \in Rules, Fire(rule)
  PROVE  Promise!Next \/ UNCHANGED Promise!vars
<1>1. Waves' /\ Turns(rule)
  BY FireKeepsWave
<1>2. DownEvents' = DownEvents
  BY <1>1, EventsStay
<1>3. /\ top \in Votings /\ node[top].done \in BOOLEAN /\ node'[top].done \in BOOLEAN
      /\ node[top].nr_failed \in Nat /\ tree[top].threshold \in Nat
  <2>1. top \in Votings
    BY StaticKinds
  <2>2. node[top] \in VotingStates(top) /\ node'[top] \in VotingStates(top)
    BY <1>1, <2>1, VotingIs, GateIsNode DEF Waves, Peace, AllGood, Good, Typed
  <2>3. QED  BY <2>1, <2>2, CountIsKnown DEF VotingStates, Waves, Peace
<1>4. CASE top \in DOMAIN rule
  <2> DEFINE l == rule[top]
  <2>1. VotingTurn(top, l, node'[top])
    BY <1>1, <1>3, <1>4 DEF Turns
  <2> HIDE DEF l
  <2>2. CASE l = FAIL(0)
    <3>1. node[top].emit_fail /\ ~node[top].done /\ node'[top].done
      BY <2>1, <2>2, Zenon DEF VotingTurn
    <3>2. Rising
      BY <1>3, <3>1 DEF Waves, Falling
    <3>3. top \in Down(DownEvents)
      BY <1>3, <3>1, <3>2, AnnouncedIsDown DEF Waves, Peace
    <3>4. Promise!Announce
      BY <1>2, <1>3, <3>1, <3>3, CutsTheTop DEF Promise!Announce
    <3>5. QED  BY <3>4 DEF Promise!Next
  <2>3. CASE l = ONLINE(0)
    <3>1. node[top].done /\ node[top].nr_failed < tree[top].threshold /\ ~node'[top].done
      BY <2>1, <2>3, NewsDiffer, Zenon DEF VotingTurn
    <3>2. Falling
      BY <1>3, <3>1 DEF Waves, Rising
    <3>3. top \notin Down(DownEvents)
      BY <3>1, <3>2, UncountedIsUp DEF Waves, Peace
    <3>4. Promise!Withdraw
      BY <1>2, <1>3, <3>1, <3>3, CutsTheTop DEF Promise!Withdraw
    <3>5. QED  BY <3>4 DEF Promise!Next
  <2>4. CASE l # FAIL(0) /\ l # ONLINE(0)
    <3>1. node'[top].done <=> node[top].done
      BY <2>1, <2>4, Zenon DEF VotingTurn
    <3>2. node'[top].done = node[top].done
      BY <1>3, <3>1
    <3>3. QED  BY <1>2, <3>2 DEF Promise!vars
  <2>5. QED  BY <2>2, <2>3, <2>4
<1>5. CASE top \notin DOMAIN rule
  BY <1>1, <1>2, <1>3, <1>5 DEF Turns, Promise!vars
<1>6. QED  BY <1>4, <1>5

\* A rate fails or repairs one event, when the top's announcement is up to date.
LEMMA ElapseKeepsPromise ==
  ASSUME IsStatic, Acyclic, RecoveriesReach, VotesAreHeard, Waves, Elapse
  PROVE  Promise!Next \/ UNCHANGED Promise!vars
<1>1. PICK b \in BasicEvents :
           /\ \A n \in Nodes \ {b} : node'[n] = node[n]
           /\ DownEvents' \in {DownEvents, DownEvents \cup {b}, DownEvents \ {b}}
  BY RateEffect DEF Waves
<1>2. node'[top] = node[top]
  BY <1>1, StaticKinds
<1>3. Promise!CaughtUp
  BY CaughtUpWhenSettled, CutsTheTop DEF Promise!CaughtUp, Waves, Peace, Elapse
<1>4. CASE DownEvents' = DownEvents
  BY <1>2, <1>4 DEF Promise!vars
<1>5. CASE DownEvents' = DownEvents \cup {b} /\ b \notin DownEvents
  <2>1. Promise!Fail(b)
    BY <1>2, <1>3, <1>5 DEF Promise!Fail
  <2>2. QED  BY <2>1 DEF Promise!Next
<1>6. CASE DownEvents' = DownEvents \ {b} /\ b \in DownEvents
  <2>1. Promise!Repair(b)
    BY <1>2, <1>3, <1>6 DEF Promise!Repair
  <2>2. QED  BY <2>1 DEF Promise!Next
<1>7. QED  BY <1>1, <1>4, <1>5, <1>6

\* Every static tree in which recoveries reach all that heard of the failure, gates
\* are heard and nothing takes its deactivation for impossible announces FAIL and
\* ONLINE at its top only when the structure function has changed, and has caught
\* up with it before a component fails or is repaired (dft2lntc's automata under
\* its rules and maximal progress).
THEOREM StaticTreesKeepThePromise ==
  ASSUME IsStatic, Acyclic, RecoveriesReach, VotesAreHeard, CommandsFit
  PROVE  Spec => ImplementsFaultTree
<1>1. Init => Promise!Init
  <2> SUFFICES ASSUME Init  PROVE  Promise!Init
    OBVIOUS
  <2>1. top \in Votings /\ node[top] \in VotingStates(top)
    BY InitAgrees, StaticKinds, VotingIs, GateIsNode DEF AllGood, Good, Typed
  <2>2. node[top].done = FALSE
    BY <2>1, NothingIsKnown DEF VotingStates
  <2>3. QED  BY <2>2, NothingIsKnown DEF Promise!Init
<1>2. Waves /\ [Next]_node => [Promise!Next]_(Promise!vars)
  <2> SUFFICES ASSUME Waves, [Next]_node  PROVE  Promise!Next \/ UNCHANGED Promise!vars
    OBVIOUS
  <2>1. ASSUME NEW rule \in Rules, Fire(rule)
        PROVE  Promise!Next \/ UNCHANGED Promise!vars
    BY <2>1, FireKeepsPromise
  <2>2. CASE Elapse
    BY <2>2, ElapseKeepsPromise
  <2>3. CASE UNCHANGED node
    BY <2>3 DEF Promise!vars, DownEvents
  <2>4. QED  BY <2>1, <2>2, <2>3, Zenon DEF Next, Interact
<1>3. QED  BY <1>1, <1>2, StaticTreesInWaves, PTL DEF Spec, ImplementsFaultTree, Promise!Spec

-----------------------------------------------------------------------------
(* Who holds what the spare gates take for claimed. *)

\* A gate hears only of its children: what they announce themselves, or what a
\* dependency gate tells of them.
LEMMA NewsFromBelow ==
  ASSUME NEW rule \in Rules, NEW p \in Gates \ FDeps, NEW i
  PROVE  /\ Gets(rule, p, ONLINE(i)) /\ i # 0 =>
              \E c \in ChildrenOf(p) :
                i = LocalID(p, c) /\ p \in Repairable /\ Gets(rule, c, ONLINE(0))
         /\ Gets(rule, p, FAIL(i)) /\ i # 0 =>
              \E c \in ChildrenOf(p) :
                i = LocalID(p, c) /\ (c \in Dependents \/ Gets(rule, c, FAIL(0)))
<1>1. \A j, k : FAIL(j) # ONLINE(k) /\ (FAIL(j) = FAIL(k) <=> j = k) /\ (ONLINE(j) = ONLINE(k) <=> j = k)
  BY NewsDiffer
<1>2. ASSUME NEW c \in Nodes, IsFailRule(rule, c)
      PROVE  /\ ~Gets(rule, p, ONLINE(i))
             /\ Gets(rule, p, FAIL(i)) /\ i # 0 =>
                  c \in ChildrenOf(p) /\ i = LocalID(p, c) /\ Gets(rule, c, FAIL(0))
  <2>1. Gets(rule, c, FAIL(0))
    BY <1>2 DEF IsFailRule, Gets
  <2>2. CASE p = c
    BY <1>1, <2>1, <2>2 DEF Gets
  <2>3. CASE p # c /\ p \in DOMAIN rule
    <3>1. p \in Parents(c) /\ rule[p] = FAIL(LocalID(p, c))
      BY <1>2, <2>3 DEF IsFailRule
    <3>2. c \in ChildrenOf(p)
      BY <3>1, ParentIsGate
    <3>3. QED  BY <1>1, <2>1, <3>1, <3>2 DEF Gets
  <2>4. QED  BY <2>2, <2>3 DEF Gets
<1>3. ASSUME NEW c \in Nodes, IsOnlineRule(rule, c)
      PROVE  /\ ~Gets(rule, p, FAIL(i))
             /\ Gets(rule, p, ONLINE(i)) /\ i # 0 =>
                  c \in ChildrenOf(p) /\ i = LocalID(p, c) /\ p \in Repairable /\ Gets(rule, c, ONLINE(0))
  <2>1. Gets(rule, c, ONLINE(0))
    BY <1>3 DEF IsOnlineRule, Gets
  <2>2. CASE p = c
    BY <1>1, <2>1, <2>2 DEF Gets
  <2>3. CASE p # c /\ p \in DOMAIN rule
    <3>1. p \in Parents(c) /\ p \in Repairable /\ rule[p] = ONLINE(LocalID(p, c))
      BY <1>3, <2>3 DEF IsOnlineRule
    <3>2. c \in ChildrenOf(p)
      BY <3>1, ParentIsGate
    <3>3. QED  BY <1>1, <2>1, <3>1, <3>2 DEF Gets
  <2>4. QED  BY <2>2, <2>3 DEF Gets
<1>4. CASE IsTopOnline(rule)
  BY <1>1, <1>4 DEF IsTopOnline, Gets
<1>5. ASSUME NEW f \in FDeps, NEW k \in DOMAIN Dependers(f), IsFdepRule(rule, f, k)
      PROVE  /\ ~Gets(rule, p, ONLINE(i))
             /\ Gets(rule, p, FAIL(i)) =>
                  \E c \in ChildrenOf(p) : i = LocalID(p, c) /\ c \in Dependents
  <2> DEFINE d == Dependers(f)[k]
  <2>1. CASE p \in DOMAIN rule
    <3>1. p # f /\ p \in Parents(d) /\ rule[p] = FAIL(LocalID(p, d))
      BY <1>5, <2>1 DEF IsFdepRule
    <3>2. d \in ChildrenOf(p)
      BY <3>1, ParentIsGate
    <3>3. d \in Dependents
      BY DependerPlaces
    <3> HIDE DEF d
    <3>4. QED  BY <1>1, <3>1, <3>2, <3>3 DEF Gets
  <2>2. QED  BY <2>1 DEF Gets
<1>6. CASE IsQuietRule(rule)
  <2>1. p \in DOMAIN rule => NoNews(rule[p])
    BY <1>6 DEF IsQuietRule, NoNews
  <2>2. QED  BY <2>1, NewsDiffer DEF Gets
<1>7. QED  BY <1>2, <1>3, <1>4, <1>5, <1>6, RuleKinds, Zenon

\* The spare gates over a child hear of it when one of them claims or releases it.
LEMMA ToldOfCommands ==
  ASSUME RecoveriesReach, NEW rule \in Rules, NEW g \in Spares, NEW c \in ChildrenOf(g)
  PROVE  /\ Gets(rule, g, ACTIVATE(LocalID(g, c), FALSE)) =>
              \E p \in Spares \ {g} :
                c \in ChildrenOf(p) /\ Gets(rule, p, ACTIVATE(LocalID(p, c), TRUE))
         /\ Gets(rule, g, DEACTIVATE(LocalID(g, c), FALSE)) =>
              \E p \in Spares \ {g} :
                c \in ChildrenOf(p) /\ Gets(rule, p, DEACTIVATE(LocalID(p, c), TRUE))
         /\ \A h \in Spares \ {g} :
              c \in ChildrenOf(h) /\ Gets(rule, h, DEACTIVATE(LocalID(h, c), TRUE)) =>
                Gets(rule, g, DEACTIVATE(LocalID(g, c), FALSE))
<1>1. /\ g \in Gates /\ g \in Nodes /\ LocalID(g, c) \in Kids(g) /\ LocalID(g, c) # 0
      /\ g \in Parents(c)
  BY SpareIs, SpareIsNode, ChildPlace
<1>2. \A j, k, d, e : ACTIVATE(j, d) # DEACTIVATE(k, e)
  BY DEF ACTIVATE, DEACTIVATE
<1>3. ASSUME NEW q \in Nodes, NEW d \in ChildrenOf(q), IsClaimRule(rule, q, d)
      PROVE  /\ Gets(rule, g, ACTIVATE(LocalID(g, c), FALSE)) =>
                  /\ q \in Spares \ {g} /\ c \in ChildrenOf(q)
                  /\ Gets(rule, q, ACTIVATE(LocalID(q, c), TRUE))
             /\ \A h, j, e : ~Gets(rule, h, DEACTIVATE(j, e))
  <2>1. \A n \in DOMAIN rule : \E j, e : rule[n] = ACTIVATE(j, e)
    BY <1>3 DEF IsClaimRule
  <2>2. ASSUME NEW h, NEW j, NEW e  PROVE  ~Gets(rule, h, DEACTIVATE(j, e))
    BY <1>2, <2>1, Zenon DEF Gets
  <2>3. ASSUME Gets(rule, g, ACTIVATE(LocalID(g, c), FALSE))
        PROVE  /\ q \in Spares \ {g} /\ c \in ChildrenOf(q)
               /\ Gets(rule, q, ACTIVATE(LocalID(q, c), TRUE))
    <3>1. g # q
      BY <1>3, <2>3, CommandsDiffer DEF IsClaimRule, Gets
    <3>2. g # d
      BY <1>1, <1>3, <2>3, <3>1, CommandsDiffer DEF IsClaimRule, Gets
    <3>3. g \in Listeners(q, d) /\ rule[g] = ACTIVATE(LocalID(g, d), FALSE)
      BY <1>3, <2>3, <3>1, <3>2 DEF IsClaimRule, Gets
    <3>4. LocalID(g, c) = LocalID(g, d)
      BY <2>3, <3>3, CommandsDiffer DEF Gets
    <3>5. d \in ChildrenOf(g) /\ tree[q].type = "wsp"
      BY <3>3 DEF Listeners, Parents
    <3>6. d = c
      BY <1>1, <3>4, <3>5, PlacesDiffer
    <3>7. q \in Spares
      BY <3>5 DEF Spares, OfType, Nodes
    <3>8. QED  BY <1>3, <3>1, <3>6, <3>7 DEF IsClaimRule, Gets
  <2>4. QED  BY <2>2, <2>3, Zenon
<1>4. ASSUME NEW q \in Nodes, NEW d \in ChildrenOf(q), IsReleaseRule(rule, q, d)
      PROVE  /\ \A j, e : ~Gets(rule, g, ACTIVATE(j, e))
             /\ Gets(rule, g, DEACTIVATE(LocalID(g, c), FALSE)) =>
                  /\ q \in Spares \ {g} /\ c \in ChildrenOf(q)
                  /\ Gets(rule, q, DEACTIVATE(LocalID(q, c), TRUE))
             /\ \A h \in Spares \ {g} :
                  c \in ChildrenOf(h) /\ Gets(rule, h, DEACTIVATE(LocalID(h, c), TRUE)) =>
                    Gets(rule, g, DEACTIVATE(LocalID(g, c), FALSE))
  <2>1. \A n \in DOMAIN rule : \E j, e : rule[n] = DEACTIVATE(j, e)
    BY <1>4 DEF IsReleaseRule
  <2>2. ASSUME NEW j, NEW e  PROVE  ~Gets(rule, g, ACTIVATE(j, e))
    BY <1>2, <2>1, Zenon DEF Gets
  <2>3. ASSUME Gets(rule, g, DEACTIVATE(LocalID(g, c), FALSE))
        PROVE  /\ q \in Spares \ {g} /\ c \in ChildrenOf(q)
               /\ Gets(rule, q, DEACTIVATE(LocalID(q, c), TRUE))
    <3>1. \A n \in Spares : \A i \in Kids(n) :
             Gets(rule, n, DEACTIVATE(i, FALSE)) =>
               q \in Spares /\ n # q /\ d \in ChildrenOf(n) /\ i = LocalID(n, d)
      BY <1>4, ReleaseGives, Zenon
    <3>2. q \in Spares /\ g # q /\ d \in ChildrenOf(g) /\ LocalID(g, c) = LocalID(g, d)
      BY <1>1, <2>3, <3>1
    <3>3. d = c
      BY <1>1, <3>2, PlacesDiffer
    <3>4. QED  BY <1>4, <3>2, <3>3 DEF IsReleaseRule, Gets
  <2>4. ASSUME NEW h \in Spares \ {g}, c \in ChildrenOf(h), Gets(rule, h, DEACTIVATE(LocalID(h, c), TRUE))
        PROVE  Gets(rule, g, DEACTIVATE(LocalID(g, c), FALSE))
    <3>1. h = q
      <4>1. \A n \in DOMAIN rule \ {q} : \E j : rule[n] = DEACTIVATE(j, FALSE)
        BY <1>4 DEF IsReleaseRule
      <4>2. \A j : DEACTIVATE(j, FALSE) # DEACTIVATE(LocalID(h, c), TRUE)
        BY CommandsDiffer
      <4>3. QED  BY <2>4, <4>1, <4>2 DEF Gets
    <3>2. LocalID(q, d) = LocalID(q, c)
      BY <1>4, <2>4, <3>1, CommandsDiffer DEF IsReleaseRule, Gets
    <3>3. d = c
      BY <2>4, <3>1, <3>2, SpareIs, PlacesDiffer
    <3>4. g \in Listeners(q, c) /\ g # c
      <4>1. g # c
        BY <1>1 DEF RecoveriesReach
      <4>2. tree[q].type = "wsp" /\ tree[g].type = "wsp"
        BY <2>4, <3>1, SpareIs
      <4>3. QED  BY <1>1, <2>4, <3>1, <4>1, <4>2 DEF Listeners
    <3>5. QED  BY <1>4, <2>4, <3>1, <3>3, <3>4 DEF IsReleaseRule, Gets
  <2>5. QED  BY <2>2, <2>3, <2>4, Zenon
<1>5. CASE IsNoCommand(rule)
  <2>1. ASSUME NEW n \in Spares, n \in DOMAIN rule
        PROVE  rule[n] = ACTIVATE(0, FALSE) \/ rule[n][1] \notin {"ACTIVATE", "DEACTIVATE"}
    <3>1. n \in Nodes
      BY SpareIsNode
    <3>2. QED  BY <1>5, <2>1, <3>1 DEF IsNoCommand
  <2>2. ASSUME NEW n \in Spares, NEW j, NEW e  PROVE  ~Gets(rule, n, DEACTIVATE(j, e))
    <3>1. DEACTIVATE(j, e)[1] = "DEACTIVATE" /\ DEACTIVATE(j, e) # ACTIVATE(0, FALSE)
      BY DEF ACTIVATE, DEACTIVATE
    <3>2. QED  BY <2>1, <3>1, Zenon DEF Gets
  <2>3. ~Gets(rule, g, ACTIVATE(LocalID(g, c), FALSE))
    <3>1. /\ ACTIVATE(LocalID(g, c), FALSE)[1] = "ACTIVATE"
          /\ ACTIVATE(LocalID(g, c), FALSE) # ACTIVATE(0, FALSE)
      BY <1>1 DEF ACTIVATE
    <3>2. QED  BY <2>1, <3>1, Zenon DEF Gets
  <2>4. QED  BY <2>2, <2>3
<1>6. QED  BY <1>3, <1>4, <1>5, CommandKinds, Zenon

\* The nodes in P are plain, and the primaries to which spare gates return are in it.
Plain(P) ==
  /\ P \subseteq (Votings \cup BasicEvents) \ Dependents
  /\ \A n \in P : ChildrenOf(n) \subseteq P
  /\ \A g \in Spares \cap AlwaysActive \cap Repairable : Children(g)[1] \in P

\* Among them failures spread,
RiseIn(P) ==
  /\ \A g \in Votings \cap P : node[g].done \/ node[g].emit_fail =>
                                 node[g].nr_failed >= tree[g].threshold
  /\ \A b \in BasicEvents \cap P : Parents(b) # {} => ~node[b].emit_online

\* or recoveries do.
FallIn(P) ==
  /\ \A g \in Votings \cap P : ~node[g].emit_fail
  /\ \A b \in BasicEvents \cap P : Parents(b) # {} => ~node[b].emit_fail

\* The numbers that a voting gate compares.
LEMMA CountIsNatural ==
  ASSUME NEW g \in Votings, NEW x, x \in VotingStates(g), Sound(g, x)
  PROVE  /\ x.nr_failed \in Nat /\ tree[g].threshold \in Nat
         /\ x.nr_failed = Cardinality(x.received)
<1>1. g \in Nodes /\ x.nr_failed = Cardinality(x.received) /\ tree[g].threshold \in Nat
  BY VotingIs, GateIsNode DEF Sound
<1>2. x.received \in SUBSET Kids(g)
  BY DEF VotingStates
<1>3. IsFiniteSet(Kids(g))
  <2>1. Len(Children(g)) \in Nat
    BY VotingIs, GateIsNode
  <2>2. QED  BY <2>1, FS_Interval DEF Kids
<1>4. QED  BY <1>1, <1>2, <1>3, FS_Subset, FS_CardinalityType

\* A voting gate that is no error is in such a state.
LEMMA VotingIsGood ==
  ASSUME NEW g \in Votings, Good(g)
  PROVE  node[g] \in VotingStates(g) /\ Sound(g, node[g]) /\ g \in Nodes
  BY VotingIs, GateIsNode DEF Good, Typed

\* While failures spread among the plain nodes none of them recovers, and while
\* recoveries do none of them fails.
LEMMA PlainSaysNoOther ==
  ASSUME AllGood, NEW P, Plain(P), NEW rule, Turns(rule), NEW c \in P, Parents(c) # {}
  PROVE  /\ RiseIn(P) => ~Gets(rule, c, ONLINE(0))
         /\ FallIn(P) => ~Gets(rule, c, FAIL(0))
<1>1. CASE c \in Votings
  <2>1. ASSUME RiseIn(P), Gets(rule, c, ONLINE(0))  PROVE  FALSE
    <3>1. VotingTurn(c, ONLINE(0), node'[c])
      BY <1>1, <2>1 DEF Turns, Gets
    <3>2. node[c].done /\ node[c].nr_failed < tree[c].threshold
      BY <3>1, Zenon DEF VotingTurn
    <3>3. node[c].nr_failed >= tree[c].threshold
      BY <1>1, <2>1, <3>2 DEF RiseIn
    <3>4. node[c].nr_failed \in Nat /\ tree[c].threshold \in Nat
      BY <1>1, VotingIs, GateIsNode, VotingIsGood, CountIsNatural DEF AllGood
    <3>5. QED  BY <3>2, <3>3, <3>4
  <2>2. ASSUME FallIn(P), Gets(rule, c, FAIL(0))  PROVE  FALSE
    <3>1. VotingTurn(c, FAIL(0), node'[c])
      BY <1>1, <2>2 DEF Turns, Gets
    <3>2. node[c].emit_fail
      BY <3>1, Zenon DEF VotingTurn
    <3>3. QED  BY <1>1, <2>2, <3>2 DEF FallIn
  <2>3. QED  BY <2>1, <2>2
<1>2. CASE c \in BasicEvents
  <2>1. Gets(rule, c, ONLINE(0)) => node[c].emit_online
    BY <1>2, Zenon DEF Turns, Gets, EventTurn
  <2>2. Gets(rule, c, FAIL(0)) => node[c].emit_fail
    BY <1>2, Zenon DEF Turns, Gets, EventTurn
  <2>3. QED  BY <1>2, <2>1, <2>2 DEF RiseIn, FallIn
<1>3. QED  BY <1>1, <1>2 DEF Plain

\* So failures spread on among them,
LEMMA RiseInStays ==
  ASSUME AllGood, AllGood', NEW P, Plain(P), RiseIn(P), NEW rule \in Rules, Turns(rule)
  PROVE  RiseIn(P)'
<1>1. ASSUME NEW g \in Votings \cap P, node'[g].done \/ node'[g].emit_fail
      PROVE  node'[g].nr_failed >= tree[g].threshold
  <2>1. node[g].nr_failed \in Nat /\ node'[g].nr_failed \in Nat /\ tree[g].threshold \in Nat
    <3>1. g \in Nodes /\ StatesOf(g) = VotingStates(g)
      BY VotingIs, GateIsNode
    <3>2. /\ node[g] \in VotingStates(g) /\ Sound(g, node[g])
          /\ node'[g] \in VotingStates(g) /\ Sound(g, node'[g])
      BY <3>1 DEF AllGood, Good, Typed
    <3>3. QED  BY <3>2, CountIsNatural
  <2>2. node[g].done \/ node[g].emit_fail => node[g].nr_failed >= tree[g].threshold
    BY DEF RiseIn
  <2>3. CASE g \in DOMAIN rule
    <3>1. VotingTurn(g, rule[g], node'[g])
      BY <2>3 DEF Turns
    <3>2. \A j : rule[g] # ONLINE(j)
      <4>1. SUFFICES ASSUME NEW j, rule[g] = ONLINE(j)  PROVE  FALSE
        OBVIOUS
      <4>2. CASE j = 0
        <5>1. node[g].done /\ node[g].nr_failed < tree[g].threshold
          BY <3>1, <4>1, <4>2, Zenon DEF VotingTurn
        <5>2. QED  BY <2>1, <2>2, <5>1
      <4>3. CASE j # 0
        <5>1. g \in Gates \ FDeps /\ g \in Nodes
          BY VotingIs, FDepIs, GateIsNode
        <5>2. PICK c \in ChildrenOf(g) : Gets(rule, c, ONLINE(0))
          BY <2>3, <4>1, <4>3, <5>1, NewsFromBelow DEF Gets
        <5>3. c \in P /\ Parents(c) # {}
          BY <5>1, ChildPlace DEF Plain
        <5>4. QED  BY <5>2, <5>3, PlainSaysNoOther
      <4>4. QED  BY <4>2, <4>3
    <3>3. ~(node'[g].nr_failed < node[g].nr_failed)
      BY <3>1, <3>2, Zenon DEF VotingTurn
    <3>4. \/ node[g].done \/ node[g].emit_fail
          \/ node'[g].nr_failed >= tree[g].threshold
      BY <1>1, <3>1, Zenon DEF VotingTurn
    <3>5. QED  BY <2>1, <2>2, <3>3, <3>4
  <2>4. CASE g \notin DOMAIN rule
    BY <1>1, <2>2, <2>4 DEF Turns
  <2>5. QED  BY <2>3, <2>4
<1>2. ASSUME NEW b \in BasicEvents \cap P, Parents(b) # {}  PROVE  ~node'[b].emit_online
  BY <1>2, Zenon DEF Turns, EventTurn, RiseIn
<1>3. QED  BY <1>1, <1>2 DEF RiseIn

\* and so do recoveries.
LEMMA FallInStays ==
  ASSUME AllGood, NEW P, Plain(P), FallIn(P), NEW rule \in Rules, Turns(rule)
  PROVE  FallIn(P)'
<1>1. ASSUME NEW g \in Votings \cap P, node'[g].emit_fail  PROVE  FALSE
  <2>1. ~node[g].emit_fail
    BY DEF FallIn
  <2>2. g \in DOMAIN rule /\ VotingTurn(g, rule[g], node'[g])
    BY <1>1, <2>1 DEF Turns
  <2>3. rule[g] # FAIL(0) /\ \E j : rule[g] = FAIL(j)
    BY <1>1, <2>1, <2>2, Zenon DEF VotingTurn
  <2>4. PICK j : rule[g] = FAIL(j) /\ j # 0
    BY <2>3, Zenon
  <2>5. g \in Gates \ FDeps /\ g \in Nodes
    BY VotingIs, FDepIs, GateIsNode
  <2>6. PICK c \in ChildrenOf(g) : c \in Dependents \/ Gets(rule, c, FAIL(0))
    BY <2>2, <2>4, <2>5, NewsFromBelow DEF Gets
  <2>7. c \in P /\ c \notin Dependents /\ Parents(c) # {}
    BY <2>5, ChildPlace DEF Plain
  <2>8. QED  BY <2>6, <2>7, PlainSaysNoOther
<1>2. ASSUME NEW b \in BasicEvents \cap P, Parents(b) # {}  PROVE  ~node'[b].emit_fail
  BY <1>2, Zenon DEF Turns, EventTurn, FallIn
<1>3. QED  BY <1>1, <1>2 DEF FallIn

\* Between two rates both are over,
LEMMA BothAreOver ==
  ASSUME RecoveriesReach, VotesAreHeard, AllGood, Fresh, Settled, NEW P
  PROVE  RiseIn(P) /\ FallIn(P)
<1>1. ASSUME NEW g \in Votings
      PROVE  ~node[g].emit_fail /\ (node[g].done => node[g].nr_failed >= tree[g].threshold)
  <2>1. node[g].nr_failed = Cardinality(node[g].received)
    BY VotingIs, GateIsNode, VotingIsGood, CountIsNatural DEF AllGood
  <2>2. QED  BY <2>1, PlansAreOut, VotesMatch DEF Fresh
<1>2. ASSUME NEW b \in BasicEvents, Parents(b) # {}
      PROVE  ~node[b].emit_fail /\ ~node[b].emit_online
  BY <1>2, EventsHaveSaid
<1>3. QED  BY <1>1, <1>2 DEF RiseIn, FallIn

\* and a rate starts one of them.
LEMMA RateStartsOne ==
  ASSUME RecoveriesReach, VotesAreHeard, Peace, Fresh, Peace', Elapse, NEW P, Plain(P)
  PROVE  /\ Fresh' /\ (RiseIn(P)' \/ FallIn(P)')
         /\ \A g \in Spares : node'[g] = node[g]
<1>1. PICK b \in BasicEvents : \A n \in Nodes \ {b} : node'[n] = node[n]
  BY RateEffect
<1>2. /\ \A g \in Votings : node'[g] = node[g]
      /\ \A g \in Spares : node'[g] = node[g]
      /\ \A c \in BasicEvents \ {b} : node'[c] = node[c]
  BY <1>1, VotingIs, SpareIs, GateIsNode, EventIs, KindsOfNodes
<1>3. RiseIn(P) /\ FallIn(P)
  BY BothAreOver DEF Peace, Elapse
<1>4. Fresh'
  BY <1>2 DEF Fresh
<1>5. CASE Parents(b) # {} /\ node'[b].emit_fail
  <2>1. tree[b].type = "be" /\ Sound(b, node'[b])
    BY EventIs DEF Peace, AllGood, Good
  <2>2. ~node'[b].emit_online
    BY <1>5, <2>1 DEF Sound
  <2>3. QED  BY <1>2, <1>3, <1>4, <2>2 DEF RiseIn
<1>6. CASE Parents(b) = {} \/ ~node'[b].emit_fail
  BY <1>2, <1>3, <1>4, <1>6 DEF FallIn
<1>7. QED  BY <1>2, <1>4, <1>5, <1>6

\* Every spare gate releases only what it has to.
AllSteady == \A g \in Spares : Steady(g, node[g])

\* What one spare gate takes for claimed another one holds.
TakenIsHeld ==
  \A g \in Spares : \A c \in ChildrenOf(g) :
    LocalID(g, c) \notin node[g].unclaimed => \E h \in Spares \ {g} : Holds(h, c)

\* A gate that is on its way back to its primary has been told that this recovered,
\* and until it is there the primary will not fail again.
Returns(P) == \A g \in Spares : Returning(node[g]) => FallIn(P) /\ g \in Repairable

\* All that the spare gates rely on, for the plain nodes P.
SpareWaves(P) ==
  Peace /\ Fresh /\ AllSteady /\ TakenIsHeld /\ (RiseIn(P) \/ FallIn(P)) /\ Returns(P)

\* What a rule does to the claims of the spare gates.
SpareTurns(rule) ==
  \A g \in Spares : /\ g \in DOMAIN rule => SpareClaims(g, rule[g], node'[g])
                    /\ g \notin DOMAIN rule => node'[g] = node[g]

\* What a rule does to every spare gate.
LEMMA FireTurnsSpares ==
  ASSUME PrimariesApart, CommandsFit, Peace, NEW rule \in Rules, Fire(rule)
  PROVE  SpareTurns(rule)
<1>1. \A n \in Nodes : n \notin DOMAIN rule => node'[n] = node[n]
  BY FireMovesNodes DEF Peace
<1>2. \A n \in DOMAIN rule \cap Nodes : n \in Spares => SpareClaims(n, rule[n], node'[n])
  BY RulesAreWelcome, RuleStaysFit
<1>3. QED  BY <1>1, <1>2, SpareIsNode DEF SpareTurns

\* No primary fails while a gate returns to it.
LEMMA NoReturnFails ==
  ASSUME AllGood, NEW P, Plain(P), AllSteady, Returns(P), NEW rule \in Rules, Turns(rule),
         NEW g \in Spares, Gets(rule, g, FAIL(1))
  PROVE  ~Returning(node[g])
<1>1. SUFFICES ASSUME Returning(node[g])  PROVE  FALSE
  OBVIOUS
<1>2. FallIn(P) /\ g \in AlwaysActive \cap Repairable
  BY <1>1 DEF Returns, AllSteady, Steady
<1>3. g \in Gates \ FDeps
  BY SpareIs, FDepIs
<1>4. PICK c \in ChildrenOf(g) : 1 = LocalID(g, c) /\ (c \in Dependents \/ Gets(rule, c, FAIL(0)))
  BY <1>3, NewsFromBelow
<1>5. c = Children(g)[1] /\ Parents(c) # {}
  BY <1>3, <1>4, ChildPlace
<1>6. c \in P /\ c \notin Dependents
  BY <1>2, <1>5 DEF Plain
<1>7. QED  BY <1>2, <1>4, <1>5, <1>6, PlainSaysNoOther

\* A rule leaves every gate steady, and a gate only turns back once its primary has
\* recovered.
LEMMA FireKeepsSteady ==
  ASSUME AllGood, NEW P, Plain(P), AllSteady, RiseIn(P) \/ FallIn(P), Returns(P), FallIn(P) => FallIn(P)',
         NEW rule \in Rules, Turns(rule), SpareTurns(rule)
  PROVE  AllSteady' /\ Returns(P)'
<1>1. ASSUME NEW g \in Spares, g \in DOMAIN rule
      PROVE  /\ Steady(g, node'[g])
             /\ Returning(node'[g]) => Returning(node[g]) \/ (g \in AlwaysActive /\ rule[g] = ONLINE(1))
  <2>1. Steady(g, node[g]) /\ ~(rule[g] = FAIL(1) /\ Returning(node[g]))
    BY <1>1, NoReturnFails DEF AllSteady, Gets
  <2>2. Keeps(g, rule[g], node'[g])
    BY <1>1 DEF SpareTurns, SpareClaims
  <2>3. QED  BY <2>1, <2>2 DEF Keeps
<1>2. ASSUME NEW g \in Spares  PROVE  Steady(g, node'[g])
  <2>1. CASE g \in DOMAIN rule
    BY <1>1, <2>1
  <2>2. CASE g \notin DOMAIN rule
    BY <2>2 DEF SpareTurns, AllSteady
  <2>3. QED  BY <2>1, <2>2
<1>3. ASSUME NEW g \in Spares, Returning(node'[g])  PROVE  FallIn(P)' /\ g \in Repairable
  <2>1. CASE Returning(node[g])
    BY <2>1 DEF Returns
  <2>2. CASE ~Returning(node[g])
    <3>1. Gets(rule, g, ONLINE(1)) /\ g \in AlwaysActive
      BY <1>1, <1>3, <2>2 DEF SpareTurns, Gets
    <3>2. g \in Gates \ FDeps
      BY SpareIs, FDepIs
    <3>3. PICK c \in ChildrenOf(g) : 1 = LocalID(g, c) /\ g \in Repairable /\ Gets(rule, c, ONLINE(0))
      BY <3>1, <3>2, NewsFromBelow
    <3>4. c = Children(g)[1] /\ Parents(c) # {}
      BY <3>2, <3>3, ChildPlace
    <3>5. c \in P
      BY <3>1, <3>3, <3>4 DEF Plain
    <3>6. ~RiseIn(P)
      BY <3>3, <3>4, <3>5, PlainSaysNoOther
    <3>7. QED  BY <3>3, <3>6
  <2>3. QED  BY <2>1, <2>2
<1>4. QED  BY <1>2, <1>3 DEF AllSteady, Returns

\* It leaves what is taken held.
LEMMA FireKeepsTaken ==
  ASSUME RecoveriesReach, AllGood, NEW P, Plain(P), AllSteady, Returns(P), TakenIsHeld,
         NEW rule \in Rules, Turns(rule), SpareTurns(rule)
  PROVE  TakenIsHeld'
<1>1. ASSUME NEW g \in Spares, NEW i \in Kids(g)
      PROVE  /\ i \in Held(g, node[g]) => i \in Held(g, node'[g]) \/ Gets(rule, g, DEACTIVATE(i, TRUE))
             /\ Gets(rule, g, ACTIVATE(i, TRUE)) => i \in Held(g, node'[g])
             /\ i \in node[g].unclaimed => i \in node'[g].unclaimed \/ Gets(rule, g, ACTIVATE(i, FALSE))
             /\ Gets(rule, g, DEACTIVATE(i, FALSE)) => i \in node'[g].unclaimed
  <2>1. CASE g \in DOMAIN rule
    <3>1. SpareClaims(g, rule[g], node'[g])
      BY <2>1 DEF SpareTurns
    <3>2. Steady(g, node[g]) /\ ~(rule[g] = FAIL(1) /\ Returning(node[g]))
      BY <2>1, NoReturnFails DEF AllSteady, Gets
    <3>3. Held(g, node[g]) \cup {j \in Kids(g) : rule[g] = ACTIVATE(j, TRUE)}
             \subseteq Held(g, node'[g]) \cup {j \in Kids(g) : rule[g] = DEACTIVATE(j, TRUE)}
      BY <3>1, <3>2 DEF SpareClaims, Keeps
    <3>4. ACTIVATE(i, TRUE) # DEACTIVATE(i, TRUE)
      BY DEF ACTIVATE, DEACTIVATE
    <3>5. /\ i \in node[g].unclaimed => i \in node'[g].unclaimed \/ rule[g] = ACTIVATE(i, FALSE)
          /\ rule[g] = DEACTIVATE(i, FALSE) => i \in node'[g].unclaimed
      BY <3>1, Zenon DEF SpareClaims
    <3>6. QED  BY <2>1, <3>3, <3>4, <3>5 DEF Gets
  <2>2. CASE g \notin DOMAIN rule
    BY <2>2 DEF SpareTurns, Gets
  <2>3. QED  BY <2>1, <2>2
<1>2. ASSUME NEW g \in Spares, NEW c \in ChildrenOf(g)  PROVE  LocalID(g, c) \in Kids(g)
  BY SpareIs, ChildPlace
<1>3. SUFFICES ASSUME NEW g \in Spares, NEW c \in ChildrenOf(g), LocalID(g, c) \notin node'[g].unclaimed
               PROVE  \E h \in Spares \ {g} : Holds(h, c)'
  BY DEF TakenIsHeld
<1>4. CASE LocalID(g, c) \in node[g].unclaimed
  <2>1. Gets(rule, g, ACTIVATE(LocalID(g, c), FALSE))
    BY <1>1, <1>2, <1>3, <1>4
  <2>2. PICK p \in Spares \ {g} : c \in ChildrenOf(p) /\ Gets(rule, p, ACTIVATE(LocalID(p, c), TRUE))
    BY <2>1, ToldOfCommands
  <2>3. QED  BY <1>1, <1>2, <2>2 DEF Holds
<1>5. CASE LocalID(g, c) \notin node[g].unclaimed
  <2>1. PICK h \in Spares \ {g} : c \in ChildrenOf(h) /\ LocalID(h, c) \in Held(h, node[h])
    BY <1>5 DEF TakenIsHeld, Holds
  <2>2. ~Gets(rule, h, DEACTIVATE(LocalID(h, c), TRUE))
    <3>1. SUFFICES ASSUME Gets(rule, h, DEACTIVATE(LocalID(h, c), TRUE))  PROVE  FALSE
      OBVIOUS
    <3>2. Gets(rule, g, DEACTIVATE(LocalID(g, c), FALSE))
      BY <2>1, <3>1, ToldOfCommands
    <3>3. QED  BY <1>1, <1>2, <1>3, <3>2
  <2>3. QED  BY <1>1, <1>2, <2>1, <2>2 DEF Holds
<1>6. QED  BY <1>4, <1>5


\* The rules in which node p commands its child c.
LEMMA CommandsExist ==
  ASSUME NEW p \in Nodes, NEW c \in ChildrenOf(p)
  PROVE  /\ \E rule \in Rules : IsClaimRule(rule, p, c)
         /\ \E rule \in Rules : IsReleaseRule(rule, p, c)
<1> DEFINE A(q, d) == ActivationRule(q, d, ACTIVATE)
           D(q, d) == ActivationRule(q, d, DEACTIVATE)
<1>1. ActivationRules =
          UNION {UNION {{A(q, d), D(q, d)} : d \in ChildrenOf(q)} : q \in Nodes}
  BY DEF ActivationRules
<1>2. IsClaimRule(A(p, c), p, c)
  BY DEF ActivationRule, IsClaimRule
<1>3. IsReleaseRule(D(p, c), p, c)
  BY DEF ActivationRule, IsReleaseRule
<1> HIDE DEF A, D
<1>4. A(p, c) \in Rules /\ D(p, c) \in Rules
  BY <1>1 DEF Rules
<1>5. QED  BY <1>2, <1>3, <1>4

\* What a gate commands of a child that it may also deactivate can be done.
LEMMA CommandsAreOut ==
  ASSUME RecoveriesReach, CommandsFit, Peace, Settled, NEW g \in Spares \cup Votings,
         NEW i \in Kids(g), Children(g)[i] \in MayDeactivate(g)
  PROVE  /\ Targets(g, DEACTIVATE(i, TRUE)) = {}
         /\ (\A q \in Spares \ {g} : \A c \in ChildrenOf(q) :
               Children(g)[i] = c => LocalID(q, c) # node[q].cur_using)
              => Targets(g, ACTIVATE(i, TRUE)) = {}
<1> DEFINE c == Children(g)[i]
<1>1. g \in Nodes /\ g \in Gates /\ c \in ChildrenOf(g) /\ LocalID(g, c) = i
  BY SpareIs, VotingIs, GateIsNode, ChildHasOnePlace
<1>2. c \in MayDeactivate(g)
  OBVIOUS
<1> HIDE DEF c
<1>3. c \in Nodes /\ g \in Parents(c) /\ c # g
  BY <1>1, ChildPlace DEF RecoveriesReach
<1>4. Targets(c, ACTIVATE(0, FALSE)) # {} /\ Targets(c, DEACTIVATE(0, FALSE)) # {}
  <2>1. c \notin AlwaysActive /\ tree[c].type # "pand"
    BY <1>1, <1>2 DEF CommandsFit
  <2>2. c \notin FDeps
    BY <1>3 DEF RecoveriesReach, FDeps
  <2>3. c \in Votings \cup Spares \cup BasicEvents
    BY <1>3, <2>1, <2>2, KindsOfNodes DEF Votings, FDeps, OfType
  <2>4. QED  BY <1>3, <2>1, <2>3, CommandsListen DEF Peace, AllGood, AllFit
<1>5. ASSUME NEW q \in Listeners(g, c)
      PROVE  /\ q \in Spares \ {g} /\ q # c /\ FitSpare(q)
             /\ c \in ChildrenOf(q) /\ LocalID(q, c) \in Kids(q)
  <2>1. q \in Parents(c) \ {g} /\ tree[q].type = "wsp"
    BY <1>5 DEF Listeners
  <2>2. q \in Nodes /\ q \in Gates /\ c \in ChildrenOf(q)
    BY <2>1, ParentIsGate, GateIsNode
  <2>3. q \in Spares /\ q # c /\ LocalID(q, c) \in Kids(q)
    BY <2>1, <2>2, ChildPlace DEF Spares, OfType, Nodes, RecoveriesReach
  <2>4. QED  BY <2>1, <2>2, <2>3 DEF FitSpare, Peace, AllGood, AllFit
<1>6. Targets(g, DEACTIVATE(i, TRUE)) = {}
  <2>1. PICK rule \in Rules : IsReleaseRule(rule, g, c)
    BY <1>1, CommandsExist
  <2>2. /\ DOMAIN rule = {g, c} \cup Listeners(g, c) /\ rule[g] = DEACTIVATE(i, TRUE)
        /\ \A n \in DOMAIN rule \ {g} :
             rule[n] = IF n = c THEN DEACTIVATE(0, FALSE) ELSE DEACTIVATE(LocalID(n, c), FALSE)
    BY <1>1, <2>1 DEF IsReleaseRule
  <2>3. \A q \in Listeners(g, c) : Targets(q, rule[q]) # {}
    <3>1. SUFFICES ASSUME NEW q \in Listeners(g, c)  PROVE  Targets(q, rule[q]) # {}
      OBVIOUS
    <3>2. rule[q] = DEACTIVATE(LocalID(q, c), FALSE)
      BY <1>5, <2>2
    <3>3. QED  BY <1>5, <3>2, SparesListen
  <2>4. Targets(c, rule[c]) # {}
    BY <1>3, <1>4, <2>2
  <2>5. ~Enabled(rule)
    BY DEF Settled
  <2>6. QED  BY <2>2, <2>3, <2>4, <2>5 DEF Enabled
<1>7. ASSUME \A q \in Spares \ {g} : c \in ChildrenOf(q) => LocalID(q, c) # node[q].cur_using
      PROVE  Targets(g, ACTIVATE(i, TRUE)) = {}
  <2>1. PICK rule \in Rules : IsClaimRule(rule, g, c)
    BY <1>1, CommandsExist
  <2>2. /\ DOMAIN rule = {g, c} \cup Listeners(g, c) /\ rule[g] = ACTIVATE(i, TRUE)
        /\ \A n \in DOMAIN rule \ {g} :
             rule[n] = IF n = c THEN ACTIVATE(0, FALSE) ELSE ACTIVATE(LocalID(n, c), FALSE)
    BY <1>1, <2>1 DEF IsClaimRule
  <2>3. \A q \in Listeners(g, c) : Targets(q, rule[q]) # {}
    <3>1. SUFFICES ASSUME NEW q \in Listeners(g, c)  PROVE  Targets(q, rule[q]) # {}
      OBVIOUS
    <3>2. rule[q] = ACTIVATE(LocalID(q, c), FALSE)
      BY <1>5, <2>2
    <3>3. LocalID(q, c) # node[q].cur_using
      BY <1>5, <1>7
    <3>4. QED  BY <1>5, <3>2, <3>3, SparesListen
  <2>4. Targets(c, rule[c]) # {}
    BY <1>3, <1>4, <2>2
  <2>5. ~Enabled(rule)
    BY DEF Settled
  <2>6. QED  BY <2>2, <2>3, <2>4, <2>5 DEF Enabled
<1>8. QED  BY <1>6, <1>7 DEF c

\* Between two rates no spare gate has a child left to release,
LEMMA ReleasesAreOut ==
  ASSUME RecoveriesReach, CommandsFit, Peace, Settled, NEW g \in Spares
  PROVE  node[g].prev_using = 0 /\ node[g].repairing_deactivate = 0
<1>1. FitSpare(g) /\ g \in Nodes /\ g \in Gates
  BY SpareIs, SpareIsNode DEF Peace, AllGood, AllFit, FitSpare
<1>2. /\ node[g].prev_using \in Places(g) /\ node[g].repairing_deactivate \in Places(g)
  BY <1>1, FitIsReady DEF SpareStates
<1>3. ASSUME NEW i \in Kids(g)  PROVE  Targets(g, DEACTIVATE(i, TRUE)) = {}
  <2>1. SUFFICES ASSUME Targets(g, DEACTIVATE(i, TRUE)) # {}
        PROVE  Targets(g, DEACTIVATE(i, TRUE)) = {}
    OBVIOUS
  <2>2. PICK t \in Trans(g) : t[1] = DEACTIVATE(i, TRUE)
    BY <2>1 DEF Targets
  <2>3. Welcome(g, t[1])
    BY <2>2, OutputsWelcome
  <2>4. RuleLabel(g, t[1])
    <3>1. t[1][1] = "DEACTIVATE" /\ \A j : t[1] # ONLINE(j)
      BY <2>2 DEF DEACTIVATE, ONLINE
    <3>2. QED  BY <3>1 DEF RuleLabel
  <2>5. Fine(g, t[1], t[2])
    BY <1>1, <2>3, <2>4, StaysFit DEF FitSpare
  <2>6. Children(g)[i] \in MayDeactivate(g)
    BY <2>2, <2>5 DEF Fine, Orderly
  <2>7. QED  BY <2>6, CommandsAreOut
<1>4. /\ node[g].prev_using # 0 => node[g].prev_using \in Kids(g)
      /\ node[g].repairing_deactivate # 0 => node[g].repairing_deactivate \in Kids(g)
  <2>1. \A i \in Places(g) : i # 0 => i \in Kids(g)
    BY DEF Places, Kids
  <2>2. QED  BY <1>2, <2>1
<1>5. /\ node[g].prev_using # 0 => Targets(g, DEACTIVATE(node[g].prev_using, TRUE)) # {}
      /\ node[g].prev_using = 0 /\ node[g].repairing_deactivate # 0 =>
           Targets(g, DEACTIVATE(node[g].repairing_deactivate, TRUE)) # {}
  BY <1>1, SpareOffers
<1>6. QED  BY <1>3, <1>4, <1>5

\* or a better child left to claim.
LEMMA ClaimsAreOut ==
  ASSUME RecoveriesReach, CommandsFit, Peace, Settled, NEW g \in Spares,
         node[g].activated, Free(node[g]) # {}
  PROVE  node[g].cur_using = SpareAt(g)!First(Free(node[g]))
<1> DEFINE f == SpareAt(g)!First(Free(node[g]))
<1>1. FitSpare(g) /\ g \in Nodes /\ g \in Gates /\ tree[g].type = "wsp"
  BY SpareIs, SpareIsNode DEF Peace, AllGood, AllFit, FitSpare
<1>2. Free(node[g]) \in SUBSET Kids(g) /\ Free(node[g]) \subseteq node[g].unclaimed
  BY <1>1, FitIsReady DEF SpareStates, Free
<1>3. f \in Free(node[g])
  BY <1>2, FirstIsLeast
<1>4. SUFFICES ASSUME f # node[g].cur_using  PROVE  FALSE
  OBVIOUS
<1>5. Targets(g, ACTIVATE(f, TRUE)) # {} /\ (g \in AlwaysActive => f # 1)
  BY <1>1, <1>4, ReleasesAreOut, SpareOffers
<1> HIDE DEF f
<1>6. f \in Kids(g) /\ f \in node[g].unclaimed
  BY <1>2, <1>3
<1>7. Children(g)[f] \in MayDeactivate(g)
  <2>1. DOMAIN Children(g) = Kids(g)
    BY SpareIsNode DEF Kids
  <2>2. QED  BY <1>1, <1>5, <1>6, <2>1 DEF MayDeactivate
<1>8. ASSUME NEW q \in Spares \ {g}, NEW c \in ChildrenOf(q), Children(g)[f] = c
      PROVE  LocalID(q, c) # node[q].cur_using
  <2>1. LocalID(q, c) \in Kids(q) /\ c \in ChildrenOf(g) /\ LocalID(g, c) = f
    BY <1>1, <1>6, <1>8, SpareIs, ChildPlace, ChildHasOnePlace
  <2>2. ~Holds(q, c)
    BY <1>6, <2>1 DEF Peace, ClaimsApart
  <2>3. QED  BY <1>8, <2>1, <2>2 DEF Holds, Held
<1>9. QED  BY <1>5, <1>6, <1>7, <1>8, CommandsAreOut

\* The gates in L never recover, and share children only among each other.
Lasting(L) ==
  /\ L \subseteq Spares \ Repairable
  /\ \A g \in Spares :
       /\ g = top \/ Parents(g) # {}
       /\ (g = top /\ top \in Repairable) \/ Parents(g) \cap Repairable # {} \/ g \in L
  /\ \A g \in L : \A h \in Spares \ {g} :
       ChildrenOf(g) \cap ChildrenOf(h) # {} => {g, h} \subseteq L \cap AlwaysActive

\* Those that have announced their failure have no child left, and the always-active
\* ones among them never give up a child that works.
FailedForGood(L) ==
  \A g \in L : /\ node[g].done => Free(node[g]) = {}
               /\ g \in AlwaysActive => Firm(node[g])

\* No child of theirs becomes free again: whoever shares it releases it only when
\* it has failed, and that they have all heard.
LEMMA LastingForGood ==
  ASSUME RecoveriesReach, Peace, NEW L, Lasting(L), FailedForGood(L), NEW rule \in Rules, Fire(rule),
         NEW g \in L, g \in DOMAIN rule
  PROVE  ForGood(g, rule[g])
<1>1. g \in Spares /\ g \notin Repairable
  BY DEF Lasting
<1>2. g \in Nodes /\ g \in Gates /\ tree[g].type = "wsp"
  BY <1>1, SpareIs, SpareIsNode
<1>3. SUFFICES ASSUME NEW i \in Kids(g)
               PROVE  /\ rule[g] # ONLINE(i)
                      /\ rule[g] = DEACTIVATE(i, FALSE) => i \notin node[g].unfailed
  BY DEF ForGood
<1>4. rule[g] # ONLINE(i)
  BY <1>1, <1>2, LabelsOfRules DEF RuleLabel
<1>5. ASSUME rule[g] = DEACTIVATE(i, FALSE)  PROVE  i \notin node[g].unfailed
  <2> DEFINE c == Children(g)[i]
  <2>1. c \in ChildrenOf(g) /\ LocalID(g, c) = i
    BY <1>2, ChildHasOnePlace
  <2> HIDE DEF c
  <2>0. Gets(rule, g, DEACTIVATE(LocalID(g, c), FALSE))
    BY <1>5, <2>1 DEF Gets
  <2>2. PICK p \in Spares \ {g} : c \in ChildrenOf(p) /\ Gets(rule, p, DEACTIVATE(LocalID(p, c), TRUE))
    BY <1>1, <2>1, <2>0, ToldOfCommands
  <2> DEFINE j == LocalID(p, c)
  <2>3. p \in Nodes /\ p \in Gates /\ tree[p].type = "wsp" /\ j # 0
    BY <2>2, SpareIs, SpareIsNode, ChildPlace
  <2>4. FitSpare(p)
    BY <2>3 DEF Peace, AllGood, AllFit, FitSpare
  <2>5. PICK t \in SpareAt(p)!Trans : t[1] = DEACTIVATE(j, TRUE)
    <3>1. \E t \in Trans(p) : t[1] = rule[p]
      BY <2>2, <2>3, FireMovesNodes DEF Gets, Peace
    <3>2. QED  BY <2>2, <3>1, TransOf DEF Gets
  <2> HIDE DEF j
  <2>6. j \in {node[p].prev_using, node[p].repairing_deactivate}
    BY <2>4, <2>5, SpareSays
  <2>7. Firm(node[p])
    <3>1. p \in L \cap AlwaysActive
      BY <2>1, <2>2 DEF Lasting
    <3>2. QED  BY <3>1 DEF FailedForGood
  <2>8. j \notin node[p].unfailed
    BY <2>3, <2>6, <2>7 DEF Firm
  <2>9. Hears(p, node[p], j) /\ (Hears(g, node[g], i) <=> Hears(p, node[p], j))
    <3>1. Hears(p, node[p], j)
      BY <2>3, <2>8 DEF Hears
    <3>2. /\ Hears(g, node[g], i) <=> Says(c, node[c]) \/ Notified(c)
          /\ Hears(p, node[p], j) <=> Says(c, node[c]) \/ Notified(c)
      BY <1>2, <2>1, <2>2, <2>3 DEF Peace, Agrees, j
    <3>3. QED  BY <3>1, <3>2
  <2>10. QED  BY <1>2, <2>9 DEF Hears
<1>6. QED  BY <1>4, <1>5

\* So they stay as they are,
LEMMA FireKeepsFailed ==
  ASSUME RecoveriesReach, PrimariesApart, CommandsFit, Peace, NEW L, Lasting(L), FailedForGood(L),
         NEW rule \in Rules, Fire(rule)
  PROVE  FailedForGood(L)'
<1>1. SUFFICES ASSUME NEW g \in L
               PROVE  /\ node'[g].done => Free(node'[g]) = {}
                      /\ g \in AlwaysActive => Firm(node'[g])
  BY DEF FailedForGood
<1>2. g \in Spares /\ g \in Nodes
  BY SpareIsNode DEF Lasting
<1>3. CASE g \in DOMAIN rule
  <2>1. PICK t \in SpareAt(g)!Trans : t[1] = rule[g] /\ t[2] = node'[g]
    <3>1. \E t \in Trans(g) : t[1] = rule[g] /\ t[2] = node'[g]
      BY <1>2, <1>3, FireMovesNodes DEF Peace
    <3>2. QED  BY <1>2, <3>1, TransOf
  <2>2. FitSpare(g) /\ Welcome(g, t[1]) /\ ForGood(g, t[1])
    BY <1>2, <1>3, <2>1, RulesAreWelcome, LastingForGood DEF Peace, AllGood, AllFit, FitSpare
  <2>3. /\ Free(t[2]) \subseteq Free(node[g])
        /\ t[2].done => node[g].done \/ Free(node[g]) = {}
    BY <2>2, FreeShrinks
  <2>4. g \in AlwaysActive => Firm(t[2])
    BY <2>2, FirmStays DEF FailedForGood
  <2>5. QED  BY <2>1, <2>3, <2>4 DEF FailedForGood
<1>4. CASE g \notin DOMAIN rule
  <2>1. node'[g] = node[g]
    BY <1>2, <1>4, FireMovesNodes DEF Peace
  <2>2. QED  BY <2>1 DEF FailedForGood
<1>5. QED  BY <1>3, <1>4

\* At first every spare gate holds at most its primary, and all children are free.
LEMMA SparesStart ==
  ASSUME Init, NEW g \in Spares
  PROVE  LET x == node[g]
         IN  /\ x.unfailed = Kids(g) /\ x.unclaimed = Kids(g) /\ x.prev_using = 0
             /\ x.repairing_deactivate = 0 /\ x.cur_using \in {0, 1} /\ ~x.done
<1>1. node[g] = InitialState(g) /\ g \in Nodes
  BY SpareIsNode DEF Init
<1>2. node[g] = SpareAt(g)!Initial
  BY <1>1, TransOf
<1>3. QED  BY <1>2 DEF SpareAt!Initial, SpareAt!Children, Kids

\* The invariants hold at first,
LEMMA SpareWavesStart ==
  ASSUME PrimariesApart, Init, NEW P
  PROVE  SpareWaves(P) /\ \A L : Lasting(L) => FailedForGood(L)
<1>1. Peace
  <2>1. Agreement /\ AllGood
    BY InitAgrees
  <2>2. ~Broken
    BY <2>1 DEF AllGood, Good, Broken
  <2>3. QED  BY <2>1, <2>2, InitPeace DEF Agreement, Peace
<1>2. \A n \in Nodes : node[n] = InitialState(n)
  BY DEF Init
<1>3. \A g \in Votings : ~node[g].done /\ ~node[g].emit_fail
  BY <1>2, VotingIs, GateIsNode, StaticStarts
<1>4. \A b \in BasicEvents : ~node[b].emit_online
  BY <1>2, EventIs, StaticStarts
<1>5. Fresh /\ RiseIn(P)
  BY <1>3, <1>4 DEF Fresh, RiseIn
<1>6. ASSUME NEW g \in Spares
      PROVE  /\ Steady(g, node[g]) /\ ~Returning(node[g]) /\ Firm(node[g]) /\ ~node[g].done
             /\ \A c \in ChildrenOf(g) : LocalID(g, c) \in node[g].unclaimed
  <2>1. 1 \in Kids(g) /\ \A i \in Kids(g) : 1 <= i
    BY SpareIsNode DEF Kids
  <2>2. \A c \in ChildrenOf(g) : LocalID(g, c) \in Kids(g)
    BY SpareIs, ChildPlace
  <2>3. ~Returning(node[g])
    BY SparesStart DEF Returning
  <2>4. QED  BY <2>1, <2>2, <2>3, SparesStart DEF Steady, Firm, Free
<1>7. QED  BY <1>1, <1>5, <1>6 DEF SpareWaves, AllSteady, TakenIsHeld, Returns, FailedForGood, Lasting

\* and they last.
LEMMA SpareWavesStay ==
  ASSUME RecoveriesReach, VotesAreHeard, PrimariesApart, CommandsFit,
         NEW P, Plain(P), SpareWaves(P), [Next]_node
  PROVE  SpareWaves(P)'
<1>1. ASSUME NEW rule \in Rules, Fire(rule)
      PROVE  SpareWaves(P)'
  <2>1. Peace' /\ SpareTurns(rule)
    BY <1>1, FirePeace, FireTurnsSpares DEF SpareWaves
  <2>2. Turns(rule)
    BY <1>1, <2>1, FireTurns DEF SpareWaves, Peace
  <2>3. Fresh'
    BY <2>2, FreshStays DEF SpareWaves, Peace
  <2>4. (RiseIn(P) => RiseIn(P)') /\ (FallIn(P) => FallIn(P)')
    BY <2>1, <2>2, RiseInStays, FallInStays DEF SpareWaves, Peace
  <2>5. AllSteady' /\ Returns(P)'
    BY <2>1, <2>2, <2>4, FireKeepsSteady DEF SpareWaves, Peace
  <2>6. TakenIsHeld'
    BY <2>1, <2>2, FireKeepsTaken DEF SpareWaves, Peace
  <2>7. QED  BY <2>1, <2>3, <2>4, <2>5, <2>6 DEF SpareWaves
<1>2. CASE Elapse
  <2>1. Peace' /\ Settled
    BY <1>2, ElapsePeace DEF SpareWaves, Elapse
  <2>2. /\ Fresh' /\ (RiseIn(P)' \/ FallIn(P)')
        /\ \A g \in Spares : node'[g] = node[g]
    BY <1>2, <2>1, RateStartsOne DEF SpareWaves
  <2>3. \A g \in Spares : ~Returning(node[g])
    BY <2>1, ReleasesAreOut DEF SpareWaves, Returning
  <2>4. AllSteady' /\ TakenIsHeld' /\ Returns(P)'
    BY <2>2, <2>3 DEF SpareWaves, AllSteady, TakenIsHeld, Returns, Holds
  <2>5. QED  BY <2>1, <2>2, <2>4 DEF SpareWaves
<1>3. CASE UNCHANGED node
  <2>1. Peace' <=> Peace
    BY <1>3 DEF Peace, AllGood, Good, Typed, Working, Agrees, Notified, AllFit, ClaimsApart, Holds
  <2>2. (Fresh' <=> Fresh) /\ (AllSteady' <=> AllSteady) /\ (TakenIsHeld' <=> TakenIsHeld)
    BY <1>3 DEF Fresh, AllSteady, TakenIsHeld, Holds
  <2>3. (RiseIn(P)' <=> RiseIn(P)) /\ (FallIn(P)' <=> FallIn(P)) /\ (Returns(P)' <=> Returns(P))
    BY <1>3 DEF RiseIn, FallIn, Returns
  <2>4. QED  BY <2>1, <2>2, <2>3 DEF SpareWaves
<1>4. QED  BY <1>1, <1>2, <1>3, Zenon DEF Next, Interact

\* Whatever else happens, the failed ones stay so.
LEMMA FailedForGoodStays ==
  ASSUME RecoveriesReach, PrimariesApart, CommandsFit, Peace,
         NEW L, Lasting(L), FailedForGood(L), [Next]_node
  PROVE  FailedForGood(L)'
<1>1. ASSUME NEW rule \in Rules, Fire(rule)  PROVE  FailedForGood(L)'
  BY <1>1, FireKeepsFailed
<1>2. CASE Elapse
  <2>1. PICK b \in BasicEvents : \A n \in Nodes \ {b} : node'[n] = node[n]
    BY <1>2, ElapseMovesEvent DEF Peace
  <2>2. \A g \in Spares : node'[g] = node[g]
    BY <2>1, SpareIs, SpareIsNode, KindsOfNodes
  <2>3. QED  BY <2>2 DEF FailedForGood, Lasting
<1>3. CASE UNCHANGED node
  BY <1>3 DEF FailedForGood
<1>4. QED  BY <1>1, <1>2, <1>3, Zenon DEF Next, Interact

\* Where the nodes are at peace they agree, and no author's error has come up.
LEMMA PeaceAgrees ==
  ASSUME Peace
  PROVE  Agreement /\ NoModelError
<1>1. \A n \in Nodes : Works(n, node[n])
  BY DEF Peace, AllGood, Good, Working
<1>2. ASSUME NEW g \in Gates \ OfType("fdep")  PROVE  node[g].mode = "live"
  BY <1>1, GateIsNode DEF Works, OfType, Gates, BasicEvents
<1>3. ASSUME NEW b \in BasicEvents
      PROVE  node[b].status \notin {"IMPOSSIBLE", "TERMINATED"}
  BY <1>1, EventIs DEF Works
<1>4. QED  BY <1>2, <1>3 DEF NoModelError, Peace, Agreement

\* Between two rates a spare gate uses what it should, as far as it knows: it has
\* announced its failure if no child is free, and whoever is not free it does not
\* use (tryFail, tryClaim and tryOnline in spare.cpp have done all they can).
LEMMA UsesFirst ==
  ASSUME RecoveriesReach, SparesAreHeard, CommandsFit, NEW P, NEW L, Lasting(L),
         SpareWaves(P), FailedForGood(L), Settled, NEW g \in Spares
  PROVE  LET x == node[g]
         IN  /\ x.done <=> Free(x) = {}
             /\ x.cur_using \in Free(x) \cup {0}
             /\ x.activated /\ Free(x) # {} => x.cur_using = SpareAt(g)!First(Free(x))
             /\ x.prev_using = 0 /\ x.repairing_deactivate = 0
<1> DEFINE x == node[g]
<1>1. Peace /\ FitSpare(g) /\ g \in Nodes /\ g \in Gates /\ AllGood
  BY SpareIs, SpareIsNode DEF SpareWaves, Peace, AllGood, AllFit, FitSpare
<1>2. x.prev_using = 0 /\ x.repairing_deactivate = 0
  BY <1>1, ReleasesAreOut
<1>3. x.activated /\ Free(x) # {} => x.cur_using = SpareAt(g)!First(Free(x))
  BY <1>1, ClaimsAreOut
<1>4. x \in SpareStates(g) /\ x.cur_using \in Places(g) /\ Free(x) \in SUBSET Kids(g)
  BY <1>1, FitIsReady DEF SpareStates, Free
<1>5. ~x.done => Free(x) # {}
  <2>1. Targets(g, FAIL(0)) = {}
    BY <1>1, FailuresAreOut DEF Lasting
  <2>2. QED  BY <1>1, <1>2, <2>1, SpareOffers
<1>6. ASSUME x.done, Free(x) # {}  PROVE  FALSE
  <2>1. g \notin L
    BY <1>6 DEF FailedForGood
  <2>2. Targets(g, ONLINE(0)) = {}
    BY <1>1, <2>1, RecoveriesAreOut DEF Lasting
  <2>3. x.activated /\ x.cur_using \notin Free(x)
    BY <1>1, <1>6, <2>2, SpareOffers
  <2>4. SpareAt(g)!First(Free(x)) \in Free(x)
    BY <1>4, <1>6, FirstIsLeast
  <2>5. QED  BY <1>3, <1>6, <2>3, <2>4
<1>7. ASSUME x.cur_using # 0  PROVE  x.cur_using \in Free(x)
  <2> DEFINE i == x.cur_using
             c == Children(g)[i]
  <2>1. i \in Kids(g)
    BY <1>4, <1>7 DEF Places, Kids
  <2>2. i \in x.unfailed
    BY <1>2, <1>7 DEF SpareWaves, AllSteady, Steady
  <2>3. c \in ChildrenOf(g) /\ LocalID(g, c) = i
    BY <1>1, <2>1, ChildHasOnePlace
  <2>4. i \in Held(g, x)
    BY <2>1 DEF Held
  <2> HIDE DEF c, i, x
  <2>5. Holds(g, c)
    BY <2>3, <2>4 DEF Holds, x
  <2>6. i \in x.unclaimed
    BY <1>1, <2>3, <2>5 DEF SpareWaves, TakenIsHeld, Peace, ClaimsApart, x
  <2>7. QED  BY <2>2, <2>6 DEF Free, i
<1>8. QED  BY <1>2, <1>3, <1>5, <1>6, <1>7

\* And what it knows is so: a child is free for it if it works and no other spare
\* gate uses it.
LEMMA FreeIsUsable ==
  ASSUME RecoveriesReach, PrimariesApart, CommandsFit, NEW P, SpareWaves(P), Settled,
         NEW g \in Spares, NEW i \in Kids(g)
  PROVE  i \in Free(node[g]) <=>
           ~Failed(Children(g)[i]) /\ \A h \in Spares \ {g} : Children(g)[i] \notin UsedBy(h)
<1> DEFINE c == Children(g)[i]
<1>1. Peace /\ FitSpare(g) /\ g \in Nodes /\ g \in Gates /\ AllGood /\ tree[g].type = "wsp"
  BY SpareIs, SpareIsNode DEF SpareWaves, Peace, AllGood, AllFit, FitSpare
<1>2. c \in ChildrenOf(g) /\ LocalID(g, c) = i
  BY <1>1, ChildHasOnePlace
<1> HIDE DEF c
<1>3. i \in node[g].unfailed <=> ~Failed(c)
  <2>1. HeardFailed(g, c) <=> Failed(c)
    BY <1>1, <1>2, PeaceAgrees, AgreementSettled
  <2>2. HeardFailed(g, c) <=> i \notin node[g].unfailed
    BY <1>1, <1>2 DEF HeardFailed
  <2>3. QED  BY <2>1, <2>2
<1>4. ASSUME NEW h \in Spares \ {g}, c \in UsedBy(h)
      PROVE  i \notin node[g].unclaimed
  <2>1. /\ FitSpare(h) /\ h \in Nodes /\ h \in Gates /\ node[h].cur_using \in Places(h)
        /\ node[h].cur_using # 0 /\ c = Children(h)[node[h].cur_using]
    <3>1. FitSpare(h) /\ h \in Nodes /\ h \in Gates
      BY <1>1, SpareIs, SpareIsNode DEF Peace, AllGood, AllFit, FitSpare
    <3>2. QED  BY <1>4, <3>1, FitIsReady DEF SpareStates, UsedBy
  <2>2. node[h].cur_using \in Kids(h)
    BY <2>1 DEF Places, Kids
  <2>3. c \in ChildrenOf(h) /\ LocalID(h, c) = node[h].cur_using
    BY <2>1, <2>2, ChildHasOnePlace
  <2>4. Holds(h, c)
    BY <2>2, <2>3 DEF Holds, Held
  <2>5. QED  BY <1>1, <1>2, <2>4 DEF Peace, ClaimsApart
<1>5. ASSUME i \notin node[g].unclaimed
      PROVE  \E h \in Spares \ {g} : c \in UsedBy(h)
  <2>1. PICK h \in Spares \ {g} : Holds(h, c)
    BY <1>2, <1>5 DEF SpareWaves, TakenIsHeld
  <2>2. /\ h \in Gates /\ c \in ChildrenOf(h) /\ LocalID(h, c) # 0
        /\ Children(h)[LocalID(h, c)] = c /\ LocalID(h, c) \in Held(h, node[h])
    BY <2>1, SpareIs, ChildPlace DEF Holds
  <2>3. node[h].prev_using = 0 /\ node[h].repairing_deactivate = 0
    BY <1>1, <2>1, ReleasesAreOut
  <2>4. ~(LocalID(h, c) = 1 /\ h \in AlwaysActive)
    BY <1>2, <2>1, <2>2 DEF PrimariesApart, Spares
  <2>5. LocalID(h, c) = node[h].cur_using
    BY <2>2, <2>3, <2>4 DEF Held
  <2>6. c \in UsedBy(h)
    BY <2>2, <2>5 DEF UsedBy
  <2>7. QED  BY <2>6
<1>6. QED  BY <1>3, <1>4, <1>5 DEF Free, c

\* Between two rates every activated spare gate uses the first of its children that
\* works and is free, and has announced its failure exactly if there is none
\* (claimFirst, claimBetter, tryFail and tryOnline in spare.cpp, with the claims and
\* releases that createSyncRuleGateSPARE lets the other spare gates hear): in all
\* trees in which every spare gate is heard and the primaries to which the
\* always-active ones return are plain.
THEOREM SparesAreUsed ==
  ASSUME RecoveriesReach, VotesAreHeard, PrimariesApart, CommandsFit,
         PrimariesArePlain, SparesAreHeard
  PROVE  Spec => []SparesUsed
<1>1. PICK plain : Plain(plain)
  BY DEF PrimariesArePlain, Plain, Votings, Spares
<1>2. PICK lasting : Lasting(lasting)
  BY DEF SparesAreHeard, Lasting, Spares
<1>3. SpareWaves(plain) /\ FailedForGood(lasting) => SparesUsed
  <2>1. SUFFICES ASSUME SpareWaves(plain), FailedForGood(lasting), Settled, NEW g \in Spares
                 PROVE  LET usable == {i \in DOMAIN Children(g) :
                              /\ ~Failed(Children(g)[i])
                              /\ \A h \in Spares \ {g} : Children(g)[i] \notin UsedBy(h)}
                        IN  /\ node[g].done <=> usable = {}
                            /\ node[g].cur_using \in usable \cup {0}
                            /\ node[g].activated =>
                                 \A i \in usable : node[g].cur_using \in 1..i
    BY DEF SparesUsed, Spares
  <2> DEFINE usable == {i \in DOMAIN Children(g) :
                          /\ ~Failed(Children(g)[i])
                          /\ \A h \in Spares \ {g} : Children(g)[i] \notin UsedBy(h)}
  <2>2. DOMAIN Children(g) = Kids(g) /\ FitSpare(g)
    BY <2>1, SpareIsNode DEF Kids, SpareWaves, Peace, AllGood, AllFit, FitSpare
  <2>3. Free(node[g]) \in SUBSET Kids(g)
    BY <2>2, FitIsReady DEF SpareStates, Free
  <2>4. Free(node[g]) = usable
    <3>1. \A i \in Kids(g) : i \in Free(node[g]) <=> i \in usable
      BY <2>1, <2>2, FreeIsUsable
    <3>2. QED  BY <2>2, <2>3, <3>1
  <2> HIDE DEF usable
  <2>5. /\ node[g].done <=> usable = {}
        /\ node[g].cur_using \in usable \cup {0}
        /\ node[g].activated /\ usable # {} => node[g].cur_using = SpareAt(g)!First(usable)
    BY <1>2, <2>1, <2>4, UsesFirst
  <2>6. ASSUME node[g].activated, NEW i \in usable  PROVE  node[g].cur_using \in 1..i
    <3>1. usable \in SUBSET Kids(g) /\ usable # {}
      BY <2>3, <2>4, <2>6
    <3>2. SpareAt(g)!First(usable) \in usable /\ SpareAt(g)!First(usable) <= i
      BY <3>1, <2>6, FirstIsLeast
    <3>3. node[g].cur_using \in usable /\ node[g].cur_using <= i
      BY <2>5, <2>6, <3>1, <3>2
    <3>4. node[g].cur_using \in Kids(g) /\ i \in Kids(g)
      BY <2>6, <3>1, <3>3
    <3>5. QED  BY <3>3, <3>4 DEF Kids
  <2>7. QED  BY <2>5, <2>6 DEF usable
<1>4. Init => SpareWaves(plain) /\ FailedForGood(lasting)
  BY <1>2, SpareWavesStart
<1>5. SpareWaves(plain) /\ FailedForGood(lasting) /\ [Next]_node
        => (SpareWaves(plain) /\ FailedForGood(lasting))'
  BY <1>1, <1>2, SpareWavesStay, FailedForGoodStays DEF SpareWaves
<1>6. QED  BY <1>3, <1>4, <1>5, PTL DEF Spec

-----------------------------------------------------------------------------
(* Who activates whom. *)

\* A node that is not always active is no gate that has ideas of its own, and its
\* parents are voting gates like it, or spare gates of which it is no primary that
\* is always active.
LEMMA CallersOf ==
  ASSUME RecoveriesReach, CommandsFit, Acyclic, NEW c \in Nodes \ AlwaysActive
  PROVE  /\ c \in Votings \cup Spares \cup BasicEvents
         /\ \A p \in Parents(c) : \/ p \in Votings \ AlwaysActive
                                  \/ p \in Spares /\ (p \in AlwaysActive => LocalID(p, c) # 1)
<1> DEFINE U == PAnds \ AlwaysActive
<1>1. \A n \in Nodes : n \in Votings \cup PAnds \cup Spares \cup FDeps \cup BasicEvents
  BY KindsOfNodes DEF Votings, PAnds, FDeps
<1>2. FDeps \subseteq AlwaysActive
  BY AlwaysActiveIs DEF RecoveriesReach, FDeps, OfType, Nodes
<1>3. ASSUME NEW d \in Nodes \ AlwaysActive, NEW p \in Parents(d)
      PROVE  \/ p \in Votings \ AlwaysActive /\ d \in MayDeactivate(p)
             \/ p \in Spares /\ (p \in AlwaysActive => LocalID(p, d) # 1) /\ d \in MayDeactivate(p)
             \/ p \in U
  <2>1. /\ p \in Gates /\ p \in Nodes /\ d \in ChildrenOf(p) /\ p \notin BasicEvents
        /\ LocalID(p, d) \in DOMAIN Children(p) /\ Children(p)[LocalID(p, d)] = d
    <3>1. p \in Gates /\ d \in ChildrenOf(p)
      BY ParentIsGate
    <3>2. DOMAIN Children(p) = Kids(p)
      BY <3>1, GateIsNode DEF Kids
    <3>3. QED  BY <3>1, <3>2, ChildPlace, GateIsNode, KindsOfNodes
  <2>2. p \in AlwaysActive => d \notin ActiveWith(p)
    BY <1>3, AlwaysActiveIs
  <2>3. CASE p \in FDeps
    <3>1. p \in AlwaysActive /\ tree[p].type = "fdep" /\ Kids(p) = {1}
      BY <1>2, <2>3, FDepIs
    <3>2. LocalID(p, d) = 1
      BY <2>1, <3>1, ChildPlace
    <3>3. d \in ActiveWith(p)
      BY <2>1, <3>1, <3>2 DEF ActiveWith
    <3>4. QED  BY <2>2, <3>1, <3>3
  <2>4. CASE p \in Votings
    <3>1. tree[p].type = "voting"
      BY <2>4, VotingIs
    <3>2. p \notin AlwaysActive
      BY <2>1, <2>2, <3>1 DEF ActiveWith
    <3>3. d \in MayDeactivate(p)
      BY <2>1, <3>1, <3>2 DEF MayDeactivate
    <3>4. QED  BY <2>4, <3>2, <3>3
  <2>5. CASE p \in Spares
    <3>1. tree[p].type = "wsp"
      BY <2>5, SpareIs
    <3>2. p \in AlwaysActive => LocalID(p, d) # 1
      BY <2>1, <2>2, <3>1 DEF ActiveWith
    <3>3. d \in MayDeactivate(p)
      BY <2>1, <3>1, <3>2 DEF MayDeactivate
    <3>4. QED  BY <2>5, <3>2, <3>3
  <2>6. CASE p \in PAnds
    <3>1. tree[p].type = "pand"
      BY <2>6 DEF PAnds, OfType
    <3>2. p \notin AlwaysActive
      BY <2>1, <2>2, <3>1 DEF ActiveWith
    <3>3. QED  BY <2>6, <3>2
  <2>7. QED  BY <1>1, <2>1, <2>3, <2>4, <2>5, <2>6
<1>4. U = {}
  <2>1. U \in SUBSET Nodes
    BY DEF PAnds, OfType, Nodes
  <2>2. ASSUME NEW d \in U  PROVE  \E p \in U : d \in ChildrenOf(p)
    <3>1. d \in Nodes \ AlwaysActive /\ tree[d].type = "pand"
      BY <2>2 DEF PAnds, OfType, Nodes
    <3>2. PICK p \in Parents(d) : TRUE
      BY <3>1, AlwaysActiveIs
    <3>3. p \in Nodes /\ d \in ChildrenOf(p)
      BY DEF Parents
    <3>4. d \notin MayDeactivate(p)
      BY <3>1, <3>3 DEF CommandsFit
    <3>5. QED  BY <1>3, <3>1, <3>3, <3>4
  <2> HIDE DEF U
  <2>3. QED  BY <2>1, <2>2, NoCycle
<1>5. c \in Votings \cup Spares \cup BasicEvents
  BY <1>1, <1>2, <1>4
<1>6. QED  BY <1>3, <1>4, <1>5

\* A node that is not always active is activated exactly by a parent that says so,
\* and deactivated exactly by one that says so (createSyncRuleGateSPARE and the
\* like).
LEMMA CommandedBy ==
  ASSUME RecoveriesReach, CallersApart, NEW rule \in Rules, NEW c \in Nodes \ AlwaysActive
  PROVE  /\ Gets(rule, c, ACTIVATE(0, FALSE)) <=>
              \E p \in Parents(c) : Gets(rule, p, ACTIVATE(LocalID(p, c), TRUE))
         /\ Gets(rule, c, DEACTIVATE(0, FALSE)) <=>
              \E p \in Parents(c) : Gets(rule, p, DEACTIVATE(LocalID(p, c), TRUE))
<1>1. ASSUME NEW q \in Nodes, NEW d \in ChildrenOf(q)
      PROVE  /\ q \in Gates /\ q \in Parents(d) /\ d # q
             /\ \A n \in Listeners(q, d) : LocalID(n, d) # 0
             /\ \A p \in Parents(c) : p = q /\ LocalID(p, c) = LocalID(q, d) <=> p = q /\ c = d
  <2>1. q \in Parents(d)
    BY DEF Parents
  <2>2. q \in Gates /\ d # q
    BY <2>1, ParentIsGate DEF RecoveriesReach
  <2>3. \A n \in Listeners(q, d) : LocalID(n, d) # 0
    BY ParentIsGate, ChildPlace DEF Listeners
  <2>4. \A p \in Parents(c) : p = q /\ LocalID(p, c) = LocalID(q, d) <=> p = q /\ c = d
    BY <2>2, ParentIsGate, PlacesDiffer
  <2>5. QED  BY <2>1, <2>2, <2>3, <2>4
<1>2. ASSUME NEW q \in Nodes, NEW d \in ChildrenOf(q), IsClaimRule(rule, q, d)
      PROVE  /\ \A n, i : ~Gets(rule, n, DEACTIVATE(i, TRUE)) /\ ~Gets(rule, n, DEACTIVATE(i, FALSE))
             /\ \A n, i : Gets(rule, n, ACTIVATE(i, TRUE)) <=> n = q /\ i = LocalID(q, d)
             /\ \A n : Gets(rule, n, ACTIVATE(0, FALSE)) <=> n = d
  <2>1. d # q /\ \A n \in DOMAIN rule \ {q, d} : LocalID(n, d) # 0
    BY <1>1, <1>2 DEF IsClaimRule
  <2>2. /\ q \in DOMAIN rule /\ rule[q] = ACTIVATE(LocalID(q, d), TRUE)
        /\ d \in DOMAIN rule
        /\ \A n \in DOMAIN rule \ {q} :
             rule[n] = IF n = d THEN ACTIVATE(0, FALSE) ELSE ACTIVATE(LocalID(n, d), FALSE)
    BY <1>2 DEF IsClaimRule
  <2>3. rule[d] = ACTIVATE(0, FALSE)
    BY <2>1, <2>2
  <2>4. ASSUME NEW n \in DOMAIN rule, n # q, n # d
        PROVE  \E i : i # 0 /\ rule[n] = ACTIVATE(i, FALSE)
    BY <2>1, <2>2, <2>4
  <2>5. ASSUME NEW n \in DOMAIN rule
        PROVE  /\ \A i : rule[n] # DEACTIVATE(i, TRUE) /\ rule[n] # DEACTIVATE(i, FALSE)
               /\ \A i : rule[n] = ACTIVATE(i, TRUE) <=> n = q /\ i = LocalID(q, d)
               /\ rule[n] = ACTIVATE(0, FALSE) <=> n = d
    <3>1. CASE n = q
      BY <2>1, <2>2, <3>1, CommandsApart, Zenon
    <3>2. CASE n = d
      BY <2>1, <2>3, <3>2, CommandsApart, Zenon
    <3>3. CASE n # q /\ n # d
      BY <2>4, <3>3, CommandsApart, Zenon
    <3>4. QED  BY <3>1, <3>2, <3>3
  <2>6. QED  BY <2>2, <2>5, Zenon DEF Gets
<1>3. ASSUME NEW q \in Nodes, NEW d \in ChildrenOf(q), IsReleaseRule(rule, q, d)
      PROVE  /\ \A n, i : ~Gets(rule, n, ACTIVATE(i, TRUE)) /\ ~Gets(rule, n, ACTIVATE(i, FALSE))
             /\ \A n, i : Gets(rule, n, DEACTIVATE(i, TRUE)) <=> n = q /\ i = LocalID(q, d)
             /\ \A n : Gets(rule, n, DEACTIVATE(0, FALSE)) <=> n = d
  <2>1. d # q /\ \A n \in DOMAIN rule \ {q, d} : LocalID(n, d) # 0
    BY <1>1, <1>3 DEF IsReleaseRule
  <2>2. /\ q \in DOMAIN rule /\ rule[q] = DEACTIVATE(LocalID(q, d), TRUE)
        /\ d \in DOMAIN rule
        /\ \A n \in DOMAIN rule \ {q} :
             rule[n] = IF n = d THEN DEACTIVATE(0, FALSE) ELSE DEACTIVATE(LocalID(n, d), FALSE)
    BY <1>3 DEF IsReleaseRule
  <2>3. rule[d] = DEACTIVATE(0, FALSE)
    BY <2>1, <2>2
  <2>4. ASSUME NEW n \in DOMAIN rule, n # q, n # d
        PROVE  \E i : i # 0 /\ rule[n] = DEACTIVATE(i, FALSE)
    BY <2>1, <2>2, <2>4
  <2>5. ASSUME NEW n \in DOMAIN rule
        PROVE  /\ \A i : rule[n] # ACTIVATE(i, TRUE) /\ rule[n] # ACTIVATE(i, FALSE)
               /\ \A i : rule[n] = DEACTIVATE(i, TRUE) <=> n = q /\ i = LocalID(q, d)
               /\ rule[n] = DEACTIVATE(0, FALSE) <=> n = d
    <3>1. CASE n = q
      BY <2>1, <2>2, <3>1, CommandsApart, Zenon
    <3>2. CASE n = d
      BY <2>1, <2>3, <3>2, CommandsApart, Zenon
    <3>3. CASE n # q /\ n # d
      BY <2>4, <3>3, CommandsApart, Zenon
    <3>4. QED  BY <3>1, <3>2, <3>3
  <2>6. QED  BY <2>2, <2>5, Zenon DEF Gets
<1>4. ASSUME NEW q \in Nodes, NEW d \in ChildrenOf(q)
      PROVE  c = d <=> \E p \in Parents(c) : p = q /\ LocalID(p, c) = LocalID(q, d)
  BY <1>1
<1>5. ASSUME NEW q \in Nodes, NEW d \in ChildrenOf(q),
             IsClaimRule(rule, q, d) \/ IsReleaseRule(rule, q, d)
      PROVE  /\ Gets(rule, c, ACTIVATE(0, FALSE)) <=>
                  \E p \in Parents(c) : Gets(rule, p, ACTIVATE(LocalID(p, c), TRUE))
             /\ Gets(rule, c, DEACTIVATE(0, FALSE)) <=>
                  \E p \in Parents(c) : Gets(rule, p, DEACTIVATE(LocalID(p, c), TRUE))
  <2>1. CASE IsClaimRule(rule, q, d)
    <3>1. /\ \A n, i : ~Gets(rule, n, DEACTIVATE(i, TRUE)) /\ ~Gets(rule, n, DEACTIVATE(i, FALSE))
          /\ \A n, i : Gets(rule, n, ACTIVATE(i, TRUE)) <=> n = q /\ i = LocalID(q, d)
          /\ \A n : Gets(rule, n, ACTIVATE(0, FALSE)) <=> n = d
      BY <1>2, <2>1
    <3>2. c = d <=> \E p \in Parents(c) : p = q /\ LocalID(p, c) = LocalID(q, d)
      BY <1>4
    <3>3. /\ ~Gets(rule, c, DEACTIVATE(0, FALSE))
          /\ \A p \in Parents(c) : ~Gets(rule, p, DEACTIVATE(LocalID(p, c), TRUE))
      BY <3>1, Zenon
    <3>4. Gets(rule, c, ACTIVATE(0, FALSE)) <=> c = d
      BY <3>1, Zenon
    <3>5. \A p \in Parents(c) : Gets(rule, p, ACTIVATE(LocalID(p, c), TRUE)) <=>
                                  p = q /\ LocalID(p, c) = LocalID(q, d)
      BY <3>1, Zenon
    <3>6. QED  BY <3>2, <3>3, <3>4, <3>5, Zenon
  <2>2. CASE IsReleaseRule(rule, q, d)
    <3>1. /\ \A n, i : ~Gets(rule, n, ACTIVATE(i, TRUE)) /\ ~Gets(rule, n, ACTIVATE(i, FALSE))
          /\ \A n, i : Gets(rule, n, DEACTIVATE(i, TRUE)) <=> n = q /\ i = LocalID(q, d)
          /\ \A n : Gets(rule, n, DEACTIVATE(0, FALSE)) <=> n = d
      BY <1>3, <2>2
    <3>2. c = d <=> \E p \in Parents(c) : p = q /\ LocalID(p, c) = LocalID(q, d)
      BY <1>4
    <3>3. /\ ~Gets(rule, c, ACTIVATE(0, FALSE))
          /\ \A p \in Parents(c) : ~Gets(rule, p, ACTIVATE(LocalID(p, c), TRUE))
      BY <3>1, Zenon
    <3>4. Gets(rule, c, DEACTIVATE(0, FALSE)) <=> c = d
      BY <3>1, Zenon
    <3>5. \A p \in Parents(c) : Gets(rule, p, DEACTIVATE(LocalID(p, c), TRUE)) <=>
                                  p = q /\ LocalID(p, c) = LocalID(q, d)
      BY <3>1, Zenon
    <3>6. QED  BY <3>2, <3>3, <3>4, <3>5, Zenon
  <2>3. QED  BY <1>5, <2>1, <2>2
<1>6. CASE IsNoCommand(rule)
  <2>1. ASSUME NEW n \in Nodes, n \in DOMAIN rule
        PROVE  \/ rule[n] = ACTIVATE(0, FALSE) /\ n \in AlwaysActive
               \/ rule[n][1] \notin {"ACTIVATE", "DEACTIVATE"}
    BY <1>6, <2>1 DEF IsNoCommand, CallersApart
  <2>2. ASSUME NEW n \in Nodes, n \in DOMAIN rule, rule[n][1] \notin {"ACTIVATE", "DEACTIVATE"}, NEW i
        PROVE  /\ rule[n] # ACTIVATE(i, TRUE) /\ rule[n] # DEACTIVATE(i, TRUE)
               /\ rule[n] # ACTIVATE(i, FALSE) /\ rule[n] # DEACTIVATE(i, FALSE)
    BY <2>2, CommandsDiffer, Zenon
  <2>3. ~Gets(rule, c, ACTIVATE(0, FALSE)) /\ ~Gets(rule, c, DEACTIVATE(0, FALSE))
    BY <2>1, <2>2, Zenon DEF Gets
  <2>4. ASSUME NEW p \in Nodes, NEW i
        PROVE  ~Gets(rule, p, ACTIVATE(i, TRUE)) /\ ~Gets(rule, p, DEACTIVATE(i, TRUE))
    BY <2>1, <2>2, CommandsApart, Zenon DEF Gets
  <2>5. \A p \in Parents(c) : p \in Nodes
    BY DEF Parents
  <2>6. QED  BY <2>3, <2>4, <2>5, Zenon
<1>7. QED  BY <1>5, <1>6, CommandKinds, Zenon

\* A node that is not always active runs exactly if a parent keeps it active.
Commanded ==
  \A c \in Nodes \ AlwaysActive :
    Runs(c, node[c]) <=> \E p \in Parents(c) : LocalID(p, c) \in Orders(p, node[p])

\* No spare gate uses a child before it is activated, and an always-active event
\* stays active.
AtWork ==
  /\ Commanded
  /\ \A g \in Spares \ AlwaysActive : Idle(node[g])
  /\ \A b \in BasicEvents \cap AlwaysActive : node[b].isactive

\* A rule has every node do as it is told.
Guides(rule) ==
  /\ \A c \in Nodes \ AlwaysActive :
       Runs(c, node'[c]) <=> \/ Gets(rule, c, ACTIVATE(0, FALSE))
                             \/ ~Gets(rule, c, DEACTIVATE(0, FALSE)) /\ Runs(c, node[c])
  /\ \A p \in Votings \cup Spares : \A i \in Kids(p) :
       i \in Orders(p, node'[p]) <=> \/ Gets(rule, p, ACTIVATE(i, TRUE))
                                     \/ ~Gets(rule, p, DEACTIVATE(i, TRUE)) /\ i \in Orders(p, node[p])
  /\ \A g \in Spares \ AlwaysActive : Idle(node[g]) => Idle(node'[g])
  /\ \A b \in BasicEvents \cap AlwaysActive : node[b].isactive => node'[b].isactive

\* That is what a rule that fires does,
LEMMA FireGuides ==
  ASSUME RecoveriesReach, PrimariesApart, CommandsFit, Acyclic, NEW P, Plain(P), SpareWaves(P),
         NEW rule \in Rules, Fire(rule)
  PROVE  Guides(rule)
<1>1. Peace /\ Peace' /\ SpareTurns(rule) /\ AllSteady /\ Returns(P)
  BY FirePeace, FireTurnsSpares DEF SpareWaves
<1>2. Turns(rule) /\ AllGood /\ AllFit
  BY <1>1, FireTurns DEF SpareWaves, Peace
<1>3. ASSUME NEW n \in Nodes, n \notin DOMAIN rule
      PROVE  node'[n] = node[n] /\ \A l : ~Gets(rule, n, l)
  BY <1>1, <1>3, FireMovesNodes DEF Peace, Gets
<1>4. ASSUME NEW n \in Nodes, n \in DOMAIN rule
      PROVE  /\ \A l : Gets(rule, n, l) <=> rule[n] = l
             /\ n \in Votings => Heeds(n, rule[n], node'[n]) /\ Directs(n, rule[n], node'[n])
             /\ n \in Spares => /\ Directs(n, rule[n], node'[n])
                                /\ n \notin AlwaysActive => /\ Heeds(n, rule[n], node'[n])
                                                            /\ Idle(node[n]) => Idle(node'[n])
             /\ n \in BasicEvents => /\ Heeds(n, rule[n], node'[n])
                                     /\ n \in AlwaysActive => rule[n] # DEACTIVATE(0, FALSE)
  <2>1. PICK t \in Trans(n) : t[1] = rule[n] /\ t[2] = node'[n]
    BY <1>1, <1>4, FireMovesNodes DEF Peace
  <2>2. Good(n) /\ Fit(n, node[n]) /\ Works(n, t[2]) /\ RuleLabel(n, t[1])
    <3>1. Works(n, node'[n])
      BY <1>1 DEF Peace, AllGood, Good, Working
    <3>2. QED  BY <1>2, <1>4, <2>1, <3>1, LabelsOfRules DEF AllGood, AllFit
  <2>3. n \in Votings => Heeds(n, rule[n], node'[n]) /\ Directs(n, rule[n], node'[n])
    BY <2>1, <2>2, VotingHeeds, TransOf
  <2>4. n \in BasicEvents => /\ Heeds(n, rule[n], node'[n])
                             /\ n \in AlwaysActive => rule[n] # DEACTIVATE(0, FALSE)
    BY <2>1, <2>2, EventHeeds, TransOf
  <2>5. ASSUME n \in Spares  PROVE  Directs(n, rule[n], node'[n])
    <3>1. FitSpare(n) /\ SpareClaims(n, rule[n], node'[n]) /\ Steady(n, node[n])
      BY <1>1, <1>4, <2>2, <2>5 DEF FitSpare, SpareTurns, AllSteady
    <3>2. ~(rule[n] = FAIL(1) /\ Returning(node[n]))
      BY <1>1, <1>2, <1>4, <2>5, NoReturnFails DEF Gets
    <3>3. QED  BY <3>1, <3>2, SpareDirects
  <2>6. ASSUME n \in Spares, n \notin AlwaysActive
        PROVE  Heeds(n, rule[n], node'[n]) /\ (Idle(node[n]) => Idle(node'[n]))
    <3>1. FitSpare(n) /\ t \in SpareAt(n)!Trans
      BY <2>1, <2>2, <2>6, TransOf DEF FitSpare
    <3>2. QED  BY <2>1, <2>2, <2>6, <3>1, SpareHeeds
  <2>7. \A l : Gets(rule, n, l) <=> rule[n] = l
    BY <1>4 DEF Gets
  <2>8. QED  BY <2>3, <2>4, <2>5, <2>6, <2>7
<1>5. ASSUME NEW c \in Nodes \ AlwaysActive
      PROVE  Runs(c, node'[c]) <=> \/ Gets(rule, c, ACTIVATE(0, FALSE))
                                   \/ ~Gets(rule, c, DEACTIVATE(0, FALSE)) /\ Runs(c, node[c])
  <2>1. CASE c \in DOMAIN rule
    <3>1. c \in Votings \cup Spares \cup BasicEvents
      BY CallersOf
    <3>2. Heeds(c, rule[c], node'[c])
      BY <1>4, <2>1, <3>1
    <3>3. QED  BY <1>4, <2>1, <3>2, Zenon DEF Heeds
  <2>2. CASE c \notin DOMAIN rule
    BY <1>3, <2>2
  <2>3. QED  BY <2>1, <2>2
<1>6. ASSUME NEW p \in Votings \cup Spares, NEW i \in Kids(p)
      PROVE  i \in Orders(p, node'[p]) <=> \/ Gets(rule, p, ACTIVATE(i, TRUE))
                                           \/ ~Gets(rule, p, DEACTIVATE(i, TRUE)) /\ i \in Orders(p, node[p])
  <2>0. p \in Nodes
    BY VotingIs, SpareIs, GateIsNode
  <2>1. CASE p \in DOMAIN rule
    <3>1. Directs(p, rule[p], node'[p])
      BY <1>4, <2>0, <2>1
    <3>2. QED  BY <1>4, <2>0, <2>1, <3>1, Zenon DEF Directs
  <2>2. CASE p \notin DOMAIN rule
    BY <1>3, <2>0, <2>2
  <2>3. QED  BY <2>1, <2>2
<1>7. ASSUME NEW g \in Spares \ AlwaysActive, Idle(node[g])  PROVE  Idle(node'[g])
  BY <1>3, <1>4, <1>7, SpareIsNode
<1>8. ASSUME NEW b \in BasicEvents \cap AlwaysActive, node[b].isactive  PROVE  node'[b].isactive
  <2>1. b \in Nodes /\ \A x : Runs(b, x) = x.isactive
    BY EventIs DEF Runs
  <2>2. CASE b \in DOMAIN rule
    <3>1. Heeds(b, rule[b], node'[b]) /\ rule[b] # DEACTIVATE(0, FALSE)
      BY <1>4, <2>1, <2>2
    <3>2. QED  BY <1>8, <2>1, <3>1 DEF Heeds
  <2>3. CASE b \notin DOMAIN rule
    BY <1>3, <1>8, <2>1, <2>3
  <2>4. QED  BY <2>2, <2>3
<1>9. QED  BY <1>5, <1>6, <1>7, <1>8 DEF Guides

\* so that it stays as its parents have it,
LEMMA FireKeepsWork ==
  ASSUME RecoveriesReach, CommandsFit, CallersApart, Acyclic, ClaimsApart, AtWork,
         NEW rule \in Rules, SpareTurns(rule), Guides(rule)
  PROVE  AtWork'
<1>1. SUFFICES ASSUME NEW c \in Nodes \ AlwaysActive
               PROVE  Runs(c, node'[c]) <=>
                        \E p \in Parents(c) : LocalID(p, c) \in Orders(p, node'[p])
  BY DEF AtWork, Commanded, Guides
<1> DEFINE On(p)  == Gets(rule, p, ACTIVATE(LocalID(p, c), TRUE))
           Off(p) == Gets(rule, p, DEACTIVATE(LocalID(p, c), TRUE))
           Was(p) == LocalID(p, c) \in Orders(p, node[p])
           Is(p)  == LocalID(p, c) \in Orders(p, node'[p])
           Begins == Gets(rule, c, ACTIVATE(0, FALSE))
           Ends   == Gets(rule, c, DEACTIVATE(0, FALSE))
<1>2. Runs(c, node'[c]) <=> Begins \/ (~Ends /\ Runs(c, node[c]))
  BY DEF Guides
<1>3. Runs(c, node[c]) <=> \E p \in Parents(c) : Was(p)
  BY DEF AtWork, Commanded
<1>4. /\ Begins <=> \E p \in Parents(c) : On(p)
      /\ Ends <=> \E p \in Parents(c) : Off(p)
  BY CommandedBy
<1>5. ~(Begins /\ Ends)
  BY CommandsApart, Zenon DEF Gets
<1>6. ASSUME NEW p \in Parents(c)
      PROVE  /\ p \in Votings \cup Spares /\ c \in ChildrenOf(p) /\ LocalID(p, c) \in Kids(p)
             /\ Is(p) <=> On(p) \/ (~Off(p) /\ Was(p))
  <2>1. p \in Votings \cup Spares /\ c \in ChildrenOf(p) /\ LocalID(p, c) \in Kids(p)
    BY CallersOf, ParentIsGate, ChildPlace
  <2>2. QED  BY <2>1 DEF Guides
<1>7. ASSUME NEW p \in Parents(c), NEW q \in Parents(c), p # q, Off(p)
      PROVE  ~Was(q)
  <2>1. p \in Spares /\ q \in Spares
    <3>1. tree[p].type = "wsp" /\ tree[q].type = "wsp"
      BY <1>7 DEF CallersApart
    <3>2. p \in Nodes /\ q \in Nodes
      BY DEF Parents
    <3>3. QED  BY <3>1, <3>2 DEF Spares, OfType, Nodes
  <2>2. LocalID(p, c) \in Held(p, node[p])
    <3>1. p \in DOMAIN rule /\ rule[p] = DEACTIVATE(LocalID(p, c), TRUE)
      BY <1>7 DEF Gets
    <3>2. SpareClaims(p, rule[p], node'[p])
      BY <2>1, <3>1 DEF SpareTurns
    <3>3. QED  BY <1>6, <3>1, <3>2, Zenon DEF SpareClaims
  <2>3. Holds(p, c)
    BY <1>6, <2>2 DEF Holds
  <2>4. ~Holds(q, c)
    BY <1>6, <1>7, <2>1, <2>3 DEF ClaimsApart
  <2>5. LocalID(q, c) \notin Held(q, node[q])
    BY <1>6, <2>4 DEF Holds
  <2>6. QED  BY <2>1, <2>5, SpareIs DEF Orders
<1> HIDE DEF On, Off, Was, Is, Begins, Ends
<1>8. CASE Begins
  <2>1. PICK p \in Parents(c) : On(p)
    BY <1>4, <1>8
  <2>2. Is(p)
    BY <1>6, <2>1
  <2>3. QED  BY <1>2, <1>8, <2>2 DEF Is
<1>9. CASE Ends
  <2>1. ~Runs(c, node'[c])
    BY <1>2, <1>5, <1>9
  <2>2. PICK p \in Parents(c) : Off(p)
    BY <1>4, <1>9
  <2>3. \A q \in Parents(c) : ~On(q)
    BY <1>4, <1>5, <1>9
  <2>4. \A q \in Parents(c) : ~Is(q)
    BY <1>6, <1>7, <2>2, <2>3
  <2>5. QED  BY <2>1, <2>4 DEF Is
<1>10. CASE ~Begins /\ ~Ends
  <2>1. \A q \in Parents(c) : Is(q) <=> Was(q)
    BY <1>4, <1>6, <1>10
  <2>2. QED  BY <1>2, <1>3, <1>10, <2>1 DEF Is
<1>11. QED  BY <1>8, <1>9, <1>10 DEF Is

\* and so it is at first: nothing but what is always active runs,
LEMMA WorkStarts ==
  ASSUME RecoveriesReach, CommandsFit, Acyclic, Init
  PROVE  AtWork
<1>1. \A n \in Nodes : node[n] = InitialState(n)
  BY DEF Init
<1>2. ASSUME NEW g \in Votings  PROVE  ~node[g].running /\ node[g].activated = {}
  <2>1. node[g] = VotingAt(g)!Initial
    BY <1>1, TransOf, VotingIs, GateIsNode
  <2>2. QED  BY <2>1 DEF VotingAt!Initial
<1>3. ASSUME NEW g \in Spares
      PROVE  /\ g \notin AlwaysActive => ~node[g].activated /\ node[g].cur_using = 0
             /\ Held(g, node[g]) = {i \in {1} : g \in AlwaysActive}
  <2>1. node[g] = SpareAt(g)!Initial /\ g \in Nodes
    BY <1>1, TransOf, SpareIsNode
  <2>2. g \notin AlwaysActive => ~node[g].activated /\ node[g].cur_using = 0
    <3>1. /\ SpareAt(g)!Initial.activated = (g \in AlwaysActive)
          /\ SpareAt(g)!Initial.cur_using = IF g \in AlwaysActive THEN 1 ELSE 0
      BY Zenon DEF SpareAt!Initial
    <3>2. QED  BY <2>1, <3>1, Zenon
  <2>3. QED  BY <1>1, <2>1, <2>2, FitStarts
<1>4. ASSUME NEW b \in BasicEvents  PROVE  node[b].isactive <=> b \in AlwaysActive
  <2>1. node[b] = EventAt(b)!Initial
    BY <1>1, TransOf, EventIs
  <2>2. EventAt(b)!Initial.isactive = (b \in AlwaysActive)
    BY Zenon DEF EventAt!Initial
  <2>3. QED  BY <2>1, <2>2, Zenon
<1>5. ASSUME NEW c \in Nodes \ AlwaysActive
      PROVE  Runs(c, node[c]) <=> \E p \in Parents(c) : LocalID(p, c) \in Orders(p, node[p])
  <2>1. ~Runs(c, node[c])
    <3>1. CASE c \in Votings
      BY <1>2, <3>1, VotingIs DEF Runs
    <3>2. CASE c \in Spares
      BY <1>3, <1>5, <3>2, SpareIs DEF Runs
    <3>3. CASE c \in BasicEvents
      BY <1>4, <1>5, <3>3, EventIs DEF Runs
    <3>4. QED  BY <3>1, <3>2, <3>3, CallersOf
  <2>2. ASSUME NEW p \in Parents(c)  PROVE  LocalID(p, c) \notin Orders(p, node[p])
    <3>1. CASE p \in Votings
      BY <1>2, <3>1, VotingIs DEF Orders
    <3>2. CASE p \in Spares /\ (p \in AlwaysActive => LocalID(p, c) # 1)
      BY <1>3, <3>2, SpareIs DEF Orders
    <3>3. QED  BY <3>1, <3>2, CallersOf
  <2>3. QED  BY <2>1, <2>2
<1>6. QED  BY <1>3, <1>4, <1>5, Zenon DEF AtWork, Commanded, Idle

\* until the end.
LEMMA WorkStays ==
  ASSUME RecoveriesReach, PrimariesApart, CommandsFit, CallersApart, Acyclic,
         NEW P, Plain(P), SpareWaves(P), AtWork, [Next]_node
  PROVE  AtWork'
<1>1. ASSUME NEW rule \in Rules, Fire(rule)  PROVE  AtWork'
  <2>1. Guides(rule) /\ SpareTurns(rule)
    BY <1>1, FireGuides, FireTurnsSpares DEF SpareWaves
  <2>2. QED  BY <1>1, <2>1, FireKeepsWork DEF SpareWaves, Peace
<1>2. ASSUME \A n \in Nodes : \/ node'[n] = node[n]
                              \/ n \in BasicEvents /\ node'[n].isactive = node[n].isactive
      PROVE  AtWork'
  <2>1. ASSUME NEW c \in Nodes  PROVE  Runs(c, node'[c]) <=> Runs(c, node[c])
    <3>1. CASE c \in BasicEvents
      BY <1>2, <3>1, EventIs DEF Runs
    <3>2. CASE c \notin BasicEvents
      BY <1>2, <3>2
    <3>3. QED  BY <3>1, <3>2
  <2>2. ASSUME NEW c \in Nodes, NEW p \in Parents(c)  PROVE  node'[p] = node[p]
    BY <1>2, ParentIsGate, GateIsNode, KindsOfNodes
  <2>3. Commanded'
    BY <2>1, <2>2 DEF AtWork, Commanded
  <2>4. \A g \in Spares : node'[g] = node[g]
    BY <1>2, SpareIs, SpareIsNode, KindsOfNodes
  <2>5. \A b \in BasicEvents : node'[b].isactive = node[b].isactive
    BY <1>2, EventIs
  <2>6. QED  BY <2>3, <2>4, <2>5 DEF AtWork
<1>3. CASE Elapse
  <2>1. PICK b \in BasicEvents : \E t \in Trans(b) :
           /\ t[1] \in Rated(b) /\ node'[b] = t[2]
           /\ DOMAIN node' = DOMAIN node
           /\ \A n \in Nodes \ {b} : node'[n] = node[n]
    BY <1>3, ElapseMovesEvent DEF SpareWaves, Peace
  <2>2. PICK t \in Trans(b) : /\ t[1] \in Rated(b) /\ node'[b] = t[2]
                              /\ \A n \in Nodes \ {b} : node'[n] = node[n]
    BY <2>1, Zenon
  <2>3. Good(b) /\ t \in EventAt(b)!Trans
    BY <2>2, EventIs, TransOf DEF SpareWaves, Peace, AllGood
  <2>4. node'[b].isactive = node[b].isactive
    BY <2>2, <2>3, EventRateHeeds
  <2>5. QED  BY <1>2, <2>2, <2>4
<1>4. CASE UNCHANGED node
  BY <1>2, <1>4
<1>5. QED  BY <1>1, <1>3, <1>4, Zenon DEF Next, Interact

\* Between two rates a voting gate that runs has all its children run, and one that
\* does not none.
LEMMA VotingsAreDone ==
  ASSUME RecoveriesReach, CommandsFit, CallersApart, Peace, Settled,
         NEW p \in Votings \ AlwaysActive
  PROVE  /\ node[p].running => node[p].activated = Kids(p)
         /\ ~node[p].running => node[p].activated = {}
<1>1. /\ p \in Nodes /\ Good(p) /\ tree[p].type = "voting" /\ p \in Spares \cup Votings
      /\ p \notin AlwaysActive
  BY VotingIs, GateIsNode DEF Peace, AllGood
<1>2. ASSUME NEW i \in Kids(p)
      PROVE  Targets(p, ACTIVATE(i, TRUE)) = {} /\ Targets(p, DEACTIVATE(i, TRUE)) = {}
  <2>1. Children(p)[i] \in ChildrenOf(p)
    BY <1>1, ChildHasOnePlace
  <2>2. Children(p)[i] \in MayDeactivate(p)
    BY <1>1, <2>1 DEF MayDeactivate
  <2>3. Children(p)[i] \in Nodes \ AlwaysActive /\ p \in Parents(Children(p)[i])
    <3>1. Children(p)[i] \in Nodes /\ p \in Parents(Children(p)[i])
      BY <2>1, VotingIs, ChildPlace
    <3>2. QED  BY <1>1, <2>2, <3>1 DEF CommandsFit
  <2>4. Parents(Children(p)[i]) = {p}
    BY <1>1, <2>3 DEF CallersApart
  <2>5. ASSUME NEW q \in Spares \ {p}, NEW c \in ChildrenOf(q), Children(p)[i] = c
        PROVE  LocalID(q, c) # node[q].cur_using
    <3>1. q \in Parents(Children(p)[i])
      BY <2>5, SpareIsNode DEF Parents
    <3>2. QED  BY <2>4, <2>5, <3>1
  <2>6. QED  BY <1>1, <2>2, <2>5, CommandsAreOut
<1>3. QED  BY <1>1, <1>2, VotingOffers

\* Then a node that is not always active runs exactly if a parent calls for it that
\* runs or is always active,
LEMMA RunsByCall ==
  ASSUME RecoveriesReach, CommandsFit, CallersApart, Acyclic, Peace, AtWork, Settled,
         NEW c \in Nodes \ AlwaysActive
  PROVE  Runs(c, node[c]) <=>
           \E p \in Parents(c) : c \in CallsFor(p) /\ (p \in AlwaysActive \/ Runs(p, node[p]))
<1>1. ASSUME NEW p \in Parents(c)
      PROVE  LocalID(p, c) \in Orders(p, node[p]) <=>
               c \in CallsFor(p) /\ (p \in AlwaysActive \/ Runs(p, node[p]))
  <2>1. /\ p \in Nodes /\ p \in Gates /\ c \in ChildrenOf(p) /\ Children(p)[LocalID(p, c)] = c
        /\ LocalID(p, c) \in Kids(p) /\ LocalID(p, c) # 0
    BY ParentIsGate, ChildPlace, GateIsNode
  <2>2. CASE p \in Votings \ AlwaysActive
    <3>1. tree[p].type = "voting"
      BY <2>2, VotingIs
    <3>2. Orders(p, node[p]) = node[p].activated /\ Runs(p, node[p]) = node[p].running
      BY <3>1 DEF Orders, Runs
    <3>3. c \in CallsFor(p)
      BY <2>1, <3>1 DEF CallsFor
    <3>4. QED  BY <2>1, <2>2, <3>2, <3>3, VotingsAreDone
  <2>3. CASE p \in Spares /\ (p \in AlwaysActive => LocalID(p, c) # 1)
    <3>1. tree[p].type = "wsp" /\ FitSpare(p)
      BY <2>1, <2>3, SpareIs DEF Peace, AllGood, AllFit, FitSpare
    <3>2. node[p].prev_using = 0 /\ node[p].repairing_deactivate = 0
      BY <2>3, ReleasesAreOut
    <3>3. node[p].cur_using \in Places(p)
      BY <3>1, FitIsReady DEF SpareStates
    <3>4. LocalID(p, c) \in Orders(p, node[p]) <=> LocalID(p, c) = node[p].cur_using
      BY <2>1, <2>3, <3>1, <3>2 DEF Orders, Held
    <3>5. c \in CallsFor(p) <=> LocalID(p, c) = node[p].cur_using
      <4>1. node[p].cur_using # 0 => node[p].cur_using \in Kids(p)
        BY <3>3 DEF Places, Kids
      <4>2. CallsFor(p) = {Children(p)[i] : i \in {node[p].cur_using} \ {0}}
        BY <3>1 DEF CallsFor, UsedBy
      <4>3. \A i \in Kids(p) : Children(p)[i] = c <=> LocalID(p, c) = i
        BY <2>1, ChildHasOnePlace
      <4>4. QED  BY <2>1, <4>1, <4>2, <4>3
    <3>6. node[p].cur_using # 0 => p \in AlwaysActive \/ Runs(p, node[p])
      <4>1. p \notin AlwaysActive => Idle(node[p])
        BY <2>3 DEF AtWork
      <4>2. QED  BY <3>1, <3>2, <4>1 DEF Idle, Runs
    <3>7. QED  BY <2>1, <3>4, <3>5, <3>6
  <2>4. QED  BY <2>2, <2>3, CallersOf
<1>2. QED  BY <1>1 DEF AtWork, Commanded

\* hence exactly if it is called for by a chain of them.
LEMMA RunsWhenCalledFor ==
  ASSUME RecoveriesReach, CommandsFit, CallersApart, Acyclic, Peace, AtWork, Settled,
         NEW c \in Nodes \ AlwaysActive
  PROVE  Runs(c, node[c]) <=> c \in CalledFor
<1> DEFINE Run(n) == Runs(n, node[n])
           Odd  == {n \in Nodes \ AlwaysActive : Run(n) /\ n \notin CalledFor}
           Late == {n \in Nodes \ AlwaysActive : ~Run(n) /\ n \in CalledFor}
<1>1. \A g \in Spares : node[g] \in SpareStates(g)
  BY SpareIs, SpareIsNode DEF Peace, AllGood, Good, Typed
<1>2. /\ CalledFor \in SUBSET Nodes /\ AlwaysActive \subseteq CalledFor
      /\ \A n \in CalledFor : CallsFor(n) \subseteq CalledFor
      /\ \A x \in CalledFor \ AlwaysActive : \E y \in CalledFor : x \in CallsFor(y)
  BY <1>1, CalledForIs
<1>3. ASSUME NEW n \in Nodes \ AlwaysActive
      PROVE  Run(n) <=> \E p \in Parents(n) : n \in CallsFor(p) /\ (p \in AlwaysActive \/ Run(p))
  BY RunsByCall
<1>4. ASSUME NEW n \in Nodes, NEW p \in Parents(n)  PROVE  p \in Nodes /\ n \in ChildrenOf(p)
  BY DEF Parents
<1>5. ASSUME NEW y \in Nodes, NEW x \in CallsFor(y)  PROVE  x \in ChildrenOf(y) /\ y \in Parents(x)
  <2>1. x \in ChildrenOf(y)
    <3>1. CASE tree[y].type = "wsp"
      <4>1. node[y] \in SpareStates(y)
        BY <1>1, <3>1 DEF Spares, OfType, Nodes
      <4>2. node[y].cur_using \in Places(y) /\ x = Children(y)[node[y].cur_using] /\ node[y].cur_using # 0
        BY <1>5, <3>1, <4>1 DEF CallsFor, UsedBy, SpareStates
      <4>3. node[y].cur_using \in Kids(y)
        BY <4>2 DEF Places, Kids
      <4>4. QED  BY <4>2, <4>3, ChildHasOnePlace
    <3>2. CASE tree[y].type # "wsp"
      BY <1>5, <3>2 DEF CallsFor
    <3>3. QED  BY <3>1, <3>2
  <2>2. QED  BY <2>1 DEF Parents
<1> HIDE DEF Run
<1>6. Odd = {}
  <2>1. ASSUME NEW n \in Odd  PROVE  \E p \in Odd : n \in ChildrenOf(p)
    <3>1. PICK p \in Parents(n) : n \in CallsFor(p) /\ (p \in AlwaysActive \/ Run(p))
      BY <1>3
    <3>2. p \in Nodes /\ n \in ChildrenOf(p)
      BY <1>4
    <3>3. p \notin CalledFor
      BY <1>2, <3>1
    <3>4. p \in Odd
      BY <1>2, <3>1, <3>2, <3>3
    <3>5. QED  BY <3>2, <3>4
  <2>2. Odd \in SUBSET Nodes
    OBVIOUS
  <2> HIDE DEF Odd
  <2>3. QED  BY <2>1, <2>2, NoCycle
<1>7. Late = {}
  <2>1. ASSUME NEW n \in Late  PROVE  \E p \in Late : n \in ChildrenOf(p)
    <3>1. PICK p \in CalledFor : n \in CallsFor(p)
      BY <1>2
    <3>2. p \in Nodes /\ n \in ChildrenOf(p) /\ p \in Parents(n)
      BY <1>2, <1>5, <3>1
    <3>3. ~(p \in AlwaysActive \/ Run(p))
      BY <1>3, <3>1, <3>2
    <3>4. QED  BY <3>2, <3>3
  <2>2. Late \in SUBSET Nodes
    OBVIOUS
  <2> HIDE DEF Late
  <2>3. QED  BY <2>1, <2>2, NoCycle
<1>8. Run(c) <=> c \in CalledFor
  BY <1>6, <1>7
<1>9. QED  BY <1>8 DEF Run

\* Between two rates the basic events that wear out at their active rate are exactly
\* those called for (voting.cpp and spare.cpp pass the commands on, be.cpp obeys
\* them), in all trees in which no node may be activated by two parents that are not
\* both spare gates, nobody takes a command or a recovery for impossible, and the
\* primaries to which the always-active spare gates return are plain.
THEOREM ActiveExactlyCalledFor ==
  ASSUME RecoveriesReach, VotesAreHeard, PrimariesApart, CommandsFit, PrimariesArePlain,
         CallersApart, Acyclic
  PROVE  Spec => []ActiveExactlyWhenUsed
<1>1. PICK plain : Plain(plain)
  BY DEF PrimariesArePlain, Plain, Votings, Spares
<1>2. SpareWaves(plain) /\ AtWork => ActiveExactlyWhenUsed
  <2>1. SUFFICES ASSUME SpareWaves(plain), AtWork, Settled, NEW b \in BasicEvents
                 PROVE  node[b].isactive <=> b \in CalledFor
    BY DEF ActiveExactlyWhenUsed
  <2>2. Peace /\ b \in Nodes /\ tree[b].type = "be"
    BY <2>1, EventIs DEF SpareWaves
  <2>3. CASE b \in AlwaysActive
    <3>1. \A g \in Spares : node[g] \in SpareStates(g)
      BY <2>2, SpareIs, SpareIsNode DEF Peace, AllGood, Good, Typed
    <3>2. b \in CalledFor
      BY <2>3, <3>1, CalledForIs
    <3>3. QED  BY <2>1, <2>3, <3>2 DEF AtWork
  <2>4. CASE b \notin AlwaysActive
    <3>1. Runs(b, node[b]) <=> b \in CalledFor
      BY <2>1, <2>2, <2>4, RunsWhenCalledFor
    <3>2. QED  BY <2>2, <3>1 DEF Runs
  <2>5. QED  BY <2>3, <2>4
<1>3. Init => SpareWaves(plain) /\ AtWork
  BY SpareWavesStart, WorkStarts
<1>4. SpareWaves(plain) /\ AtWork /\ [Next]_node => (SpareWaves(plain) /\ AtWork)'
  BY <1>1, SpareWavesStay, WorkStays
<1>5. QED  BY <1>2, <1>3, <1>4, PTL DEF Spec
=============================================================================
