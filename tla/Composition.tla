----------------------------- MODULE Composition -----------------------------
(***************************************************************************)
(* The composed model of a fault tree: the automata of the nodes under the *)
(* synchronisation rules, with rates that only elapse when no rule can     *)
(* fire (maximal progress, bcgconv/maxprog.cpp).  The state is that of     *)
(* each automaton; what a step does comes from the node modules.           *)
(***************************************************************************)
EXTENDS SyncRules

VARIABLE node     \* node[n]: the state of automaton n, node 0 the top level

VotingAt(n) == INSTANCE Voting WITH
          total <- Len(Children(n)), threshold <- tree[n].threshold,
          always_active <- n \in AlwaysActive, gate <- node[n]
PAndAt(n) == INSTANCE PAnd WITH
          total <- Len(Children(n)), always_active <- n \in AlwaysActive,
          gate <- node[n]
SpareAt(n) == INSTANCE Spare WITH
          total <- Len(Children(n)),
          repairable <- ChildrenOf(n) \cap Repairable # {},
          always_active <- n \in AlwaysActive, gate <- node[n]
FDepAt(n) == INSTANCE FDep WITH
          total <- Len(Dependers(n)),
          trigger_always_active <- Children(n)[1] \in AlwaysActive,
          gate <- node[n]
EventAt(n) == INSTANCE BasicEvent WITH
          phases <- tree[n].phases, threshold <- tree[n].interval,
          cold <- ~tree[n].warm, repairable <- n \in Repairable,
          self_repair <- TRUE, independent_repair <- TRUE,
          always_active <- n \in AlwaysActive,
          initially_failed <- tree[n].failed, gate <- node[n]

InitialState(n) ==
  IF n = toplevel THEN [mode |-> "waiting"]
  ELSE CASE tree[n].type = "voting" -> VotingAt(n)!Initial
         [] tree[n].type = "pand"   -> PAndAt(n)!Initial
         [] tree[n].type = "wsp"    -> SpareAt(n)!Initial
         [] tree[n].type = "fdep"   -> FDepAt(n)!Initial
         [] tree[n].type = "be"     -> EventAt(n)!Initial

\* The top-level automaton activates the top node once.
TopLevelTrans ==
  Offer(node[toplevel].mode = "waiting", ACTIVATE(0, TRUE),
        [mode |-> "activated"])

Trans(n) ==
  IF n = toplevel THEN TopLevelTrans
  ELSE CASE tree[n].type = "voting" -> VotingAt(n)!Trans
         [] tree[n].type = "pand"   -> PAndAt(n)!Trans
         [] tree[n].type = "wsp"    -> SpareAt(n)!Trans
         [] tree[n].type = "fdep"   -> FDepAt(n)!Trans
         [] tree[n].type = "be"     -> EventAt(n)!Trans

Init == node = [n \in {toplevel} \cup Nodes |-> InitialState(n)]

-----------------------------------------------------------------------------
Targets(n, label) == {t[2] : t \in {u \in Trans(n) : u[1] = label}}

Enabled(rule) == \A n \in DOMAIN rule : Targets(n, rule[n]) # {}

\* All automata named in the rule move together.
Fire(rule) ==
  /\ Enabled(rule)
  /\ \E next \in [DOMAIN rule ->
                    UNION {Targets(n, rule[n]) : n \in DOMAIN rule}] :
       /\ \A n \in DOMAIN rule : next[n] \in Targets(n, rule[n])
       /\ node' = [n \in DOMAIN node |-> IF n \in DOMAIN rule THEN next[n] ELSE node[n]]

Settled == \A rule \in Rules : ~Enabled(rule)

Interact == \E rule \in Rules : Fire(rule)

\* A rate of one basic event elapses.
Elapse ==
  /\ Settled
  /\ \E b \in BasicEvents : \E t \in Trans(b) :
       t[1] \in Rated(b) /\ node' = [node EXCEPT ![b] = t[2]]

Next == Interact \/ Elapse

Spec == Init /\ [][Next]_node

\* Interactions take no time, so an enabled one is not put off for ever.
FairSpec == Spec /\ WF_node(Interact)

-----------------------------------------------------------------------------
(* The components' failures, as the automata have them. *)

DownEvents == {b \in BasicEvents : node[b].status \in {"DOWN", "FAILING"}}

\* The child that a spare gate uses, or none.
UsedBy(g) == {Children(g)[i] : i \in {node[g].cur_using} \ {0}}

\* What a parent was told of its child.
HeardFailed(p, c) ==
  LET i == LocalID(p, c)
  IN  CASE tree[p].type = "voting" -> i \in node[p].received
        [] tree[p].type = "pand"   -> i \in node[p].failed
        [] tree[p].type = "wsp"    -> i \notin node[p].unfailed
        [] tree[p].type = "fdep"   -> node[p].failed

\* A node has failed by itself or, for its parents, by a dependency gate.
Dragged(c) == \E f \in OfType("fdep") :
                node[f].failed /\ c \in Range(Dependers(f))
Failed(c) == Dragged(c) \/ IF c \in BasicEvents THEN c \in DownEvents
                                                ELSE node[c].done

-----------------------------------------------------------------------------
\* No automaton ever receives a signal that the rules let through but that
\* its author took for impossible (dftcalc refuses such a model).
NoModelError ==
  /\ \A g \in Gates \ OfType("fdep") : node[g].mode = "live"
  /\ \A b \in BasicEvents : node[b].status \notin {"IMPOSSIBLE", "TERMINATED"}

\* Between two rates every parent knows which of its children have failed,
\* through all chains of gates, shared children and dependencies.
ParentsAgree ==
  Settled => \A p \in Gates : \A c \in ChildrenOf(p) :
               HeardFailed(p, c) <=> Failed(c)

\* Between two rates a voting gate has announced its failure exactly if
\* enough of its children have failed.
VotesCounted ==
  Settled => \A g \in OfType("voting") :
    node[g].done <=>
      Cardinality({c \in ChildrenOf(g) : Failed(c)}) >= tree[g].threshold

\* No two spare gates ever use the same child, in whatever order they claim
\* and release it.
ExclusiveUse ==
  \A g, h \in OfType("wsp") : g # h => UsedBy(g) \cap UsedBy(h) = {}

\* Between two rates a spare gate that is activated uses the first of its
\* children that is neither failed nor used by another spare gate, and it has
\* announced its failure exactly if there is none.
SparesUsed ==
  Settled => \A g \in OfType("wsp") :
    LET usable == {i \in DOMAIN Children(g) :
                     /\ ~Failed(Children(g)[i])
                     /\ \A h \in OfType("wsp") \ {g} :
                          Children(g)[i] \notin UsedBy(h)}
    IN  /\ node[g].done <=> usable = {}
        /\ node[g].cur_using \in usable \cup {0}
        /\ node[g].activated =>
             \A i \in usable : node[g].cur_using \in 1..i

\* A state of a spare gate is never changed after it was stored, and dropping
\* its silent steps loses nothing, whether it is always active or not.
SpareStatesAreClean ==
  \A g \in OfType("wsp") :
    SpareAt(g)!KeyIsStable /\ SpareAt(g)!SilentChangesNothing

\* Called for: always active, or activated through a chain of parents each of
\* which is itself called for; a spare gate calls for the child it uses.
CallsFor(n) == IF tree[n].type = "wsp" THEN UsedBy(n) ELSE ChildrenOf(n)
CalledFor == Closure(AlwaysActive, CallsFor)

\* Between two rates the basic events that wear out at their active rate are
\* exactly those called for: spares and the events of spare modules stay
\* dormant until their gate takes them into use, and again once it releases
\* them, through any number of gates in between.
ActiveExactlyWhenUsed ==
  Settled => \A b \in BasicEvents : node[b].isactive <=> b \in CalledFor

\* Every dependency gate is activated with the top of the tree.
FdepActivated ==
  node[toplevel].mode = "activated" => \A f \in OfType("fdep") : node[f].act

\* The automata never exchange signals for ever, claiming and releasing shared
\* children: they always come to rest, so that time can pass.
ComesToRest == []<>Settled

-----------------------------------------------------------------------------
(* Trees for which some of this is known: see CompositionProofs. *)

\* No spare gate is a child of itself, and no two always-active spare gates have
\* the same primary.  Nothing in the code refuses the latter: both gates then use
\* it from the start.
SparesApart ==
  /\ \A g \in OfType("wsp") : g \notin ChildrenOf(g)
  /\ \A g, h \in OfType("wsp") \cap AlwaysActive :
       g # h => Children(g)[1] # Children(h)[1]

\* The nodes that a dependency gate may drag along.
Dependents == UNION {Range(Dependers(f)) : f \in OfType("fdep")}

\* A recovery reaches everyone who heard of the failure: of the parents of a node
\* that may recover either none is told or all are, and nothing drags it along.
RecoveriesReach ==
  /\ \A n \in Nodes : n \notin ChildrenOf(n)
  /\ \A f \in OfType("fdep") : Parents(f) = {} /\ f \notin Repairable
  /\ \A c \in Nodes : (c \in Repairable \/ tree[c].type = "wsp")
                        /\ Parents(c) \cap Repairable # {}
                      => Parents(c) \subseteq Repairable /\ c \notin Dependents
  /\ \A b \in BasicEvents : tree[b].repair => Parents(b) \subseteq Repairable
  /\ top \in Repairable => Parents(top) = {}

\* Every voting gate has someone who hears it, of its recovery as well.
VotesAreHeard ==
  \A g \in OfType("voting") :
    /\ g = top \/ Parents(g) # {}
    /\ g \in Repairable => g = top \/ Parents(g) \cap Repairable # {}

\* The children that a gate may deactivate: those of a voting gate that is not
\* always active, and those of a spare gate but an always-active one's primary.
MayDeactivate(p) ==
  CASE tree[p].type = "voting" -> {c \in ChildrenOf(p) : p \notin AlwaysActive}
    [] tree[p].type = "wsp"    ->
         {Children(p)[i] : i \in {j \in DOMAIN Children(p) : p \in AlwaysActive => j # 1}}
    [] OTHER -> {}

\* No node that may be deactivated takes that for impossible.  Nothing in the
\* code refuses a tree in which it does.
CommandsFit ==
  \A p \in Nodes : \A c \in MayDeactivate(p) :
    c \notin AlwaysActive /\ tree[c].type # "pand"

\* The primary of an always-active spare gate is no child of another one.
PrimariesApart ==
  \A g \in OfType("wsp") \cap AlwaysActive : \A h \in OfType("wsp") \ {g} :
    Children(g)[1] \notin ChildrenOf(h)

\* The primaries to which always-active spare gates may return are basic events, and
\* voting gates over such, and nothing drags any of these along.
PrimariesArePlain ==
  \E plain \in SUBSET ((OfType("voting") \cup BasicEvents) \ Dependents) :
    /\ \A n \in plain : ChildrenOf(n) \subseteq plain
    /\ \A g \in OfType("wsp") \cap AlwaysActive \cap Repairable : Children(g)[1] \in plain

\* Every spare gate is heard when it fails, and when it is back: by a parent that is
\* repairable, or because it is the top.  Of the others none is repairable, and what
\* these share they share with each other, always active.
SparesAreHeard ==
  \E lasting \in SUBSET (OfType("wsp") \ Repairable) :
    /\ \A g \in OfType("wsp") :
         /\ g = top \/ Parents(g) # {}
         /\ \/ g = top /\ top \in Repairable
            \/ Parents(g) \cap Repairable # {}
            \/ g \in lasting
    /\ \A g \in lasting : \A h \in OfType("wsp") \ {g} :
         ChildrenOf(g) \cap ChildrenOf(h) # {} => {g, h} \subseteq lasting \cap AlwaysActive

\* A node that is not always active has one parent to activate it, or only spare
\* gates, which claim it, and TopActivate leaves it alone.
CallersApart ==
  /\ Nodes \cap DOMAIN TopActivate \subseteq AlwaysActive
  /\ \A c \in Nodes \ AlwaysActive : \A p \in Parents(c) :
       tree[p].type # "wsp" => Parents(c) = {p}

\* A voting gate on top of voting gates, basic events and dependency gates, and
\* nothing that drags the top along.
IsStatic ==
  /\ \A n \in Nodes : tree[n].type \in {"voting", "fdep", "be"}
  /\ tree[top].type = "voting" /\ top \notin Dependents

\* No node is below itself: every set of nodes has one with no child in it.
Acyclic == \A S \in SUBSET Nodes \ {{}} : \E n \in S : ChildrenOf(n) \cap S = {}

-----------------------------------------------------------------------------
(* Static trees with dependencies, as a whole. *)

\* The nodes that the failed nodes in S make fail.
MadeFail(S) ==
  {g \in OfType("voting") :
     Cardinality(ChildrenOf(g) \cap S) >= tree[g].threshold} \cup
  UNION {Range(Dependers(f)) : f \in {d \in OfType("fdep") : Children(d)[1] \in S}}

\* The sets of events that make the top fail, in at most as many steps as there
\* are nodes.
Down(events) ==
  LET After[k \in 0..Cardinality(Nodes)] ==
        IF k = 0 THEN events
        ELSE LET S == After[k-1] IN S \cup MadeFail(S)
  IN  After[Cardinality(Nodes)]
CutSets == {events \in SUBSET BasicEvents : top \in Down(events)}

Promise == INSTANCE FaultTree WITH
             Events <- BasicEvents,
             AtStart <- {b \in BasicEvents : tree[b].failed},
             failed <- DownEvents, announced <- node[top].done

\* The composed automata implement the fault tree: the top announces FAIL and
\* ONLINE only when the structure function of the tree has changed, and before
\* anything else fails or is repaired.
ImplementsFaultTree == Promise!Spec

\* And every such change is announced.
AnnouncementsFollow == Promise!Liveness
==============================================================================
